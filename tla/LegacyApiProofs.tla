-------------------------- MODULE LegacyApiProofs --------------------------
(***************************************************************************)
(* Proofs about the engine's API, for any number of requests, inputs,      *)
(* disconnections and restarts: whatever is tried again, no request asks   *)
(* WhatsApp for the same change twice.                                     *)
(***************************************************************************)
EXTENDS LegacyApi, SequenceTheorems, TLAPS

-----------------------------------------------------------------------------
(* Lists of steps.                                                         *)

\* What a step may do, but ask WhatsApp; what it may ask; and through which client.
Deeds ==
    {"ensure", "loggedIn", "parse", "refuse", "store", "fetch", "exists", "fields", "mention",
     "embed", "announce", "results", "unlessActive", "unlessPending", "registerInit",
     "exchange", "setKey", "saveKey", "remote", "setHash", "setActive",
     "gate", "auth", "validate", "bind"}
Subjects ==
    {"CallAdd", "CreateGroup", "CreateNewsletter", "Download", "GetBlocklist",
     "GetGroupInfo", "GetGroupInviteLink", "GetJoinedGroups", "GetNewsletterInfo",
     "GetNewsletterInfoWithInvite", "GetNewsletterMessages", "GetPrivacySettings",
     "GetProfilePictureInfo", "GetSubscribedNewsletters", "GetUserInfo", "GroupAdd",
     "IsOnWhatsApp", "JoinGroupWithLink", "LastSeen", "LeaveGroup", "LinkGroup",
     "MarkRead", "NewsletterSubscribeLiveUpdates", "Online", "Profile",
     "ReadReceipts", "RejectCall", "SendAppState", "SendChatPresence", "SendMessage",
     "SendPresence", "SetGroup", "SetGroupName", "SetGroupPhoto", "SetGroupTopic",
     "SetStatusMessage", "Status", "UnlinkGroup", "UpdateBlocklist",
     "UpdateGroupParticipants", "Upload", "composing", "paused"}
Others ==
    {"ask", "call", "try", "sender", "started", "reconnect", "restart",
     "held", "map", "retry", "none"}
Names == Deeds \cup Subjects \cup Others
StepType == [do : Names, what : Names, via : Names]

\* The reconnection of a client comes before another try.
Reconnections == {"reconnect", "restart"}

\* A list asks for changes out of C only, for each of them once.
Asks(t, C) ==
    /\ t \in Seq(StepType)
    /\ \A i \in 1..Len(t) : t[i].do = "call" => t[i].what \in C
    /\ \A i, j \in 1..Len(t) :
          t[i].do = "call" /\ t[j].do = "call" /\ t[i].what = t[j].what => i = j
    /\ \A i \in 1..Len(t) : t[i].do \in Reconnections => i < Len(t)

\* The steps that a send may be tried again after.
Retriers == {"ensure", "started", "reconnect", "restart", "fetch"}
Calm(t) == \A i \in 1..Len(t) : t[i].do \notin Retriers

\* They come before anything is asked for.
Early(t) ==
    \A i \in 1..Len(t) :
        t[i].do \in Retriers => \A j \in 1..(i - 1) : t[j].do # "call"

LEMMA Joined ==
    ASSUME NEW s \in Seq(StepType), NEW t \in Seq(StepType)
    PROVE  /\ s \o t \in Seq(StepType) /\ Len(s \o t) = Len(s) + Len(t)
           /\ Len(s) \in Nat /\ Len(t) \in Nat
           /\ \A i \in 1..Len(s) : (s \o t)[i] = s[i]
           /\ \A i \in 1..Len(t) : (s \o t)[Len(s) + i] = t[i]
           /\ \A i \in 1..Len(s \o t) :
                 \/ i \in 1..Len(s) /\ (s \o t)[i] = s[i]
                 \/ i - Len(s) \in 1..Len(t) /\ (s \o t)[i] = t[i - Len(s)]
<1>1. /\ s \o t \in Seq(StepType) /\ Len(s \o t) = Len(s) + Len(t)
      /\ \A i \in 1..Len(s) : (s \o t)[i] = s[i]
      /\ \A i \in Len(s) + 1 .. Len(s) + Len(t) : (s \o t)[i] = t[i - Len(s)]
    BY ConcatProperties
<1>2. Len(s) \in Nat /\ Len(t) \in Nat
    BY LenProperties
<1>3. \A i \in 1..Len(t) : Len(s) + i \in Len(s) + 1 .. Len(s) + Len(t) /\ (Len(s) + i) - Len(s) = i
    BY <1>2
<1>4. \A i \in 1..(Len(s) + Len(t)) :
          i \in 1..Len(s) \/ (i \in Len(s) + 1 .. Len(s) + Len(t) /\ i - Len(s) \in 1..Len(t))
    BY <1>2
<1> QED
    BY <1>1, <1>2, <1>3, <1>4

\* Lists of different changes one after the other.
LEMMA AsksBoth ==
    ASSUME NEW s, NEW t, NEW C, NEW D, Asks(s, C), Asks(t, D), C \cap D = {}
    PROVE  Asks(s \o t, C \cup D)
<1> DEFINE u == s \o t
<1>1. s \in Seq(StepType) /\ t \in Seq(StepType)
    BY DEF Asks
<1>2. /\ u \in Seq(StepType) /\ Len(s) \in Nat /\ Len(t) \in Nat /\ Len(u) = Len(s) + Len(t)
      /\ \A i \in 1..Len(u) : \/ i \in 1..Len(s) /\ u[i] = s[i]
                              \/ i - Len(s) \in 1..Len(t) /\ u[i] = t[i - Len(s)]
    BY <1>1, Joined
<1> HIDE DEF u
<1>3. ASSUME NEW i \in 1..Len(u), u[i].do = "call"
      PROVE  \/ i \in 1..Len(s) /\ u[i] = s[i] /\ u[i].what \in C
             \/ i - Len(s) \in 1..Len(t) /\ u[i] = t[i - Len(s)] /\ u[i].what \in D
    BY <1>2, <1>3 DEF Asks
<1>4. ASSUME NEW i \in 1..Len(u), NEW j \in 1..Len(u), u[i].do = "call", u[j].do = "call",
             u[i].what = u[j].what
      PROVE  i = j
  <2>1. CASE i \in 1..Len(s) /\ u[i] = s[i] /\ u[i].what \in C
    <3>1. j \in 1..Len(s) /\ u[j] = s[j]
        BY <1>3, <1>4, <2>1
    <3> QED
        BY <1>4, <2>1, <3>1 DEF Asks
  <2>2. CASE i - Len(s) \in 1..Len(t) /\ u[i] = t[i - Len(s)] /\ u[i].what \in D
    <3>1. j - Len(s) \in 1..Len(t) /\ u[j] = t[j - Len(s)]
        BY <1>3, <1>4, <2>2
    <3>2. i - Len(s) = j - Len(s)
        BY <1>4, <2>2, <3>1 DEF Asks
    <3> QED
        BY <1>2, <3>2
  <2> QED
      BY <1>3, <1>4, <2>1, <2>2
<1>5. \A i \in 1..Len(u) : u[i].do = "call" => u[i].what \in C \cup D
    BY <1>3
<1>6. ASSUME NEW i \in 1..Len(u), u[i].do \in Reconnections
      PROVE  i < Len(u)
    BY <1>2, <1>6 DEF Asks
<1>7. Asks(u, C \cup D)
    BY <1>2, <1>4, <1>5, <1>6 DEF Asks
<1> QED
    BY <1>7 DEF u

\* What is said of the calls of a list may be said of more.
LEMMA AsksMore ==
    ASSUME NEW t, NEW C, NEW D, Asks(t, C), C \subseteq D
    PROVE  Asks(t, D)
BY DEF Asks

LEMMA AsksAll ==
    ASSUME NEW t, NEW C, Asks(t, C)
    PROVE  Asks(t, Names)
<1>1. t \in Seq(StepType) /\ \A i \in 1..Len(t) : t[i] \in StepType
    BY ElementOfSeq DEF Asks
<1> QED
    BY <1>1 DEF Asks, StepType

\* A list that asks for nothing, before one that does.
LEMMA AsksAfter ==
    ASSUME NEW s, NEW t, NEW C, Asks(s, {}), Asks(t, C)
    PROVE  Asks(s \o t, C)
BY AsksBoth

LEMMA AsksBefore ==
    ASSUME NEW s, NEW t, NEW C, Asks(s, C), Asks(t, {})
    PROVE  Asks(s \o t, C)
<1>1. Asks(s \o t, C \cup {})
    BY AsksBoth
<1> QED
    BY <1>1

\* Early, Calm and lists one after the other.
LEMMA EarlyAfter ==
    ASSUME NEW s, NEW t \in Seq(StepType), Asks(s, {}), Early(t)
    PROVE  Early(s \o t)
<1> DEFINE u == s \o t
<1>1. s \in Seq(StepType) /\ \A i \in 1..Len(s) : s[i].do # "call"
    BY DEF Asks
<1>2. /\ Len(s) \in Nat /\ Len(t) \in Nat /\ Len(u) = Len(s) + Len(t)
      /\ \A i \in 1..Len(u) : \/ i \in 1..Len(s) /\ u[i] = s[i]
                              \/ i - Len(s) \in 1..Len(t) /\ u[i] = t[i - Len(s)]
      /\ \A i \in 1..Len(s) : u[i] = s[i]
    BY <1>1, Joined
<1> HIDE DEF u
<1>3. ASSUME NEW i \in 1..Len(u), u[i].do \in Retriers, NEW j \in 1..(i - 1)
      PROVE  u[j].do # "call"
  <2>1. j \in 1..Len(u) /\ i \in Nat /\ j \in Nat /\ j < i
      BY <1>2
  <2>2. CASE j \in 1..Len(s)
      BY <1>1, <1>2, <2>2
  <2>3. CASE j \notin 1..Len(s)
    <3>1. j - Len(s) \in 1..Len(t) /\ u[j] = t[j - Len(s)]
        BY <1>2, <2>1, <2>3
    <3>2. i \notin 1..Len(s)
        BY <1>2, <2>1, <2>3
    <3>3. i - Len(s) \in 1..Len(t) /\ u[i] = t[i - Len(s)]
        BY <1>2, <3>2
    <3>4. j - Len(s) \in 1..((i - Len(s)) - 1)
        BY <1>2, <2>1, <3>1
    <3> QED
        BY <1>3, <3>1, <3>3, <3>4 DEF Early
  <2> QED
      BY <2>2, <2>3
<1>4. Early(u)
    BY <1>3 DEF Early
<1> QED
    BY <1>4 DEF u

LEMMA EarlyBefore ==
    ASSUME NEW s \in Seq(StepType), NEW t \in Seq(StepType), Early(s), Calm(t)
    PROVE  Early(s \o t)
<1> DEFINE u == s \o t
<1>1. /\ Len(s) \in Nat /\ Len(t) \in Nat /\ Len(u) = Len(s) + Len(t)
      /\ \A i \in 1..Len(u) : \/ i \in 1..Len(s) /\ u[i] = s[i]
                              \/ i - Len(s) \in 1..Len(t) /\ u[i] = t[i - Len(s)]
      /\ \A i \in 1..Len(s) : u[i] = s[i]
    BY Joined
<1> HIDE DEF u
<1>2. ASSUME NEW i \in 1..Len(u), u[i].do \in Retriers, NEW j \in 1..(i - 1)
      PROVE  u[j].do # "call"
  <2>1. i \in 1..Len(s) /\ u[i] = s[i]
      BY <1>1, <1>2 DEF Calm
  <2>2. j \in 1..Len(s)
      BY <1>1, <2>1
  <2> QED
      BY <1>1, <1>2, <2>1, <2>2 DEF Early
<1>3. Early(u)
    BY <1>2 DEF Early
<1> QED
    BY <1>3 DEF u

LEMMA CalmBoth ==
    ASSUME NEW s \in Seq(StepType), NEW t \in Seq(StepType), Calm(s), Calm(t)
    PROVE  Calm(s \o t)
<1> DEFINE u == s \o t
<1>1. \A i \in 1..Len(u) : \/ i \in 1..Len(s) /\ u[i] = s[i]
                           \/ i - Len(s) \in 1..Len(t) /\ u[i] = t[i - Len(s)]
    BY Joined
<1> HIDE DEF u
<1>2. Calm(u)
    BY <1>1 DEF Calm
<1> QED
    BY <1>2 DEF u

\* One step.
LEMMA OneStep ==
    ASSUME NEW x \in StepType
    PROVE  /\ <<x>> \in Seq(StepType)
           /\ x.do # "call" /\ x.do \notin Reconnections => Asks(<<x>>, {})
           /\ x.do \notin Retriers => Calm(<<x>>)
           /\ x.do \notin Reconnections => Asks(<<x>>, {x.what})
           /\ Early(<<x>>)
           /\ <<x>> # <<>>
<1>1. <<x>> \in Seq(StepType) /\ Len(<<x>>) = 1 /\ <<x>>[1] = x /\ 1..1 = {1} /\ 1..(1 - 1) = {}
    OBVIOUS
<1> QED
    BY <1>1 DEF Asks, Calm, Early
LEMMA Joining ==
    ASSUME NEW s, NEW t, s \in Seq(StepType), t \in Seq(StepType), s # <<>> \/ t # <<>>
    PROVE  s \o t # <<>>
<1>1. Len(s \o t) = Len(s) + Len(t) /\ Len(s) \in Nat /\ Len(t) \in Nat
    BY Joined
<1>2. Len(s) > 0 \/ Len(t) > 0
    BY <1>1, EmptySeq
<1> QED
    BY <1>1, <1>2, EmptySeq

-----------------------------------------------------------------------------
(* The operations.                                                         *)

\* The parts that operations are made of.
LEMMA Nothing == Asks(<<>>, {}) /\ Calm(<<>>) /\ Early(<<>>)
BY DEF Asks, Calm, Early

LEMMA Doing ==
    ASSUME NEW do \in Names, do # "call", do \notin Reconnections
    PROVE  /\ Asks(Do(do), {}) /\ Early(Do(do)) /\ Do(do) # <<>>
           /\ do \notin Retriers => Calm(Do(do))
<1>1. "none" \in Names
    BY DEF Names, Others
<1>2. Step(do, "none", "none") \in StepType /\ Step(do, "none", "none").do = do
    BY <1>1 DEF Step, StepType
<1> QED
    BY <1>2, OneStep DEF Do

LEMMA Doings ==
    \A do \in Deeds : /\ Asks(Do(do), {}) /\ Early(Do(do)) /\ Do(do) # <<>>
                      /\ do \notin Retriers => Calm(Do(do))
<1>1. ASSUME NEW do \in Deeds
      PROVE  do \in Names /\ do # "call" /\ do \notin Reconnections
    BY DEF Deeds, Names, Reconnections
<1> QED
    BY <1>1, Doing

LEMMA Asking ==
    ASSUME NEW what \in Subjects, NEW via \in {"held", "map"}
    PROVE  /\ Asks(Ask(what, via), {}) /\ Calm(Ask(what, via))
           /\ Asks(Try(what), {}) /\ Calm(Try(what))
           /\ Asks(Sender(via), {}) /\ Calm(Sender(via))
           /\ Asks(Call(what, via), {what}) /\ Calm(Call(what, via))
<1>0. /\ "ask" \in Names /\ "try" \in Names /\ "sender" \in Names /\ "call" \in Names
      /\ "held" \in Names /\ "none" \in Names /\ what \in Names /\ via \in Names
    BY DEF Names, Others
<1>1. /\ Step("ask", what, via) \in StepType /\ Step("ask", what, via).do = "ask"
      /\ Step("try", what, "held") \in StepType /\ Step("try", what, "held").do = "try"
      /\ Step("sender", "none", via) \in StepType /\ Step("sender", "none", via).do = "sender"
      /\ Step("call", what, via) \in StepType /\ Step("call", what, via).do = "call"
      /\ Step("call", what, via).what = what
    BY <1>0 DEF Step, StepType
<1>2. \A do \in {"ask", "try", "sender", "call"} : do \notin Retriers /\ do \notin Reconnections
    BY DEF Retriers, Reconnections
<1> QED
    BY <1>1, <1>2, OneStep DEF Ask, Try, Sender, Call

\* An operation begins with steps, and asks for nothing twice.
Sound(t) == t # <<>> /\ \E C : Asks(t, C)

LEMMA Leading ==
    ASSUME NEW s, NEW t, NEW C, Asks(s, {}), s # <<>>, Asks(t, C)
    PROVE  Sound(s \o t)
<1>1. Asks(s \o t, C)
    BY AsksAfter
<1>2. s \o t # <<>>
    BY Joining DEF Asks
<1> QED
    BY <1>1, <1>2 DEF Sound

LEMMA Going ==
    ASSUME NEW s, NEW t, Asks(s, {}), s # <<>>, Asks(t, {})
    PROVE  Asks(s \o t, {}) /\ s \o t # <<>>
BY AsksAfter, Joining DEF Asks

LEMMA Clients ==
    ASSUME NEW t, NEW C, Asks(t, C)
    PROVE  Sound(ToClient(t)) /\ Sound(ToJid(t))
<1>1. Asks(Do("ensure"), {}) /\ Do("ensure") # <<>> /\ Asks(Do("parse"), {})
    BY Doings DEF Deeds
<1>2. Sound(Do("ensure") \o t)
    BY <1>1, Leading
<1>3. Asks(Do("ensure") \o Do("parse"), {}) /\ Do("ensure") \o Do("parse") # <<>>
    BY <1>1, Going
<1>4. Sound((Do("ensure") \o Do("parse")) \o t)
    BY <1>3, Leading
<1> QED
    BY <1>2, <1>4 DEF ToClient, ToJid

\* One change, or one question.
LEMMA Simple ==
    ASSUME NEW what \in Subjects
    PROVE  /\ Sound(ToClient(Call(what, "held"))) /\ Sound(ToJid(Call(what, "held")))
           /\ Sound(ToClient(Ask(what, "held"))) /\ Sound(ToJid(Ask(what, "held")))
BY Asking, Clients

LEMMA SimpleOperations ==
    /\ Sound(GetUser) /\ Sound(BlockContact) /\ Sound(UnlockContact) /\ Sound(GetBlockList)
    /\ Sound(SetProfileName) /\ Sound(SetProfileStatus) /\ Sound(MarkRead) /\ Sound(MarkPlayed)
    /\ Sound(DeleteMessageEveryone) /\ Sound(EditMessage) /\ Sound(ChatPin) /\ Sound(ChatUnpin)
    /\ Sound(ChatArchive) /\ Sound(ChatUnarchive) /\ Sound(ChatMute) /\ Sound(ChatUnmute)
    /\ Sound(ListGroups) /\ Sound(GetGroupInfo) /\ Sound(GetGroupInviteLink)
    /\ Sound(SetGroupName) /\ Sound(SetGroupDescription) /\ Sound(UpdateParticipant)
    /\ Sound(JoinGroupLink) /\ Sound(LeaveGroup) /\ Sound(RejectCall) /\ Sound(CreateCommunity)
    /\ Sound(ChatLabel) /\ Sound(MessageLabel) /\ Sound(EditLabel) /\ Sound(ChatUnlabel)
    /\ Sound(MessageUnlabel) /\ Sound(CreateNewsletter) /\ Sound(GetNewsletter)
    /\ Sound(GetNewsletterInvite) /\ Sound(SubscribeNewsletter) /\ Sound(GetNewsletterMessages)
<1>1. /\ Sound(GetUser) /\ Sound(BlockContact) /\ Sound(UnlockContact) /\ Sound(GetBlockList)
      /\ Sound(SetProfileName) /\ Sound(SetProfileStatus) /\ Sound(MarkRead) /\ Sound(MarkPlayed)
      /\ Sound(DeleteMessageEveryone) /\ Sound(EditMessage)
    BY Simple DEF Subjects, GetUser, BlockContact, UnlockContact, GetBlockList, SetProfileName,
        SetProfileStatus, MarkRead, MarkPlayed, DeleteMessageEveryone, EditMessage
<1>2. /\ Sound(ChatPin) /\ Sound(ChatUnpin) /\ Sound(ChatArchive) /\ Sound(ChatUnarchive)
      /\ Sound(ChatMute) /\ Sound(ChatUnmute) /\ Sound(ListGroups) /\ Sound(GetGroupInfo)
      /\ Sound(GetGroupInviteLink) /\ Sound(SetGroupName) /\ Sound(SetGroupDescription)
    BY Simple DEF Subjects, ChatPin, ChatUnpin, ChatArchive, ChatUnarchive, ChatMute, ChatUnmute,
        ListGroups, GetGroupInfo, GetGroupInviteLink, SetGroupName, SetGroupDescription
<1>3. /\ Sound(UpdateParticipant) /\ Sound(JoinGroupLink) /\ Sound(LeaveGroup)
      /\ Sound(RejectCall) /\ Sound(CreateCommunity) /\ Sound(ChatLabel) /\ Sound(MessageLabel)
      /\ Sound(EditLabel) /\ Sound(ChatUnlabel) /\ Sound(MessageUnlabel)
    BY Simple DEF Subjects, UpdateParticipant, JoinGroupLink, LeaveGroup, RejectCall, CreateCommunity,
        ChatLabel, MessageLabel, EditLabel, ChatUnlabel, MessageUnlabel
<1>4. /\ Sound(CreateNewsletter) /\ Sound(GetNewsletter) /\ Sound(GetNewsletterInvite)
      /\ Sound(SubscribeNewsletter) /\ Sound(GetNewsletterMessages)
    BY Simple DEF Subjects, CreateNewsletter, GetNewsletter, GetNewsletterInvite, SubscribeNewsletter,
        GetNewsletterMessages
<1> QED
    BY <1>1, <1>2, <1>3, <1>4

\* Questions and attempts whose error is ignored.
LEMMA Questions ==
    ASSUME NEW q
    PROVE  /\ Sound(CheckUser(q)) /\ Sound(GetAvatar) /\ Sound(GetContacts) /\ Sound(GetPrivacy)
           /\ Sound(DownloadMedia) /\ Sound(GetMessageStatus) /\ Sound(GetMyGroups)
           /\ Sound(CommunityAdd) /\ Sound(CommunityRemove) /\ Sound(GetLabels)
           /\ Sound(ListNewsletter) /\ Sound(GetPollResults)
<1>1. /\ Asks(Try("IsOnWhatsApp"), {}) /\ Asks(Try("GetPrivacySettings"), {})
      /\ Asks(Try("LinkGroup"), {}) /\ Asks(Try("UnlinkGroup"), {})
      /\ Asks(Try("GetNewsletterInfo"), {})
      /\ Asks(Ask("GetProfilePictureInfo", "held"), {}) /\ Asks(Ask("Download", "held"), {})
      /\ Asks(Ask("GetJoinedGroups", "held"), {})
      /\ Asks(Ask("GetSubscribedNewsletters", "held"), {}) /\ Asks(Sender("held"), {})
  <2>1. Asks(Try("IsOnWhatsApp"), {}) /\ Asks(Try("GetPrivacySettings"), {})
      BY Asking DEF Subjects
  <2>2. Asks(Try("LinkGroup"), {}) /\ Asks(Try("UnlinkGroup"), {}) /\ Asks(Try("GetNewsletterInfo"), {})
      BY Asking DEF Subjects
  <2>3. Asks(Ask("GetProfilePictureInfo", "held"), {}) /\ Asks(Ask("Download", "held"), {})
      BY Asking DEF Subjects
  <2>4. Asks(Ask("GetJoinedGroups", "held"), {}) /\ Asks(Ask("GetSubscribedNewsletters", "held"), {})
      BY Asking DEF Subjects
  <2>5. Asks(Sender("held"), {})
      BY Asking DEF Subjects
  <2> QED
      BY <2>1, <2>2, <2>3, <2>4, <2>5
<1>2. /\ Asks(Do("store"), {}) /\ Asks(Do("refuse"), {}) /\ Asks(Do("loggedIn"), {})
      /\ Asks(Do("parse"), {}) /\ Asks(Do("ensure"), {}) /\ Asks(Do("results"), {})
      /\ Do("ensure") # <<>> /\ Do("results") # <<>>
    BY Doings DEF Deeds
<1>3. Sound(CheckUser(q))
  <2>1. Asks(IF q.format THEN Try("IsOnWhatsApp") ELSE <<>>, {})
      BY <1>1, Nothing
  <2>2. Asks(Try("IsOnWhatsApp") \o (IF q.format THEN Try("IsOnWhatsApp") ELSE <<>>), {})
      BY <1>1, <2>1, AsksAfter
  <2> QED
      BY <2>2, Clients DEF CheckUser
<1>4. Sound(GetAvatar)
  <2>1. Asks(Do("ensure") \o Do("loggedIn"), {}) /\ Do("ensure") \o Do("loggedIn") # <<>>
      BY <1>2, Going
  <2>2. /\ Asks((Do("ensure") \o Do("loggedIn")) \o Do("parse"), {})
        /\ (Do("ensure") \o Do("loggedIn")) \o Do("parse") # <<>>
      BY <1>2, <2>1, Going
  <2> QED
      BY <1>1, <2>2, Leading DEF GetAvatar
<1>5. Sound(GetContacts) /\ Sound(GetMessageStatus) /\ Sound(GetLabels) /\ Sound(GetPrivacy)
    BY <1>1, <1>2, Clients DEF GetContacts, GetMessageStatus, GetLabels, GetPrivacy
<1>6. Sound(DownloadMedia)
  <2>1. Asks(Do("refuse") \o Ask("Download", "held"), {})
      BY <1>1, <1>2, AsksAfter
  <2> QED
      BY <2>1, Clients DEF DownloadMedia
<1>7. Sound(GetMyGroups)
  <2>1. Asks(Ask("GetJoinedGroups", "held") \o Sender("held"), {})
      BY <1>1, AsksAfter
  <2> QED
      BY <2>1, Clients DEF GetMyGroups
<1>8. Sound(CommunityAdd) /\ Sound(CommunityRemove)
  <2>1. Asks(Try("LinkGroup") \o Try("LinkGroup"), {}) /\ Asks(Try("UnlinkGroup") \o Try("UnlinkGroup"), {})
      BY <1>1, AsksAfter
  <2> QED
      BY <2>1, Clients DEF CommunityAdd, CommunityRemove
<1>9. Sound(ListNewsletter)
  <2>1. Asks(Ask("GetSubscribedNewsletters", "held") \o Try("GetNewsletterInfo"), {})
      BY <1>1, AsksAfter
  <2> QED
      BY <2>1, Clients DEF ListNewsletter
<1>10. Sound(GetPollResults)
    BY <1>2 DEF GetPollResults, Sound
<1> QED
    BY <1>3, <1>4, <1>5, <1>6, <1>7, <1>8, <1>9, <1>10

\* A change, with what comes before and after it.
LEMMA Surrounded ==
    ASSUME NEW q
    PROVE  /\ Sound(SetProfilePicture) /\ Sound(SetGroupPhoto) /\ Sound(UpdateGroupSettings)
           /\ Sound(HistorySyncRequest) /\ Sound(CreateGroup) /\ Sound(React)
           /\ Sound(ChatPresence(q))
<1>1. /\ Asks(Do("fetch"), {}) /\ Asks(Do("refuse"), {})
    BY Doings DEF Deeds
<1>2. /\ Asks(Call("SetGroupPhoto", "held"), {"SetGroupPhoto"})
      /\ Asks(Call("SetGroup", "held"), {"SetGroup"})
      /\ Asks(Call("SendMessage", "held"), {"SendMessage"})
    BY Asking DEF Subjects
<1>3. /\ Asks(Call("CreateGroup", "held"), {"CreateGroup"})
      /\ Asks(Call("SendChatPresence", "held"), {"SendChatPresence"})
      /\ Asks(Ask("GetGroupInfo", "held"), {}) /\ Asks(Sender("held"), {})
    BY Asking DEF Subjects
<1>4. /\ Asks(Try("SendPresence"), {}) /\ Asks(Try("SendChatPresence"), {})
      /\ Asks(Try("paused"), {})
    BY Asking DEF Subjects
<1>5. Sound(SetProfilePicture) /\ Sound(SetGroupPhoto)
  <2>1. Asks(Do("fetch") \o Call("SetGroupPhoto", "held"), {"SetGroupPhoto"})
      BY <1>1, <1>2, AsksAfter
  <2> QED
      BY <2>1, Clients DEF SetProfilePicture, SetGroupPhoto
<1>6. Sound(UpdateGroupSettings) /\ Sound(HistorySyncRequest)
  <2>1. /\ Asks(Do("refuse") \o Call("SetGroup", "held"), {"SetGroup"})
        /\ Asks(Do("refuse") \o Call("SendMessage", "held"), {"SendMessage"})
      BY <1>1, <1>2, AsksAfter
  <2> QED
      BY <2>1, Clients DEF UpdateGroupSettings, HistorySyncRequest
<1>7. Sound(CreateGroup)
  <2>1. Asks(Call("CreateGroup", "held") \o Ask("GetGroupInfo", "held"), {"CreateGroup"})
      BY <1>3, AsksBefore
  <2> QED
      BY <2>1, Clients DEF CreateGroup
<1>8. Sound(React)
  <2>1. Asks(Do("refuse") \o Call("SendMessage", "held"), {"SendMessage"})
      BY <1>1, <1>2, AsksAfter
  <2>2. Asks((Do("refuse") \o Call("SendMessage", "held")) \o Sender("held"), {"SendMessage"})
      BY <1>3, <2>1, AsksBefore
  <2> QED
      BY <2>2, Clients DEF React
<1>9. Sound(ChatPresence(q))
  <2> DEFINE rest == IF q.delay THEN Try("SendChatPresence") \o Try("paused") ELSE <<>>
  <2>1. Asks(rest, {})
    <3>1. Asks(Try("SendChatPresence") \o Try("paused"), {})
        BY <1>4, AsksAfter
    <3> QED
        BY <3>1, Nothing
  <2>2. Asks(Try("SendPresence") \o Call("SendChatPresence", "held"), {"SendChatPresence"})
      BY <1>3, <1>4, AsksAfter
  <2>3. Asks((Try("SendPresence") \o Call("SendChatPresence", "held")) \o rest, {"SendChatPresence"})
    <3> HIDE DEF rest
    <3> QED
        BY <2>1, <2>2, AsksBefore
  <2> QED
      BY <2>3, Clients DEF ChatPresence
<1> QED
    BY <1>5, <1>6, <1>7, <1>8, <1>9

\* SetPrivacy asks for seven settings.
LEMMA Settings == Sound(SetPrivacy)
<1>1. /\ Asks(Call("GroupAdd", "held"), {"GroupAdd"})
      /\ Asks(Call("LastSeen", "held"), {"LastSeen"})
      /\ Asks(Call("Status", "held"), {"Status"})
    BY Asking DEF Subjects
<1>2. /\ Asks(Call("Profile", "held"), {"Profile"})
      /\ Asks(Call("ReadReceipts", "held"), {"ReadReceipts"})
      /\ Asks(Call("CallAdd", "held"), {"CallAdd"})
      /\ Asks(Call("Online", "held"), {"Online"})
    BY Asking DEF Subjects
<1>3. Asks(Try("GetPrivacySettings"), {})
    BY Asking DEF Subjects
<1> DEFINE s1 == Call("GroupAdd", "held")
           s2 == s1 \o Call("LastSeen", "held")
           s3 == s2 \o Call("Status", "held")
           s4 == s3 \o Call("Profile", "held")
           s5 == s4 \o Call("ReadReceipts", "held")
           s6 == s5 \o Call("CallAdd", "held")
           s7 == s6 \o Call("Online", "held")
           s8 == s7 \o Try("GetPrivacySettings")
           C1 == {"GroupAdd"}
           C2 == C1 \cup {"LastSeen"}
           C3 == C2 \cup {"Status"}
           C4 == C3 \cup {"Profile"}
           C5 == C4 \cup {"ReadReceipts"}
           C6 == C5 \cup {"CallAdd"}
           C7 == C6 \cup {"Online"}
<1>4. /\ C1 \cap {"LastSeen"} = {} /\ C2 \cap {"Status"} = {} /\ C3 \cap {"Profile"} = {}
      /\ C4 \cap {"ReadReceipts"} = {} /\ C5 \cap {"CallAdd"} = {} /\ C6 \cap {"Online"} = {}
    OBVIOUS
<1>5. SetPrivacy = ToClient(s8)
    BY DEF SetPrivacy
<1> HIDE DEF C1, C2, C3, C4, C5, C6, C7
<1>6. Asks(s1, C1)
    BY <1>1 DEF C1
<1>7. Asks(s2, C2)
    BY <1>1, <1>4, <1>6, AsksBoth DEF C2
<1>8. Asks(s3, C3)
    BY <1>1, <1>4, <1>7, AsksBoth DEF C3
<1>9. Asks(s4, C4)
    BY <1>2, <1>4, <1>8, AsksBoth DEF C4
<1>10. Asks(s5, C5)
    BY <1>2, <1>4, <1>9, AsksBoth DEF C5
<1>11. Asks(s6, C6)
    BY <1>2, <1>4, <1>10, AsksBoth DEF C6
<1>12. Asks(s7, C7)
    BY <1>2, <1>4, <1>11, AsksBoth DEF C7
<1>13. Asks(s8, C7)
    BY <1>3, <1>12, AsksBefore
<1> QED
    BY <1>5, <1>13, Clients

\* The licence: nothing is asked of WhatsApp.
LEMMA Licensing == Sound(Register) /\ Sound(Activate)
<1>1. /\ Asks(Do("unlessActive"), {}) /\ Do("unlessActive") # <<>>
      /\ Asks(Do("unlessPending"), {}) /\ Asks(Do("registerInit"), {})
    BY Doings DEF Deeds
<1>2. /\ Asks(Do("exchange"), {}) /\ Asks(Do("setKey"), {}) /\ Asks(Do("saveKey"), {})
      /\ Asks(Do("remote"), {}) /\ Asks(Do("setHash"), {}) /\ Asks(Do("setActive"), {})
    BY Doings DEF Deeds
<1>3. Sound(Register)
  <2>1. Asks(Do("unlessActive") \o Do("unlessPending"), {}) /\ Do("unlessActive") \o Do("unlessPending") # <<>>
      BY <1>1, Going
  <2> QED
      BY <1>1, <2>1, Leading DEF Register
<1>4. Sound(Activate)
  <2> DEFINE s2 == Do("unlessActive") \o Do("exchange")
             s3 == s2 \o Do("setKey")
             s4 == s3 \o Do("saveKey")
             s5 == s4 \o Do("remote")
             s6 == s5 \o Do("setHash")
  <2>1. Asks(s2, {}) /\ s2 # <<>>
      BY <1>1, <1>2, Going
  <2>2. Activate = s6 \o Do("setActive")
      BY DEF Activate
  <2> HIDE DEF s2
  <2>3. Asks(s3, {}) /\ s3 # <<>>
      BY <1>2, <2>1, Going
  <2> HIDE DEF s3
  <2>4. Asks(s4, {}) /\ s4 # <<>>
      BY <1>2, <2>3, Going
  <2> HIDE DEF s4
  <2>5. Asks(s5, {}) /\ s5 # <<>>
      BY <1>2, <2>4, Going
  <2> HIDE DEF s5
  <2>6. Asks(s6, {}) /\ s6 # <<>>
      BY <1>2, <2>5, Going
  <2> QED
      BY <1>2, <2>2, <2>6, Leading
<1> QED
    BY <1>3, <1>4

-----------------------------------------------------------------------------
(* The sends.                                                              *)

Sent == {"composing", "paused", "SendMessage"}

\* What is tried again comes first, and nothing is asked for twice.
Orderly(t) == t # <<>> /\ Asks(t, Sent) /\ Early(t)

\* The checks before a send ask for nothing.
LEMMA Checking ==
    ASSUME NEW q
    PROVE  Asks(validateAndCheckUserExists(q), {}) /\ Early(validateAndCheckUserExists(q))
<1> DEFINE first == IF CheckUserExists /\ q.number # "group" THEN Do("ensure") \o Do("exists") ELSE <<>>
<1>1. /\ Asks(Do("ensure"), {}) /\ Asks(Do("exists"), {}) /\ Asks(Do("fields"), {})
      /\ Early(Do("exists")) /\ Early(Do("fields"))
    BY Doings DEF Deeds
<1>2. Asks(Do("ensure") \o Do("exists"), {})
    BY <1>1, AsksAfter
<1>3. Asks(first, {})
    BY <1>2, Nothing
<1> HIDE DEF first
<1>4. Asks(first \o Do("fields"), {}) /\ Early(first \o Do("fields"))
  <2>1. Do("fields") \in Seq(StepType)
      BY <1>1 DEF Asks
  <2> QED
      BY <1>1, <1>3, <2>1, AsksAfter, EarlyAfter
<1> QED
    BY <1>4 DEF validateAndCheckUserExists, first

LEMMA Showing ==
    ASSUME NEW q, NEW first \in {"held", "map"}, NEW last \in {"held", "map"}
    PROVE  Asks(Composing(q, first, last), {"composing", "paused"}) /\ Calm(Composing(q, first, last))
<1>1. /\ Asks(Call("composing", first), {"composing"}) /\ Calm(Call("composing", first))
      /\ Asks(Call("paused", last), {"paused"}) /\ Calm(Call("paused", last))
    BY Asking DEF Subjects
<1>2. Asks(Call("composing", first) \o Call("paused", last), {"composing"} \cup {"paused"})
    BY <1>1, AsksBoth
<1>3. Asks(Call("composing", first) \o Call("paused", last), {"composing", "paused"})
    BY <1>2, AsksMore
<1>4. Calm(Call("composing", first) \o Call("paused", last))
    BY <1>1, CalmBoth DEF Asks
<1>5. Asks(<<>>, {"composing", "paused"}) /\ Calm(<<>>)
    BY Nothing, AsksMore
<1> QED
    BY <1>3, <1>4, <1>5 DEF Composing

LEMMA Mentioning ==
    ASSUME NEW q
    PROVE  Asks(Mentions(q), {}) /\ Calm(Mentions(q))
<1> DEFINE all == IF q.mention = "all" THEN Ask("GetGroupInfo", "map") ELSE <<>>
           some == IF q.mention # "none" THEN Do("mention") ELSE <<>>
<1>1. /\ Asks(Ask("GetGroupInfo", "map"), {}) /\ Calm(Ask("GetGroupInfo", "map"))
    BY Asking DEF Subjects
<1>2. Asks(Do("mention"), {}) /\ Calm(Do("mention"))
    BY Doings DEF Deeds, Retriers
<1>3. Asks(all, {}) /\ Calm(all) /\ Asks(some, {}) /\ Calm(some)
    BY <1>1, <1>2, Nothing
<1>4. Mentions(q) = IF q.number # "group" THEN <<>> ELSE all \o some
    BY DEF Mentions
<1> HIDE DEF all, some
<1>5. Asks(all \o some, {}) /\ Calm(all \o some)
    BY <1>3, AsksAfter, CalmBoth DEF Asks
<1> QED
    BY <1>4, <1>5, Nothing

LEMMA Sending ==
    ASSUME NEW q
    PROVE  Asks(SendMessage(q), Sent) /\ Early(SendMessage(q))
<1> DEFINE s1 == validateAndCheckUserExists(q)
           s2 == s1 \o Composing(q, "map", "map")
           s3 == s2 \o Mentions(q)
           s4 == s3 \o Call("SendMessage", "map")
           s5 == s4 \o Sender("map")
           embed == IF q.op \in Media THEN Do("embed") ELSE <<>>
           s6 == s5 \o embed
           s7 == s6 \o Do("announce")
<1>1. SendMessage(q) = s7
    BY DEF SendMessage
<1>2. Asks(s1, {}) /\ Early(s1)
    BY Checking
<1>3. /\ Asks(Composing(q, "map", "map"), {"composing", "paused"})
      /\ Calm(Composing(q, "map", "map"))
    BY Showing
<1>4. Asks(Mentions(q), {}) /\ Calm(Mentions(q))
    BY Mentioning
<1>5. /\ Asks(Call("SendMessage", "map"), {"SendMessage"}) /\ Calm(Call("SendMessage", "map"))
      /\ Asks(Sender("map"), {}) /\ Calm(Sender("map"))
    BY Asking DEF Subjects
<1>6. /\ Asks(embed, {}) /\ Calm(embed)
      /\ Asks(Do("announce"), {}) /\ Calm(Do("announce"))
    BY Doings, Nothing DEF Deeds, Retriers
<1> HIDE DEF s1, embed
<1>7. Asks(s2, {"composing", "paused"}) /\ Early(s2)
    BY <1>2, <1>3, AsksAfter, EarlyBefore DEF Asks
<1> HIDE DEF s2
<1>8. Asks(s3, {"composing", "paused"}) /\ Early(s3)
    BY <1>4, <1>7, AsksBefore, EarlyBefore DEF Asks
<1> HIDE DEF s3
<1>9. Asks(s4, Sent) /\ Early(s4)
  <2>1. Asks(s4, {"composing", "paused"} \cup {"SendMessage"})
      BY <1>5, <1>8, AsksBoth
  <2>2. Asks(s4, Sent)
      BY <2>1, AsksMore DEF Sent
  <2> QED
      BY <1>5, <1>8, <2>2, EarlyBefore DEF Asks
<1> HIDE DEF s4
<1>10. Asks(s5, Sent) /\ Early(s5)
    BY <1>5, <1>9, AsksBefore, EarlyBefore DEF Asks
<1> HIDE DEF s5
<1>11. Asks(s6, Sent) /\ Early(s6)
    BY <1>6, <1>10, AsksBefore, EarlyBefore DEF Asks
<1> HIDE DEF s6
<1>12. Asks(s7, Sent) /\ Early(s7)
    BY <1>6, <1>11, AsksBefore, EarlyBefore DEF Asks
<1> QED
    BY <1>1, <1>12

\* A send is what its service does first, and then SendMessage.
LEMMA Prepared ==
    ASSUME NEW q, NEW s, Asks(s, {}), s # <<>>
    PROVE  Orderly(s \o SendMessage(q))
<1>1. Asks(SendMessage(q), Sent) /\ Early(SendMessage(q))
    BY Sending
<1>2. Asks(s \o SendMessage(q), Sent)
    BY <1>1, AsksAfter
<1>3. Early(s \o SendMessage(q))
    BY <1>1, EarlyAfter DEF Asks
<1>4. s \o SendMessage(q) # <<>>
    BY <1>1, Joining DEF Asks
<1> QED
    BY <1>2, <1>3, <1>4 DEF Orderly

\* SendText and its siblings, whose every attempt starts with a client.
LEMMA Sends ==
    ASSUME NEW q
    PROVE  /\ Orderly(SendText(q)) /\ Orderly(SendLink(q)) /\ Orderly(SendMediaFile(q))
           /\ Orderly(SendMediaUrl(q)) /\ Orderly(SendPoll(q)) /\ Orderly(SendSticker(q))
           /\ Orderly(SendLocation(q)) /\ Orderly(SendContact(q))
<1>1. Asks(EnsureWithRetry, {}) /\ EnsureWithRetry # <<>>
  <2>1. Step("ensure", "none", "retry") \in StepType /\ Step("ensure", "none", "retry").do = "ensure"
      BY DEF Step, StepType, Names, Deeds, Others
  <2> QED
      BY <2>1, OneStep DEF EnsureWithRetry, Reconnections
<1>2. /\ Asks(Do("ensure"), {}) /\ Do("ensure") # <<>>
      /\ Asks(Do("fetch"), {}) /\ Asks(Do("refuse"), {})
    BY Doings DEF Deeds
<1>3. Asks(Ask("Upload", "held"), {})
    BY Asking DEF Subjects
<1>4. Orderly(SendText(q)) /\ Orderly(SendPoll(q))
    BY <1>1, Prepared DEF SendText, SendPoll
<1>5. Orderly(SendLocation(q)) /\ Orderly(SendContact(q))
    BY <1>2, Prepared DEF SendLocation, SendContact
<1>6. Orderly(SendLink(q))
  <2>1. Asks(EnsureWithRetry \o Do("fetch"), {}) /\ EnsureWithRetry \o Do("fetch") # <<>>
      BY <1>1, <1>2, Going
  <2>2. /\ Asks((EnsureWithRetry \o Do("fetch")) \o Do("fetch"), {})
        /\ (EnsureWithRetry \o Do("fetch")) \o Do("fetch") # <<>>
      BY <1>2, <2>1, Going
  <2> QED
      BY <2>2, Prepared DEF SendLink
<1>7. Orderly(SendMediaFile(q))
  <2>1. Asks(EnsureWithRetry \o Do("refuse"), {}) /\ EnsureWithRetry \o Do("refuse") # <<>>
      BY <1>1, <1>2, Going
  <2>2. /\ Asks((EnsureWithRetry \o Do("refuse")) \o Ask("Upload", "held"), {})
        /\ (EnsureWithRetry \o Do("refuse")) \o Ask("Upload", "held") # <<>>
      BY <1>3, <2>1, Going
  <2> QED
      BY <2>2, Prepared DEF SendMediaFile
<1>8. Orderly(SendMediaUrl(q))
  <2>1. Asks(EnsureWithRetry \o Do("fetch"), {}) /\ EnsureWithRetry \o Do("fetch") # <<>>
      BY <1>1, <1>2, Going
  <2>2. /\ Asks((EnsureWithRetry \o Do("fetch")) \o Do("refuse"), {})
        /\ (EnsureWithRetry \o Do("fetch")) \o Do("refuse") # <<>>
      BY <1>2, <2>1, Going
  <2>3. /\ Asks(((EnsureWithRetry \o Do("fetch")) \o Do("refuse")) \o Ask("Upload", "held"), {})
        /\ ((EnsureWithRetry \o Do("fetch")) \o Do("refuse")) \o Ask("Upload", "held") # <<>>
      BY <1>3, <2>2, Going
  <2> QED
      BY <2>3, Prepared DEF SendMediaUrl
<1>9. Orderly(SendSticker(q))
  <2>1. Asks(Do("ensure") \o Do("fetch"), {}) /\ Do("ensure") \o Do("fetch") # <<>>
      BY <1>2, Going
  <2>2. /\ Asks((Do("ensure") \o Do("fetch")) \o Do("refuse"), {})
        /\ (Do("ensure") \o Do("fetch")) \o Do("refuse") # <<>>
      BY <1>2, <2>1, Going
  <2>3. /\ Asks(((Do("ensure") \o Do("fetch")) \o Do("refuse")) \o Ask("Upload", "held"), {})
        /\ ((Do("ensure") \o Do("fetch")) \o Do("refuse")) \o Ask("Upload", "held") # <<>>
      BY <1>3, <2>2, Going
  <2> QED
      BY <2>3, Prepared DEF SendSticker
<1> QED
    BY <1>4, <1>5, <1>6, <1>7, <1>8, <1>9

\* Buttons and lists.
LEMMA Interactive ==
    ASSUME NEW q
    PROVE  Sound(SendButton(q)) /\ Sound(SendList(q))
<1> DEFINE s1 == Do("ensure") \o Do("refuse")
           s2 == s1 \o validateAndCheckUserExists(q)
<1>1. Asks(Do("ensure"), {}) /\ Do("ensure") # <<>> /\ Asks(Do("refuse"), {})
    BY Doings DEF Deeds
<1>2. Asks(validateAndCheckUserExists(q), {})
    BY Checking
<1>3. Asks(s1, {}) /\ s1 # <<>>
    BY <1>1, Going
<1>4. Asks(s2, {}) /\ s2 # <<>>
  <2> HIDE DEF s1
  <2> QED
      BY <1>2, <1>3, Going
<1>5. ASSUME NEW last \in {"held", "map"}
      PROVE  Sound(((s2 \o Composing(q, "held", last)) \o Call("SendMessage", last)) \o Sender(last))
  <2> HIDE DEF s2
  <2> DEFINE t1 == s2 \o Composing(q, "held", last)
             t2 == t1 \o Call("SendMessage", last)
             t3 == t2 \o Sender(last)
  <2>1. /\ Asks(Call("SendMessage", last), {"SendMessage"}) /\ Asks(Sender(last), {})
      BY Asking DEF Subjects
  <2>2. Asks(Composing(q, "held", last), {"composing", "paused"})
      BY Showing
  <2>3. Asks(t1, {"composing", "paused"}) /\ t1 # <<>>
      BY <1>4, <2>2, AsksAfter, Joining DEF Asks
  <2> HIDE DEF t1
  <2>4. Asks(t2, {"composing", "paused"} \cup {"SendMessage"}) /\ t2 # <<>>
    <3>1. {"composing", "paused"} \cap {"SendMessage"} = {}
        OBVIOUS
    <3>2. Asks(t2, {"composing", "paused"} \cup {"SendMessage"})
        BY <2>1, <2>3, <3>1, AsksBoth
    <3>3. t2 # <<>>
        BY <2>1, <2>3, Joining DEF Asks
    <3> QED
        BY <3>2, <3>3
  <2> HIDE DEF t2
  <2>5. Asks(t3, {"composing", "paused"} \cup {"SendMessage"}) /\ t3 # <<>>
      BY <2>1, <2>4, AsksBefore, Joining DEF Asks
  <2> QED
      BY <2>5 DEF Sound, t1, t2
<1> QED
    BY <1>5 DEF SendButton, SendList

-----------------------------------------------------------------------------
(* The routes.                                                             *)

\* What a service does is sound, and it is orderly where it is tried again.
LEMMA Services ==
    ASSUME NEW q, q.op \in DOMAIN Operations(q)
    PROVE  /\ Sound(Service(q))
           /\ q.op \in RetryOps => Early(Service(q))
<1>1. q.op \in {"SendText", "SendLink", "SendMediaFile", "SendMediaUrl", "SendPoll",
               "SendSticker", "SendLocation", "SendContact"}
      => Orderly(Service(q))
  <2>1. /\ q.op = "SendText" => Service(q) = SendText(q)
        /\ q.op = "SendLink" => Service(q) = SendLink(q)
        /\ q.op = "SendMediaFile" => Service(q) = SendMediaFile(q)
        /\ q.op = "SendMediaUrl" => Service(q) = SendMediaUrl(q)
        /\ q.op = "SendPoll" => Service(q) = SendPoll(q)
        /\ q.op = "SendSticker" => Service(q) = SendSticker(q)
        /\ q.op = "SendLocation" => Service(q) = SendLocation(q)
        /\ q.op = "SendContact" => Service(q) = SendContact(q)
      BY DEF Service, Operations
  <2> QED
      BY <2>1, Sends
<1>2. q.op \in {"SendButton", "SendList", "SetPrivacy", "Register", "Activate"}
      => Sound(Service(q))
  <2>1. /\ q.op = "SendButton" => Service(q) = SendButton(q)
        /\ q.op = "SendList" => Service(q) = SendList(q)
        /\ q.op = "SetPrivacy" => Service(q) = SetPrivacy
        /\ q.op = "Register" => Service(q) = Register
        /\ q.op = "Activate" => Service(q) = Activate
      BY DEF Service, Operations
  <2> QED
      BY <2>1, Interactive, Settings, Licensing
<1>3. q.op \in {"SetProfilePicture", "SetGroupPhoto", "UpdateGroupSettings",
               "HistorySyncRequest", "CreateGroup", "React", "ChatPresence"}
      => Sound(Service(q))
  <2>1. /\ q.op = "SetProfilePicture" => Service(q) = SetProfilePicture
        /\ q.op = "SetGroupPhoto" => Service(q) = SetGroupPhoto
        /\ q.op = "UpdateGroupSettings" => Service(q) = UpdateGroupSettings
        /\ q.op = "HistorySyncRequest" => Service(q) = HistorySyncRequest
        /\ q.op = "CreateGroup" => Service(q) = CreateGroup
        /\ q.op = "React" => Service(q) = React
        /\ q.op = "ChatPresence" => Service(q) = ChatPresence(q)
      BY DEF Service, Operations
  <2> QED
      BY <2>1, Surrounded
<1>4. q.op \in {"CheckUser", "GetAvatar", "GetContacts", "GetPrivacy", "DownloadMedia",
               "GetMessageStatus"}
      => Sound(Service(q))
  <2>1. /\ q.op = "CheckUser" => Service(q) = CheckUser(q)
        /\ q.op = "GetAvatar" => Service(q) = GetAvatar
        /\ q.op = "GetContacts" => Service(q) = GetContacts
        /\ q.op = "GetPrivacy" => Service(q) = GetPrivacy
        /\ q.op = "DownloadMedia" => Service(q) = DownloadMedia
        /\ q.op = "GetMessageStatus" => Service(q) = GetMessageStatus
      BY DEF Service, Operations
  <2> QED
      BY <2>1, Questions
<1>5. q.op \in {"GetMyGroups", "CommunityAdd", "CommunityRemove", "GetLabels",
               "ListNewsletter", "GetPollResults"}
      => Sound(Service(q))
  <2>1. /\ q.op = "GetMyGroups" => Service(q) = GetMyGroups
        /\ q.op = "CommunityAdd" => Service(q) = CommunityAdd
        /\ q.op = "CommunityRemove" => Service(q) = CommunityRemove
        /\ q.op = "GetLabels" => Service(q) = GetLabels
        /\ q.op = "ListNewsletter" => Service(q) = ListNewsletter
        /\ q.op = "GetPollResults" => Service(q) = GetPollResults
      BY DEF Service, Operations
  <2> QED
      BY <2>1, Questions
<1>6. q.op \in {"GetUser", "BlockContact", "UnlockContact", "GetBlockList",
               "SetProfileName", "SetProfileStatus", "MarkRead", "MarkPlayed"}
      => Sound(Service(q))
  <2>1. /\ q.op = "GetUser" => Service(q) = GetUser
        /\ q.op = "BlockContact" => Service(q) = BlockContact
        /\ q.op = "UnlockContact" => Service(q) = UnlockContact
        /\ q.op = "GetBlockList" => Service(q) = GetBlockList
        /\ q.op = "SetProfileName" => Service(q) = SetProfileName
        /\ q.op = "SetProfileStatus" => Service(q) = SetProfileStatus
        /\ q.op = "MarkRead" => Service(q) = MarkRead
        /\ q.op = "MarkPlayed" => Service(q) = MarkPlayed
      BY DEF Service, Operations
  <2> QED
      BY <2>1, SimpleOperations
<1>7. q.op \in {"DeleteMessageEveryone", "EditMessage", "ChatPin", "ChatUnpin",
               "ChatArchive", "ChatUnarchive", "ChatMute", "ChatUnmute"}
      => Sound(Service(q))
  <2>1. /\ q.op = "DeleteMessageEveryone" => Service(q) = DeleteMessageEveryone
        /\ q.op = "EditMessage" => Service(q) = EditMessage
        /\ q.op = "ChatPin" => Service(q) = ChatPin
        /\ q.op = "ChatUnpin" => Service(q) = ChatUnpin
        /\ q.op = "ChatArchive" => Service(q) = ChatArchive
        /\ q.op = "ChatUnarchive" => Service(q) = ChatUnarchive
        /\ q.op = "ChatMute" => Service(q) = ChatMute
        /\ q.op = "ChatUnmute" => Service(q) = ChatUnmute
      BY DEF Service, Operations
  <2> QED
      BY <2>1, SimpleOperations
<1>8. q.op \in {"ListGroups", "GetGroupInfo", "GetGroupInviteLink", "SetGroupName",
               "SetGroupDescription", "UpdateParticipant", "JoinGroupLink", "LeaveGroup"}
      => Sound(Service(q))
  <2>1. /\ q.op = "ListGroups" => Service(q) = ListGroups
        /\ q.op = "GetGroupInfo" => Service(q) = GetGroupInfo
        /\ q.op = "GetGroupInviteLink" => Service(q) = GetGroupInviteLink
        /\ q.op = "SetGroupName" => Service(q) = SetGroupName
        /\ q.op = "SetGroupDescription" => Service(q) = SetGroupDescription
        /\ q.op = "UpdateParticipant" => Service(q) = UpdateParticipant
        /\ q.op = "JoinGroupLink" => Service(q) = JoinGroupLink
        /\ q.op = "LeaveGroup" => Service(q) = LeaveGroup
      BY DEF Service, Operations
  <2> QED
      BY <2>1, SimpleOperations
<1>9. q.op \in {"RejectCall", "CreateCommunity", "ChatLabel", "MessageLabel",
               "EditLabel", "ChatUnlabel", "MessageUnlabel", "CreateNewsletter"}
      => Sound(Service(q))
  <2>1. /\ q.op = "RejectCall" => Service(q) = RejectCall
        /\ q.op = "CreateCommunity" => Service(q) = CreateCommunity
        /\ q.op = "ChatLabel" => Service(q) = ChatLabel
        /\ q.op = "MessageLabel" => Service(q) = MessageLabel
        /\ q.op = "EditLabel" => Service(q) = EditLabel
        /\ q.op = "ChatUnlabel" => Service(q) = ChatUnlabel
        /\ q.op = "MessageUnlabel" => Service(q) = MessageUnlabel
        /\ q.op = "CreateNewsletter" => Service(q) = CreateNewsletter
      BY DEF Service, Operations
  <2> QED
      BY <2>1, SimpleOperations
<1>10. q.op \in {"GetNewsletter", "GetNewsletterInvite", "SubscribeNewsletter",
               "GetNewsletterMessages"}
      => Sound(Service(q))
  <2>1. /\ q.op = "GetNewsletter" => Service(q) = GetNewsletter
        /\ q.op = "GetNewsletterInvite" => Service(q) = GetNewsletterInvite
        /\ q.op = "SubscribeNewsletter" => Service(q) = SubscribeNewsletter
        /\ q.op = "GetNewsletterMessages" => Service(q) = GetNewsletterMessages
      BY DEF Service, Operations
  <2> QED
      BY <2>1, SimpleOperations
<1>11. q.op \in RetryOps => Orderly(Service(q))
    BY <1>1 DEF RetryOps
<1>12. \/ q.op \in {"SendText", "SendLink", "SendMediaFile", "SendMediaUrl",
                      "SendPoll", "SendSticker", "SendLocation", "SendContact"}
       \/ q.op \in {"SendButton", "SendList", "SetPrivacy", "Register", "Activate"}
       \/ q.op \in {"SetProfilePicture", "SetGroupPhoto", "UpdateGroupSettings",
                      "HistorySyncRequest", "CreateGroup", "React", "ChatPresence"}
       \/ q.op \in {"CheckUser", "GetAvatar", "GetContacts", "GetPrivacy",
                      "DownloadMedia", "GetMessageStatus"}
       \/ q.op \in {"GetMyGroups", "CommunityAdd", "CommunityRemove", "GetLabels",
                      "ListNewsletter", "GetPollResults"}
       \/ q.op \in {"GetUser", "BlockContact", "UnlockContact", "GetBlockList",
                      "SetProfileName", "SetProfileStatus", "MarkRead", "MarkPlayed"}
       \/ q.op \in {"DeleteMessageEveryone", "EditMessage", "ChatPin", "ChatUnpin",
                      "ChatArchive", "ChatUnarchive", "ChatMute", "ChatUnmute"}
       \/ q.op \in {"ListGroups", "GetGroupInfo", "GetGroupInviteLink",
                      "SetGroupName", "SetGroupDescription", "UpdateParticipant",
                      "JoinGroupLink", "LeaveGroup"}
       \/ q.op \in {"RejectCall", "CreateCommunity", "ChatLabel", "MessageLabel",
                      "EditLabel", "ChatUnlabel", "MessageUnlabel", "CreateNewsletter"}
       \/ q.op \in {"GetNewsletter", "GetNewsletterInvite", "SubscribeNewsletter",
                      "GetNewsletterMessages"}
    BY DEF Operations
<1> QED
    BY <1>1, <1>2, <1>3, <1>4, <1>5, <1>6, <1>7, <1>8, <1>9, <1>10, <1>11, <1>12 DEF Orderly, Sound

LEMMA Routing ==
    ASSUME NEW q \in Inputs
    PROVE  /\ Routes(q) # <<>> /\ Asks(Routes(q), Names)
           /\ q.op \in RetryOps => Early(Routes(q))
<1> DEFINE bound == ((Do("gate") \o Do("auth")) \o Do("validate")) \o Do("bind")
           first == IF q.op \in LicenceRoutes THEN <<>> ELSE bound
<1>1. /\ Asks(Do("gate"), {}) /\ Do("gate") # <<>> /\ Asks(Do("auth"), {})
      /\ Asks(Do("validate"), {}) /\ Asks(Do("bind"), {})
    BY Doings DEF Deeds
<1>2. Asks(Do("gate") \o Do("auth"), {}) /\ Do("gate") \o Do("auth") # <<>>
    BY <1>1, Going
<1>3. /\ Asks((Do("gate") \o Do("auth")) \o Do("validate"), {})
      /\ (Do("gate") \o Do("auth")) \o Do("validate") # <<>>
    BY <1>1, <1>2, Going
<1>4. Asks(bound, {})
    BY <1>1, <1>3, Going
<1>5. Asks(first, {})
    BY <1>4, Nothing
<1>6. Routes(q) = first \o Service(q)
    BY DEF Routes
<1> HIDE DEF first
<1>7. Sound(Service(q)) /\ (q.op \in RetryOps => Early(Service(q)))
    BY InputAssumption, Services
<1>8. PICK C : Asks(Service(q), C)
    BY <1>7 DEF Sound
<1>9. Asks(first \o Service(q), C)
    BY <1>5, <1>8, AsksAfter
<1>10. Asks(Routes(q), Names)
    BY <1>6, <1>9, AsksAll
<1>11. Routes(q) # <<>>
    BY <1>5, <1>6, <1>7, <1>8, Joining DEF Asks, Sound
<1>12. q.op \in RetryOps => Early(Routes(q))
    BY <1>5, <1>6, <1>7, <1>8, EarlyAfter DEF Asks
<1> QED
    BY <1>10, <1>11, <1>12

-----------------------------------------------------------------------------
(* A request and the changes it asked for.                                 *)

Codes == {"200", "400", "401", "404", "500", "502", "503", "cut"}
ReqType ==
    [q : Inputs \cup {None}, todo : Seq(StepType), attempt : Nat, try : Nat,
     held : {"none", "current", "stale"}, status : {"idle", "running"} \cup Codes]

\* What is left to do asks for nothing that was asked for, and as long as a
\* send may be tried again, nothing was.
Fresh(s, m) ==
    /\ s \in ReqType /\ m \in Seq(Names)
    /\ \A i, j \in 1..Len(m) : m[i] = m[j] => i = j
    /\ s.status = "idle" => m = <<>>
    /\ s.status = "running" =>
          /\ s.q \in Inputs /\ s.todo # <<>>
          /\ Asks(s.todo, Names \ {m[i] : i \in 1..Len(m)})
          /\ s.q.op \in RetryOps => Early(s.todo) /\ (Calm(s.todo) \/ m = <<>>)

(***************************************************************************)
(* The inductive invariant of the requests: what each of them asked for,   *)
(* what it has left to ask for, and that a send is only tried again from   *)
(* before its first call.                                                  *)
(***************************************************************************)
AllFresh(f, m) ==
    /\ f \in [Requests -> ReqType] /\ m \in [Requests -> Seq(Names)]
    /\ \A r \in Requests : Fresh(f[r], m[r])
Requested == AllFresh(req, made)

\* The rest of a list, and its first step replaced by one that is no call.
LEMMA Rest ==
    ASSUME NEW t \in Seq(StepType), t # <<>>
    PROVE  /\ Head(t) \in StepType /\ Head(t) = t[1] /\ Tail(t) \in Seq(StepType)
           /\ Len(t) \in Nat /\ Len(t) > 0 /\ Len(Tail(t)) = Len(t) - 1 /\ 1 \in 1..Len(t)
           /\ Len(t) # 1 => Tail(t) # <<>>
           /\ \A i \in 1..Len(Tail(t)) : i + 1 \in 1..Len(t) /\ Tail(t)[i] = t[i + 1]
<1>1. /\ Head(t) \in StepType /\ Tail(t) \in Seq(StepType) /\ Len(Tail(t)) = Len(t) - 1
      /\ \A i \in 1..Len(Tail(t)) : Tail(t)[i] = t[i + 1]
    BY HeadTailProperties
<1>2. Len(t) \in Nat /\ Len(t) > 0
    BY EmptySeq, LenProperties
<1>3. Head(t) = t[1]
    OBVIOUS
<1>4. Len(t) # 1 => Tail(t) # <<>>
  <2>1. Len(<<>>) = 0
      OBVIOUS
  <2> DEFINE u == Tail(t)
  <2>2. Len(u) = Len(t) - 1
      BY <1>1
  <2> HIDE DEF u
  <2>3. Len(t) # 1 => u # <<>>
      BY <1>2, <2>1, <2>2
  <2> QED
      BY <2>3 DEF u
<1> QED
    BY <1>1, <1>2, <1>3, <1>4

LEMMA AsksRest ==
    ASSUME NEW t, NEW C, Asks(t, C), t # <<>>
    PROVE  /\ Asks(Tail(t), C)
           /\ Head(t).do = "call" => Head(t).what \in C /\ Asks(Tail(t), C \ {Head(t).what})
           /\ Early(t) => Early(Tail(t))
           /\ Early(t) /\ Head(t).do = "call" => Calm(Tail(t))
           /\ Calm(t) => Calm(Tail(t)) /\ Head(t).do \notin Retriers
           /\ Head(t).do \in Reconnections => Tail(t) # <<>>
<1> DEFINE u == Tail(t)
<1>1. t \in Seq(StepType)
    BY DEF Asks
<1>2. /\ Head(t) = t[1] /\ u \in Seq(StepType) /\ Len(t) \in Nat /\ Len(t) > 0
      /\ Len(u) = Len(t) - 1 /\ 1 \in 1..Len(t)
      /\ \A i \in 1..Len(u) : i + 1 \in 1..Len(t) /\ u[i] = t[i + 1]
    BY <1>1, Rest
<1> HIDE DEF u
<1>3. \A i, j \in 1..Len(u) : i + 1 = j + 1 => i = j
    BY <1>2
<1>4. \A i, j \in 1..Len(u) :
          u[i].do = "call" /\ u[j].do = "call" /\ u[i].what = u[j].what => i = j
    BY <1>2, <1>3 DEF Asks
<1>5. Asks(u, C)
  <2>1. \A i \in 1..Len(u) : u[i].do \in Reconnections => i < Len(u)
      BY <1>2 DEF Asks
  <2> QED
      BY <1>2, <1>4, <2>1 DEF Asks
<1>6. Head(t).do = "call" => Head(t).what \in C /\ Asks(u, C \ {Head(t).what})
  <2>1. ASSUME Head(t).do = "call", NEW i \in 1..Len(u), u[i].do = "call", u[i].what = Head(t).what
        PROVE  FALSE
    <3>1. i + 1 = 1
        BY <1>2, <2>1 DEF Asks
    <3> QED
        BY <1>2, <3>1
  <2> QED
      BY <1>2, <1>5, <2>1 DEF Asks
<1>7. Early(t) => Early(u)
  <2>1. ASSUME Early(t), NEW i \in 1..Len(u), u[i].do \in Retriers, NEW j \in 1..(i - 1)
        PROVE  u[j].do # "call"
    <3>1. i + 1 \in 1..Len(t) /\ j + 1 \in 1..((i + 1) - 1) /\ j \in 1..Len(u)
        BY <1>2
    <3> QED
        BY <1>2, <2>1, <3>1 DEF Early
  <2> QED
      BY <2>1 DEF Early
<1>8. Early(t) /\ Head(t).do = "call" => Calm(u)
  <2>1. ASSUME Early(t), Head(t).do = "call", NEW i \in 1..Len(u)
        PROVE  u[i].do \notin Retriers
    <3>1. i + 1 \in 1..Len(t) /\ 1 \in 1..((i + 1) - 1)
        BY <1>2
    <3> QED
        BY <1>2, <2>1, <3>1 DEF Early
  <2> QED
      BY <2>1 DEF Calm
<1>9. Calm(t) => Calm(u) /\ Head(t).do \notin Retriers
    BY <1>2 DEF Calm
<1>10. Head(t).do \in Reconnections => u # <<>>
    BY <1>2, EmptySeq DEF Asks
<1> QED
    BY <1>5, <1>6, <1>7, <1>8, <1>9, <1>10 DEF u

LEMMA AsksOther ==
    ASSUME NEW t, NEW C, Asks(t, C), t # <<>>, Head(t).do # "call",
           NEW do \in Names, do # "call", do \in Reconnections => Head(t).do \in Reconnections
    PROVE  LET u == [t EXCEPT ![1].do = do]
           IN  Asks(u, C) /\ u # <<>> /\ (Early(t) => Early(u))
<1> DEFINE u == [t EXCEPT ![1].do = do]
<1>1. t \in Seq(StepType)
    BY DEF Asks
<1>2. /\ Head(t) = t[1] /\ t[1] \in StepType /\ Len(t) \in Nat /\ Len(t) > 0 /\ 1 \in 1..Len(t)
    BY <1>1, Rest
<1>3. [t[1] EXCEPT !.do = do] \in StepType /\ [t[1] EXCEPT !.do = do].do = do
    BY <1>2 DEF StepType
<1>4. u = [t EXCEPT ![1] = [t[1] EXCEPT !.do = do]]
    OBVIOUS
<1>5. u \in Seq(StepType) /\ Len(u) = Len(t) /\ u[1] = [t[1] EXCEPT !.do = do]
      /\ \A i \in 1..Len(t) : i # 1 => u[i] = t[i]
    BY <1>1, <1>2, <1>3, <1>4
<1> HIDE DEF u
<1>6. \A i \in 1..Len(u) : u[i].do = "call" => u[i] = t[i]
    BY <1>3, <1>5
<1>7. Asks(u, C)
  <2>1. \A i \in 1..Len(u) : u[i].do \in Reconnections => i < Len(u)
    <3>1. u[1].do \in Reconnections => t[1].do \in Reconnections
        BY <1>2, <1>3, <1>5
    <3> QED
        BY <1>2, <1>5, <3>1 DEF Asks
  <2> QED
      BY <1>5, <1>6, <2>1 DEF Asks
<1>8. Early(t) => Early(u)
  <2>1. ASSUME Early(t), NEW i \in 1..Len(u), u[i].do \in Retriers, NEW j \in 1..(i - 1)
        PROVE  u[j].do # "call"
    <3>1. i \in 1..Len(t) /\ j \in 1..Len(t) /\ i # 1
        BY <1>2, <1>5
    <3>2. t[i].do \in Retriers
        BY <1>5, <2>1, <3>1
    <3>3. t[j].do # "call"
        BY <2>1, <3>1, <3>2 DEF Early
    <3> QED
        BY <1>5, <1>6, <3>1, <3>3
  <2> QED
      BY <2>1 DEF Early
<1>9. u # <<>>
    BY <1>2, <1>5, EmptySeq
<1> QED
    BY <1>7, <1>8, <1>9 DEF u

-----------------------------------------------------------------------------
(* What a step makes of a request.                                         *)

\* A request that is answered, and one that holds another client.
LEMMA AnsweredType ==
    ASSUME NEW s \in ReqType, NEW code \in Codes
    PROVE  /\ Answered(s, code) \in ReqType
           /\ Answered(s, code).status # "idle" /\ Answered(s, code).status # "running"
<1>1. <<>> \in Seq(StepType)
    OBVIOUS
<1>2. code # "idle" /\ code # "running" /\ code \in {"idle", "running"} \cup Codes
    BY DEF Codes
<1> QED
    BY <1>1, <1>2 DEF Answered, ReqType

LEMMA FreshAnswered ==
    ASSUME NEW s, NEW m, Fresh(s, m), NEW code \in Codes
    PROVE  Fresh(Answered(s, code), m)
BY AnsweredType DEF Fresh

LEMMA FreshHolding ==
    ASSUME NEW s, NEW m, Fresh(s, m), NEW held \in {"none", "current", "stale"}
    PROVE  Fresh([s EXCEPT !.held = held], m)
<1> DEFINE u == [s EXCEPT !.held = held]
<1>1. u \in ReqType /\ u.status = s.status /\ u.q = s.q /\ u.todo = s.todo
    BY DEF ReqType, Fresh
<1> QED
    BY <1>1 DEF Fresh

\* A list that may take the place of what is left to do.
Follows(t, s, m) ==
    /\ t # <<>> /\ Asks(t, Names \ {m[i] : i \in 1..Len(m)})
    /\ s.q.op \in RetryOps => Early(t) /\ (Calm(t) \/ m = <<>>)

LEMMA FreshFollowing ==
    ASSUME NEW s, NEW m, Fresh(s, m), s.status = "running", NEW t, Follows(t, s, m),
           NEW attempt \in Nat, NEW try \in Nat, NEW held \in {"none", "current", "stale"}
    PROVE  /\ Fresh([s EXCEPT !.todo = t], m)
           /\ Fresh([s EXCEPT !.try = try, !.todo = t], m)
           /\ Fresh([s EXCEPT !.todo = t, !.attempt = attempt, !.try = try, !.held = held], m)
<1>1. t \in Seq(StepType)
    BY DEF Follows, Asks
<1>2. ASSUME NEW u \in {[s EXCEPT !.todo = t], [s EXCEPT !.try = try, !.todo = t],
                        [s EXCEPT !.todo = t, !.attempt = attempt, !.try = try, !.held = held]}
      PROVE  u \in ReqType /\ u.status = s.status /\ u.q = s.q /\ u.todo = t
    BY <1>1 DEF ReqType, Fresh
<1> QED
    BY <1>2 DEF Fresh, Follows

\* What a step that asks for nothing leaves to do.
LEMMA FollowingRest ==
    ASSUME NEW s, NEW m, Fresh(s, m), s.status = "running", Tail(s.todo) # <<>>
    PROVE  Follows(Tail(s.todo), s, m)
BY AsksRest DEF Fresh, Follows

\* A step that is done: it may have been a call.
LEMMA FreshDone ==
    ASSUME NEW s, NEW m, Fresh(s, m), s.status = "running"
    PROVE  Fresh(Done(s), m)
<1>1. s.todo \in Seq(StepType) /\ s.todo # <<>>
    BY DEF Fresh, Asks
<1>2. CASE Len(s.todo) = 1
  <2>1. Done(s) = Answered(s, "200") /\ "200" \in Codes
      BY <1>2 DEF Done, Codes
  <2> QED
      BY <2>1, FreshAnswered
<1>3. CASE Len(s.todo) # 1
  <2>1. Tail(s.todo) # <<>>
      BY <1>1, <1>3, Rest
  <2>2. Fresh([s EXCEPT !.todo = Tail(s.todo)], m)
      BY <2>1, FollowingRest, FreshFollowing
  <2> QED
      BY <1>3, <2>2 DEF Done
<1> QED
    BY <1>2, <1>3

LEMMA FreshCalled ==
    ASSUME NEW s, NEW m, Fresh(s, m), s.status = "running", Head(s.todo).do = "call"
    PROVE  /\ Fresh(Done(s), Append(m, Head(s.todo).what))
           /\ Fresh(Answered(s, "500"), Append(m, Head(s.todo).what))
<1> DEFINE what == Head(s.todo).what
           n == Append(m, what)
           C == Names \ {m[i] : i \in 1..Len(m)}
           t == Tail(s.todo)
<1>1. s.todo \in Seq(StepType) /\ s.todo # <<>> /\ s \in ReqType /\ m \in Seq(Names)
    BY DEF Fresh, Asks
<1>2. what \in C /\ Asks(t, C \ {what})
    BY AsksRest DEF Fresh
<1>3. /\ n \in Seq(Names) /\ Len(n) = Len(m) + 1 /\ Len(m) \in Nat /\ n[Len(m) + 1] = what
      /\ \A i \in 1..Len(m) : n[i] = m[i]
    BY <1>1, <1>2, AppendProperties, LenProperties
<1> HIDE DEF what, n
<1>4. \A i \in 1..Len(n) : (i \in 1..Len(m) /\ n[i] = m[i]) \/ (i = Len(m) + 1 /\ n[i] = what)
    BY <1>3
<1>5. \A i, j \in 1..Len(n) : n[i] = n[j] => i = j
    BY <1>2, <1>4 DEF Fresh
<1>6. Names \ {n[i] : i \in 1..Len(n)} = C \ {what}
  <2>1. {n[i] : i \in 1..Len(n)} = {m[i] : i \in 1..Len(m)} \cup {what}
    <3>1. 1..Len(n) = (1..Len(m)) \cup {Len(m) + 1}
        BY <1>3
    <3> QED
        BY <1>3, <3>1
  <2> QED
      BY <2>1
<1>7. Fresh(Answered(s, "500"), n)
  <2>1. /\ Answered(s, "500") \in ReqType
        /\ Answered(s, "500").status # "idle" /\ Answered(s, "500").status # "running"
      BY <1>1, AnsweredType DEF Codes
  <2> QED
      BY <1>3, <1>5, <2>1 DEF Fresh
<1>8. Fresh(Done(s), n)
  <2>1. CASE Len(s.todo) = 1
    <3>1. Done(s) = Answered(s, "200")
        BY <2>1 DEF Done
    <3>2. /\ Answered(s, "200") \in ReqType
          /\ Answered(s, "200").status # "idle" /\ Answered(s, "200").status # "running"
        BY <1>1, AnsweredType DEF Codes
    <3> QED
        BY <1>3, <1>5, <3>1, <3>2 DEF Fresh
  <2>2. CASE Len(s.todo) # 1
    <3> DEFINE u == [s EXCEPT !.todo = t]
    <3>1. Done(s) = u
        BY <2>2 DEF Done
    <3>2. t # <<>>
        BY <1>1, <2>2, Rest
    <3>3. u \in ReqType /\ u.status = "running" /\ u.q = s.q /\ u.todo = t
        BY <1>1, <1>2 DEF ReqType, Asks
    <3>4. Asks(t, Names \ {n[i] : i \in 1..Len(n)})
        BY <1>2, <1>6
    <3>5. s.q.op \in RetryOps => Early(t) /\ Calm(t)
        BY AsksRest DEF Fresh
    <3>6. s.q \in Inputs
        BY DEF Fresh
    <3> HIDE DEF u, t
    <3>7. Fresh(u, n)
        BY <1>3, <1>5, <3>2, <3>3, <3>4, <3>5, <3>6 DEF Fresh
    <3> QED
        BY <3>1, <3>7
  <2> QED
      BY <2>1, <2>2
<1> QED
    BY <1>7, <1>8 DEF n, what

\* A send that found no client tries again, or gives up.
LEMMA FreshFailed ==
    ASSUME NEW s, NEW m, Fresh(s, m), s.status = "running", NEW class,
           class \in {"disconnected", "fetch"} => Head(s.todo).do \in Retriers
    PROVE  Fresh(Failed(s, class), m)
<1>1. CASE ~Again(s, class)
  <2>1. Failed(s, class) = Answered(s, "500") /\ "500" \in Codes
      BY <1>1 DEF Failed, Codes
  <2> QED
      BY <2>1, FreshAnswered
<1>2. CASE Again(s, class)
  <2>1. s.q.op \in RetryOps /\ class \in {"disconnected", "fetch"}
      BY <1>2 DEF Again
  <2>2. m = <<>>
      BY <2>1, AsksRest DEF Fresh
  <2>3. s.q \in Inputs /\ s.attempt \in Nat
      BY DEF Fresh, ReqType
  <2>4. Sound(Service(s.q)) /\ Early(Service(s.q))
      BY <2>1, <2>3, InputAssumption, Services
  <2>5. Asks(Service(s.q), Names)
      BY <2>4, AsksAll DEF Sound
  <2>6. Names \ {m[i] : i \in 1..Len(m)} = Names
      BY <2>2
  <2>7. Follows(Service(s.q), s, m)
      BY <2>2, <2>4, <2>5, <2>6 DEF Follows, Sound
  <2>8. Fresh([s EXCEPT !.todo = Service(s.q), !.attempt = s.attempt + 1, !.try = 1, !.held = "none"], m)
    <3>1. s.attempt + 1 \in Nat /\ 1 \in Nat /\ "none" \in {"none", "current", "stale"}
        BY <2>3
    <3> DEFINE t == Service(s.q)
               attempt == s.attempt + 1
    <3> HIDE DEF t, attempt
    <3>2. Fresh([s EXCEPT !.todo = t, !.attempt = attempt, !.try = 1, !.held = "none"], m)
        BY <2>7, <3>1, FreshFollowing DEF t, attempt
    <3> QED
        BY <3>2 DEF t, attempt
  <2> QED
      BY <1>2, <2>8 DEF Failed, Retried, NextAttempt
<1> QED
    BY <1>1, <1>2

\* A step of a connection that becomes another.
LEMMA FreshOther ==
    ASSUME NEW s, NEW m, Fresh(s, m), s.status = "running", Head(s.todo).do \in Retriers,
           NEW do \in {"started", "restart"}, do = "restart" => Head(s.todo).do = "reconnect"
    PROVE  Fresh([s EXCEPT !.todo[1].do = do], m)
<1> DEFINE t == [s.todo EXCEPT ![1].do = do]
           C == Names \ {m[i] : i \in 1..Len(m)}
<1>1. Head(s.todo).do # "call" /\ do \in Names /\ do # "call"
    BY DEF Retriers, Names, Others
<1>2. do \in Reconnections => Head(s.todo).do \in Reconnections
    BY DEF Reconnections
<1>3. Asks(s.todo, C) /\ s.todo # <<>>
    BY DEF Fresh
<1>4. Asks(t, C) /\ t # <<>> /\ (Early(s.todo) => Early(t))
    BY <1>1, <1>2, <1>3, AsksOther
<1>5. s.q.op \in RetryOps => Early(s.todo) /\ m = <<>>
    BY AsksRest DEF Fresh
<1>6. Follows(t, s, m)
    BY <1>4, <1>5 DEF Follows
<1> HIDE DEF t
<1>7. Fresh([s EXCEPT !.todo = t], m)
    BY <1>6, FreshFollowing
<1>8. [s EXCEPT !.todo[1].do = do] = [s EXCEPT !.todo = t]
    BY DEF t
<1> QED
    BY <1>7, <1>8

\* A reconnection is put in front of another try.
LEMMA FreshReconnecting ==
    ASSUME NEW s, NEW m, Fresh(s, m), s.status = "running", Head(s.todo).do \in {"ensure", "started"}
    PROVE  Fresh([s EXCEPT !.todo = <<Step("reconnect", "none", "none")>>
                                        \o <<[Head(s.todo) EXCEPT !.do = "ensure"]>> \o Tail(s.todo)], m)
<1> DEFINE x == Step("reconnect", "none", "none")
           y == [Head(s.todo) EXCEPT !.do = "ensure"]
           t == Tail(s.todo)
           u == <<x>> \o <<y>>
           C == Names \ {m[i] : i \in 1..Len(m)}
<1>1. s.todo \in Seq(StepType) /\ s.todo # <<>> /\ Asks(s.todo, C)
    BY DEF Fresh, Asks
<1>2. Head(s.todo) \in StepType /\ t \in Seq(StepType)
    BY <1>1, Rest
<1>3. x \in StepType /\ x.do = "reconnect" /\ y \in StepType /\ y.do = "ensure"
    BY <1>2 DEF Step, StepType, Names, Others, Deeds
<1>4. Head(s.todo).do \in Retriers /\ Head(s.todo).do # "call"
    BY DEF Retriers
<1>5. Asks(t, C) /\ (Early(s.todo) => Early(t))
    BY <1>1, AsksRest
<1>6. s.q.op \in RetryOps => Early(s.todo) /\ m = <<>>
    BY <1>4, AsksRest DEF Fresh
<1> HIDE DEF x, y, t
<1>7. u \in Seq(StepType) /\ Len(u) = 2 /\ u[1] = x /\ u[2] = y /\ u # <<>>
  <2>1. /\ <<x>> \in Seq(StepType) /\ Len(<<x>>) = 1 /\ <<x>>[1] = x /\ <<x>> # <<>>
        /\ <<y>> \in Seq(StepType) /\ Len(<<y>>) = 1 /\ <<y>>[1] = y
      BY <1>3
  <2> DEFINE a == <<x>>
             b == <<y>>
  <2> HIDE DEF a, b
  <2>2. /\ a \in Seq(StepType) /\ Len(a) = 1 /\ a[1] = x /\ a # <<>>
        /\ b \in Seq(StepType) /\ Len(b) = 1 /\ b[1] = y
      BY <2>1 DEF a, b
  <2>3. a \o b \in Seq(StepType) /\ Len(a \o b) = 2 /\ (a \o b)[1] = x /\ (a \o b)[1 + 1] = y
      BY <2>2, Joined
  <2>4. a \o b # <<>>
      BY <2>2, Joining
  <2> QED
      BY <2>3, <2>4 DEF u, a, b
<1> HIDE DEF u
<1>8. \A i \in 1..Len(u) : u[i].do # "call" /\ (u[i].do \in Reconnections => i < Len(u))
    BY <1>3, <1>7 DEF Reconnections
<1>9. Asks(u, {})
    BY <1>7, <1>8 DEF Asks
<1>10. Asks(u \o t, C)
    BY <1>5, <1>9, AsksAfter
<1>11. u \o t # <<>>
    BY <1>2, <1>7, Joining
<1>12. Early(s.todo) => Early(u \o t)
    BY <1>2, <1>5, <1>9, EarlyAfter
<1>13. Follows(u \o t, s, m)
    BY <1>6, <1>10, <1>11, <1>12 DEF Follows
<1>14. Fresh([s EXCEPT !.todo = u \o t], m)
    BY <1>13, FreshFollowing
<1> QED
    BY <1>14 DEF u, x, y, t

\* Another try to get a client, or the end of the attempt.
LEMMA FreshTrying ==
    ASSUME NEW s, NEW m, Fresh(s, m), s.status = "running", Head(s.todo).do \in Reconnections
    PROVE  Fresh(TryAgain(s), m)
<1>1. Head(s.todo).do \in Retriers
    BY DEF Retriers, Reconnections
<1>2. CASE s.try < MaxTries
  <2>1. Tail(s.todo) # <<>>
      BY AsksRest DEF Fresh
  <2>2. s.try + 1 \in Nat
      BY DEF Fresh, ReqType
  <2>3. Fresh([s EXCEPT !.try = s.try + 1, !.todo = Tail(s.todo)], m)
      BY <2>1, <2>2, FollowingRest, FreshFollowing
  <2> QED
      BY <1>2, <2>3 DEF TryAgain
<1>3. CASE ~(s.try < MaxTries)
  <2>1. Fresh(Failed(s, "disconnected"), m)
      BY <1>1, FreshFailed
  <2> QED
      BY <1>3, <2>1 DEF TryAgain
<1> QED
    BY <1>2, <1>3

-----------------------------------------------------------------------------
(* The steps.                                                              *)

LEMMA OneRequest ==
    ASSUME NEW f, NEW m, AllFresh(f, m), NEW r \in Requests, NEW x, Fresh(x, m[r])
    PROVE  AllFresh([f EXCEPT ![r] = x], m)
<1> DEFINE g == [f EXCEPT ![r] = x]
<1>1. x \in ReqType
    BY DEF Fresh
<1>2. g \in [Requests -> ReqType] /\ \A p \in Requests : g[p] = IF p = r THEN x ELSE f[p]
    BY <1>1 DEF AllFresh
<1> HIDE DEF g
<1>3. AllFresh(g, m)
    BY <1>2 DEF AllFresh
<1> QED
    BY <1>3 DEF g

LEMMA TakenAway ==
    ASSUME NEW f, NEW m, AllFresh(f, m)
    PROVE  AllFresh(Removed(f), m)
<1>1. ASSUME NEW r \in Requests
      PROVE  Fresh([f[r] EXCEPT !.held = "stale"], m[r]) /\ Fresh(f[r], m[r])
    BY FreshHolding DEF AllFresh
<1>2. ASSUME NEW r \in Requests
      PROVE  Removed(f)[r] \in ReqType /\ Fresh(Removed(f)[r], m[r])
    BY <1>1 DEF Removed, Fresh
<1>3. Removed(f) = [r \in Requests |-> Removed(f)[r]]
    BY DEF Removed
<1> DEFINE g == Removed(f)
<1> HIDE DEF g
<1>4. g \in [Requests -> ReqType] /\ \A r \in Requests : Fresh(g[r], m[r])
    BY <1>2, <1>3 DEF g
<1>5. AllFresh(g, m)
    BY <1>4 DEF AllFresh
<1> QED
    BY <1>5 DEF g

\* A step that asks for nothing ends well, is refused or fails.
LEMMA Outcome ==
    ASSUME Requested, NEW r \in Requests, Running(r), UNCHANGED made,
           \/ Proceed(r) \/ Got(r)
           \/ \E code \in Codes : Refuse(r, code)
           \/ Fail(r, "error") \/ Fail(r, "panic")
           \/ Fail(r, "disconnected") /\ Current(r).do \in Retriers
           \/ Fail(r, "fetch") /\ Current(r).do \in Retriers
    PROVE  Requested'
<1>1. Fresh(req[r], made[r]) /\ req[r].status = "running" /\ AllFresh(req, made)
    BY DEF Requested, AllFresh, Running
<1>2. ASSUME NEW x, Fresh(x, made[r]), req' = [req EXCEPT ![r] = x]
      PROVE  Requested'
    BY <1>1, <1>2, OneRequest DEF Requested
<1>3. CASE Proceed(r)
  <2>1. Fresh(Done(req[r]), made[r])
      BY <1>1, FreshDone
  <2> QED
      BY <1>2, <1>3, <2>1 DEF Proceed
<1>4. CASE Got(r)
  <2>1. Fresh(Done(req[r]), made[r])
      BY <1>1, FreshDone
  <2>2. Fresh([Done(req[r]) EXCEPT !.held = "current"], made[r])
      BY <2>1, FreshHolding
  <2> QED
      BY <1>2, <1>4, <2>2 DEF Got
<1>5. ASSUME NEW code \in Codes, Refuse(r, code)
      PROVE  Requested'
  <2>1. Fresh(Answered(req[r], code), made[r])
      BY <1>1, FreshAnswered
  <2> QED
      BY <1>2, <1>5, <2>1 DEF Refuse
<1>6. ASSUME NEW class, Fail(r, class), class \in {"disconnected", "fetch"} => Current(r).do \in Retriers
      PROVE  Requested'
  <2>1. Fresh(Failed(req[r], class), made[r])
      BY <1>1, <1>6, FreshFailed DEF Current
  <2> QED
      BY <1>2, <1>6, <2>1 DEF Fail
<1>7. "error" \notin {"disconnected", "fetch"} /\ "panic" \notin {"disconnected", "fetch"}
    OBVIOUS
<1> QED
    BY <1>3, <1>4, <1>5, <1>6, <1>7

LEMMA ArriveKeeps ==
    ASSUME Requested, NEW r \in Requests, NEW q \in Inputs, Arrive(r, q)
    PROVE  Requested'
<1> DEFINE s == req[r]
           t == Routes(q)
           x == [s EXCEPT !.q = q, !.todo = t, !.attempt = 1, !.try = 1, !.status = "running"]
<1>1. s \in ReqType /\ s.status = "idle" /\ made[r] = <<>> /\ made[r] \in Seq(Names)
    BY DEF Requested, AllFresh, Fresh, Arrive
<1>2. t # <<>> /\ Asks(t, Names) /\ (q.op \in RetryOps => Early(t)) /\ t \in Seq(StepType)
    BY Routing DEF Asks
<1>3. req' = [req EXCEPT ![r] = x] /\ made' = made
    BY DEF Arrive, doneVars
<1> HIDE DEF s, t
<1>4. x \in ReqType /\ x.status = "running" /\ x.q = q /\ x.todo = t
    BY <1>1, <1>2 DEF ReqType
<1> HIDE DEF x
<1>5. Asks(t, Names \ {made[r][i] : i \in 1..Len(made[r])})
  <2>1. {made[r][i] : i \in 1..Len(made[r])} = {}
      BY <1>1
  <2>2. Names \ {} = Names
      OBVIOUS
  <2> QED
      BY <1>2, <2>1, <2>2
<1>6. Fresh(x, made[r])
    BY <1>1, <1>2, <1>4, <1>5 DEF Fresh
<1> QED
    BY <1>3, <1>6, OneRequest DEF Requested

\* What goes in front of the service.
LEMMA RouteKeeps ==
    ASSUME Requested, NEW r \in Requests, Gate(r) \/ Auth(r) \/ Validate(r) \/ Bind(r)
    PROVE  Requested'
<1>1. Running(r) /\ made' = made
    BY DEF Gate, Auth, Validate, Bind, At, doneVars
<1>2. Proceed(r) \/ \E code \in Codes : Refuse(r, code)
    BY DEF Gate, Auth, Validate, Bind, Codes
<1> QED
    BY <1>1, <1>2, Outcome

LEMMA NotConnectedKeeps ==
    ASSUME Requested, NEW r \in Requests, Running(r), Current(r).do \in {"ensure", "started"},
           NotConnected(r), UNCHANGED made
    PROVE  Requested'
<1>1. Fresh(req[r], made[r]) /\ req[r].status = "running"
    BY DEF Requested, AllFresh, Running
<1>2. CASE Current(r).via = "retry"
  <2> DEFINE t == <<Step("reconnect", "none", "none")>>
                     \o <<[Head(req[r].todo) EXCEPT !.do = "ensure"]>> \o Tail(req[r].todo)
  <2>1. req' = [req EXCEPT ![r] = [req[r] EXCEPT !.todo = t]]
      BY <1>2 DEF NotConnected, Current
  <2>2. Fresh([req[r] EXCEPT !.todo = t], made[r])
      BY <1>1, FreshReconnecting DEF Current
  <2> HIDE DEF t
  <2> QED
      BY <2>1, <2>2, OneRequest DEF Requested
<1>3. CASE Current(r).via # "retry"
  <2>1. Fail(r, "disconnected") /\ Current(r).do \in Retriers
      BY <1>3 DEF NotConnected, Retriers
  <2> QED
      BY <2>1, Outcome
<1> QED
    BY <1>2, <1>3

LEMMA EnsureKeeps ==
    ASSUME Requested, NEW r \in Requests, ensureClientConnected(r)
    PROVE  Requested'
<1>1. Running(r) /\ Current(r).do = "ensure" /\ made' = made
    BY DEF ensureClientConnected, At, doneVars
<1>2. CASE Got(r)
    BY <1>1, <1>2, Outcome
<1>3. CASE NotConnected(r)
    BY <1>1, <1>3, NotConnectedKeeps
<1>4. CASE req' = [req EXCEPT ![r].todo[1].do = "started"]
  <2>1. Fresh([req[r] EXCEPT !.todo[1].do = "started"], made[r])
      BY <1>1, FreshOther DEF Requested, AllFresh, Running, Current, Retriers
  <2> DEFINE x == [req[r] EXCEPT !.todo[1].do = "started"]
  <2>2. req' = [req EXCEPT ![r] = x]
      BY <1>4
  <2> HIDE DEF x
  <2> QED
      BY <1>1, <2>1, <2>2, OneRequest DEF Requested, x
<1> QED
    BY <1>2, <1>3, <1>4 DEF ensureClientConnected

LEMMA RetryKeeps ==
    ASSUME Requested, NEW r \in Requests, ensureClientConnectedWithRetry(r)
    PROVE  Requested'
<1>1. Running(r) /\ made' = made /\ Fresh(req[r], made[r]) /\ req[r].status = "running"
    BY DEF ensureClientConnectedWithRetry, Started, ReconnectClient, RestartClient, At, Running,
        doneVars, Requested, AllFresh
<1>2. CASE Started(r)
  <2>1. Current(r).do = "started" /\ (Got(r) \/ NotConnected(r))
      BY <1>2 DEF Started, At
  <2> QED
      BY <1>1, <2>1, Outcome, NotConnectedKeeps
<1>3. CASE ReconnectClient(r)
  <2>1. Head(req[r].todo).do = "reconnect"
      BY <1>3 DEF ReconnectClient, At, Current
  <2>2. Fresh([req[r] EXCEPT !.todo[1].do = "restart"], made[r])
      BY <1>1, <2>1, FreshOther DEF Retriers
  <2>3. Fresh(TryAgain(req[r]), made[r])
      BY <1>1, <2>1, FreshTrying DEF Reconnections
  <2>4. CASE req' = Removed([req EXCEPT ![r].todo[1].do = "restart"])
    <3> DEFINE x == [req[r] EXCEPT !.todo[1].do = "restart"]
    <3>1. req' = Removed([req EXCEPT ![r] = x])
        BY <2>4
    <3> HIDE DEF x
    <3>2. AllFresh([req EXCEPT ![r] = x], made)
        BY <2>2, OneRequest DEF Requested, x
    <3> QED
        BY <1>1, <3>1, <3>2, TakenAway DEF Requested
  <2>5. CASE req' = Removed([req EXCEPT ![r] = TryAgain(@)])
    <3>1. AllFresh([req EXCEPT ![r] = TryAgain(req[r])], made)
        BY <2>3, OneRequest DEF Requested
    <3> QED
        BY <1>1, <2>5, <3>1, TakenAway DEF Requested
  <2> QED
      BY <1>3, <2>4, <2>5 DEF ReconnectClient
<1>4. CASE RestartClient(r)
  <2>1. Fresh(TryAgain(req[r]), made[r])
      BY <1>1, <1>4, FreshTrying DEF Reconnections, RestartClient, At, Current
  <2>2. req' = [req EXCEPT ![r] = TryAgain(req[r])]
      BY <1>4 DEF RestartClient
  <2> QED
      BY <1>1, <2>1, <2>2, OneRequest DEF Requested
<1> QED
    BY <1>2, <1>3, <1>4 DEF ensureClientConnectedWithRetry

\* The checks and the questions of the services.
LEMMA ServiceKeeps ==
    ASSUME Requested, NEW r \in Requests,
           \/ ParseJID(r) \/ validateMessageFields(r) \/ Check(r) \/ Results(r)
           \/ AskWhatsApp(r) \/ TryWhatsApp(r)
    PROVE  Requested'
<1>1. Running(r) /\ made' = made
    BY DEF ParseJID, validateMessageFields, Check, Results, AskWhatsApp, TryWhatsApp, At, doneVars
<1>2. Proceed(r) \/ Fail(r, "error") \/ \E code \in Codes : Refuse(r, code)
    BY DEF ParseJID, validateMessageFields, Check, Results, AskWhatsApp, TryWhatsApp, Codes
<1> QED
    BY <1>1, <1>2, Outcome

LEMMA SendKeeps ==
    ASSUME Requested, NEW r \in Requests,
           ApplyMentions(r) \/ ReadSender(r) \/ EmbedMedia(r) \/ AnnounceSend(r)
    PROVE  Requested'
<1>1. Running(r) /\ made' = made
    BY DEF ApplyMentions, ReadSender, EmbedMedia, AnnounceSend, At, doneVars
<1>2. Proceed(r) \/ Fail(r, "panic")
    BY DEF ApplyMentions, ReadSender, EmbedMedia, AnnounceSend
<1> QED
    BY <1>1, <1>2, Outcome

LEMMA FetchKeeps ==
    ASSUME Requested, NEW r \in Requests, Fetch(r)
    PROVE  Requested'
<1>1. Running(r) /\ made' = made /\ Current(r).do \in Retriers
    BY DEF Fetch, At, doneVars, Retriers
<1>2. Proceed(r) \/ Fail(r, "fetch")
    BY DEF Fetch
<1> QED
    BY <1>1, <1>2, Outcome

LEMMA LicenceKeeps ==
    ASSUME Requested, NEW r \in Requests,
           \/ UnlessActive(r) \/ UnlessPending(r) \/ RegisterInit(r) \/ LicenceServer(r)
           \/ SetKey(r) \/ SaveKey(r) \/ SetHash(r) \/ SetActive(r)
    PROVE  Requested'
<1>1. Running(r) /\ made' = made
    BY DEF UnlessActive, UnlessPending, RegisterInit, LicenceServer, SetKey, SaveKey, SetHash,
        SetActive, At, doneVars
<1>2. Proceed(r) \/ \E code \in Codes : Refuse(r, code)
    BY DEF UnlessActive, UnlessPending, RegisterInit, LicenceServer, SetKey, SaveKey, SetHash,
        SetActive, Codes
<1> QED
    BY <1>1, <1>2, Outcome

\* The call itself: what was asked for is no longer among what is left.
LEMMA CallKeeps ==
    ASSUME Requested, NEW r \in Requests, CallWhatsApp(r)
    PROVE  Requested'
<1>1. Running(r) /\ Head(req[r].todo).do = "call"
    BY DEF CallWhatsApp, At, Current
<1>2. CASE Fail(r, "error") /\ made' = made
    BY <1>1, <1>2, Outcome
<1>3. ASSUME made' = [made EXCEPT ![r] = Append(@, Current(r).what)], Proceed(r) \/ Fail(r, "error")
      PROVE  Requested'
  <2> DEFINE n == Append(made[r], Head(req[r].todo).what)
  <2>1. /\ Fresh(req[r], made[r]) /\ req[r].status = "running"
        /\ req \in [Requests -> ReqType] /\ made \in [Requests -> Seq(Names)]
      BY <1>1 DEF Requested, AllFresh, Running
  <2>2. Fresh(Done(req[r]), n) /\ Fresh(Answered(req[r], "500"), n)
      BY <1>1, <2>1, FreshCalled
  <2>3. Failed(req[r], "error") = Answered(req[r], "500")
      BY DEF Failed, Again
  <2>4. PICK x : Fresh(x, n) /\ req' = [req EXCEPT ![r] = x]
      BY <1>3, <2>2, <2>3 DEF Proceed, Fail
  <2>5. made' = [made EXCEPT ![r] = n]
      BY <1>3 DEF Current
  <2> HIDE DEF n
  <2>6. x \in ReqType /\ n \in Seq(Names)
      BY <2>4 DEF Fresh
  <2>7. /\ req' \in [Requests -> ReqType] /\ made' \in [Requests -> Seq(Names)]
        /\ \A p \in Requests : \/ p = r /\ req'[p] = x /\ made'[p] = n
                               \/ p # r /\ req'[p] = req[p] /\ made'[p] = made[p]
      BY <2>1, <2>4, <2>5, <2>6
  <2>8. \A p \in Requests : Fresh(req'[p], made'[p])
      BY <2>4, <2>7 DEF Requested, AllFresh
  <2>9. AllFresh(req', made')
      BY <2>7, <2>8 DEF AllFresh
  <2> QED
      BY <2>9 DEF Requested
<1> QED
    BY <1>2, <1>3 DEF CallWhatsApp

LEMMA HandleKeeps ==
    ASSUME Requested, NEW r \in Requests, Handle(r) \/ Fetch(r)
    PROVE  Requested'
BY RouteKeeps, EnsureKeeps, RetryKeeps, ServiceKeeps, SendKeeps, LicenceKeeps, CallKeeps, FetchKeeps
   DEF Handle

LEMMA EnvironmentKeeps ==
    ASSUME Requested, Environment
    PROVE  Requested'
<1>1. CASE Restart
  <2>1. req' = [r \in Requests |-> IF Running(r) THEN Answered(req[r], "cut") ELSE req[r]] /\ made' = made
      BY <1>1 DEF Restart, doneVars
  <2>2. ASSUME NEW r \in Requests
        PROVE  Fresh(Answered(req[r], "cut"), made[r]) /\ Fresh(req[r], made[r])
      BY FreshAnswered DEF Requested, AllFresh, Codes
  <2>3. \A r \in Requests : Fresh(req'[r], made[r]) /\ req'[r] \in ReqType
    <3>1. \A r \in Requests : req'[r] = Answered(req[r], "cut") \/ req'[r] = req[r]
        BY <2>1
    <3> QED
        BY <2>2, <3>1 DEF Fresh
  <2>4. AllFresh(req', made)
    <3> DEFINE f == req'
    <3>1. f = [r \in Requests |-> f[r]]
        BY <2>1
    <3> HIDE DEF f
    <3>2. AllFresh(f, made)
        BY <2>3, <3>1 DEF AllFresh, Requested, f
    <3> QED
        BY <3>2 DEF f
  <2> QED
      BY <2>1, <2>4 DEF Requested
<1>2. CASE StartClient \/ ConnectionChanges
  <2>1. made' = made /\ (req' = req \/ req' = Removed(req))
      BY <1>2 DEF StartClient, ConnectionChanges, doneVars
  <2> QED
      BY <2>1, TakenAway DEF Requested
<1>3. CASE \E v \in Voters, i \in {"this", "other"}, vote \in 1..2 : SavePollVote(v, i, vote)
  <2>1. made' = made /\ req' = req
      BY <1>3 DEF SavePollVote, doneVars
  <2> QED
      BY <2>1 DEF Requested
<1> QED
    BY <1>1, <1>2, <1>3 DEF Environment

(***************************************************************************)
(* What a request asked for, what it has left to ask for and whether it    *)
(* may be tried again, in every reachable state.                           *)
(***************************************************************************)
THEOREM RequestsOrdered == Spec => []Requested
<1>1. Init => Requested
  <2> SUFFICES ASSUME Init PROVE Requested
      OBVIOUS
  <2>1. Idle \in ReqType /\ Idle.status = "idle" /\ <<>> \in Seq(Names)
    <3>1. <<>> \in Seq(StepType) /\ <<>> \in Seq(Names) /\ 0 \in Nat
        OBVIOUS
    <3> QED
        BY <3>1 DEF Idle, ReqType
  <2>2. Fresh(Idle, <<>>)
    <3>1. 1..Len(<<>>) = {}
        OBVIOUS
    <3>2. Idle.status # "running"
        BY <2>1
    <3> QED
        BY <2>1, <3>1, <3>2 DEF Fresh
  <2> QED
      BY <2>1, <2>2 DEF Init, Requested, AllFresh
<1>2. Requested /\ [Next]_vars => Requested'
  <2> SUFFICES ASSUME Requested, [Next]_vars
               PROVE  Requested'
      OBVIOUS
  <2>1. ASSUME NEW r \in Requests, NEW q \in Inputs, Arrive(r, q)
        PROVE  Requested'
      BY <2>1, ArriveKeeps
  <2>2. ASSUME NEW r \in Requests, Handle(r) \/ Fetch(r)
        PROVE  Requested'
      BY <2>2, HandleKeeps
  <2>3. CASE Environment
      BY <2>3, EnvironmentKeeps
  <2>4. CASE UNCHANGED vars
      BY <2>4 DEF vars, doneVars, Requested
  <2> QED
      BY <2>1, <2>2, <2>3, <2>4 DEF Next
<1> QED
    BY <1>1, <1>2, PTL DEF Spec

(***************************************************************************)
(* However often a send is tried again, and whatever becomes of the client *)
(* meanwhile, no request asks WhatsApp for the same change twice.          *)
(***************************************************************************)
THEOREM CallsOnce == Spec => []EachCallOnce
<1>1. Requested => EachCallOnce
  <2> SUFFICES ASSUME Requested, NEW r \in Requests, NEW i \in DOMAIN made[r], NEW j \in DOMAIN made[r],
                      made[r][i] = made[r][j]
               PROVE  i = j
      BY DEF EachCallOnce
  <2>1. DOMAIN made[r] = 1..Len(made[r])
      BY DEF Requested, AllFresh
  <2> QED
      BY <2>1 DEF Requested, AllFresh, Fresh
<1> QED
    BY <1>1, RequestsOrdered, PTL

=============================================================================
