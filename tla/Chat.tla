-------------------------------- MODULE Chat --------------------------------
(***************************************************************************)
(* The internal chat (ChatService): one group conversation, and the direct *)
(* conversations of two users.  A conversation is read with its            *)
(* participants and saved with them (cascade), a message and a participant *)
(* are read and saved whole, so what another request changed in between is *)
(* written back.                                                           *)
(***************************************************************************)
EXTENDS Naturals, FiniteSets

CONSTANTS ChatUsers, Founder,  \* users; who creates the group
          MaxMessages,         \* bound: messages of the group
          MaxJoins,            \* bound: rows of chat_participants
          ChatJobs,            \* requests at work
          MaxChatRequests      \* bound

ASSUME ChatAssumption ==
    /\ Founder \in ChatUsers
    /\ MaxMessages \in Nat \ {0} /\ MaxJoins \in Nat \ {0} /\ MaxChatRequests \in Nat

VARIABLES group,    \* the conversation: its state and preview
          member,   \* its participants, id 0 for none
          chat,     \* its messages
          sent,     \* how many were inserted
          direct,   \* direct conversations of two users, with participants or yet bare
          chatJob,
          joins,    \* participant rows inserted
          meant,    \* history: who was added and not removed
          revived,  \* history: participants a save brought back
          before,   \* history: user -> messages older than its membership
          miscounted, \* history: users whose counter or whose readBy was written from an
                      \* old copy, missed, or crossed by a send, since they last read
          withdrawn,  \* history: messages deleted for everyone
          rewritten,  \* history: messages saved from an old copy
          oldPreview, \* history: the preview was saved from an old copy, by a send whose
                      \* message was deleted or was not the last by then, or not at all
          hidden,     \* history: messages and the users who deleted them for themselves
          races,      \* history: direct conversations begun while another was
          chatRequests

chatVars == <<group, member, chat, sent, direct, chatJob, joins, meant, revived, before,
              miscounted, withdrawn, rewritten, oldPreview, hidden, races, chatRequests>>

MessageIds == 1 .. MaxMessages
NoPreview == 0   \* the preview of no message, and of one that was deleted
DeletedPreview == MaxMessages + 1
Absent == [id |-> 0, admin |-> FALSE, unread |-> 0]
Member == [id : 0 .. MaxJoins, admin : BOOLEAN, unread : 0 .. MaxMessages]
NoMessage == [here |-> FALSE, sender |-> Founder, readBy |-> {}, deleted |-> FALSE,
              deletedFor |-> {}]
ChatMessage == [here : BOOLEAN, sender : ChatUsers, readBy : SUBSET ChatUsers,
                deleted : BOOLEAN, deletedFor : SUBSET ChatUsers]
IdleChat == [step |-> "idle", user |-> Founder, msg |-> 1, target |-> Founder,
             preview |-> NoPreview, none |-> FALSE,
             members |-> [u \in ChatUsers |-> Absent], copy |-> NoMessage]

Ids == {m \in MessageIds : chat[m].here}
LastMessage == CHOOSE m \in Ids : \A n \in Ids : n <= m
In(u) == member[u].id # 0
InGroup == {u \in ChatUsers : In(u)}
AtStep(steps) == {j \in ChatJobs : chatJob[j].step \in steps}
Counting == {"sendSave", "sendCount"}

\* createGroup: the founder and all others, and no direct conversation yet
ChatInit ==
    /\ group = [here |-> TRUE, preview |-> NoPreview]
    /\ \E others \in SUBSET (ChatUsers \ {Founder}) :
          /\ member = [u \in ChatUsers |-> IF u \in others \union {Founder}
                                           THEN [id |-> 1, admin |-> u = Founder, unread |-> 0]
                                           ELSE Absent]
          /\ meant = others \union {Founder}
    /\ chat = [m \in MessageIds |-> NoMessage]
    /\ sent = 0 /\ direct = [bare |-> 0, joined |-> 0]
    /\ chatJob = [j \in ChatJobs |-> IdleChat]
    /\ joins = 1
    /\ revived = {} /\ miscounted = {} /\ withdrawn = {} /\ rewritten = {} /\ hidden = {}
    /\ races = 0
    /\ before = [u \in ChatUsers |-> {}]
    /\ oldPreview = FALSE
    /\ chatRequests = 0

Step(j, step) == chatJob' = [chatJob EXCEPT ![j].step = step]
Ends(j) == chatJob' = [chatJob EXCEPT ![j] = IdleChat]

\* getConversation: the request of a participant, with what it read
Reads(j, u, job) ==
    /\ chatJob[j].step = "idle" /\ chatRequests < MaxChatRequests
    /\ group.here /\ In(u)
    /\ chatJob' = [chatJob EXCEPT ![j] = job]
    /\ chatRequests' = chatRequests + 1
Reading(u, step) == [IdleChat EXCEPT !.step = step, !.user = u, !.preview = group.preview,
                                     !.members = member]
Asking(u, step) == [IdleChat EXCEPT !.step = step, !.user = u]

\* conversationRepo.save: the preview and every participant as they were read; a
\* participant that is not in the copy would lose its conversation, which the column
\* forbids, and then nothing is saved
Saves(j, preview) ==
    LET job == chatJob[j] IN
    /\ \A u \in ChatUsers : In(u) => member[u].id = job.members[u].id
    /\ group' = [here |-> TRUE, preview |-> preview]
    /\ member' = job.members
    /\ revived' = revived \union {u \in ChatUsers : ~In(u) /\ job.members[u].id # 0}
    /\ miscounted' = miscounted \union {u \in ChatUsers : member[u] # job.members[u]}
    /\ oldPreview' = (\/ oldPreview \/ group.preview # job.preview
                      \/ /\ job.step = "sendSave"
                         /\ chat[preview].deleted \/ \E m \in Ids : preview < m)

\* messageRepo.save of a row that was read before, inserted again if it was removed
SavesMessage(m, copy, new) ==
    /\ group.here
    /\ chat' = [chat EXCEPT ![m] = new]
    /\ rewritten' = IF chat[m] # copy THEN rewritten \union {m} ELSE rewritten
    /\ miscounted' = miscounted \union
         (IF chat[m].here THEN {u \in ChatUsers : u \in chat[m].readBy <=> u \notin copy.readBy}
          ELSE ChatUsers)

----------------------------------------------------------------------------
(* sendMessage *)

Send(j, u) ==
    /\ Reads(j, u, Reading(u, "sendInsert"))
    /\ UNCHANGED <<sent, group, member, chat, direct, joins, meant, revived, before, miscounted,
                   withdrawn, rewritten, oldPreview, hidden, races>>
SendInsert(j) ==
    LET u == chatJob[j].user IN
    /\ chatJob[j].step = "sendInsert" /\ group.here
    /\ sent < MaxMessages /\ sent' = sent + 1
    /\ chat' = [chat EXCEPT ![sent + 1] = [NoMessage EXCEPT !.here = TRUE, !.sender = u,
                                                            !.readBy = {u}]]
    /\ chatJob' = [chatJob EXCEPT ![j].step = "sendSave", ![j].msg = sent + 1]
    /\ miscounted' = miscounted \union {chatJob[i].user : i \in AtStep({"readBy"})}
    /\ UNCHANGED <<group, member, direct, joins, meant, revived, before, withdrawn,
                   rewritten, oldPreview, hidden, races, chatRequests>>
SendSave(j) ==
    /\ chatJob[j].step = "sendSave"
    /\ Saves(j, chatJob[j].msg)
    /\ Step(j, "sendCount")
    /\ UNCHANGED <<sent, chat, direct, joins, meant, before, withdrawn, rewritten, hidden, races,
                   chatRequests>>

\* Mutant: the sender too
CountedAll(u) == InGroup

Counted(u) == InGroup \ {u}

SendCount(j) ==
    LET u == chatJob[j].user IN
    /\ chatJob[j].step = "sendCount"
    /\ member' = [v \in ChatUsers |-> IF v \in Counted(u) THEN [member[v] EXCEPT !.unread = @ + 1]
                                      ELSE member[v]]
    /\ miscounted' = miscounted \union {chatJob[i].user : i \in AtStep({"readBy"})}
                       \union (IF chat[chatJob[j].msg].here THEN {} ELSE InGroup)
    /\ Ends(j)
    /\ UNCHANGED <<sent, group, chat, direct, joins, meant, revived, before, withdrawn,
                   rewritten, oldPreview, hidden, races, chatRequests>>

----------------------------------------------------------------------------
(* updateConversation, and deleteConversation with participants and messages *)

Edit(j, u) ==
    /\ Reads(j, u, Reading(u, "editSave"))
    /\ UNCHANGED <<sent, group, member, chat, direct, joins, meant, revived, before, miscounted,
                   withdrawn, rewritten, oldPreview, hidden, races>>
EditSave(j) ==
    /\ chatJob[j].step = "editSave"
    /\ Saves(j, chatJob[j].preview)
    /\ Ends(j)
    /\ UNCHANGED <<sent, chat, direct, joins, meant, before, withdrawn, rewritten, hidden, races,
                   chatRequests>>
DeleteConversation(u) ==
    /\ group.here /\ In(u) /\ member[u].admin
    /\ chatRequests < MaxChatRequests /\ chatRequests' = chatRequests + 1
    /\ group' = [here |-> FALSE, preview |-> NoPreview]
    /\ member' = [v \in ChatUsers |-> Absent]
    /\ chat' = [m \in MessageIds |-> NoMessage]
    /\ meant' = {} /\ withdrawn' = {} /\ revived' = {} /\ hidden' = {}
    /\ UNCHANGED <<sent, direct, chatJob, joins, before, miscounted, rewritten, oldPreview, races>>

----------------------------------------------------------------------------
(* deleteMessageForEveryone, deleteMessageForMe, markAsRead *)

Withdraw(j, u, m) ==
    /\ Reads(j, u, [Reading(u, "withdrawFind") EXCEPT !.msg = m])
    /\ UNCHANGED <<sent, group, member, chat, direct, joins, meant, revived, before, miscounted,
                   withdrawn, rewritten, oldPreview, hidden, races>>
WithdrawFind(j) ==
    LET job == chatJob[j] IN
    /\ job.step = "withdrawFind"
    /\ chat[job.msg].here /\ chat[job.msg].sender = job.user /\ ~chat[job.msg].deleted
    /\ chatJob' = [chatJob EXCEPT ![j].step = "withdrawSave", ![j].copy = chat[job.msg]]
    /\ UNCHANGED <<sent, group, member, chat, direct, joins, meant, revived, before, miscounted,
                   withdrawn, rewritten, oldPreview, hidden, races, chatRequests>>
WithdrawSave(j) ==
    LET job == chatJob[j] IN
    /\ job.step = "withdrawSave"
    /\ SavesMessage(job.msg, job.copy, [job.copy EXCEPT !.deleted = TRUE])
    /\ withdrawn' = withdrawn \union {job.msg}
    /\ Step(j, "withdrawLast")
    /\ UNCHANGED <<sent, group, member, direct, joins, meant, revived, before, oldPreview,
                   hidden, races, chatRequests>>
\* the preview follows when the message is the last one
WithdrawLast(j) ==
    /\ chatJob[j].step = "withdrawLast"
    /\ IF Ids # {} /\ LastMessage = chatJob[j].msg THEN Step(j, "withdrawPreview") ELSE Ends(j)
    /\ UNCHANGED <<sent, group, member, chat, direct, joins, meant, revived, before, miscounted,
                   withdrawn, rewritten, oldPreview, hidden, races, chatRequests>>
WithdrawPreview(j) ==
    /\ chatJob[j].step = "withdrawPreview"
    /\ Saves(j, DeletedPreview)
    /\ Ends(j)
    /\ UNCHANGED <<sent, chat, direct, joins, meant, before, withdrawn, rewritten, hidden, races,
                   chatRequests>>

Hide(j, u, m) ==
    /\ chat[m].here /\ u \notin chat[m].deletedFor
    /\ Reads(j, u, [Asking(u, "hideSave") EXCEPT !.msg = m, !.copy = chat[m]])
    /\ UNCHANGED <<sent, group, member, chat, direct, joins, meant, revived, before, miscounted,
                   withdrawn, rewritten, oldPreview, hidden, races>>
HideSave(j) ==
    LET job == chatJob[j] IN
    /\ job.step = "hideSave"
    /\ SavesMessage(job.msg, job.copy,
                    [job.copy EXCEPT !.deletedFor = @ \union {job.user}])
    /\ hidden' = hidden \union {<<job.msg, job.user>>}
    /\ Ends(j)
    /\ UNCHANGED <<sent, group, member, direct, joins, meant, revived, before, withdrawn,
                   oldPreview, races, chatRequests>>

\* the counter first, and then all messages
MarkAsRead(j, u) ==
    /\ Reads(j, u, Asking(u, "readBy"))
    /\ member' = [member EXCEPT ![u].unread = 0]
    /\ miscounted' = IF AtStep(Counting) # {} THEN miscounted \union {u}
                     ELSE miscounted \ {u}
    /\ UNCHANGED <<sent, group, chat, direct, joins, meant, revived, before, withdrawn,
                   rewritten, oldPreview, hidden, races>>
ReadBy(j) ==
    /\ chatJob[j].step = "readBy"
    /\ chat' = [m \in MessageIds |-> IF chat[m].here
                                     THEN [chat[m] EXCEPT !.readBy = @ \union {chatJob[j].user}]
                                     ELSE chat[m]]
    /\ miscounted' = IF AtStep(Counting) # {} THEN miscounted \union {chatJob[j].user}
                     ELSE miscounted
    /\ Ends(j)
    /\ UNCHANGED <<sent, group, member, direct, joins, meant, revived, before, withdrawn,
                   rewritten, oldPreview, hidden, races, chatRequests>>

----------------------------------------------------------------------------
(* addParticipant, removeParticipant, toggleMute *)

AddParticipant(j, u, v) ==
    /\ ~In(v) /\ joins < MaxJoins
    /\ Reads(j, u, [Asking(u, "addInsert") EXCEPT !.target = v])
    /\ UNCHANGED <<sent, group, member, chat, direct, joins, meant, revived, before, miscounted,
                   withdrawn, rewritten, oldPreview, hidden, races>>
\* (conversationId, userId) is unique
AddInsert(j) ==
    LET v == chatJob[j].target IN
    /\ chatJob[j].step = "addInsert"
    /\ group.here /\ ~In(v) /\ joins < MaxJoins
    /\ joins' = joins + 1
    /\ member' = [member EXCEPT ![v] = [id |-> joins + 1, admin |-> FALSE, unread |-> 0]]
    /\ meant' = meant \union {v}
    /\ revived' = revived \ {v}
    /\ before' = [before EXCEPT ![v] = Ids]
    /\ miscounted' = IF AtStep(Counting) # {} THEN miscounted \union {v} ELSE miscounted \ {v}
    /\ Ends(j)
    /\ UNCHANGED <<sent, group, chat, direct, withdrawn, rewritten, oldPreview, hidden, races,
                   chatRequests>>
RemoveParticipant(j, u, v) ==
    /\ In(v) /\ (u = v \/ member[u].admin)
    /\ Reads(j, u, [Asking(u, "removeDelete") EXCEPT !.target = v, !.members = member])
    /\ UNCHANGED <<sent, group, member, chat, direct, joins, meant, revived, before, miscounted,
                   withdrawn, rewritten, oldPreview, hidden, races>>
RemoveDelete(j) ==
    LET v == chatJob[j].target IN
    /\ chatJob[j].step = "removeDelete"
    /\ IF member[v].id = chatJob[j].members[v].id
       THEN /\ member' = [member EXCEPT ![v] = Absent]
            /\ meant' = meant \ {v} /\ revived' = revived \ {v}
       ELSE UNCHANGED <<member, meant, revived>>
    /\ Ends(j)
    /\ UNCHANGED <<sent, group, chat, direct, joins, before, miscounted, withdrawn, rewritten,
                   oldPreview, hidden, races, chatRequests>>
\* the participant is saved whole, inserted again if it was removed
ToggleMute(j, u) ==
    /\ Reads(j, u, Reading(u, "muteSave"))
    /\ UNCHANGED <<sent, group, member, chat, direct, joins, meant, revived, before, miscounted,
                   withdrawn, rewritten, oldPreview, hidden, races>>
MuteSave(j) ==
    LET u == chatJob[j].user
        copy == chatJob[j].members[u]
    IN
    /\ chatJob[j].step = "muteSave"
    /\ group.here /\ (In(u) => member[u].id = copy.id)
    /\ member' = [member EXCEPT ![u] = copy]
    /\ revived' = IF In(u) THEN revived ELSE revived \union {u}
    /\ miscounted' = IF member[u] = copy THEN miscounted ELSE miscounted \union {u}
    /\ Ends(j)
    /\ UNCHANGED <<sent, group, chat, direct, joins, meant, before, withdrawn, rewritten,
                   oldPreview, hidden, races, chatRequests>>

----------------------------------------------------------------------------
(* createDirect of the two users, by either *)

\* Mutant: finds nothing while a conversation is bare
NotFoundWhileBare == direct.joined = 0 \/ direct.bare > 0

\* findExistingDirect joins the participants, so a bare conversation is not found
NotFound == direct.joined = 0

DirectFind(j) ==
    /\ chatJob[j].step = "idle" /\ chatRequests < MaxChatRequests
    /\ chatRequests' = chatRequests + 1
    /\ NotFound
    /\ chatJob' = [chatJob EXCEPT ![j] = [IdleChat EXCEPT !.step = "directInsert",
                                                         !.none = direct.joined = 0]]
    /\ UNCHANGED <<group, member, chat, sent, direct, joins, meant, revived, before,
                   miscounted, withdrawn, rewritten, oldPreview, hidden, races>>
DirectInsert(j) ==
    /\ chatJob[j].step = "directInsert"
    /\ direct' = [direct EXCEPT !.bare = @ + 1]
    /\ Step(j, "directJoin")
    /\ UNCHANGED <<group, member, chat, sent, joins, meant, revived, before, miscounted,
                   withdrawn, rewritten, oldPreview, hidden, races, chatRequests>>
DirectJoin(j) ==
    /\ chatJob[j].step = "directJoin"
    /\ direct' = [bare |-> direct.bare - 1, joined |-> direct.joined + 1]
    /\ races' = IF chatJob[j].none /\ direct.joined > 0 THEN races + 1 ELSE races
    /\ Ends(j)
    /\ UNCHANGED <<group, member, chat, sent, joins, meant, revived, before, miscounted,
                   withdrawn, rewritten, oldPreview, hidden, chatRequests>>

\* a request is refused by a check or by the database, or dies
ChatEnds(j) ==
    LET job == chatJob[j] IN
    /\ job.step # "idle"
    /\ Ends(j)
    /\ miscounted' = IF job.step \in Counting \union {"readBy"} THEN ChatUsers ELSE miscounted
    /\ oldPreview' = (oldPreview \/ job.step \in {"sendSave", "withdrawLast", "withdrawPreview"})
    /\ UNCHANGED <<sent, group, member, chat, direct, joins, meant, revived, before, withdrawn,
                   rewritten, hidden, races, chatRequests>>

ChatNext ==
    \/ \E u \in ChatUsers : DeleteConversation(u)
    \/ \E j \in ChatJobs :
          \/ SendInsert(j) \/ SendSave(j) \/ SendCount(j) \/ EditSave(j)
          \/ WithdrawFind(j) \/ WithdrawSave(j) \/ WithdrawLast(j) \/ WithdrawPreview(j)
          \/ HideSave(j) \/ ReadBy(j) \/ AddInsert(j) \/ RemoveDelete(j) \/ MuteSave(j)
          \/ DirectFind(j) \/ DirectInsert(j) \/ DirectJoin(j) \/ ChatEnds(j)
          \/ \E u \in ChatUsers :
                \/ Send(j, u) \/ Edit(j, u) \/ MarkAsRead(j, u) \/ ToggleMute(j, u)
                \/ \E m \in MessageIds : Withdraw(j, u, m) \/ Hide(j, u, m)
                \/ \E v \in ChatUsers : AddParticipant(j, u, v) \/ RemoveParticipant(j, u, v)

ChatSpec == ChatInit /\ [][ChatNext]_chatVars

----------------------------------------------------------------------------
(* Properties *)

ChatSteps == {"idle", "sendInsert", "sendSave", "sendCount", "editSave", "withdrawFind",
              "withdrawSave", "withdrawLast", "withdrawPreview", "hideSave", "readBy",
              "addInsert", "removeDelete", "muteSave", "directInsert", "directJoin"}

ChatTypeOK ==
    /\ group \in [here : BOOLEAN, preview : 0 .. DeletedPreview]
    /\ member \in [ChatUsers -> Member]
    /\ chat \in [MessageIds -> ChatMessage]
    /\ sent \in 0 .. MaxMessages
    /\ direct \in [bare : 0 .. MaxChatRequests, joined : 0 .. MaxChatRequests]
    /\ chatJob \in [ChatJobs ->
         [step : ChatSteps, user : ChatUsers, msg : MessageIds, target : ChatUsers,
          preview : 0 .. DeletedPreview, none : BOOLEAN, members : [ChatUsers -> Member],
          copy : ChatMessage]]
    /\ joins \in 0 .. MaxJoins /\ chatRequests \in 0 .. MaxChatRequests
    /\ meant \subseteq ChatUsers /\ revived \subseteq ChatUsers /\ miscounted \subseteq ChatUsers
    /\ before \in [ChatUsers -> SUBSET MessageIds]
    /\ withdrawn \subseteq MessageIds /\ rewritten \subseteq MessageIds
    /\ hidden \subseteq MessageIds \X ChatUsers
    /\ oldPreview \in BOOLEAN /\ races \in Nat

Unseen(u) == {m \in Ids \ before[u] : u \notin chat[m].readBy}

\* A participant's unread counter is the number of messages of others it has not
\* read since it joined, unless a send or another's reading crossed its own, or an old
\* copy was saved over the counter or over readBy since it last read.
UnreadHasCause ==
    \A u \in InGroup \ miscounted :
        AtStep(Counting \union {"readBy"}) = {} =>
            member[u].unread = Cardinality(Unseen(u))

\* A message deleted for everyone, or by a user for itself, stays so, unless a request
\* saved an older copy of it over that.
DeletionHolds ==
    \A m \in Ids \ rewritten :
        /\ m \in withdrawn => chat[m].deleted
        /\ \A u \in ChatUsers : <<m, u>> \in hidden => u \in chat[m].deletedFor

\* The participants are those who were added and not removed, unless a save brought
\* one back; nobody added is dropped.
MembersHaveCause ==
    /\ meant \subseteq InGroup
    /\ InGroup \subseteq meant \union revived

\* The preview is of the last message, unless a request is about to save it, saved
\* an old one, or saved its message after that was deleted for everyone or after a later
\* one was inserted.
PreviewHasCause ==
    Ids # {} /\ ~oldPreview /\ LastMessage \notin rewritten
    /\ AtStep({"sendSave", "withdrawLast", "withdrawPreview"}) = {} =>
        group.preview = IF chat[LastMessage].deleted THEN DeletedPreview ELSE LastMessage

\* Two users have two direct conversations only when both asked for one at once.
DirectOnce == direct.joined <= 1 + races

\* What the chat shows is what its users did (the five properties above).
ChatFollowsUsers ==
    UnreadHasCause /\ DeletionHolds /\ MembersHaveCause /\ PreviewHasCause /\ DirectOnce

----------------------------------------------------------------------------
(* The inductive invariant behind ChatFollowsUsers *)

\* messages of which no old copy was saved
Current == Ids \ rewritten

\* What is known of messages is of some that were sent.
PastIsPast ==
    /\ Ids \union withdrawn \subseteq 1 .. sent
    /\ \A u \in ChatUsers : before[u] \subseteq 1 .. sent
    /\ \A h \in hidden : h[1] <= sent
    /\ group.preview \in MessageIds => group.preview <= sent

\* What a request holds was there when it read it; since then the messages it knew may
\* have gone with the conversation, but none came between them.
ChatJobKnows(job) ==
    /\ job.preview \in MessageIds => job.preview <= sent
    /\ job.step \in {"sendSave", "withdrawSave", "withdrawLast", "withdrawPreview", "hideSave"}
          => job.msg <= sent
    /\ job.step \in {"withdrawSave", "hideSave"} => job.copy.here
    /\ job.step \in {"sendSave", "withdrawLast", "withdrawPreview"} /\ job.msg \notin Ids
          => \A m \in Current : job.msg < m
    /\ job.step \in {"withdrawLast", "withdrawPreview"} /\ job.msg \in Current
          => chat[job.msg].deleted
    /\ job.step = "withdrawPreview" => \A m \in Current : job.msg < m => m # job.preview
    /\ job.step \in {"directInsert", "directJoin"} => job.none

\* A direct conversation that is bare has a request at work on it, or lost one; each is of
\* a request of its own.
DirectsAreCounted ==
    /\ IsFiniteSet(AtStep({"directInsert"})) /\ IsFiniteSet(AtStep({"directJoin"}))
    /\ Cardinality(AtStep({"directJoin"})) <= direct.bare
    /\ Cardinality(AtStep({"directInsert"})) + direct.bare + direct.joined <= chatRequests

\* A counter, and any copy of it, counts messages whose sends are done.
UnreadIsSent ==
    /\ IsFiniteSet(AtStep(Counting))
    /\ \A u \in ChatUsers :
          /\ member[u].unread + Cardinality(AtStep(Counting)) <= sent
          /\ \A j \in ChatJobs :
                chatJob[j].members[u].unread + Cardinality(AtStep(Counting)) <= sent

\* At every step the counter of u is behind by the sends that are to be counted; while a
\* reading of u is at work there are none.
UnreadFollows(u) ==
    In(u) /\ u \notin miscounted =>
        IF \E j \in AtStep({"readBy"}) : chatJob[j].user = u
        THEN member[u].unread = 0 /\ AtStep(Counting) = {}
        ELSE Cardinality(Unseen(u)) =
                member[u].unread
                + Cardinality({j \in AtStep(Counting) : chatJob[j].user # u})

\* The preview is of the last message, or the request that will save it is at work.
PreviewFollows(m) ==
    (\A n \in Ids : n <= m) /\ ~oldPreview =>
        \/ group.preview = IF chat[m].deleted THEN DeletedPreview ELSE m
        \/ \E j \in AtStep({"sendSave", "withdrawLast", "withdrawPreview"}) : chatJob[j].msg = m

ChatInv ==
    /\ ChatTypeOK /\ PastIsPast
    /\ \A j \in ChatJobs : ChatJobKnows(chatJob[j])
    /\ DirectsAreCounted /\ UnreadIsSent
    /\ DeletionHolds /\ MembersHaveCause /\ DirectOnce
    /\ \A u \in ChatUsers : UnreadFollows(u)
    /\ \A m \in Current : PreviewFollows(m)
=============================================================================
