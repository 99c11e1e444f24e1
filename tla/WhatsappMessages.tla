-------------------------- MODULE WhatsappMessages --------------------------
(***************************************************************************)
(* The messages of one chat of a WhatsApp connection: rows written by the  *)
(* user's requests and by Evolution's webhooks, which come late, twice or  *)
(* out of order.  A message the system sends is reported by a webhook too; *)
(* a find by externalId is all that keeps it from being stored twice.      *)
(***************************************************************************)
EXTENDS Naturals, FiniteSets

CONSTANTS OwnIds,        \* external ids of messages the connection sends
          ContactIds,    \* and of messages the contact sends
          Senders,       \* phones that react
          MaxRows,       \* bound: rows ever inserted
          MessageJobs,   \* requests and webhook handlers at work
          MaxAsked,      \* bound: requests of users
          MaxReports     \* bound: status reports, reactions, repeated webhooks

ASSUME WhatsappMessagesAssumption ==
    /\ OwnIds \intersect ContactIds = {} /\ OwnIds # {} /\ Senders # {}
    /\ MaxRows \in Nat \ {0} /\ MaxReports \in Nat /\ MaxAsked \in Nat

VARIABLES message,   \* rows of whatsapp_messages, by order of insertion
          deletedChat, \* rows a deleteChat removed
          upserts, reports, reactions,   \* webhooks on their way
          messageJob,
          revoked,   \* messages Evolution deleted for everyone
          lastReport, lastReaction,      \* history: what was handled last
          raced,     \* history: messages looked for by two at once
          overtaken, \* history: messages whose row was not there for a webhook, was
                     \* written from an old copy or from two copies at once
          reportsMade, asked

messageVars == <<message, deletedChat, upserts, reports, reactions, messageJob, revoked,
                 lastReport, lastReaction, raced, overtaken, reportsMade, asked>>

ExternalIds == OwnIds \union ContactIds
Rows == 1 .. MaxRows
MessageStatus == {"SENT", "DELIVERED", "READ"}
Emoji == {"none", "like"}
NoReactions == [s \in Senders |-> "none"]
MessageRow == [state : {"new", "here", "gone"}, ext : ExternalIds, status : MessageStatus,
               readByUser : BOOLEAN, replyLater : BOOLEAN, deleted : BOOLEAN,
               reactions : [Senders -> Emoji]]
AnId == CHOOSE e \in ExternalIds : TRUE
NewRow == [state |-> "new", ext |-> AnId, status |-> "SENT", readByUser |-> FALSE,
           replyLater |-> FALSE, deleted |-> FALSE, reactions |-> NoReactions]
IdleMessageJob == [step |-> "idle", ext |-> AnId, id |-> 1, copy |-> NewRow, flag |-> FALSE,
                   sender |-> CHOOSE s \in Senders : TRUE, emoji |-> "none"]

Stored == {m \in Rows : message[m].state = "here"}
RowsOf(e) == {m \in Stored : message[m].ext = e}
Latest(ms) == CHOOSE m \in ms : \A n \in ms : n <= m
Working(e) == {j \in MessageJobs : messageJob[j].step # "idle" /\ messageJob[j].ext = e}

WhatsappMessagesInit ==
    /\ message = [m \in Rows |-> NewRow]
    /\ deletedChat = {}
    /\ upserts = {} /\ reports = {} /\ reactions = {}
    /\ messageJob = [j \in MessageJobs |-> IdleMessageJob]
    /\ revoked = {} /\ raced = {} /\ overtaken = {}
    /\ lastReport = [e \in ExternalIds |-> "SENT"]
    /\ lastReaction = [e \in ExternalIds |-> NoReactions]
    /\ reportsMade = 0 /\ asked = 0

Asks == asked < MaxAsked /\ asked' = asked + 1

wires == <<upserts, reports, reactions>>
lasts == <<lastReport, lastReaction>>

Works(j, job) == messageJob' = [messageJob EXCEPT ![j] = job]
Rests(j) == Works(j, IdleMessageJob)

\* repository.save of a new row
InsertMessage(e) ==
    \E m \in Rows :
        /\ message[m].state = "new" /\ \A n \in 1 .. m - 1 : message[n].state # "new"
        /\ message' = [message EXCEPT ![m] =
                         [NewRow EXCEPT !.state = "here", !.ext = e,
                            !.status = IF e \in OwnIds THEN "SENT" ELSE "DELIVERED",
                            !.readByUser = e \in OwnIds]]

\* ids the wire or a row does not know yet
Unused(e) == /\ e \notin upserts /\ Working(e) = {} /\ e \notin overtaken
             /\ \A m \in Rows : message[m].state # "new" => message[m].ext # e

----------------------------------------------------------------------------
(* Requests *)

\* sendMessage, sendMedia, sendAudio and each message of a broadcast: Evolution is asked
\* first, and its webhook is on its way before the answer is; the answer may be lost ...
Send(j, e) ==
    /\ messageJob[j].step = "idle" /\ e \in OwnIds /\ Unused(e)
    /\ upserts' = upserts \union {e}
    /\ \/ Works(j, [IdleMessageJob EXCEPT !.step = "send", !.ext = e])
       \/ Rests(j)
    /\ Asks
    /\ UNCHANGED <<message, deletedChat, reports, reactions, revoked, lasts, raced,
                   overtaken, reportsMade>>
\* ... and then the row is inserted, after a find of the contact's name and no other
SendStores(j) ==
    LET e == messageJob[j].ext IN
    /\ messageJob[j].step = "send"
    /\ InsertMessage(e)
    /\ overtaken' = IF lastReport[e] # "SENT" \/ lastReaction[e] # NoReactions
                       \/ e \in revoked
                    THEN overtaken \union {e} ELSE overtaken
    /\ raced' = IF RowsOf(e) # {} THEN raced \union {e} ELSE raced
    /\ Rests(j)
    /\ UNCHANGED <<deletedChat, wires, revoked, lasts, reportsMade, asked>>

\* deleteMessageForEveryone: the row is read, Evolution revokes the message ...
Revoke(j, m) ==
    LET e == message[m].ext IN
    /\ messageJob[j].step = "idle"
    /\ m \in Stored /\ e \in OwnIds /\ ~message[m].deleted
    /\ revoked' = revoked \union {e}
    /\ Works(j, [IdleMessageJob EXCEPT !.step = "revoke", !.ext = e, !.id = m,
                                       !.copy = message[m]])
    /\ Asks
    /\ UNCHANGED <<message, deletedChat, wires, lasts, raced, overtaken, reportsMade>>
\* ... and the copy is saved whole: what changed meanwhile is undone, a row that was
\* removed comes back
RevokeSaves(j) ==
    LET job == messageJob[j] IN
    /\ job.step = "revoke"
    /\ message' = [message EXCEPT ![job.id] = [job.copy EXCEPT !.deleted = TRUE]]
    /\ overtaken' = IF message[job.id] # job.copy THEN overtaken \union {job.ext}
                    ELSE overtaken
    /\ Rests(j)
    /\ UNCHANGED <<deletedChat, wires, revoked, lasts, raced, reportsMade, asked>>

MarkChatRead ==
    /\ message' = [m \in Rows |-> IF m \in Stored /\ message[m].ext \in ContactIds
                                  THEN [message[m] EXCEPT !.readByUser = TRUE]
                                  ELSE message[m]]
    /\ Asks
    /\ UNCHANGED <<deletedChat, wires, messageJob, revoked, lasts, raced, overtaken, reportsMade>>
\* markChatUnread finds the contact's last message, toggleReplyLater the chat's last ...
FindsLast(j, step, last) ==
    /\ messageJob[j].step = "idle" /\ last # {}
    /\ Works(j, [IdleMessageJob EXCEPT !.step = step, !.ext = message[Latest(last)].ext,
                   !.id = Latest(last), !.flag = ~message[Latest(last)].replyLater])
    /\ Asks
    /\ UNCHANGED <<message, deletedChat, wires, revoked, lasts, raced, overtaken, reportsMade>>
MarkChatUnread(j) ==
    FindsLast(j, "unread", {m \in Stored : message[m].ext \in ContactIds})
ToggleReplyLater(j) == FindsLast(j, "later", Stored)
\* ... and an UPDATE writes what was found: on that row, or the same on all
MarksUnread(j) ==
    LET id == messageJob[j].id IN
    /\ messageJob[j].step = "unread"
    /\ message' = IF id \in Stored THEN [message EXCEPT ![id].readByUser = FALSE] ELSE message
    /\ Rests(j)
    /\ UNCHANGED <<deletedChat, wires, revoked, lasts, raced, overtaken, reportsMade, asked>>
TogglesLater(j) ==
    /\ messageJob[j].step = "later"
    /\ message' = [m \in Rows |->
                     IF m \in Stored THEN [message[m] EXCEPT !.replyLater = messageJob[j].flag]
                     ELSE message[m]]
    /\ Rests(j)
    /\ UNCHANGED <<deletedChat, wires, revoked, lasts, raced, overtaken, reportsMade, asked>>
DeleteChat ==
    /\ Stored # {}
    /\ message' = [m \in Rows |-> IF m \in Stored THEN [message[m] EXCEPT !.state = "gone"]
                                  ELSE message[m]]
    /\ deletedChat' = deletedChat \union Stored
    /\ Asks
    /\ UNCHANGED <<wires, messageJob, revoked, lasts, raced, overtaken, reportsMade>>

----------------------------------------------------------------------------
(* Evolution (external) *)

\* the contact, or the owner's phone, writes a message
PhoneWrites(e) ==
    /\ Unused(e)
    /\ upserts' = upserts \union {e}
    /\ UNCHANGED <<message, deletedChat, reports, reactions, messageJob, revoked, lasts,
                   raced, overtaken, reportsMade, asked>>
Reports(e, status) ==
    /\ e \in OwnIds /\ ~Unused(e) /\ reportsMade < MaxReports
    /\ reports' = reports \union {<<e, status>>}
    /\ reportsMade' = reportsMade + 1
    /\ UNCHANGED <<message, deletedChat, upserts, reactions, messageJob, revoked, lasts,
                   raced, overtaken, asked>>
Reacts(e, s, emoji) ==
    /\ ~Unused(e) /\ reportsMade < MaxReports
    /\ reactions' = reactions \union {<<e, s, emoji>>}
    /\ reportsMade' = reportsMade + 1
    /\ UNCHANGED <<message, deletedChat, upserts, reports, messageJob, revoked, lasts,
                   raced, overtaken, asked>>

----------------------------------------------------------------------------
(* Webhooks *)

\* Mutant: looks among the contact's messages
KnownToContact(e) == \E m \in RowsOf(e) : ~message[m].readByUser

Known(e) == RowsOf(e) # {}

\* handleMessagesUpsert looks for an own message; a delivery may be repeated
HookFinds(j, e) ==
    /\ e \in upserts /\ e \in OwnIds /\ messageJob[j].step = "idle"
    /\ \/ upserts' = upserts \ {e} /\ UNCHANGED reportsMade
       \/ reportsMade < MaxReports /\ reportsMade' = reportsMade + 1 /\ UNCHANGED upserts
    /\ IF Known(e) THEN Rests(j)
       ELSE Works(j, [IdleMessageJob EXCEPT !.step = "hook", !.ext = e,
                                            !.flag = RowsOf(e) = {}])
    /\ UNCHANGED <<message, deletedChat, reports, reactions, revoked, lasts, raced,
                  overtaken, asked>>
\* ... and stores it when there was none
HookStores(j) ==
    LET e == messageJob[j].ext IN
    /\ messageJob[j].step = "hook"
    /\ InsertMessage(e)
    /\ raced' = IF RowsOf(e) # {} /\ messageJob[j].flag THEN raced \union {e} ELSE raced
    /\ overtaken' = IF lastReport[e] # "SENT" \/ lastReaction[e] # NoReactions
                       \/ e \in revoked
                    THEN overtaken \union {e} ELSE overtaken
    /\ Rests(j)
    /\ UNCHANGED <<deletedChat, wires, revoked, lasts, reportsMade, asked>>
\* a message of the contact is stored as often as it comes
HookInbound(e) ==
    /\ e \in upserts /\ e \in ContactIds
    /\ \/ upserts' = upserts \ {e} /\ UNCHANGED reportsMade
       \/ reportsMade < MaxReports /\ reportsMade' = reportsMade + 1 /\ UNCHANGED upserts
    /\ InsertMessage(e)
    /\ overtaken' = IF lastReaction[e] # NoReactions THEN overtaken \union {e} ELSE overtaken
    /\ UNCHANGED <<deletedChat, reports, reactions, messageJob, revoked, lasts, raced, asked>>

\* handleMessagesUpdate: one UPDATE of whatever rows there are
HookReport(e, status) ==
    /\ <<e, status>> \in reports
    /\ reports' = reports \ {<<e, status>>}
    /\ message' = [m \in Rows |-> IF m \in RowsOf(e) THEN [message[m] EXCEPT !.status = status]
                                  ELSE message[m]]
    /\ lastReport' = [lastReport EXCEPT ![e] = status]
    /\ overtaken' = IF RowsOf(e) = {} THEN overtaken \union {e} ELSE overtaken
    /\ UNCHANGED <<deletedChat, upserts, reactions, messageJob, revoked, lastReaction,
                  raced, reportsMade, asked>>

\* handleReaction: reads the reactions of a row ...
HookReads(j, e, s, emoji) ==
    /\ <<e, s, emoji>> \in reactions /\ messageJob[j].step = "idle"
    /\ reactions' = reactions \ {<<e, s, emoji>>}
    /\ \/ /\ RowsOf(e) = {}
          /\ overtaken' = overtaken \union {e} /\ Rests(j)
       \/ \E m \in RowsOf(e) :
             /\ Works(j, [IdleMessageJob EXCEPT !.step = "react", !.ext = e, !.id = m,
                            !.copy.reactions = message[m].reactions,
                            !.sender = s, !.emoji = emoji])
             /\ UNCHANGED overtaken
    /\ UNCHANGED <<message, deletedChat, upserts, reports, revoked, lasts, raced,
                   reportsMade, asked>>

\* Mutant: a phone takes its reaction back by sending the same again
Toggled(old, s, emoji) == [old EXCEPT ![s] = IF @ = emoji THEN "none" ELSE emoji]

WithReaction(old, s, emoji) == [old EXCEPT ![s] = emoji]

\* ... and writes them with this one's
HookReacts(j) ==
    LET job == messageJob[j] IN
    /\ job.step = "react"
    /\ message' = IF job.id \in Stored
                  THEN [message EXCEPT ![job.id].reactions =
                          WithReaction(job.copy.reactions, job.sender, job.emoji)]
                  ELSE message
    /\ lastReaction' = [lastReaction EXCEPT ![job.ext][job.sender] = job.emoji]
    /\ overtaken' = IF job.id \notin Stored \/ message[job.id].reactions # job.copy.reactions
                    THEN overtaken \union {job.ext} ELSE overtaken
    /\ Rests(j)
    /\ UNCHANGED <<deletedChat, wires, revoked, lastReport, raced, reportsMade, asked>>

\* a request or a handler dies, or its call fails after Evolution did what it asked
MessageJobFails(j) ==
    /\ messageJob[j].step # "idle"
    /\ overtaken' = overtaken \union {messageJob[j].ext}
    /\ Rests(j)
    /\ UNCHANGED <<message, deletedChat, wires, revoked, lasts, raced, reportsMade, asked>>

WhatsappMessagesNext ==
    \/ MarkChatRead \/ DeleteChat
    \/ \E e \in ExternalIds :
          \/ PhoneWrites(e) \/ HookInbound(e)
          \/ \E status \in MessageStatus : Reports(e, status) \/ HookReport(e, status)
          \/ \E s \in Senders, emoji \in Emoji : Reacts(e, s, emoji)
    \/ \E j \in MessageJobs :
          \/ MarkChatUnread(j) \/ ToggleReplyLater(j) \/ MarksUnread(j) \/ TogglesLater(j)
          \/ SendStores(j) \/ RevokeSaves(j) \/ HookStores(j) \/ HookReacts(j)
          \/ MessageJobFails(j)
          \/ \E e \in ExternalIds :
                \/ Send(j, e) \/ HookFinds(j, e)
                \/ \E s \in Senders, emoji \in Emoji : HookReads(j, e, s, emoji)
          \/ \E m \in Rows : Revoke(j, m)

WhatsappMessagesSpec == WhatsappMessagesInit /\ [][WhatsappMessagesNext]_messageVars

----------------------------------------------------------------------------
(* Properties *)

WhatsappMessagesTypeOK ==
    /\ message \in [Rows -> MessageRow]
    /\ deletedChat \subseteq Rows
    /\ upserts \subseteq ExternalIds
    /\ reports \subseteq OwnIds \X MessageStatus
    /\ reactions \subseteq ExternalIds \X Senders \X Emoji
    /\ messageJob \in [MessageJobs ->
         [step : {"idle", "send", "revoke", "hook", "react", "unread", "later"},
          ext : ExternalIds, id : Rows,
          copy : MessageRow, flag : BOOLEAN, sender : Senders, emoji : Emoji]]
    /\ revoked \subseteq OwnIds /\ raced \subseteq OwnIds /\ overtaken \subseteq ExternalIds
    /\ lastReport \in [ExternalIds -> MessageStatus]
    /\ lastReaction \in [ExternalIds -> [Senders -> Emoji]]
    /\ reportsMade \in 0 .. MaxReports /\ asked \in 0 .. MaxAsked

\* A message the connection sent is stored once, unless the request and its webhook, or
\* two deliveries of the webhook, looked for it before either stored it, or a row of it
\* came back; and a row removed with its chat comes back only by a delete-for-everyone
\* that had read it.
OwnMessageOnce ==
    /\ \A e \in OwnIds : Cardinality(RowsOf(e)) > 1 =>
          e \in raced \/ RowsOf(e) \intersect deletedChat # {}
    /\ \A m \in deletedChat \intersect Stored : message[m].deleted

\* A message no handler is at work on says the last status Evolution reported and every
\* phone's last reaction to be written, and that it was deleted when Evolution revoked
\* it, unless a webhook found no row, or a row was written from a copy that something
\* else had changed.
LastWordHolds ==
    \A m \in Stored :
        LET e == message[m].ext IN
        e \notin overtaken \union raced /\ Working(e) = {} =>
            /\ e \in OwnIds => message[m].status = lastReport[e]
            /\ Cardinality(RowsOf(e)) = 1 => message[m].reactions = lastReaction[e]
            /\ e \in revoked => message[m].deleted

\* The rows of a chat are what Evolution told of it (OwnMessageOnce, LastWordHolds),
\* but for the races and the losses these two name.
MessagesFollowWebhooks == OwnMessageOnce /\ LastWordHolds
----------------------------------------------------------------------------
(* The inductive invariant behind MessagesFollowWebhooks *)

\* What a handler or a request holds is of a row of the message it is about; who found no
\* row of an own message, or asked nobody, stores one.
MessageJobFollows(job) ==
    /\ job.step \in {"send", "hook"} => job.ext \in OwnIds
    /\ job.step = "hook" => job.flag
    /\ job.step \in {"revoke", "react"} => /\ message[job.id].state # "new"
                                           /\ message[job.id].ext = job.ext
    /\ job.step = "revoke" => /\ job.ext \in OwnIds
                              /\ job.copy.state = "here" /\ job.copy.ext = job.ext

\* Rows go with their chat only, and come back deleted for everyone.
RowLeavesWithChat(m) ==
    /\ message[m].state = "gone" => m \in deletedChat
    /\ m \in deletedChat => /\ message[m].state # "new"
                            /\ m \in Stored => message[m].deleted

\* Two rows of an own message are of two who looked for it at once, or one came back;
\* and then it was written from an old copy.
RowIsAlone(e) ==
    \A m, n \in RowsOf(e) :
        /\ e \in raced \/ m = n \/ {m, n} \intersect deletedChat # {}
        /\ e \in raced \union overtaken \/ m = n

\* A row keeps to the last report, the last reactions and the revocation at every step,
\* the one that revokes excepted.
RowFollows(m) ==
    LET e == message[m].ext IN
    e \notin overtaken \union raced =>
        /\ e \in OwnIds => message[m].status = lastReport[e]
        /\ (\A n \in RowsOf(e) : n = m) => message[m].reactions = lastReaction[e]
        /\ e \in revoked => \/ message[m].deleted
                            \/ \E j \in Working(e) : /\ messageJob[j].step = "revoke"
                                                     /\ messageJob[j].id = m

MessagesInv ==
    /\ WhatsappMessagesTypeOK
    /\ \A j \in MessageJobs : MessageJobFollows(messageJob[j])
    /\ \A m \in Rows : RowLeavesWithChat(m)
    /\ \A e \in OwnIds : RowIsAlone(e)
    /\ \A m \in Stored : RowFollows(m)
=============================================================================
