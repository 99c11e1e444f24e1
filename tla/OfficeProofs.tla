---------------------------- MODULE OfficeProofs ----------------------------
(***************************************************************************)
(* Chat.tla: the conversations are what their users made of them, but for  *)
(* the causes ChatFollowsUsers names, for any number of users, messages    *)
(* and requests.  The inductive invariant ties the counters, the preview   *)
(* and the direct conversations to what requests at work have yet to write.*)
(* ChatGateway.tla: who is online and what every client shows, whatever    *)
(* overlaps.  Visits.tla: what each request knows of the rows it read, and *)
(* that visits and appointments keep in step but for the steps a request   *)
(* has yet to do.  CabinetDesk.tla: the board and the figures of the       *)
(* visits, and which voters a card and a dashboard show.  MCOffice.tla: the*)
(* same of the composition that TLC checks; what it needs of the voters and*)
(* of the help records is in VotersProofs.tla.                             *)
(***************************************************************************)
EXTENDS MCOffice, VotersProofs

-----------------------------------------------------------------------------
(* Chat.tla: requests, and what a step leaves alone. *)

ChatJob == [step : ChatSteps, user : ChatUsers, msg : MessageIds, target : ChatUsers,
            preview : 0 .. DeletedPreview, none : BOOLEAN, members : [ChatUsers -> Member],
            copy : ChatMessage]

LEMMA ChatTypes ==
    ASSUME ChatTypeOK
    PROVE  /\ group.here \in BOOLEAN /\ group.preview \in 0 .. DeletedPreview
           /\ member \in [ChatUsers -> Member] /\ chat \in [MessageIds -> ChatMessage]
           /\ sent \in 0 .. MaxMessages /\ chatJob \in [ChatJobs -> ChatJob]
           /\ direct.bare \in Nat /\ direct.joined \in Nat
           /\ direct = [bare |-> direct.bare, joined |-> direct.joined]
           /\ chatRequests \in 0 .. MaxChatRequests /\ races \in Nat
           /\ MaxMessages \in Nat \ {0} /\ DeletedPreview = MaxMessages + 1
           /\ MessageIds = 1 .. MaxMessages /\ Ids \subseteq MessageIds
           /\ joins \in 0 .. MaxJoins /\ MaxJoins \in Nat
  BY ChatAssumption DEF ChatTypeOK, ChatJob, DeletedPreview, MessageIds, Ids

LEMMA ChatJobIs ==
    ASSUME NEW job \in ChatJob, NEW step \in ChatSteps
    PROVE  /\ [job EXCEPT !.step = step] \in ChatJob
           /\ [job EXCEPT !.step = step].step = step
           /\ [job EXCEPT !.step = step].user = job.user
           /\ [job EXCEPT !.step = step].msg = job.msg
           /\ [job EXCEPT !.step = step].preview = job.preview
           /\ [job EXCEPT !.step = step].none = job.none
           /\ [job EXCEPT !.step = step].members = job.members
           /\ [job EXCEPT !.step = step].copy = job.copy
  BY DEF ChatJob

LEMMA IdleChatIs ==
    /\ IdleChat \in ChatJob /\ IdleChat.step = "idle" /\ IdleChat.preview = NoPreview
    /\ NoPreview = 0 /\ NoPreview \notin MessageIds
    /\ \A u \in ChatUsers : IdleChat.members[u].unread = 0
    /\ NoMessage \in ChatMessage /\ Absent \in Member /\ Absent.id = 0 /\ Absent.unread = 0
    /\ ~NoMessage.here
<1>1. /\ MaxMessages \in Nat \ {0} /\ MaxJoins \in Nat /\ Founder \in ChatUsers
      /\ 1 \in MessageIds /\ NoPreview \in 0 .. DeletedPreview /\ NoPreview = 0
      /\ NoPreview \notin MessageIds
    BY ChatAssumption DEF MessageIds, NoPreview, DeletedPreview
<1>2. Absent \in Member /\ Absent.id = 0 /\ Absent.unread = 0
    BY <1>1 DEF Absent, Member
<1>3. NoMessage \in ChatMessage /\ ~NoMessage.here
    BY <1>1 DEF NoMessage, ChatMessage
<1>4. PICK members : members = [u \in ChatUsers |-> Absent]
    OBVIOUS
<1>5. members \in [ChatUsers -> Member] /\ \A u \in ChatUsers : members[u].unread = 0
    BY <1>2, <1>4
<1>6. IdleChat = [step |-> "idle", user |-> Founder, msg |-> 1, target |-> Founder,
                  preview |-> NoPreview, none |-> FALSE, members |-> members, copy |-> NoMessage]
    BY <1>4 DEF IdleChat
<1>7. IdleChat \in ChatJob /\ IdleChat.members = members
    BY <1>1, <1>3, <1>5, <1>6 DEF ChatJob, ChatSteps
<1> QED BY <1>1, <1>2, <1>3, <1>5, <1>6, <1>7

LEMMA ChatJobMoves ==
    ASSUME ChatTypeOK, NEW j \in ChatJobs, NEW job \in ChatJob,
           chatJob' = [chatJob EXCEPT ![j] = job]
    PROVE  /\ chatJob' \in [ChatJobs -> ChatJob] /\ chatJob'[j] = job
           /\ \A i \in ChatJobs \ {j} : chatJob'[i] = chatJob[i]
           /\ \A steps : AtStep(steps)' = IF job.step \in steps THEN AtStep(steps) \union {j}
                                          ELSE AtStep(steps) \ {j}
<1>1. /\ chatJob' \in [ChatJobs -> ChatJob] /\ chatJob'[j] = job
      /\ \A i \in ChatJobs \ {j} : chatJob'[i] = chatJob[i]
    BY ChatTypes
<1> QED BY <1>1 DEF AtStep

(* A move by one step. *)
LEMMA StepMoves ==
    ASSUME ChatTypeOK, NEW j \in ChatJobs, NEW step \in ChatSteps, Step(j, step)
    PROVE  \E job \in ChatJob :
              /\ job = [chatJob[j] EXCEPT !.step = step]
              /\ chatJob' = [chatJob EXCEPT ![j] = job]
<1>1. chatJob[j] \in ChatJob
    BY ChatTypes
<1>2. PICK job : job = [chatJob[j] EXCEPT !.step = step]
    OBVIOUS
<1>3. job \in ChatJob
    BY <1>1, <1>2, ChatJobIs
<1>4. chatJob' = [chatJob EXCEPT ![j] = job]
    BY <1>2, ChatTypes DEF Step
<1> QED BY <1>2, <1>3, <1>4

(* Ids grow, or all are gone; what is current stays so or was sent just now. *)
LEMMA ChatJobStays ==
    ASSUME ChatTypeOK, ChatTypeOK', NEW job \in ChatJob, ChatJobKnows(job),
           sent <= sent',
           \A m \in Current' : m \in Current \/ sent < m,
           \A m \in Current : m \in Current' /\ chat[m].deleted => chat'[m].deleted,
           (\A m \in Ids : m \in Ids') \/ Ids' = {}
    PROVE  ChatJobKnows(job)'
<1>a. sent' \in 0 .. MaxMessages
    BY DEF ChatTypeOK
<1>b. /\ \A m \in Current : m \in MessageIds
      /\ \A m \in Current' : m \in MessageIds
    BY DEF Current, Ids
<1>1. /\ job.msg \in MessageIds /\ sent \in Nat /\ sent' \in Nat
      /\ \A m \in MessageIds : m \in Nat
    BY <1>a, ChatTypes DEF ChatJob
<1>2. job.preview \in MessageIds => job.preview <= sent'
    BY <1>1, <1>b DEF ChatJobKnows
<1>3. job.step \in {"sendSave", "withdrawSave", "withdrawLast", "withdrawPreview", "hideSave"}
          => job.msg <= sent'
    BY <1>1, <1>b DEF ChatJobKnows
<1>4. ASSUME job.step \in {"sendSave", "withdrawLast", "withdrawPreview"}, job.msg \notin Ids',
             NEW m \in Current'
      PROVE  job.msg < m
  <2>1. job.msg <= sent /\ (job.msg \notin Ids => \A k \in Current : job.msg < k)
    BY <1>4 DEF ChatJobKnows
  <2>2. Ids' = {} => FALSE
    BY <1>4 DEF Current
  <2> QED BY <1>1, <1>b, <1>4, <2>1, <2>2
<1>5. ASSUME job.step \in {"withdrawLast", "withdrawPreview"}, job.msg \in Current'
      PROVE  chat'[job.msg].deleted
    BY <1>1, <1>b, <1>5 DEF ChatJobKnows
<1>6. ASSUME job.step = "withdrawPreview", NEW m \in Current', job.msg < m
      PROVE  m # job.preview
    BY <1>1, <1>b, <1>6 DEF ChatJobKnows
<1>7. /\ job.step \in {"withdrawSave", "hideSave"} => job.copy.here
      /\ job.step \in {"directInsert", "directJoin"} => job.none
    BY DEF ChatJobKnows
<1> QED BY <1>2, <1>3, <1>4, <1>5, <1>6, <1>7 DEF ChatJobKnows

LEMMA ChatJobsStay ==
    ASSUME ChatInv, ChatTypeOK', NEW j \in ChatJobs, NEW job \in ChatJob,
           chatJob' = [chatJob EXCEPT ![j] = job], ChatJobKnows(job)',
           sent <= sent',
           \A m \in Current' : m \in Current \/ sent < m,
           \A m \in Current : m \in Current' /\ chat[m].deleted => chat'[m].deleted,
           (\A m \in Ids : m \in Ids') \/ Ids' = {}
    PROVE  \A i \in ChatJobs : ChatJobKnows(chatJob[i])'
<1>1. ChatTypeOK
    BY DEF ChatInv
<1>2. SUFFICES ASSUME NEW i \in ChatJobs PROVE ChatJobKnows(chatJob[i])'
    OBVIOUS
<1>3. CASE i = j
    BY <1>1, <1>3, ChatJobMoves DEF ChatJobKnows
<1>4. CASE i # j
  <2>1. PICK other : other = chatJob[i]
    OBVIOUS
  <2>2. other \in ChatJob /\ ChatJobKnows(other)
    BY <1>1, <2>1, ChatTypes DEF ChatInv
  <2>3. ChatJobKnows(other)'
    BY <1>1, <2>2, ChatJobStays
  <2>4. chatJob'[i] = other
    BY <1>1, <1>4, <2>1, ChatJobMoves
  <2> QED BY <2>3, <2>4 DEF ChatJobKnows
<1> QED BY <1>3, <1>4

(* The requests at some steps stay the same when another moves elsewhere. *)
LEMMA OthersWork ==
    ASSUME ChatTypeOK, NEW j \in ChatJobs, NEW job \in ChatJob,
           chatJob' = [chatJob EXCEPT ![j] = job],
           NEW steps, chatJob[j].step \in steps <=> job.step \in steps
    PROVE  /\ AtStep(steps)' = AtStep(steps)
           /\ \A i \in AtStep(steps) : i # j => chatJob'[i] = chatJob[i]
<1>1. \A i \in ChatJobs \ {j} : chatJob'[i] = chatJob[i]
    BY ChatJobMoves
<1>2. AtStep(steps)' = IF job.step \in steps THEN AtStep(steps) \union {j}
                       ELSE AtStep(steps) \ {j}
    BY ChatJobMoves
<1>3. j \in AtStep(steps) <=> chatJob[j].step \in steps
    BY DEF AtStep
<1>4. \A i \in AtStep(steps) : i \in ChatJobs
    BY DEF AtStep
<1> QED BY <1>1, <1>2, <1>3, <1>4

LEMMA DirectsStay ==
    ASSUME ChatInv, NEW j \in ChatJobs, NEW job \in ChatJob,
           chatJob' = [chatJob EXCEPT ![j] = job], UNCHANGED <<direct, races>>,
           chatRequests' \in {chatRequests, chatRequests + 1},
           chatJob[j].step \notin {"directInsert", "directJoin"},
           job.step \notin {"directInsert", "directJoin"}
    PROVE  DirectsAreCounted' /\ DirectOnce'
<1>1. /\ IsFiniteSet(AtStep({"directInsert"})) /\ IsFiniteSet(AtStep({"directJoin"}))
      /\ Cardinality(AtStep({"directJoin"})) <= direct.bare
      /\ Cardinality(AtStep({"directInsert"})) + direct.bare + direct.joined <= chatRequests
      /\ DirectOnce /\ ChatTypeOK
    BY DEF ChatInv, DirectsAreCounted
<1>2. PICK inserting : inserting = Cardinality(AtStep({"directInsert"}))
    OBVIOUS
<1>3. inserting \in Nat
    BY <1>1, <1>2, FS_CardinalityType
<1>4. direct.bare \in Nat /\ direct.joined \in Nat /\ chatRequests \in Nat
    BY <1>1, ChatTypes DEF ChatTypeOK
<1>5. inserting + direct.bare + direct.joined <= chatRequests'
    BY <1>1, <1>2, <1>3, <1>4
<1>6. /\ AtStep({"directInsert"})' = AtStep({"directInsert"})
      /\ AtStep({"directJoin"})' = AtStep({"directJoin"})
    BY <1>1, OthersWork
<1> QED BY <1>1, <1>2, <1>5, <1>6 DEF DirectsAreCounted, DirectOnce

LEMMA UnreadIsSentStays ==
    ASSUME ChatInv, NEW j \in ChatJobs, NEW job \in ChatJob,
           chatJob' = [chatJob EXCEPT ![j] = job], UNCHANGED sent,
           AtStep(Counting)' = AtStep(Counting),
           \A u \in ChatUsers :
              \/ member'[u].unread = 0
              \/ member'[u].unread = member[u].unread
              \/ \E i \in ChatJobs : member'[u].unread = chatJob[i].members[u].unread,
           \/ \A u \in ChatUsers : job.members[u].unread = 0
           \/ job.members = member
           \/ job.members = chatJob[j].members
    PROVE  UnreadIsSent'
<1>0. ChatTypeOK /\ UnreadIsSent
    BY DEF ChatInv
<1>1. PICK count : count = Cardinality(AtStep(Counting))
    OBVIOUS
<1>2. /\ IsFiniteSet(AtStep(Counting)) /\ count \in Nat
      /\ \A u \in ChatUsers :
          /\ member[u].unread + count <= sent
          /\ \A i \in ChatJobs : chatJob[i].members[u].unread + count <= sent
    BY <1>0, <1>1, FS_CardinalityType DEF UnreadIsSent
<1>3. count <= sent
  <2>1. Founder \in ChatUsers /\ member[Founder].unread \in Nat /\ sent \in Nat
    BY <1>0, ChatTypes, ChatAssumption DEF Member
  <2> QED BY <1>2, <2>1
<1>4. \A u \in ChatUsers : member'[u].unread + count <= sent
  <2>1. SUFFICES ASSUME NEW u \in ChatUsers PROVE member'[u].unread + count <= sent
    OBVIOUS
  <2>2. CASE member'[u].unread = 0
    BY <1>2, <1>3, <2>2
  <2>3. CASE member'[u].unread # 0
    BY <1>2, <2>3
  <2> QED BY <2>2, <2>3
<1>5. \A u \in ChatUsers, i \in ChatJobs : chatJob'[i].members[u].unread + count <= sent
  <2>1. SUFFICES ASSUME NEW u \in ChatUsers, NEW i \in ChatJobs
                 PROVE  chatJob'[i].members[u].unread + count <= sent
    OBVIOUS
  <2>2. /\ i = j => chatJob'[i] = job
        /\ i # j => chatJob'[i] = chatJob[i]
    BY <1>0, ChatJobMoves
  <2>3. CASE i = j
    <3>1. CASE job.members[u].unread = 0
      BY <1>2, <1>3, <2>2, <2>3, <3>1
    <3>2. CASE job.members[u].unread # 0
      BY <1>2, <2>2, <2>3, <3>2
    <3> QED BY <3>1, <3>2
  <2>4. CASE i # j
    BY <1>2, <2>2, <2>4
  <2> QED BY <2>3, <2>4
<1> QED BY <1>1, <1>2, <1>4, <1>5 DEF UnreadIsSent

LEMMA UnreadStays ==
    ASSUME ChatInv, NEW u \in ChatUsers, NEW j \in ChatJobs, NEW job \in ChatJob,
           chatJob' = [chatJob EXCEPT ![j] = job],
           chatJob[j].step \in Counting <=> job.step \in Counting,
           chatJob[j].step = "readBy" <=> job.step = "readBy",
           job.step # "readBy", job.step \in Counting => job.user = chatJob[j].user,
           In(u)' /\ u \notin miscounted' =>
              In(u) /\ u \notin miscounted /\ member'[u] = member[u] /\ Unseen(u)' = Unseen(u)
    PROVE  UnreadFollows(u)'
<1>0. ChatTypeOK
    BY DEF ChatInv
<1>1. SUFFICES ASSUME In(u)', u \notin miscounted'
               PROVE  IF \E i \in AtStep({"readBy"})' : chatJob'[i].user = u
                      THEN member'[u].unread = 0 /\ AtStep(Counting)' = {}
                      ELSE Cardinality(Unseen(u)') = member'[u].unread
                             + Cardinality({i \in AtStep(Counting)' : chatJob'[i].user # u})
    BY DEF UnreadFollows
<1>2. /\ In(u) /\ u \notin miscounted /\ UnreadFollows(u)
      /\ member'[u] = member[u] /\ Unseen(u)' = Unseen(u)
    BY <1>1 DEF ChatInv
<1>3. /\ AtStep(Counting)' = AtStep(Counting)
      /\ \A i \in AtStep(Counting) : chatJob'[i].user = chatJob[i].user
  <2>1. AtStep(Counting)' = AtStep(Counting)
        /\ \A i \in AtStep(Counting) : i # j => chatJob'[i] = chatJob[i]
    BY <1>0, OthersWork
  <2>2. j \in AtStep(Counting) => chatJob'[j].user = chatJob[j].user
    BY <1>0, ChatJobMoves DEF AtStep
  <2> QED BY <2>1, <2>2
<1>4. /\ AtStep({"readBy"})' = AtStep({"readBy"})
      /\ \A i \in AtStep({"readBy"}) : chatJob'[i].user = chatJob[i].user
  <2>1. /\ AtStep({"readBy"})' = AtStep({"readBy"})
        /\ \A i \in AtStep({"readBy"}) : i # j => chatJob'[i] = chatJob[i]
    BY <1>0, OthersWork
  <2>2. j \notin AtStep({"readBy"})
    BY DEF AtStep
  <2> QED BY <2>1, <2>2
<1>5. {i \in AtStep(Counting)' : chatJob'[i].user # u}
         = {i \in AtStep(Counting) : chatJob[i].user # u}
    BY <1>3
<1> QED BY <1>2, <1>3, <1>4, <1>5 DEF UnreadFollows

LEMMA PreviewStays ==
    ASSUME ChatInv, NEW m \in Current, NEW j \in ChatJobs, NEW job \in ChatJob,
           chatJob' = [chatJob EXCEPT ![j] = job],
           ~oldPreview' => ~oldPreview /\ group'.preview = group.preview,
           chat'[m].deleted = chat[m].deleted,
           \A n \in Ids : n \in Ids',
           chatJob[j].step \in {"sendSave", "withdrawLast", "withdrawPreview"} =>
              /\ job.step \in {"sendSave", "withdrawLast", "withdrawPreview"}
              /\ job.msg = chatJob[j].msg
    PROVE  PreviewFollows(m)'
<1>0. ChatTypeOK /\ PreviewFollows(m)
    BY DEF ChatInv
<1>1. SUFFICES ASSUME \A n \in Ids' : n <= m, ~oldPreview'
               PROVE  \/ group'.preview = IF chat'[m].deleted THEN DeletedPreview ELSE m
                      \/ \E i \in AtStep({"sendSave", "withdrawLast", "withdrawPreview"})' :
                            chatJob'[i].msg = m
    BY DEF PreviewFollows
<1>2. \/ group.preview = IF chat[m].deleted THEN DeletedPreview ELSE m
      \/ \E i \in AtStep({"sendSave", "withdrawLast", "withdrawPreview"}) : chatJob[i].msg = m
    BY <1>0, <1>1 DEF PreviewFollows
<1>3. ASSUME NEW i \in AtStep({"sendSave", "withdrawLast", "withdrawPreview"})
      PROVE  /\ i \in AtStep({"sendSave", "withdrawLast", "withdrawPreview"})'
             /\ chatJob'[i].msg = chatJob[i].msg
  <2>1. chatJob'[j] = job /\ \A k \in ChatJobs \ {j} : chatJob'[k] = chatJob[k]
    BY <1>0, ChatJobMoves
  <2> QED BY <2>1 DEF AtStep
<1> QED BY <1>1, <1>2, <1>3

-----------------------------------------------------------------------------
(* Requests that read. *)

chatMeanings == <<sent, group, member, chat, direct, joins, meant, revived, before, miscounted,
                  withdrawn, rewritten, oldPreview, hidden, races>>
WatchedSteps == {"sendSave", "sendCount", "readBy", "withdrawLast", "withdrawPreview",
                 "directInsert", "directJoin"}

(* What no history counts moves only the request that reads. *)
LEMMA ReadingKeeps ==
    ASSUME ChatInv, NEW j \in ChatJobs, NEW job \in ChatJob,
           chatJob' = [chatJob EXCEPT ![j] = job], UNCHANGED chatMeanings,
           chatRequests' \in {chatRequests, chatRequests + 1}, chatRequests' <= MaxChatRequests,
           chatJob[j].step \notin WatchedSteps, job.step \notin WatchedSteps,
           ChatJobKnows(job),
           \/ \A u \in ChatUsers : job.members[u].unread = 0
           \/ job.members = member
           \/ job.members = chatJob[j].members
    PROVE  ChatInv'
<1>0. ChatTypeOK
    BY DEF ChatInv
<1>1. chatJob' \in [ChatJobs -> ChatJob] /\ chatRequests' \in 0 .. MaxChatRequests
    BY <1>0, ChatJobMoves, ChatTypes
<1>2. ChatTypeOK'
    BY <1>0, <1>1 DEF ChatTypeOK, chatMeanings, ChatJob
<1>3. /\ Ids' = Ids /\ Current' = Current /\ \A u : In(u)' = In(u)
      /\ \A u \in ChatUsers : Unseen(u)' = Unseen(u)
    BY DEF Ids, Current, In, Unseen, chatMeanings
<1>4. ChatJobKnows(job)'
    BY <1>3 DEF ChatJobKnows, chatMeanings
<1>5. \A i \in ChatJobs : ChatJobKnows(chatJob[i])'
  <2>1. sent <= sent'
    BY <1>0, ChatTypes DEF chatMeanings
  <2> QED BY <1>2, <1>3, <1>4, <2>1, ChatJobsStay DEF chatMeanings
<1>6. PastIsPast' /\ DeletionHolds' /\ MembersHaveCause'
    BY <1>3 DEF ChatInv, PastIsPast, DeletionHolds, MembersHaveCause, InGroup, chatMeanings, In
<1>7. AtStep(Counting)' = AtStep(Counting)
    BY <1>0, OthersWork, ZenonT(40) DEF WatchedSteps, Counting
<1>8. DirectsAreCounted' /\ DirectOnce'
    BY DirectsStay DEF chatMeanings, WatchedSteps
<1>9. UnreadIsSent'
    BY <1>7, UnreadIsSentStays DEF chatMeanings
<1>10. ASSUME NEW u \in ChatUsers PROVE UnreadFollows(u)'
    BY <1>3, UnreadStays DEF chatMeanings, WatchedSteps, Counting
<1>11. ASSUME NEW m \in Current' PROVE PreviewFollows(m)'
    BY <1>3, PreviewStays DEF chatMeanings, WatchedSteps
<1> QED BY <1>2, <1>5, <1>6, <1>8, <1>9, <1>10, <1>11 DEF ChatInv

LEMMA ReadsIs ==
    ASSUME ChatTypeOK, NEW j \in ChatJobs, NEW u, NEW job, Reads(j, u, job)
    PROVE  /\ chatJob[j].step \notin WatchedSteps /\ In(u) /\ group.here
           /\ chatRequests' \in {chatRequests, chatRequests + 1}
           /\ chatRequests' <= MaxChatRequests /\ chatJob' = [chatJob EXCEPT ![j] = job]
<1>1. MaxChatRequests \in Nat /\ chatRequests \in Nat
    BY ChatTypes, ChatAssumption
<1>2. chatJob[j].step = "idle"
    BY DEF Reads
<1> QED BY <1>1, <1>2 DEF Reads, WatchedSteps

LEMMA ReadingIs ==
    ASSUME ChatTypeOK, NEW u \in ChatUsers, NEW step \in ChatSteps
    PROVE  /\ Reading(u, step) \in ChatJob /\ Reading(u, step).step = step
           /\ Reading(u, step).members = member /\ Reading(u, step).preview = group.preview
           /\ Reading(u, step).user = u
           /\ Asking(u, step) \in ChatJob /\ Asking(u, step).step = step
           /\ Asking(u, step).members = IdleChat.members /\ Asking(u, step).preview = NoPreview
           /\ Asking(u, step).user = u
  BY ChatTypes, IdleChatIs DEF Reading, Asking, ChatJob

(* sendMessage, updateConversation and toggleMute read the conversation. *)
LEMMA ReadersKeep ==
    ASSUME ChatInv, NEW j \in ChatJobs, NEW u \in ChatUsers,
           Send(j, u) \/ Edit(j, u) \/ ToggleMute(j, u)
    PROVE  ChatInv'
<1>0. ChatTypeOK /\ PastIsPast
    BY DEF ChatInv
<1>1. PICK step \in {"sendInsert", "editSave", "muteSave"} : Reads(j, u, Reading(u, step))
    BY DEF Send, Edit, ToggleMute
<1>2. step \in ChatSteps /\ step \notin WatchedSteps
    BY DEF ChatSteps, WatchedSteps
<1>3. PICK job : job = Reading(u, step)
    OBVIOUS
<1>4. /\ job \in ChatJob /\ job.step = step /\ job.members = member
      /\ job.preview = group.preview
    BY <1>0, <1>2, <1>3, ReadingIs
<1>5. ChatJobKnows(job)
    BY <1>0, <1>4 DEF ChatJobKnows, PastIsPast
<1>6. UNCHANGED chatMeanings
    BY DEF Send, Edit, ToggleMute, chatMeanings
<1>7. /\ chatJob[j].step \notin WatchedSteps
      /\ chatRequests' \in {chatRequests, chatRequests + 1}
      /\ chatRequests' <= MaxChatRequests /\ chatJob' = [chatJob EXCEPT ![j] = job]
    BY <1>0, <1>1, <1>3, ReadsIs
<1> QED BY <1>2, <1>4, <1>5, <1>6, <1>7, ReadingKeeps

LEMMA WithdrawKeeps ==
    ASSUME ChatInv, NEW j \in ChatJobs, NEW u \in ChatUsers, NEW m \in MessageIds,
           Withdraw(j, u, m)
    PROVE  ChatInv'
<1>0. ChatTypeOK /\ PastIsPast
    BY DEF ChatInv
<1>1. "withdrawFind" \in ChatSteps /\ "withdrawFind" \notin WatchedSteps
    BY DEF ChatSteps, WatchedSteps
<1>2. PICK job : job = [Reading(u, "withdrawFind") EXCEPT !.msg = m]
    OBVIOUS
<1>3. /\ job \in ChatJob /\ job.step = "withdrawFind" /\ job.members = member
      /\ job.preview = group.preview
    BY <1>0, <1>1, <1>2, ReadingIs DEF ChatJob
<1>4. ChatJobKnows(job)
    BY <1>0, <1>3 DEF ChatJobKnows, PastIsPast
<1>5. UNCHANGED chatMeanings
    BY DEF Withdraw, chatMeanings
<1>6. /\ chatJob[j].step \notin WatchedSteps
      /\ chatRequests' \in {chatRequests, chatRequests + 1}
      /\ chatRequests' <= MaxChatRequests /\ chatJob' = [chatJob EXCEPT ![j] = job]
    BY <1>0, <1>2, ReadsIs DEF Withdraw
<1> QED BY <1>1, <1>3, <1>4, <1>5, <1>6, ReadingKeeps

LEMMA HideKeeps ==
    ASSUME ChatInv, NEW j \in ChatJobs, NEW u \in ChatUsers, NEW m \in MessageIds,
           Hide(j, u, m)
    PROVE  ChatInv'
<1>0. ChatTypeOK /\ PastIsPast
    BY DEF ChatInv
<1>1. "hideSave" \in ChatSteps /\ "hideSave" \notin WatchedSteps
    BY DEF ChatSteps, WatchedSteps
<1>2. PICK base, job : base = Asking(u, "hideSave")
                       /\ job = [base EXCEPT !.msg = m, !.copy = chat[m]]
    OBVIOUS
<1>3. chat[m] \in ChatMessage /\ chat[m].here /\ m <= sent
    BY <1>0, ChatTypes DEF Hide, PastIsPast, Ids
<1>a. /\ base \in ChatJob /\ base.step = "hideSave" /\ base.members = IdleChat.members
      /\ base.preview = NoPreview
    BY <1>0, <1>1, <1>2, ReadingIs
<1>4. /\ job \in ChatJob /\ job.step = "hideSave" /\ job.members = IdleChat.members
      /\ job.preview = NoPreview /\ job.msg = m /\ job.copy = chat[m]
    BY <1>2, <1>3, <1>a DEF ChatJob
<1>5. ChatJobKnows(job)
    BY <1>3, <1>4, IdleChatIs DEF ChatJobKnows
<1>6. UNCHANGED chatMeanings
    BY DEF Hide, chatMeanings
<1>7. /\ chatJob[j].step \notin WatchedSteps
      /\ chatRequests' \in {chatRequests, chatRequests + 1}
      /\ chatRequests' <= MaxChatRequests /\ chatJob' = [chatJob EXCEPT ![j] = job]
    BY <1>0, <1>2, ReadsIs DEF Hide
<1>8. \A v \in ChatUsers : job.members[v].unread = 0
    BY <1>4, IdleChatIs
<1> QED BY <1>1, <1>4, <1>5, <1>6, <1>7, <1>8, ReadingKeeps

LEMMA ParticipantsKeep ==
    ASSUME ChatInv, NEW j \in ChatJobs, NEW u \in ChatUsers, NEW v \in ChatUsers,
           AddParticipant(j, u, v) \/ RemoveParticipant(j, u, v)
    PROVE  ChatInv'
<1>0. ChatTypeOK
    BY DEF ChatInv
<1>1. PICK job \in {[Asking(u, "addInsert") EXCEPT !.target = v],
                    [Asking(u, "removeDelete") EXCEPT !.target = v, !.members = member]} :
         Reads(j, u, job)
    BY DEF AddParticipant, RemoveParticipant
<1>2. /\ "addInsert" \in ChatSteps /\ "addInsert" \notin WatchedSteps
      /\ "removeDelete" \in ChatSteps /\ "removeDelete" \notin WatchedSteps
    BY DEF ChatSteps, WatchedSteps
<1>3. /\ job \in ChatJob /\ job.step \in {"addInsert", "removeDelete"}
      /\ job.preview = NoPreview /\ job.members \in {member, IdleChat.members}
  <2>1. PICK adding, removing : /\ adding = Asking(u, "addInsert")
                                /\ removing = Asking(u, "removeDelete")
    OBVIOUS
  <2>2. /\ adding \in ChatJob /\ adding.step = "addInsert" /\ adding.preview = NoPreview
        /\ adding.members = IdleChat.members
    BY <1>0, <1>2, <2>1, ReadingIs
  <2>3. /\ removing \in ChatJob /\ removing.step = "removeDelete"
        /\ removing.preview = NoPreview
    BY <1>0, <1>2, <2>1, ReadingIs
  <2>4. CASE job = [adding EXCEPT !.target = v]
    BY <2>2, <2>4 DEF ChatJob
  <2>5. CASE job = [removing EXCEPT !.target = v, !.members = member]
    <3>1. member \in [ChatUsers -> Member]
      BY <1>0, ChatTypes
    <3> QED BY <2>3, <2>5, <3>1 DEF ChatJob
  <2> QED BY <1>1, <2>1, <2>4, <2>5
<1>4. ChatJobKnows(job)
    BY <1>3, IdleChatIs DEF ChatJobKnows
<1>5. UNCHANGED chatMeanings
    BY DEF AddParticipant, RemoveParticipant, chatMeanings
<1>6. /\ chatJob[j].step \notin WatchedSteps
      /\ chatRequests' \in {chatRequests, chatRequests + 1}
      /\ chatRequests' <= MaxChatRequests /\ chatJob' = [chatJob EXCEPT ![j] = job]
    BY <1>0, <1>1, ReadsIs
<1>7. (\A x \in ChatUsers : job.members[x].unread = 0) \/ job.members = member
    BY <1>3, IdleChatIs
<1> QED BY <1>2, <1>3, <1>4, <1>5, <1>6, <1>7, ReadingKeeps

LEMMA WithdrawFindKeeps ==
    ASSUME ChatInv, NEW j \in ChatJobs, WithdrawFind(j)
    PROVE  ChatInv'
<1>0. ChatTypeOK /\ PastIsPast
    BY DEF ChatInv
<1>1. PICK old : old = chatJob[j]
    OBVIOUS
<1>2. old \in ChatJob /\ ChatJobKnows(old) /\ old.step = "withdrawFind" /\ chat[old.msg].here
    BY <1>0, <1>1, ChatTypes DEF ChatInv, WithdrawFind
<1>3. old.msg \in MessageIds /\ chat[old.msg] \in ChatMessage /\ old.msg <= sent
    BY <1>0, <1>2, ChatTypes DEF ChatJob, PastIsPast, Ids
<1>4. PICK job : job = [old EXCEPT !.step = "withdrawSave", !.copy = chat[old.msg]]
    OBVIOUS
<1>5. /\ job \in ChatJob /\ job.step = "withdrawSave" /\ job.members = old.members
      /\ job.preview = old.preview /\ job.msg = old.msg /\ job.copy = chat[old.msg]
    BY <1>2, <1>3, <1>4 DEF ChatJob, ChatSteps
<1>6. ChatJobKnows(job)
    BY <1>2, <1>3, <1>5 DEF ChatJobKnows
<1>7. chatJob' = [chatJob EXCEPT ![j] = job]
    BY <1>0, <1>1, <1>4, ChatTypes DEF WithdrawFind
<1>8. UNCHANGED chatMeanings /\ UNCHANGED chatRequests
    BY DEF WithdrawFind, chatMeanings
<1>9. chatRequests' \in {chatRequests, chatRequests + 1} /\ chatRequests' <= MaxChatRequests
    BY <1>0, <1>8, ChatTypes
<1> QED BY <1>1, <1>2, <1>5, <1>6, <1>7, <1>8, <1>9, ReadingKeeps DEF WatchedSteps
-----------------------------------------------------------------------------
(* Requests that save the conversation or its participants. *)

chatMessages == <<sent, chat, direct, withdrawn, rewritten, hidden, races, chatRequests>>

LEMMA EndsIs ==
    ASSUME NEW j \in ChatJobs, Ends(j)
    PROVE  \E job \in ChatJob :
              /\ job = IdleChat /\ chatJob' = [chatJob EXCEPT ![j] = job]
              /\ job.step = "idle" /\ ChatJobKnows(job)' /\ ChatJobKnows(job)
              /\ \A u \in ChatUsers : job.members[u].unread = 0
<1>1. PICK job : job = IdleChat
    OBVIOUS
<1>2. /\ job \in ChatJob /\ job.step = "idle" /\ job.preview \notin MessageIds
      /\ \A u \in ChatUsers : job.members[u].unread = 0
    BY <1>1, IdleChatIs
<1>3. ChatJobKnows(job)' /\ ChatJobKnows(job)
    BY <1>2 DEF ChatJobKnows
<1>4. chatJob' = [chatJob EXCEPT ![j] = job]
    BY <1>1 DEF Ends
<1> QED BY <1>1, <1>2, <1>3, <1>4

(* What saves participants and no message, where it counts rightly. *)
LEMMA ParticipantsSavedKeep ==
    ASSUME ChatInv, NEW j \in ChatJobs, Ends(j), UNCHANGED chatMessages,
           chatJob[j].step \notin WatchedSteps,
           ChatTypeOK', PastIsPast', MembersHaveCause',
           ~oldPreview' => ~oldPreview /\ group'.preview = group.preview,
           \A u \in ChatUsers :
              \/ member'[u].unread = 0
              \/ member'[u].unread = member[u].unread
              \/ \E i \in ChatJobs : member'[u].unread = chatJob[i].members[u].unread,
           \A u \in ChatUsers :
              \/ UnreadFollows(u)'
              \/ In(u)' /\ u \notin miscounted' =>
                    /\ In(u) /\ u \notin miscounted
                    /\ member'[u] = member[u] /\ before'[u] = before[u]
    PROVE  ChatInv'
<1>0. ChatTypeOK
    BY DEF ChatInv
<1>1. PICK job \in ChatJob :
         /\ chatJob' = [chatJob EXCEPT ![j] = job] /\ job.step = "idle" /\ ChatJobKnows(job)'
         /\ \A u \in ChatUsers : job.members[u].unread = 0
    BY EndsIs
<1>2. job.step \notin WatchedSteps
    BY <1>1 DEF WatchedSteps
<1>3. Ids' = Ids /\ Current' = Current
    BY DEF Ids, Current, chatMessages
<1>4. \A i \in ChatJobs : ChatJobKnows(chatJob[i])'
  <2>1. sent <= sent'
    BY <1>0, ChatTypes DEF chatMessages
  <2> QED BY <1>1, <1>3, <2>1, ChatJobsStay DEF chatMessages
<1>5. DirectsAreCounted' /\ DirectOnce'
    BY <1>1, <1>2, DirectsStay DEF chatMessages, WatchedSteps
<1>6. AtStep(Counting)' = AtStep(Counting)
    BY <1>0, <1>1, <1>2, OthersWork DEF WatchedSteps, Counting
<1>7. UnreadIsSent'
    BY <1>1, <1>6, UnreadIsSentStays DEF chatMessages
<1>8. DeletionHolds'
    BY <1>3 DEF ChatInv, DeletionHolds, chatMessages
<1>9. ASSUME NEW u \in ChatUsers PROVE UnreadFollows(u)'
  <2>1. CASE before'[u] = before[u]
    <3>1. Unseen(u)' = Unseen(u)
      BY <1>3, <2>1 DEF Unseen, chatMessages
    <3> QED BY <1>1, <1>2, <3>1, UnreadStays DEF WatchedSteps, Counting
  <2>2. CASE before'[u] # before[u]
    <3>1. UnreadFollows(u)' \/ ~(In(u)' /\ u \notin miscounted')
      BY <2>2
    <3> QED BY <3>1 DEF UnreadFollows
  <2> QED BY <2>1, <2>2
<1>10. ASSUME NEW m \in Current' PROVE PreviewFollows(m)'
    BY <1>1, <1>2, <1>3, PreviewStays DEF chatMessages, WatchedSteps
<1> QED BY <1>4, <1>5, <1>7, <1>8, <1>9, <1>10 DEF ChatInv

(* conversationRepo.save: who is in the group stays. *)
LEMMA SavesIs ==
    ASSUME ChatInv, NEW j \in ChatJobs, NEW line, Saves(j, line), UNCHANGED meant
    PROVE  /\ member' = chatJob[j].members /\ member' \in [ChatUsers -> Member]
           /\ group' = [here |-> TRUE, preview |-> line]
           /\ MembersHaveCause'
           /\ revived' \subseteq ChatUsers /\ miscounted' \subseteq ChatUsers
           /\ oldPreview' \in BOOLEAN
           /\ \A u \in ChatUsers : In(u)' /\ u \notin miscounted' =>
                 In(u) /\ u \notin miscounted /\ member'[u] = member[u]
<1>0. ChatTypeOK /\ MembersHaveCause
    BY DEF ChatInv
<1>1. PICK job : job = chatJob[j]
    OBVIOUS
<1>2. /\ job.members \in [ChatUsers -> Member] /\ member' = job.members
      /\ group' = [here |-> TRUE, preview |-> line]
      /\ revived' = revived \union {u \in ChatUsers : ~In(u) /\ job.members[u].id # 0}
      /\ miscounted' = miscounted \union {u \in ChatUsers : member[u] # job.members[u]}
      /\ \A u \in ChatUsers : In(u) => member[u].id = job.members[u].id
    BY <1>0, <1>1, ChatTypes DEF Saves, ChatJob
<1>3. revived' \subseteq ChatUsers /\ miscounted' \subseteq ChatUsers
    BY <1>0, <1>2 DEF ChatTypeOK
<1>4. \A u \in ChatUsers : In(u) => In(u)'
    BY <1>2 DEF In
<1>5. \A u \in ChatUsers : In(u)' => In(u) \/ u \in revived'
    BY <1>2 DEF In
<1>6. MembersHaveCause'
  <2>1. /\ \A u \in meant : u \in ChatUsers /\ In(u)
        /\ \A u \in ChatUsers : In(u) => u \in meant \/ u \in revived
    BY <1>0 DEF MembersHaveCause, InGroup
  <2> QED BY <1>2, <1>4, <1>5, <2>1 DEF MembersHaveCause, InGroup
<1>7. \A u \in ChatUsers : u \notin miscounted' => u \notin miscounted /\ member'[u] = member[u]
    BY <1>2
<1>8. oldPreview' \in BOOLEAN
    BY DEF Saves
<1> QED BY <1>1, <1>2, <1>3, <1>6, <1>7, <1>8 DEF In

LEMMA EditSaveKeeps ==
    ASSUME ChatInv, NEW j \in ChatJobs, EditSave(j)
    PROVE  ChatInv'
<1>0. ChatTypeOK /\ PastIsPast
    BY DEF ChatInv
<1>1. PICK job : job = chatJob[j]
    OBVIOUS
<1>2. /\ job \in ChatJob /\ ChatJobKnows(job) /\ job.step = "editSave"
      /\ Saves(j, job.preview) /\ Ends(j) /\ UNCHANGED chatMessages
      /\ UNCHANGED <<joins, meant, before>>
    BY <1>0, <1>1, ChatTypes DEF ChatInv, EditSave, chatMessages
<1>3. /\ member' = job.members /\ member' \in [ChatUsers -> Member]
      /\ group' = [here |-> TRUE, preview |-> job.preview] /\ MembersHaveCause'
      /\ revived' \subseteq ChatUsers /\ miscounted' \subseteq ChatUsers
      /\ oldPreview' \in BOOLEAN
      /\ \A u \in ChatUsers : In(u)' /\ u \notin miscounted' =>
            In(u) /\ u \notin miscounted /\ member'[u] = member[u]
    BY <1>1, <1>2, SavesIs
<1>4. ~oldPreview' => ~oldPreview /\ group'.preview = group.preview
    BY <1>1, <1>2, <1>3 DEF Saves
<1>5. group' \in [here : BOOLEAN, preview : 0 .. DeletedPreview]
    BY <1>2, <1>3 DEF ChatJob
<1>6. chatJob' \in [ChatJobs -> ChatJob]
    BY <1>0, <1>2, EndsIs, ChatJobMoves
<1>7. ChatTypeOK'
    BY <1>0, <1>2, <1>3, <1>5, <1>6 DEF ChatTypeOK, ChatJob, chatMessages
<1>8. PastIsPast'
    BY <1>0, <1>2, <1>3 DEF PastIsPast, ChatJobKnows, Ids, chatMessages
<1>9. \A u \in ChatUsers : \E i \in ChatJobs :
         member'[u].unread = chatJob[i].members[u].unread
    BY <1>1, <1>3
<1>10. chatJob[j].step \notin WatchedSteps
    BY <1>1, <1>2 DEF WatchedSteps
<1> QED BY <1>2, <1>3, <1>4, <1>7, <1>8, <1>9, <1>10, ParticipantsSavedKeep

LEMMA MuteSaveKeeps ==
    ASSUME ChatInv, NEW j \in ChatJobs, MuteSave(j)
    PROVE  ChatInv'
<1>0. ChatTypeOK /\ PastIsPast /\ MembersHaveCause
    BY DEF ChatInv
<1>1. PICK job, v, copy : job = chatJob[j] /\ v = job.user /\ copy = job.members[v]
    OBVIOUS
<1>2. job \in ChatJob /\ v \in ChatUsers /\ copy \in Member
    BY <1>0, <1>1, ChatTypes DEF ChatJob
<1>3. /\ job.step = "muteSave" /\ Ends(j) /\ UNCHANGED chatMessages
      /\ UNCHANGED <<group, joins, meant, before, oldPreview>>
      /\ In(v) => member[v].id = copy.id
      /\ member' = [member EXCEPT ![v] = copy]
      /\ revived' = IF In(v) THEN revived ELSE revived \union {v}
      /\ miscounted' = IF member[v] = copy THEN miscounted ELSE miscounted \union {v}
    BY <1>1 DEF MuteSave, chatMessages
<1>4. /\ member' \in [ChatUsers -> Member] /\ member'[v] = copy
      /\ \A u \in ChatUsers \ {v} : member'[u] = member[u]
    BY <1>0, <1>2, <1>3, ChatTypes
<1>5. chatJob' \in [ChatJobs -> ChatJob]
    BY <1>0, <1>3, EndsIs, ChatJobMoves
<1>6. revived' \subseteq ChatUsers /\ miscounted' \subseteq ChatUsers
    BY <1>0, <1>2, <1>3 DEF ChatTypeOK
<1>7. ChatTypeOK'
    BY <1>0, <1>3, <1>4, <1>5, <1>6 DEF ChatTypeOK, ChatJob, chatMessages
<1>8. PastIsPast'
    BY <1>0, <1>3 DEF PastIsPast, Ids, chatMessages
<1>9. MembersHaveCause'
  <2>1. \A u \in ChatUsers : In(u) => In(u)'
    BY <1>3, <1>4 DEF In
  <2>2. \A u \in ChatUsers : In(u)' => In(u) \/ u \in revived'
    BY <1>3, <1>4 DEF In
  <2>3. /\ \A u \in meant : u \in ChatUsers /\ In(u)
        /\ \A u \in ChatUsers : In(u) => u \in meant \/ u \in revived
    BY <1>0 DEF MembersHaveCause, InGroup
  <2> QED BY <1>3, <2>1, <2>2, <2>3 DEF MembersHaveCause, InGroup
<1>10. \A u \in ChatUsers :
          \/ member'[u].unread = member[u].unread
          \/ \E i \in ChatJobs : member'[u].unread = chatJob[i].members[u].unread
  <2>1. \A u \in ChatUsers : u # v => member'[u].unread = member[u].unread
    BY <1>4
  <2>2. member'[v].unread = chatJob[j].members[v].unread
    BY <1>1, <1>4
  <2> QED BY <2>1, <2>2
<1>11. \A u \in ChatUsers : In(u)' /\ u \notin miscounted' =>
          In(u) /\ u \notin miscounted /\ member'[u] = member[u] /\ before'[u] = before[u]
  <2>1. SUFFICES ASSUME NEW u \in ChatUsers, In(u)', u \notin miscounted'
                 PROVE  u \notin miscounted /\ member'[u] = member[u]
    BY <1>3 DEF In
  <2> QED BY <1>3, <1>4, <2>1
<1>12. chatJob[j].step \notin WatchedSteps
    BY <1>1, <1>3 DEF WatchedSteps
<1> QED BY <1>3, <1>7, <1>8, <1>9, <1>10, <1>11, <1>12, ParticipantsSavedKeep

LEMMA RemoveDeleteKeeps ==
    ASSUME ChatInv, NEW j \in ChatJobs, RemoveDelete(j)
    PROVE  ChatInv'
<1>0. ChatTypeOK /\ PastIsPast /\ MembersHaveCause
    BY DEF ChatInv
<1>1. PICK v : v = chatJob[j].target
    OBVIOUS
<1>2. v \in ChatUsers
    BY <1>0, <1>1, ChatTypes DEF ChatJob
<1>3. /\ chatJob[j].step = "removeDelete" /\ Ends(j) /\ UNCHANGED chatMessages
      /\ UNCHANGED <<group, joins, before, oldPreview, miscounted>>
      /\ \/ /\ member' = [member EXCEPT ![v] = Absent]
            /\ meant' = meant \ {v} /\ revived' = revived \ {v}
         \/ UNCHANGED <<member, meant, revived>>
    BY <1>1 DEF RemoveDelete, chatMessages
<1>4. /\ member' \in [ChatUsers -> Member]
      /\ \A u \in ChatUsers : member'[u] = member[u] \/ (u = v /\ member'[u] = Absent)
    BY <1>0, <1>2, <1>3, ChatTypes, IdleChatIs
<1>5. chatJob' \in [ChatJobs -> ChatJob]
    BY <1>0, <1>3, EndsIs, ChatJobMoves
<1>6. revived' \subseteq ChatUsers /\ meant' \subseteq ChatUsers
    BY <1>0, <1>2, <1>3 DEF ChatTypeOK
<1>7. ChatTypeOK'
    BY <1>0, <1>3, <1>4, <1>5, <1>6 DEF ChatTypeOK, ChatJob, chatMessages
<1>8. PastIsPast'
    BY <1>0, <1>3 DEF PastIsPast, Ids, chatMessages
<1>9. MembersHaveCause'
  <2>1. /\ \A u \in meant : u \in ChatUsers /\ In(u)
        /\ \A u \in ChatUsers : In(u) => u \in meant \/ u \in revived
    BY <1>0 DEF MembersHaveCause, InGroup
  <2>2. CASE UNCHANGED <<member, meant, revived>>
    BY <2>1, <2>2 DEF MembersHaveCause, InGroup, In
  <2>3. CASE /\ member' = [member EXCEPT ![v] = Absent]
             /\ meant' = meant \ {v} /\ revived' = revived \ {v}
    <3>1. /\ member'[v].id = 0
          /\ \A u \in ChatUsers \ {v} : member'[u] = member[u]
      BY <1>0, <1>2, <2>3, ChatTypes, IdleChatIs
    <3>2. ~In(v)' /\ \A u \in ChatUsers \ {v} : In(u)' <=> In(u)
      BY <3>1 DEF In
    <3> QED BY <2>1, <2>3, <3>2 DEF MembersHaveCause, InGroup
  <2> QED BY <1>3, <2>2, <2>3
<1>10. \A u \in ChatUsers : member'[u].unread = 0 \/ member'[u].unread = member[u].unread
    BY <1>4, IdleChatIs
<1>11. \A u \in ChatUsers : In(u)' /\ u \notin miscounted' =>
          In(u) /\ u \notin miscounted /\ member'[u] = member[u] /\ before'[u] = before[u]
    BY <1>3, <1>4, IdleChatIs DEF In
<1>12. chatJob[j].step \notin WatchedSteps
    BY <1>3 DEF WatchedSteps
<1> QED BY <1>3, <1>7, <1>8, <1>9, <1>10, <1>11, <1>12, ParticipantsSavedKeep

(* Who joins has read nothing, and nothing that is there counts for it. *)
LEMMA AddInsertKeeps ==
    ASSUME ChatInv, NEW j \in ChatJobs, AddInsert(j)
    PROVE  ChatInv'
<1>0. ChatTypeOK /\ PastIsPast /\ MembersHaveCause
    BY DEF ChatInv
<1>1. PICK v, new : v = chatJob[j].target
                    /\ new = [id |-> joins + 1, admin |-> FALSE, unread |-> 0]
    OBVIOUS
<1>2. v \in ChatUsers
    BY <1>0, <1>1, ChatTypes DEF ChatJob
<1>3. /\ chatJob[j].step = "addInsert" /\ Ends(j) /\ UNCHANGED chatMessages
      /\ UNCHANGED <<group, oldPreview>> /\ joins < MaxJoins /\ joins' = joins + 1
      /\ member' = [member EXCEPT ![v] = new]
      /\ meant' = meant \union {v} /\ revived' = revived \ {v}
      /\ before' = [before EXCEPT ![v] = Ids]
      /\ miscounted' = IF AtStep(Counting) # {} THEN miscounted \union {v} ELSE miscounted \ {v}
    BY <1>1 DEF AddInsert, chatMessages
<1>4. /\ joins' \in 0 .. MaxJoins /\ new \in Member /\ new.unread = 0 /\ new.id # 0
  <2>1. joins \in Nat /\ MaxJoins \in Nat /\ MaxMessages \in Nat
    BY <1>0, ChatTypes
  <2> QED BY <1>1, <1>3, <2>1 DEF Member
<1>5. /\ member' \in [ChatUsers -> Member] /\ member'[v] = new
      /\ \A u \in ChatUsers \ {v} : member'[u] = member[u]
    BY <1>0, <1>2, <1>3, <1>4, ChatTypes
<1>6. /\ before' \in [ChatUsers -> SUBSET MessageIds] /\ before'[v] = Ids
      /\ \A u \in ChatUsers \ {v} : before'[u] = before[u]
    BY <1>0, <1>2, <1>3, ChatTypes DEF ChatTypeOK
<1>7. chatJob' \in [ChatJobs -> ChatJob]
    BY <1>0, <1>3, EndsIs, ChatJobMoves
<1>8. meant' \subseteq ChatUsers /\ revived' \subseteq ChatUsers /\ miscounted' \subseteq ChatUsers
    BY <1>0, <1>2, <1>3 DEF ChatTypeOK
<1>9. ChatTypeOK'
    BY <1>0, <1>3, <1>4, <1>5, <1>6, <1>7, <1>8 DEF ChatTypeOK, ChatJob, chatMessages
<1>10. PastIsPast'
  <2>1. \A u \in ChatUsers : \A m \in before'[u] : m \in 1 .. sent
    BY <1>0, <1>6 DEF PastIsPast
  <2> QED BY <1>0, <1>3, <2>1 DEF PastIsPast, Ids, chatMessages
<1>11. MembersHaveCause'
  <2>1. /\ \A u \in meant : u \in ChatUsers /\ In(u)
        /\ \A u \in ChatUsers : In(u) => u \in meant \/ u \in revived
    BY <1>0 DEF MembersHaveCause, InGroup
  <2>2. In(v)' /\ \A u \in ChatUsers \ {v} : In(u)' <=> In(u)
    BY <1>4, <1>5 DEF In
  <2> QED BY <1>2, <1>3, <2>1, <2>2 DEF MembersHaveCause, InGroup
<1>12. \A u \in ChatUsers : member'[u].unread = 0 \/ member'[u].unread = member[u].unread
    BY <1>4, <1>5
<1>13. UnreadFollows(v)'
  <2>1. SUFFICES ASSUME v \notin miscounted'
                 PROVE  IF \E i \in AtStep({"readBy"})' : chatJob'[i].user = v
                        THEN member'[v].unread = 0 /\ AtStep(Counting)' = {}
                        ELSE Cardinality(Unseen(v)') = member'[v].unread
                               + Cardinality({i \in AtStep(Counting)' : chatJob'[i].user # v})
    BY DEF UnreadFollows
  <2>2. AtStep(Counting) = {}
    BY <1>3, <2>1
  <2>3. AtStep(Counting)' = {}
    <3>1. PICK job \in ChatJob :
             chatJob' = [chatJob EXCEPT ![j] = job] /\ job.step = "idle"
      BY <1>3, EndsIs
    <3>2. job.step \notin Counting /\ chatJob[j].step \notin Counting
      BY <1>3, <3>1 DEF Counting
    <3>3. AtStep(Counting)' = AtStep(Counting)
      BY <1>0, <3>1, <3>2, OthersWork
    <3> QED BY <2>2, <3>3
  <2>4. Unseen(v)' = {} /\ {i \in AtStep(Counting)' : chatJob'[i].user # v} = {}
    BY <1>3, <1>6, <2>3 DEF Unseen, Ids, chatMessages
  <2>5. Cardinality({}) = 0
    BY FS_EmptySet
  <2> QED BY <1>4, <1>5, <2>3, <2>4, <2>5
<1>14. ASSUME NEW u \in ChatUsers, u # v, In(u)', u \notin miscounted'
       PROVE  /\ In(u) /\ u \notin miscounted
              /\ member'[u] = member[u] /\ before'[u] = before[u]
    BY <1>3, <1>5, <1>6, <1>14 DEF In
<1>15. chatJob[j].step \notin WatchedSteps
    BY <1>3 DEF WatchedSteps
<1> QED BY <1>3, <1>9, <1>10, <1>11, <1>12, <1>13, <1>14, <1>15, ParticipantsSavedKeep

(* The preview is of the message that was sent, and of the last: had its row gone with the *)
(* conversation, every later one would be of a later id.                                   *)
LEMMA SendSaveKeeps ==
    ASSUME ChatInv, NEW j \in ChatJobs, SendSave(j)
    PROVE  ChatInv'
<1>0. ChatTypeOK /\ PastIsPast
    BY DEF ChatInv
<1>1. PICK old, job : old = chatJob[j] /\ job = [old EXCEPT !.step = "sendCount"]
    OBVIOUS
<1>2. /\ old \in ChatJob /\ ChatJobKnows(old) /\ old.step = "sendSave"
      /\ Saves(j, old.msg) /\ UNCHANGED chatMessages /\ UNCHANGED <<joins, meant, before>>
      /\ chatJob' = [chatJob EXCEPT ![j] = job]
    BY <1>0, <1>1, ChatTypes DEF ChatInv, SendSave, Step, chatMessages
<1>3. /\ job \in ChatJob /\ job.step = "sendCount" /\ job.user = old.user /\ job.msg = old.msg
      /\ job.preview = old.preview /\ job.none = old.none /\ job.members = old.members
  <2>1. "sendCount" \in ChatSteps
    BY DEF ChatSteps
  <2> QED BY <1>1, <1>2, <2>1, ChatJobIs
<1>4. /\ member' = old.members /\ member' \in [ChatUsers -> Member]
      /\ group' = [here |-> TRUE, preview |-> old.msg] /\ MembersHaveCause'
      /\ revived' \subseteq ChatUsers /\ miscounted' \subseteq ChatUsers
      /\ oldPreview' \in BOOLEAN
      /\ \A u \in ChatUsers : In(u)' /\ u \notin miscounted' =>
            In(u) /\ u \notin miscounted /\ member'[u] = member[u]
    BY <1>1, <1>2, SavesIs
<1>5. ~oldPreview' =>
         ~oldPreview /\ ~chat[old.msg].deleted /\ \A m \in Ids : ~(old.msg < m)
    BY <1>1, <1>2 DEF Saves
<1>6. /\ old.msg \in MessageIds /\ old.msg <= sent /\ sent \in Nat
      /\ group' \in [here : BOOLEAN, preview : 0 .. DeletedPreview]
      /\ MessageIds \subseteq Nat
    BY <1>0, <1>2, <1>4, ChatTypes, SMTT(40) DEF ChatJob, ChatJobKnows
<1>7. chatJob' \in [ChatJobs -> ChatJob] /\ chatJob'[j] = job
    BY <1>0, <1>2, <1>3, ChatJobMoves
<1>8. ChatTypeOK'
    BY <1>0, <1>2, <1>4, <1>6, <1>7 DEF ChatTypeOK, ChatJob, chatMessages
<1>9. PastIsPast'
    BY <1>0, <1>2, <1>4, <1>6 DEF PastIsPast, Ids, chatMessages
<1>10. /\ Ids' = Ids /\ Current' = Current
       /\ \A u \in ChatUsers : Unseen(u)' = Unseen(u)
    BY <1>2 DEF Ids, Current, Unseen, chatMessages
<1>11. \A i \in ChatJobs : ChatJobKnows(chatJob[i])'
  <2>1. ChatJobKnows(job)'
    BY <1>2, <1>3 DEF ChatJobKnows, chatMessages
  <2>2. sent <= sent'
    BY <1>2, <1>6 DEF chatMessages
  <2> QED BY <1>2, <1>3, <1>8, <1>10, <2>1, <2>2, ChatJobsStay DEF chatMessages
<1>12. DirectsAreCounted' /\ DirectOnce'
    BY <1>1, <1>2, <1>3, DirectsStay DEF chatMessages
<1>13. UnreadIsSent'
  <2>3. chatJob[j].step \in Counting /\ job.step \in Counting
    BY <1>1, <1>2, <1>3 DEF Counting
  <2>4. j \in ChatJobs /\ job \in ChatJob /\ chatJob' = [chatJob EXCEPT ![j] = job]
    BY <1>2, <1>3
  <2>1. AtStep(Counting)' = AtStep(Counting)
    BY ONLY <1>0, <2>3, <2>4, OthersWork
  <2>2. \A u \in ChatUsers : \E i \in ChatJobs :
           member'[u].unread = chatJob[i].members[u].unread
    BY <1>1, <1>4
  <2> QED BY <1>1, <1>2, <1>3, <2>1, <2>2, UnreadIsSentStays DEF chatMessages
<1>14. DeletionHolds'
    BY <1>2, <1>10 DEF ChatInv, DeletionHolds, chatMessages
<1>15. ASSUME NEW u \in ChatUsers PROVE UnreadFollows(u)'
    BY <1>1, <1>2, <1>3, <1>4, <1>10, UnreadStays DEF Counting
<1>16. ASSUME NEW m \in Current' PROVE PreviewFollows(m)'
  <2>1. SUFFICES ASSUME \A n \in Ids : n <= m, ~oldPreview'
                 PROVE  group'.preview = IF chat[m].deleted THEN DeletedPreview ELSE m
    BY <1>2, <1>10 DEF PreviewFollows, chatMessages
  <2>2. m \in Current /\ m \in Ids /\ m \in MessageIds /\ m \in Nat /\ old.msg \in Nat
    BY <1>6, <1>10 DEF Current, Ids
  <2>3. old.msg \in Ids
    BY <1>2, <1>5, <2>1, <2>2 DEF ChatJobKnows
  <2>4. old.msg = m
    BY <1>5, <2>1, <2>2, <2>3
  <2> QED BY <1>4, <1>5, <2>1, <2>4
<1> QED BY <1>4, <1>8, <1>9, <1>11, <1>12, <1>13, <1>14, <1>15, <1>16 DEF ChatInv

LEMMA LastIs ==
    ASSUME ChatTypeOK, NEW m \in Ids, \A n \in Ids : n <= m
    PROVE  LastMessage = m
<1>1. \A n \in Ids : n \in Nat
    BY ChatTypes
<1>2. \A k \in Ids : (\A n \in Ids : n <= k) => k = m
    BY <1>1
<1> QED BY <1>2 DEF LastMessage

LEMMA LastIsLast ==
    ASSUME ChatTypeOK, Ids # {}
    PROVE  LastMessage \in Ids /\ \A n \in Ids : n <= LastMessage
<1>1. Ids \in SUBSET MessageIds /\ MessageIds = 1 .. MaxMessages /\ MaxMessages \in Nat
    BY ChatTypes
<1>2. \E m \in Ids : \A n \in Ids : n <= m
  <2>1. PICK lasts : lasts = {m \in Nat : \A n \in Ids : n <= m}
    OBVIOUS
  <2>2. MaxMessages \in lasts
    BY <1>1, <2>1
  <2>3. PICK m \in lasts : \A k \in lasts : ~(k < m)
    BY <2>1, <2>2, LeastNumber
  <2>4. m \in Nat /\ \A n \in Ids : n <= m
    BY <2>1, <2>3
  <2>5. m \notin Ids => FALSE
    <3>1. SUFFICES ASSUME m \notin Ids PROVE FALSE
      OBVIOUS
    <3>2. PICK n \in Ids : TRUE
      OBVIOUS
    <3>3. m - 1 \in Nat /\ \A i \in Ids : i <= m - 1
      BY <1>1, <2>4, <3>1, <3>2
    <3>4. m - 1 \in lasts /\ m - 1 < m
      BY <2>1, <2>4, <3>3
    <3> QED BY <2>3, <3>4
  <2> QED BY <2>4, <2>5
<1> QED BY <1>2 DEF LastMessage

LEMMA WithdrawPreviewKeeps ==
    ASSUME ChatInv, NEW j \in ChatJobs, WithdrawPreview(j)
    PROVE  ChatInv'
<1>0. ChatTypeOK /\ PastIsPast
    BY DEF ChatInv
<1>1. PICK old : old = chatJob[j]
    OBVIOUS
<1>2. /\ old \in ChatJob /\ ChatJobKnows(old) /\ old.step = "withdrawPreview"
      /\ Saves(j, DeletedPreview) /\ Ends(j) /\ UNCHANGED chatMessages
      /\ UNCHANGED <<joins, meant, before>>
    BY <1>0, <1>1, ChatTypes DEF ChatInv, WithdrawPreview, chatMessages
<1>3. PICK job \in ChatJob :
         /\ chatJob' = [chatJob EXCEPT ![j] = job] /\ job.step = "idle" /\ ChatJobKnows(job)'
         /\ \A u \in ChatUsers : job.members[u].unread = 0
    BY <1>2, EndsIs
<1>4. /\ member' = old.members /\ member' \in [ChatUsers -> Member]
      /\ group' = [here |-> TRUE, preview |-> DeletedPreview] /\ MembersHaveCause'
      /\ revived' \subseteq ChatUsers /\ miscounted' \subseteq ChatUsers
      /\ oldPreview' \in BOOLEAN
      /\ \A u \in ChatUsers : In(u)' /\ u \notin miscounted' =>
            In(u) /\ u \notin miscounted /\ member'[u] = member[u]
    BY <1>1, <1>2, SavesIs
<1>5. ~oldPreview' => ~oldPreview /\ group.preview = old.preview
    BY <1>1, <1>2 DEF Saves
<1>6. /\ old.msg \in MessageIds /\ sent \in Nat /\ MessageIds \subseteq Nat
      /\ group' \in [here : BOOLEAN, preview : 0 .. DeletedPreview]
      /\ group'.preview \notin MessageIds
  <2>1. PICK max \in Nat : max = MaxMessages
    BY <1>0, ChatTypes
  <2>2. DeletedPreview = max + 1 /\ MessageIds = 1 .. max
    BY <2>1 DEF DeletedPreview, MessageIds
  <2>3. /\ DeletedPreview \in 0 .. DeletedPreview /\ DeletedPreview \notin MessageIds
        /\ MessageIds \subseteq Nat
    BY ONLY <2>1, <2>2
  <2>4. old.msg \in MessageIds
    BY <1>2 DEF ChatJob
  <2>5. sent \in Nat
    BY <1>0, ChatTypes
  <2>6. group'.preview = DeletedPreview
    BY <1>4
  <2> QED BY ONLY <1>4, <2>3, <2>4, <2>5, <2>6
<1>7. chatJob' \in [ChatJobs -> ChatJob] /\ chatJob'[j] = job
      /\ \A i \in ChatJobs \ {j} : chatJob'[i] = chatJob[i]
    BY <1>0, <1>3, ChatJobMoves
<1>8. ChatTypeOK'
    BY <1>0, <1>2, <1>4, <1>6, <1>7 DEF ChatTypeOK, ChatJob, chatMessages
<1>9. PastIsPast'
    BY <1>0, <1>2, <1>4, <1>6 DEF PastIsPast, Ids, chatMessages
<1>10. /\ Ids' = Ids /\ Current' = Current
       /\ \A u \in ChatUsers : Unseen(u)' = Unseen(u)
    BY <1>2 DEF Ids, Current, Unseen, chatMessages
<1>11. \A i \in ChatJobs : ChatJobKnows(chatJob[i])'
  <2>2. sent <= sent'
    BY <1>2, <1>6 DEF chatMessages
  <2> QED BY <1>2, <1>3, <1>8, <1>10, <2>2, ChatJobsStay DEF chatMessages
<1>12. DirectsAreCounted' /\ DirectOnce'
    BY <1>1, <1>2, <1>3, DirectsStay DEF chatMessages
<1>a. /\ chatJob[j].step \notin Counting \union {"readBy"}
      /\ job.step \notin Counting \union {"readBy"}
    BY <1>1, <1>2, <1>3 DEF Counting
<1>13. UnreadIsSent'
  <2>1. AtStep(Counting)' = AtStep(Counting)
    BY <1>0, <1>3, <1>a, OthersWork
  <2>2. \A u \in ChatUsers : \E i \in ChatJobs :
           member'[u].unread = chatJob[i].members[u].unread
    BY <1>1, <1>4
  <2> QED BY <1>1, <1>2, <1>3, <2>1, <2>2, UnreadIsSentStays DEF chatMessages
<1>14. DeletionHolds'
    BY <1>2, <1>10 DEF ChatInv, DeletionHolds, chatMessages
<1>15. ASSUME NEW u \in ChatUsers PROVE UnreadFollows(u)'
    BY <1>3, <1>4, <1>10, <1>a, UnreadStays
<1>16. ASSUME NEW m \in Current' PROVE PreviewFollows(m)'
  <2>1. m \in Current /\ m \in Ids /\ m \in MessageIds /\ m \in Nat /\ old.msg \in Nat
    BY <1>6, <1>10 DEF Current, Ids
  <2>2. SUFFICES ASSUME \A n \in Ids : n <= m, ~oldPreview'
                 PROVE  \/ chat[m].deleted
                        \/ \E i \in AtStep({"sendSave", "withdrawLast", "withdrawPreview"})' :
                              chatJob'[i].msg = m
    BY <1>2, <1>4, <1>10 DEF PreviewFollows, chatMessages
  <2>3. CASE group.preview = m
    <3>1. old.preview = m
      BY <1>5, <2>2, <2>3
    <3>2. ~(old.msg < m)
      BY <1>2, <2>1, <3>1 DEF ChatJobKnows
    <3>3. old.msg = m
      <4>1. old.msg \in Ids
        BY <1>2, <2>1, <3>2 DEF ChatJobKnows
      <4>2. old.msg <= m
        BY <2>2, <4>1
      <4> QED BY <2>1, <3>2, <4>2
    <3> QED BY <1>2, <2>1, <3>3 DEF ChatJobKnows
  <2>4. CASE group.preview # m
    <3>1. \/ chat[m].deleted
          \/ \E i \in AtStep({"sendSave", "withdrawLast", "withdrawPreview"}) :
                chatJob[i].msg = m
      BY <1>5, <2>1, <2>2, <2>4 DEF ChatInv, PreviewFollows
    <3>2. ASSUME NEW i \in AtStep({"sendSave", "withdrawLast", "withdrawPreview"}),
                 chatJob[i].msg = m, ~chat[m].deleted
          PROVE  /\ i \in AtStep({"sendSave", "withdrawLast", "withdrawPreview"})'
                 /\ chatJob'[i].msg = m
      <4>1. i # j
        BY <1>1, <1>2, <2>1, <3>2 DEF ChatJobKnows
      <4> QED BY <1>7, <3>2, <4>1 DEF AtStep
    <3> QED BY <3>1, <3>2
  <2> QED BY <2>3, <2>4
<1> QED BY <1>4, <1>8, <1>9, <1>11, <1>12, <1>13, <1>14, <1>15, <1>16 DEF ChatInv

(* The preview is to be saved when the message is the last, and is of another otherwise. *)
LEMMA WithdrawLastKeeps ==
    ASSUME ChatInv, NEW j \in ChatJobs, WithdrawLast(j)
    PROVE  ChatInv'
<1>0. ChatTypeOK /\ PastIsPast
    BY DEF ChatInv
<1>1. PICK old : old = chatJob[j]
    OBVIOUS
<1>2. /\ old \in ChatJob /\ ChatJobKnows(old) /\ old.step = "withdrawLast"
      /\ UNCHANGED chatMeanings /\ UNCHANGED chatRequests
    BY <1>0, <1>1, ChatTypes DEF ChatInv, WithdrawLast, chatMeanings
<1>3. /\ old.msg \in MessageIds /\ sent \in Nat /\ MessageIds \subseteq Nat
    BY <1>0, <1>2, ChatTypes DEF ChatJob
<1>10. /\ Ids' = Ids /\ Current' = Current /\ \A u : In(u)' = In(u)
       /\ \A u \in ChatUsers : Unseen(u)' = Unseen(u)
    BY <1>2 DEF Ids, Current, Unseen, In, chatMeanings
<1>4. \E job \in ChatJob :
         /\ chatJob' = [chatJob EXCEPT ![j] = job] /\ ChatJobKnows(job)'
         /\ \/ /\ job.step = "withdrawPreview" /\ job.msg = old.msg
               /\ job.members = old.members
            \/ /\ job.step = "idle" /\ \A u \in ChatUsers : job.members[u].unread = 0
               /\ ~(Ids # {} /\ LastMessage = old.msg)
  <2>1. CASE Ids # {} /\ LastMessage = old.msg
    <3>1. PICK job : job = [old EXCEPT !.step = "withdrawPreview"]
      OBVIOUS
    <3>2. Step(j, "withdrawPreview") /\ "withdrawPreview" \in ChatSteps
      BY <1>1, <2>1 DEF WithdrawLast, ChatSteps
    <3>3. /\ job \in ChatJob /\ job.step = "withdrawPreview" /\ job.msg = old.msg
          /\ job.members = old.members /\ job.preview = old.preview
      BY <1>2, <3>1, <3>2, ChatJobIs
    <3>4. chatJob' = [chatJob EXCEPT ![j] = job]
      BY <1>0, <1>1, <3>1, <3>2, ChatTypes DEF Step
    <3>5. \A m \in Current : ~(old.msg < m)
      <4>1. \A m \in Ids : m <= old.msg
        BY <1>0, <2>1, LastIsLast
      <4>2. \A m \in Current : m \in Ids /\ m \in Nat
        BY <1>3 DEF Current, Ids
      <4>3. old.msg \in Nat
        BY <1>3
      <4> QED BY <4>1, <4>2, <4>3
    <3>6. ChatJobKnows(job)
      BY <1>2, <3>3, <3>5 DEF ChatJobKnows
    <3>7. ChatJobKnows(job)'
      BY <1>2, <1>10, <3>6 DEF ChatJobKnows, chatMeanings
    <3> QED BY <3>3, <3>4, <3>7
  <2>2. CASE ~(Ids # {} /\ LastMessage = old.msg)
    <3>1. Ends(j)
      BY <1>1, <2>2 DEF WithdrawLast
    <3> QED BY <2>2, <3>1, EndsIs
  <2> QED BY <2>1, <2>2
<1>5. PICK job \in ChatJob :
         /\ chatJob' = [chatJob EXCEPT ![j] = job] /\ ChatJobKnows(job)'
         /\ \/ /\ job.step = "withdrawPreview" /\ job.msg = old.msg
               /\ job.members = old.members
            \/ /\ job.step = "idle" /\ \A u \in ChatUsers : job.members[u].unread = 0
               /\ ~(Ids # {} /\ LastMessage = old.msg)
    BY <1>4
<1>7. chatJob' \in [ChatJobs -> ChatJob] /\ chatJob'[j] = job
      /\ \A i \in ChatJobs \ {j} : chatJob'[i] = chatJob[i]
    BY <1>0, <1>5, ChatJobMoves
<1>8. ChatTypeOK'
    BY <1>0, <1>2, <1>7 DEF ChatTypeOK, ChatJob, chatMeanings
<1>9. PastIsPast' /\ DeletionHolds' /\ MembersHaveCause'
    BY <1>2, <1>10 DEF ChatInv, PastIsPast, DeletionHolds, MembersHaveCause, InGroup, In,
                       chatMeanings
<1>11. \A i \in ChatJobs : ChatJobKnows(chatJob[i])'
  <2>2. sent <= sent'
    BY <1>2, <1>3 DEF chatMeanings
  <2> QED BY <1>2, <1>5, <1>8, <1>10, <2>2, ChatJobsStay DEF chatMeanings
<1>12. DirectsAreCounted' /\ DirectOnce'
    BY <1>1, <1>2, <1>5, DirectsStay DEF chatMeanings
<1>a. /\ chatJob[j].step \notin Counting \union {"readBy"}
      /\ job.step \notin Counting \union {"readBy"}
    BY <1>1, <1>2, <1>5 DEF Counting
<1>13. UnreadIsSent'
  <2>1. AtStep(Counting)' = AtStep(Counting)
    BY <1>0, <1>5, <1>a, OthersWork
  <2> QED BY <1>1, <1>2, <1>5, <2>1, UnreadIsSentStays DEF chatMeanings
<1>15. ASSUME NEW u \in ChatUsers PROVE UnreadFollows(u)'
    BY <1>2, <1>5, <1>10, <1>a, UnreadStays DEF chatMeanings
<1>16. ASSUME NEW m \in Current' PROVE PreviewFollows(m)'
  <2>1. m \in Current /\ m \in Ids
    BY <1>10 DEF Current
  <2>2. SUFFICES ASSUME \A n \in Ids : n <= m, ~oldPreview
                 PROVE  \/ group.preview = IF chat[m].deleted THEN DeletedPreview ELSE m
                        \/ \E i \in AtStep({"sendSave", "withdrawLast", "withdrawPreview"})' :
                              chatJob'[i].msg = m
    BY <1>2, <1>10 DEF PreviewFollows, chatMeanings
  <2>3. \/ group.preview = IF chat[m].deleted THEN DeletedPreview ELSE m
        \/ \E i \in AtStep({"sendSave", "withdrawLast", "withdrawPreview"}) :
              chatJob[i].msg = m
    BY <2>1, <2>2 DEF ChatInv, PreviewFollows
  <2>4. ASSUME NEW i \in AtStep({"sendSave", "withdrawLast", "withdrawPreview"}),
               chatJob[i].msg = m
        PROVE  /\ i \in AtStep({"sendSave", "withdrawLast", "withdrawPreview"})'
               /\ chatJob'[i].msg = m
    <3>1. CASE i # j
      BY <1>7, <2>4, <3>1 DEF AtStep
    <3>2. CASE i = j
      <4>1. LastMessage = m
        BY <1>0, <2>1, <2>2, LastIs
      <4>2. job.step = "withdrawPreview" /\ job.msg = m
        BY <1>1, <1>5, <2>1, <2>4, <3>2, <4>1
      <4> QED BY <1>7, <3>2, <4>2 DEF AtStep
    <3> QED BY <3>1, <3>2
  <2> QED BY <2>3, <2>4
<1> QED BY <1>8, <1>9, <1>11, <1>12, <1>13, <1>15, <1>16 DEF ChatInv

-----------------------------------------------------------------------------
(* Requests that save a message. *)

(* messageRepo.save of a row read before: in what was never saved from an old copy, only *)
(* what the request changes is another.                                                  *)
LEMMA SavesMessageIs ==
    ASSUME ChatInv, NEW m \in MessageIds, NEW copy \in ChatMessage, NEW new \in ChatMessage,
           copy.here, new.here, new.readBy = copy.readBy, UNCHANGED before,
           SavesMessage(m, copy, new)
    PROVE  /\ chat' \in [MessageIds -> ChatMessage] /\ chat'[m] = new
           /\ \A n \in MessageIds \ {m} : chat'[n] = chat[n]
           /\ rewritten' \subseteq MessageIds /\ miscounted' \subseteq ChatUsers
           /\ Ids' = Ids \union {m}
           /\ \A n \in Current' : n \in Current
           /\ m \in Current' => chat[m] = copy
           /\ \A n \in Ids' \ rewritten' : n \in Ids \ rewritten
           /\ \A u \in ChatUsers : u \notin miscounted' =>
                 u \notin miscounted /\ Unseen(u)' = Unseen(u)
<1>0. ChatTypeOK
    BY DEF ChatInv
<1>1. /\ chat \in [MessageIds -> ChatMessage]
      /\ rewritten \subseteq MessageIds /\ miscounted \subseteq ChatUsers
    BY <1>0 DEF ChatTypeOK
<1>2. /\ chat' = [chat EXCEPT ![m] = new]
      /\ rewritten' = IF chat[m] # copy THEN rewritten \union {m} ELSE rewritten
      /\ miscounted' = miscounted \union
           (IF chat[m].here THEN {u \in ChatUsers : u \in chat[m].readBy <=> u \notin copy.readBy}
            ELSE ChatUsers)
    BY DEF SavesMessage
<1>3. /\ chat' \in [MessageIds -> ChatMessage] /\ chat'[m] = new
      /\ \A n \in MessageIds \ {m} : chat'[n] = chat[n]
    BY <1>1, <1>2
<1>4. rewritten' \subseteq MessageIds /\ miscounted' \subseteq ChatUsers
    BY <1>1, <1>2
<1>5. Ids' = Ids \union {m}
    BY <1>3 DEF Ids
<1>6. \A n \in Current' : n \in Current
    BY <1>2, <1>3, <1>5 DEF Current, Ids
<1>7. m \in Current' => chat[m] = copy
    BY <1>2 DEF Current
<1>8. ASSUME NEW u \in ChatUsers, u \notin miscounted'
      PROVE  u \notin miscounted /\ Unseen(u)' = Unseen(u)
  <2>1. u \notin miscounted /\ chat[m].here /\ (u \in chat[m].readBy <=> u \in copy.readBy)
    BY <1>2, <1>8
  <2>2. Ids' = Ids
    BY <1>5, <2>1 DEF Ids
  <2>3. \A n \in Ids : u \in chat'[n].readBy <=> u \in chat[n].readBy
    BY <1>3, <2>1 DEF Ids
  <2>4. Unseen(u)' = {n \in Ids \ before[u] : u \notin chat'[n].readBy}
    BY <2>2 DEF Unseen
  <2> QED BY <2>1, <2>3, <2>4 DEF Unseen
<1> QED BY <1>3, <1>4, <1>5, <1>6, <1>7, <1>8 DEF Current

(* What deleteMessageForEveryone and deleteMessageForMe share. *)
LEMMA MessageSavedKeeps ==
    ASSUME ChatInv, NEW j \in ChatJobs, NEW old \in ChatJob, old = chatJob[j], NEW job \in ChatJob,
           NEW new \in ChatMessage, old.step \in {"withdrawSave", "hideSave"},
           chatJob' = [chatJob EXCEPT ![j] = job],
           job.step \in {"withdrawLast", "idle"}, ChatJobKnows(job)',
           \/ \A u \in ChatUsers : job.members[u].unread = 0
           \/ job.members = old.members,
           old.copy.here, new.here, new.readBy = old.copy.readBy,
           old.copy.deleted => new.deleted,
           SavesMessage(old.msg, old.copy, new),
           withdrawn' \subseteq withdrawn \union {old.msg},
           hidden' \subseteq hidden \union {<<old.msg, old.user>>},
           old.msg \in withdrawn' /\ old.msg \notin rewritten' => new.deleted,
           \A u \in ChatUsers : <<old.msg, u>> \in hidden' /\ old.msg \notin rewritten' =>
              u \in new.deletedFor,
           \/ new.deleted = old.copy.deleted
           \/ job.step = "withdrawLast" /\ job.msg = old.msg,
           UNCHANGED <<sent, group, member, direct, joins, meant, revived, before, oldPreview,
                       races, chatRequests>>
    PROVE  ChatInv'
<1>0. ChatTypeOK /\ PastIsPast /\ ChatJobKnows(old)
    BY DEF ChatInv
<1>1. PICK msg, copy : msg = old.msg /\ copy = old.copy
    OBVIOUS
<1>2. /\ msg \in MessageIds /\ copy \in ChatMessage /\ msg <= sent /\ sent \in Nat
      /\ MessageIds \subseteq Nat /\ old.user \in ChatUsers
    BY <1>0, <1>1, ChatTypes, SMTT(40) DEF ChatJob, ChatJobKnows
<1>3. /\ chat' \in [MessageIds -> ChatMessage] /\ chat'[msg] = new
      /\ \A n \in MessageIds \ {msg} : chat'[n] = chat[n]
      /\ rewritten' \subseteq MessageIds /\ miscounted' \subseteq ChatUsers
      /\ Ids' = Ids \union {msg}
      /\ \A n \in Current' : n \in Current
      /\ msg \in Current' => chat[msg] = copy
      /\ \A n \in Ids' \ rewritten' : n \in Ids \ rewritten
      /\ \A u \in ChatUsers : u \notin miscounted' =>
            u \notin miscounted /\ Unseen(u)' = Unseen(u)
    BY <1>1, <1>2, SavesMessageIs
<1>7. chatJob' \in [ChatJobs -> ChatJob] /\ chatJob'[j] = job
      /\ \A i \in ChatJobs \ {j} : chatJob'[i] = chatJob[i]
    BY <1>0, ChatJobMoves
<1>8. ChatTypeOK'
  <2>1. withdrawn' \subseteq MessageIds /\ hidden' \subseteq MessageIds \X ChatUsers
    BY <1>0, <1>1, <1>2 DEF ChatTypeOK
  <2> QED BY <1>0, <1>3, <1>7, <2>1 DEF ChatTypeOK, ChatJob
<1>9. PastIsPast'
  <2>1. \A n \in Ids' \union withdrawn' : n \in 1 .. sent
    BY <1>0, <1>1, <1>2, <1>3 DEF PastIsPast, MessageIds
  <2>2. \A h \in hidden' : h[1] <= sent
    BY <1>0, <1>1, <1>2 DEF PastIsPast
  <2> QED BY <1>0, <2>1, <2>2 DEF PastIsPast
<1>10. DeletionHolds' /\ MembersHaveCause'
  <2>1. MembersHaveCause'
    BY DEF ChatInv, MembersHaveCause, InGroup, In
  <2>2. ASSUME NEW n \in Ids' \ rewritten'
        PROVE  /\ n \in withdrawn' => chat'[n].deleted
               /\ \A u \in ChatUsers : <<n, u>> \in hidden' => u \in chat'[n].deletedFor
    <3>1. CASE n = msg
      BY <1>1, <1>3, <2>2, <3>1
    <3>2. CASE n # msg
      <4>1. n \in Ids \ rewritten /\ chat'[n] = chat[n]
        BY <1>3, <2>2, <3>2 DEF Ids
      <4>2. n \in withdrawn' => n \in withdrawn
        BY <1>1, <3>2
      <4>3. \A u \in ChatUsers : <<n, u>> \in hidden' => <<n, u>> \in hidden
        BY <1>1, <3>2
      <4> QED BY <4>1, <4>2, <4>3 DEF ChatInv, DeletionHolds
    <3> QED BY <3>1, <3>2
  <2> QED BY <2>1, <2>2 DEF DeletionHolds
<1>11. \A i \in ChatJobs : ChatJobKnows(chatJob[i])'
  <2>1. sent <= sent'
    BY <1>2
  <2>2. \A n \in Current : n \in Current' /\ chat[n].deleted => chat'[n].deleted
    <3>1. SUFFICES ASSUME NEW n \in Current, n \in Current', chat[n].deleted
                   PROVE  chat'[n].deleted
      OBVIOUS
    <3>2. CASE n = msg
      BY <1>1, <1>3, <3>1, <3>2
    <3>3. CASE n # msg
      BY <1>3, <3>1, <3>3 DEF Current, Ids
    <3> QED BY <3>2, <3>3
  <2>3. \A n \in Ids : n \in Ids'
    BY <1>3
  <2> QED BY <1>3, <1>8, <2>1, <2>2, <2>3, ChatJobsStay
<1>12. DirectsAreCounted' /\ DirectOnce'
    BY DirectsStay
<1>a. /\ chatJob[j].step \notin Counting \union {"readBy"}
      /\ job.step \notin Counting \union {"readBy"}
    BY DEF Counting
<1>13. UnreadIsSent'
  <2>2. chatJob[j].step \in Counting <=> job.step \in Counting
    BY <1>a
  <2>1. AtStep(Counting)' = AtStep(Counting)
    BY ONLY <1>0, <2>2, OthersWork, chatJob' = [chatJob EXCEPT ![j] = job], j \in ChatJobs,
            job \in ChatJob
  <2> QED BY <2>1, UnreadIsSentStays
<1>15. ASSUME NEW u \in ChatUsers PROVE UnreadFollows(u)'
  <2>1. In(u)' /\ u \notin miscounted' =>
          In(u) /\ u \notin miscounted /\ member'[u] = member[u] /\ Unseen(u)' = Unseen(u)
    BY <1>3 DEF In
  <2> QED BY <1>a, <2>1, UnreadStays
<1>16. ASSUME NEW n \in Current' PROVE PreviewFollows(n)'
  <2>1. n \in Current
    BY <1>3, <1>16
  <2>2. CASE n = msg /\ job.step = "withdrawLast" /\ job.msg = old.msg
    <3>1. j \in AtStep({"sendSave", "withdrawLast", "withdrawPreview"})' /\ chatJob'[j].msg = n
      BY <1>1, <1>7, <2>2 DEF AtStep
    <3> QED BY <3>1 DEF PreviewFollows
  <2>3. CASE n # msg \/ new.deleted = copy.deleted
    <3>1. chat'[n].deleted = chat[n].deleted
      <4>1. CASE n = msg
        BY <1>3, <1>16, <2>3, <4>1
      <4>2. CASE n # msg
        BY <1>3, <2>1, <4>2 DEF Current, Ids
      <4> QED BY <4>1, <4>2
    <3>2. \A k \in Ids : k \in Ids'
      BY <1>3
    <3>3. chatJob[j].step \notin {"sendSave", "withdrawLast", "withdrawPreview"}
      OBVIOUS
    <3>4. ~oldPreview' => ~oldPreview /\ group'.preview = group.preview
      OBVIOUS
    <3> QED BY <2>1, <3>1, <3>2, <3>3, <3>4, PreviewStays
  <2> QED BY <1>1, <2>2, <2>3
<1> QED BY <1>8, <1>9, <1>10, <1>11, <1>12, <1>13, <1>15, <1>16 DEF ChatInv

LEMMA WithdrawSaveKeeps ==
    ASSUME ChatInv, NEW j \in ChatJobs, WithdrawSave(j)
    PROVE  ChatInv'
<1>0. ChatTypeOK
    BY DEF ChatInv
<1>1. PICK old, copy : old = chatJob[j] /\ copy = old.copy
    OBVIOUS
<1>2. /\ old \in ChatJob /\ ChatJobKnows(old) /\ old.step = "withdrawSave"
      /\ copy \in ChatMessage /\ copy.here /\ old.msg \in MessageIds /\ old.user \in ChatUsers
    BY <1>0, <1>1, ChatTypes DEF ChatInv, ChatJobKnows, ChatJob, WithdrawSave
<1>3. PICK new : new = [copy EXCEPT !.deleted = TRUE]
    OBVIOUS
<1>4. /\ new \in ChatMessage /\ new.here /\ new.deleted
      /\ new.readBy = copy.readBy /\ new.deletedFor = copy.deletedFor
    BY <1>2, <1>3 DEF ChatMessage
<1>5. /\ SavesMessage(old.msg, copy, new) /\ withdrawn' = withdrawn \union {old.msg}
      /\ Step(j, "withdrawLast")
      /\ UNCHANGED <<sent, group, member, direct, joins, meant, revived, before, oldPreview,
                     hidden, races, chatRequests>>
    BY <1>1, <1>3 DEF WithdrawSave
<1>6. PICK job : job = [old EXCEPT !.step = "withdrawLast"]
    OBVIOUS
<1>7. "withdrawLast" \in ChatSteps
    BY DEF ChatSteps
<1>8. /\ job \in ChatJob /\ job.step = "withdrawLast" /\ job.msg = old.msg
      /\ job.members = old.members /\ job.preview = old.preview
    BY <1>2, <1>6, <1>7, ChatJobIs
<1>9. chatJob' = [chatJob EXCEPT ![j] = job]
    BY <1>0, <1>1, <1>5, <1>6, ChatTypes DEF Step
<1>10. /\ chat'[old.msg] = new /\ Ids' = Ids \union {old.msg}
       /\ \A n \in Ids' \ rewritten' : n \in Ids \ rewritten
       /\ old.msg \in Current' => chat[old.msg] = copy
    BY <1>2, <1>4, <1>5, SavesMessageIs
<1>11. ChatJobKnows(job)'
    BY <1>2, <1>4, <1>5, <1>8, <1>10 DEF ChatJobKnows
<1>12. \A u \in ChatUsers : <<old.msg, u>> \in hidden' /\ old.msg \notin rewritten' =>
          u \in new.deletedFor
  <2>1. SUFFICES ASSUME NEW u \in ChatUsers, <<old.msg, u>> \in hidden, old.msg \notin rewritten'
                 PROVE  u \in new.deletedFor
    BY <1>5
  <2>2. old.msg \in Ids \ rewritten /\ chat[old.msg] = copy
    BY <1>10, <2>1 DEF Current
  <2>3. u \in chat[old.msg].deletedFor
    BY <2>1, <2>2 DEF ChatInv, DeletionHolds
  <2> QED BY <1>4, <2>2, <2>3
<1> QED BY <1>1, <1>2, <1>4, <1>5, <1>8, <1>9, <1>11, <1>12, MessageSavedKeeps

LEMMA HideSaveKeeps ==
    ASSUME ChatInv, NEW j \in ChatJobs, HideSave(j)
    PROVE  ChatInv'
<1>0. ChatTypeOK
    BY DEF ChatInv
<1>1. PICK old, copy : old = chatJob[j] /\ copy = old.copy
    OBVIOUS
<1>2. /\ old \in ChatJob /\ ChatJobKnows(old) /\ old.step = "hideSave"
      /\ copy \in ChatMessage /\ copy.here /\ old.msg \in MessageIds /\ old.user \in ChatUsers
    BY <1>0, <1>1, ChatTypes DEF ChatInv, ChatJobKnows, ChatJob, HideSave
<1>3. PICK new : new = [copy EXCEPT !.deletedFor = copy.deletedFor \union {old.user}]
    OBVIOUS
<1>4. /\ new \in ChatMessage /\ new.here /\ new.deleted = copy.deleted
      /\ new.readBy = copy.readBy /\ new.deletedFor = copy.deletedFor \union {old.user}
    BY <1>2, <1>3 DEF ChatMessage
<1>5. /\ SavesMessage(old.msg, copy, new) /\ hidden' = hidden \union {<<old.msg, old.user>>}
      /\ Ends(j)
      /\ UNCHANGED <<sent, group, member, direct, joins, meant, revived, before, oldPreview,
                     withdrawn, races, chatRequests>>
    BY <1>1, <1>3 DEF HideSave
<1>6. PICK job \in ChatJob :
         /\ chatJob' = [chatJob EXCEPT ![j] = job] /\ job.step = "idle" /\ ChatJobKnows(job)'
         /\ \A u \in ChatUsers : job.members[u].unread = 0
    BY <1>5, EndsIs
<1>10. /\ chat'[old.msg] = new /\ Ids' = Ids \union {old.msg}
       /\ \A n \in Ids' \ rewritten' : n \in Ids \ rewritten
       /\ old.msg \in Current' => chat[old.msg] = copy
    BY <1>2, <1>4, <1>5, SavesMessageIs
<1>11. old.msg \notin rewritten' => old.msg \in Ids \ rewritten /\ chat[old.msg] = copy
    BY <1>10 DEF Current
<1>12. ASSUME NEW u \in ChatUsers, <<old.msg, u>> \in hidden', old.msg \notin rewritten'
       PROVE  u \in new.deletedFor
  <2>1. u = old.user \/ <<old.msg, u>> \in hidden
    BY <1>5, <1>12
  <2>2. <<old.msg, u>> \in hidden => u \in chat[old.msg].deletedFor
    BY <1>11, <1>12 DEF ChatInv, DeletionHolds
  <2> QED BY <1>4, <1>11, <1>12, <2>1, <2>2
<1>13. old.msg \in withdrawn' /\ old.msg \notin rewritten' => new.deleted
    BY <1>4, <1>5, <1>11 DEF ChatInv, DeletionHolds
<1> QED BY <1>1, <1>2, <1>4, <1>5, <1>6, <1>12, <1>13, MessageSavedKeeps

-----------------------------------------------------------------------------
(* Messages sent and counted. *)

SendsOfOthers(u) == {j \in AtStep(Counting) : chatJob[j].user # u}

(* What UnreadFollows says of a user that no request marks as read. *)
LEMMA UnreadIs ==
    ASSUME ChatInv, NEW u \in ChatUsers, In(u), u \notin miscounted,
           ~ \E j \in AtStep({"readBy"}) : chatJob[j].user = u
    PROVE  /\ Cardinality(Unseen(u)) = member[u].unread + Cardinality(SendsOfOthers(u))
           /\ IsFiniteSet(Unseen(u)) /\ Cardinality(Unseen(u)) \in Nat
           /\ IsFiniteSet(SendsOfOthers(u)) /\ Cardinality(SendsOfOthers(u)) \in Nat
           /\ member[u].unread \in Nat
<1>1. UnreadFollows(u) /\ UnreadIsSent /\ ChatTypeOK
    BY DEF ChatInv
<1>2. Cardinality(Unseen(u)) = member[u].unread + Cardinality(SendsOfOthers(u))
    BY <1>1 DEF UnreadFollows, SendsOfOthers
<1>3. IsFiniteSet(Unseen(u))
  <2>1. Unseen(u) \subseteq 1 .. MaxMessages /\ MaxMessages \in Nat
    BY <1>1, ChatTypes DEF Unseen
  <2>2. IsFiniteSet(1 .. MaxMessages)
    BY <2>1, FS_Interval
  <2> QED BY <2>1, <2>2, FS_Subset
<1>4. IsFiniteSet(SendsOfOthers(u))
  <2>1. SendsOfOthers(u) \subseteq AtStep(Counting) /\ IsFiniteSet(AtStep(Counting))
    BY <1>1 DEF SendsOfOthers, UnreadIsSent
  <2> QED BY <2>1, FS_Subset
<1>5. member[u].unread \in Nat
    BY <1>1, ChatTypes DEF Member
<1> QED BY <1>2, <1>3, <1>4, <1>5, FS_CardinalityType

(* A message is ahead of the counters until its send has counted it. *)
LEMMA SendInsertKeeps ==
    ASSUME ChatInv, NEW j \in ChatJobs, SendInsert(j)
    PROVE  ChatInv'
<1>0. ChatTypeOK /\ PastIsPast /\ UnreadIsSent
    BY DEF ChatInv
<1>1. PICK old, u, m, new, job :
         /\ old = chatJob[j] /\ u = old.user /\ m = sent + 1
         /\ new = [NoMessage EXCEPT !.here = TRUE, !.sender = u, !.readBy = {u}]
         /\ job = [old EXCEPT !.step = "sendSave", !.msg = m]
    OBVIOUS
<1>2. /\ old \in ChatJob /\ ChatJobKnows(old) /\ old.step = "sendInsert" /\ sent < MaxMessages
      /\ sent' = m /\ chat' = [chat EXCEPT ![m] = new]
      /\ chatJob' = [chatJob EXCEPT ![j] = job]
      /\ miscounted' = miscounted \union {chatJob[i].user : i \in AtStep({"readBy"})}
      /\ UNCHANGED <<group, member, direct, joins, meant, revived, before, withdrawn,
                     rewritten, oldPreview, hidden, races, chatRequests>>
    BY <1>0, <1>1, ChatTypes DEF ChatInv, SendInsert
<1>3. /\ m \in MessageIds /\ m \in Nat /\ sent \in Nat /\ sent < m /\ u \in ChatUsers
      /\ m \in 0 .. MaxMessages /\ MessageIds \subseteq Nat
    BY <1>0, <1>1, <1>2, ChatTypes, SMTT(40) DEF ChatJob
<1>4. /\ new \in ChatMessage /\ new.here /\ new.readBy = {u}
  <2>1. PICK none : none = NoMessage
    OBVIOUS
  <2>2. none \in ChatMessage
    BY <2>1, IdleChatIs
  <2> QED BY <1>1, <1>3, <2>1, <2>2 DEF ChatMessage
<1>5. /\ job \in ChatJob /\ job.step = "sendSave" /\ job.msg = m /\ job.user = u
      /\ job.members = old.members /\ job.preview = old.preview
  <2>1. "sendSave" \in ChatSteps
    BY DEF ChatSteps
  <2> QED BY <1>1, <1>2, <1>3, <2>1 DEF ChatJob
<1>6. /\ chat' \in [MessageIds -> ChatMessage] /\ chat'[m] = new
      /\ \A n \in MessageIds \ {m} : chat'[n] = chat[n]
    BY <1>0, <1>2, <1>3, <1>4, ChatTypes
<1>7. /\ Ids' = Ids \union {m} /\ m \notin Ids /\ m \notin withdrawn
      /\ \A n \in Current' : n \in Current \/ n = m
      /\ \A n \in Current : n # m /\ chat'[n] = chat[n]
      /\ \A v \in ChatUsers : m \notin before[v] /\ <<m, v>> \notin hidden
      /\ \A n \in Ids : n <= sent
  <2>1. \A n : n \in 1 .. sent => n # m /\ n <= sent
    BY <1>3
  <2>2. m \notin Ids /\ m \notin withdrawn /\ \A n \in Ids : n <= sent
    BY <1>0, <2>1 DEF PastIsPast
  <2>3. \A v \in ChatUsers : m \notin before[v] /\ <<m, v>> \notin hidden
    BY <1>0, <1>3, <2>1 DEF PastIsPast
  <2>4. Ids' = Ids \union {m}
    BY <1>3, <1>4, <1>6 DEF Ids
  <2> QED BY <1>2, <1>6, <2>2, <2>3, <2>4 DEF Current, Ids
<1>8. /\ chatJob' \in [ChatJobs -> ChatJob] /\ chatJob'[j] = job
      /\ \A i \in ChatJobs \ {j} : chatJob'[i] = chatJob[i]
      /\ AtStep(Counting)' = AtStep(Counting) \union {j} /\ j \notin AtStep(Counting)
      /\ AtStep({"readBy"})' = AtStep({"readBy"}) /\ j \notin AtStep({"readBy"})
  <2>1. /\ chatJob' \in [ChatJobs -> ChatJob] /\ chatJob'[j] = job
        /\ \A i \in ChatJobs \ {j} : chatJob'[i] = chatJob[i]
    BY <1>0, <1>2, <1>5, ChatJobMoves
  <2> QED BY <1>1, <1>2, <1>5, <2>1 DEF AtStep, Counting
<1>9. ChatTypeOK'
  <2>1. miscounted' \subseteq ChatUsers
    BY <1>0, <1>2, ChatTypes DEF ChatTypeOK, AtStep, ChatJob
  <2> QED BY <1>0, <1>2, <1>3, <1>6, <1>8, <2>1 DEF ChatTypeOK, ChatJob
<1>10. PastIsPast'
  <2>1. \A n : n \in 1 .. sent => n \in 1 .. m
    BY <1>3
  <2>2. /\ \A n \in Ids' \union withdrawn' : n \in 1 .. m
        /\ \A v \in ChatUsers : \A n \in before[v] : n \in 1 .. m
    BY <1>0, <1>2, <1>3, <1>7, <2>1 DEF PastIsPast
  <2>3. \A h \in hidden : h[1] <= m
    BY <1>0, <1>1, <1>3 DEF PastIsPast, ChatTypeOK
  <2>4. group.preview \in MessageIds => group.preview <= m
    BY <1>0, <1>1, <1>3 DEF PastIsPast
  <2> QED BY <1>2, <2>2, <2>3, <2>4 DEF PastIsPast
<1>11. \A i \in ChatJobs : ChatJobKnows(chatJob[i])'
  <2>1. ChatJobKnows(job)'
    <3>1. old.preview \in MessageIds => old.preview <= m
      BY <1>1, <1>2, <1>3 DEF ChatJobKnows
    <3> QED BY <1>2, <1>3, <1>5, <1>7, <3>1 DEF ChatJobKnows
  <2>2. sent <= sent' /\ \A n \in Ids : n \in Ids'
    BY <1>2, <1>3, <1>7
  <2> QED BY <1>2, <1>3, <1>5, <1>7, <1>9, <2>1, <2>2, ChatJobsStay
<1>12. DirectsAreCounted' /\ DirectOnce'
    BY <1>1, <1>2, <1>5, DirectsStay
<1>13. UnreadIsSent'
  <2>1. PICK count : count = Cardinality(AtStep(Counting))
    OBVIOUS
  <2>2. /\ count \in Nat /\ IsFiniteSet(AtStep(Counting)')
        /\ Cardinality(AtStep(Counting)') = count + 1
    BY <1>0, <1>8, <2>1, FS_CardinalityType, FS_AddElement DEF UnreadIsSent
  <2>3. /\ \A v \in ChatUsers : member[v].unread \in Nat
        /\ \A v \in ChatUsers, i \in ChatJobs : chatJob[i].members[v].unread \in Nat
    <3>1. \A row \in Member : row.unread \in Nat
      BY <1>0, ChatTypes DEF Member
    <3>2. \A i \in ChatJobs : chatJob[i].members \in [ChatUsers -> Member]
      BY <1>0, ChatTypes DEF ChatJob
    <3> QED BY <1>0, <3>1, <3>2, ChatTypes
  <2>4. \A v \in ChatUsers : member[v].unread + (count + 1) <= m
    BY <1>0, <1>1, <1>3, <2>1, <2>2, <2>3 DEF UnreadIsSent
  <2>5. \A v \in ChatUsers, i \in ChatJobs : chatJob[i].members[v].unread + (count + 1) <= m
    BY <1>0, <1>1, <1>3, <2>1, <2>2, <2>3 DEF UnreadIsSent
  <2>6. \A i \in ChatJobs : chatJob'[i].members = chatJob[i].members
    BY <1>1, <1>5, <1>8
  <2> QED BY <1>2, <2>2, <2>4, <2>5, <2>6 DEF UnreadIsSent
<1>14. DeletionHolds' /\ MembersHaveCause'
  <2>1. MembersHaveCause'
    BY <1>2 DEF ChatInv, MembersHaveCause, InGroup, In
  <2>2. ASSUME NEW n \in Ids' \ rewritten'
        PROVE  /\ n \in withdrawn => chat'[n].deleted
               /\ \A v \in ChatUsers : <<n, v>> \in hidden => v \in chat'[n].deletedFor
    <3>1. CASE n = m
      BY <1>7, <3>1
    <3>2. CASE n # m
      <4>1. n \in Ids \ rewritten /\ chat'[n] = chat[n]
        BY <1>2, <1>6, <1>7, <2>2, <3>2 DEF Ids
      <4> QED BY <4>1 DEF ChatInv, DeletionHolds
    <3> QED BY <3>1, <3>2
  <2> QED BY <1>2, <2>1, <2>2 DEF DeletionHolds
<1>15. ASSUME NEW v \in ChatUsers PROVE UnreadFollows(v)'
  <2>1. SUFFICES ASSUME In(v)', v \notin miscounted'
                 PROVE  /\ ~ \E i \in AtStep({"readBy"})' : chatJob'[i].user = v
                        /\ Cardinality(Unseen(v)') =
                              member'[v].unread + Cardinality(SendsOfOthers(v)')
    BY DEF UnreadFollows, SendsOfOthers
  <2>2. /\ In(v) /\ v \notin miscounted /\ member'[v] = member[v]
        /\ ~ \E i \in AtStep({"readBy"}) : chatJob[i].user = v
    BY <1>2, <2>1 DEF In
  <2>3. /\ Cardinality(Unseen(v)) = member[v].unread + Cardinality(SendsOfOthers(v))
        /\ IsFiniteSet(Unseen(v)) /\ Cardinality(Unseen(v)) \in Nat
        /\ IsFiniteSet(SendsOfOthers(v)) /\ Cardinality(SendsOfOthers(v)) \in Nat
        /\ member[v].unread \in Nat
    BY <2>2, UnreadIs
  <2>4. ~ \E i \in AtStep({"readBy"})' : chatJob'[i].user = v
    BY <1>8, <2>2 DEF AtStep
  <2>5. /\ Unseen(v)' = IF v = u THEN Unseen(v) ELSE Unseen(v) \union {m}
        /\ m \notin Unseen(v)
    <3>1. /\ m \notin before[v] /\ before' = before /\ \A n \in Ids : chat'[n] = chat[n]
          /\ v \notin chat'[m].readBy <=> v # u
      BY <1>2, <1>4, <1>6, <1>7 DEF Ids
    <3> QED BY <1>7, <3>1 DEF Unseen
  <2>6. /\ SendsOfOthers(v)' = IF v = u THEN SendsOfOthers(v) ELSE SendsOfOthers(v) \union {j}
        /\ j \notin SendsOfOthers(v)
    BY <1>5, <1>8 DEF SendsOfOthers, AtStep
  <2>7. CASE v = u
    BY <2>2, <2>3, <2>4, <2>5, <2>6, <2>7
  <2>8. CASE v # u
    <3>1. Cardinality(Unseen(v)') = Cardinality(Unseen(v)) + 1
      BY <2>3, <2>5, <2>8, FS_AddElement
    <3>2. Cardinality(SendsOfOthers(v)') = Cardinality(SendsOfOthers(v)) + 1
      BY <2>3, <2>6, <2>8, FS_AddElement
    <3> QED BY <2>2, <2>3, <2>4, <3>1, <3>2
  <2> QED BY <2>7, <2>8
<1>16. ASSUME NEW n \in Current' PROVE PreviewFollows(n)'
  <2>1. SUFFICES ASSUME \A k \in Ids' : k <= n
                 PROVE  \E i \in AtStep({"sendSave", "withdrawLast", "withdrawPreview"})' :
                           chatJob'[i].msg = n
    BY DEF PreviewFollows
  <2>2. n = m
    <3>1. m <= n
      BY <1>7, <2>1
    <3>2. n \in Current \/ n = m
      BY <1>7, <1>16
    <3>3. n \in Current => n \in Nat /\ n <= sent
      BY <1>3, <1>7 DEF Current, Ids
    <3> QED BY <1>3, <3>1, <3>2, <3>3
  <2>3. j \in AtStep({"sendSave", "withdrawLast", "withdrawPreview"})'
    BY <1>5, <1>8 DEF AtStep
  <2> QED BY <1>5, <1>8, <2>2, <2>3
<1> QED BY <1>9, <1>10, <1>11, <1>12, <1>13, <1>14, <1>15, <1>16 DEF ChatInv

LEMMA SendCountKeeps ==
    ASSUME ChatInv, NEW j \in ChatJobs, SendCount(j)
    PROVE  ChatInv'
<1>0. ChatTypeOK /\ PastIsPast /\ UnreadIsSent
    BY DEF ChatInv
<1>1. PICK old, u : old = chatJob[j] /\ u = old.user
    OBVIOUS
<1>2. /\ old \in ChatJob /\ old.step = "sendCount" /\ Ends(j)
      /\ member' = [v \in ChatUsers |-> IF v \in InGroup /\ v # u
                                        THEN [member[v] EXCEPT !.unread = member[v].unread + 1]
                                        ELSE member[v]]
      /\ \A i \in AtStep({"readBy"}) : chatJob[i].user \in miscounted'
      /\ \A v \in miscounted : v \in miscounted'
      /\ UNCHANGED <<sent, group, chat, direct, joins, meant, revived, before, withdrawn,
                     rewritten, oldPreview, hidden, races, chatRequests>>
    BY <1>0, <1>1, ChatTypes DEF SendCount, Counted
<1>3. miscounted' \subseteq ChatUsers
    BY <1>0, ChatTypes DEF SendCount, AtStep, InGroup, ChatJob, ChatTypeOK
<1>4. PICK job \in ChatJob :
         /\ chatJob' = [chatJob EXCEPT ![j] = job] /\ job.step = "idle" /\ ChatJobKnows(job)'
         /\ \A v \in ChatUsers : job.members[v].unread = 0
    BY <1>2, EndsIs
<1>5. /\ chatJob' \in [ChatJobs -> ChatJob] /\ chatJob'[j] = job
      /\ \A i \in ChatJobs \ {j} : chatJob'[i] = chatJob[i]
      /\ AtStep(Counting)' = AtStep(Counting) \ {j} /\ j \in AtStep(Counting)
      /\ AtStep({"readBy"})' = AtStep({"readBy"}) /\ j \notin AtStep({"readBy"})
  <2>1. /\ chatJob' \in [ChatJobs -> ChatJob] /\ chatJob'[j] = job
        /\ \A i \in ChatJobs \ {j} : chatJob'[i] = chatJob[i]
    BY <1>0, <1>4, ChatJobMoves
  <2> QED BY <1>1, <1>2, <1>4, <2>1 DEF AtStep, Counting
<1>6. PICK count : count = Cardinality(AtStep(Counting)')
    OBVIOUS
<1>7. /\ count \in Nat /\ IsFiniteSet(AtStep(Counting)')
      /\ Cardinality(AtStep(Counting)) = count + 1
  <2>1. /\ IsFiniteSet(AtStep(Counting)')
        /\ Cardinality(AtStep(Counting)') = Cardinality(AtStep(Counting)) - 1
        /\ Cardinality(AtStep(Counting)) \in Nat
    BY <1>0, <1>5, FS_RemoveElement, FS_CardinalityType DEF UnreadIsSent
  <2>2. Cardinality(AtStep(Counting)') \in Nat
    BY <2>1, FS_CardinalityType
  <2> QED BY <1>6, <2>1, <2>2
<1>8. \A v \in ChatUsers :
         /\ member[v].unread \in Nat /\ member[v] \in Member
         /\ member[v].unread + (count + 1) <= sent
    BY <1>0, <1>7, ChatTypes DEF UnreadIsSent, Member
<1>9. ASSUME NEW v \in ChatUsers
      PROVE  /\ member'[v] \in Member /\ member'[v].id = member[v].id
             /\ member'[v].unread = IF v \in InGroup /\ v # u THEN member[v].unread + 1
                                    ELSE member[v].unread
             /\ member'[v].unread + count <= sent
  <2>a. sent \in 0 .. MaxMessages /\ MaxMessages \in Nat
    BY <1>0, ChatTypes
  <2>b. member[v].unread \in Nat /\ member[v].unread + (count + 1) <= sent
    BY <1>8
  <2>c. count \in Nat
    BY <1>7
  <2>1. member[v].unread + 1 \in 0 .. MaxMessages
    BY ONLY <2>a, <2>b, <2>c
  <2>2. PICK row : row = member[v]
    OBVIOUS
  <2>3. row \in Member /\ row.unread + 1 \in 0 .. MaxMessages
    BY <1>8, <2>1, <2>2
  <2>4. member'[v] = IF v \in InGroup /\ v # u THEN [row EXCEPT !.unread = row.unread + 1] ELSE row
    BY <1>2, <2>2
  <2>5. [row EXCEPT !.unread = row.unread + 1] \in Member
        /\ [row EXCEPT !.unread = row.unread + 1].id = row.id
        /\ [row EXCEPT !.unread = row.unread + 1].unread = row.unread + 1
    BY <2>3 DEF Member
  <2>6. /\ member'[v] \in Member /\ member'[v].id = row.id
        /\ member'[v].unread = IF v \in InGroup /\ v # u THEN row.unread + 1 ELSE row.unread
    BY <2>3, <2>4, <2>5
  <2>7. sent \in Nat /\ row.unread \in Nat /\ row.unread + (count + 1) <= sent
    BY <1>0, <1>8, <2>2, ChatTypes
  <2>8. member'[v].unread + count <= sent
    BY <1>7, <2>6, <2>7
  <2> QED BY <2>2, <2>6, <2>8
<1>10. ChatTypeOK'
  <2>1. member' \in [ChatUsers -> Member]
    BY <1>2, <1>9
  <2> QED BY <1>0, <1>2, <1>3, <1>5, <2>1 DEF ChatTypeOK, ChatJob
<1>11. /\ Ids' = Ids /\ Current' = Current
       /\ \A v \in ChatUsers : (In(v)' <=> In(v)) /\ Unseen(v)' = Unseen(v)
    BY <1>2, <1>9 DEF Ids, Current, In, Unseen
<1>12. PastIsPast' /\ DeletionHolds'
    BY <1>2, <1>11 DEF ChatInv, PastIsPast, DeletionHolds
<1>13. MembersHaveCause'
    BY <1>2, <1>11 DEF ChatInv, MembersHaveCause, InGroup
<1>14. \A i \in ChatJobs : ChatJobKnows(chatJob[i])'
  <2>1. sent <= sent'
    BY <1>0, <1>2, ChatTypes
  <2> QED BY <1>2, <1>4, <1>10, <1>11, <2>1, ChatJobsStay
<1>15. DirectsAreCounted' /\ DirectOnce'
    BY <1>1, <1>2, <1>4, DirectsStay
<1>16. UnreadIsSent'
  <2>1. ASSUME NEW v \in ChatUsers, NEW i \in ChatJobs
        PROVE  chatJob'[i].members[v].unread + count <= sent
    <3>1. sent \in Nat /\ count <= sent
      BY <1>0, <1>7, <1>8, ChatTypes, SMTT(40)
    <3>2. CASE i = j
      BY <1>4, <1>5, <1>7, <3>1, <3>2
    <3>3. CASE i # j
      <4>1. PICK kept : kept = chatJob[i].members[v].unread
        OBVIOUS
      <4>2. kept \in Nat /\ kept + (count + 1) <= sent
        BY <1>0, <1>7, <4>1, ChatTypes DEF UnreadIsSent, ChatJob, Member
      <4> QED BY <1>5, <1>7, <3>1, <3>3, <4>1, <4>2
    <3> QED BY <3>2, <3>3
  <2> QED BY <1>2, <1>6, <1>7, <1>9, <2>1 DEF UnreadIsSent
<1>17. ASSUME NEW v \in ChatUsers PROVE UnreadFollows(v)'
  <2>1. SUFFICES ASSUME In(v)', v \notin miscounted'
                 PROVE  /\ ~ \E i \in AtStep({"readBy"})' : chatJob'[i].user = v
                        /\ Cardinality(Unseen(v)') =
                              member'[v].unread + Cardinality(SendsOfOthers(v)')
    BY DEF UnreadFollows, SendsOfOthers
  <2>2. /\ In(v) /\ v \notin miscounted /\ v \in InGroup
        /\ ~ \E i \in AtStep({"readBy"}) : chatJob[i].user = v
    BY <1>2, <1>11, <2>1 DEF InGroup
  <2>3. /\ Cardinality(Unseen(v)) = member[v].unread + Cardinality(SendsOfOthers(v))
        /\ IsFiniteSet(SendsOfOthers(v)) /\ Cardinality(SendsOfOthers(v)) \in Nat
        /\ member[v].unread \in Nat
    BY <2>2, UnreadIs
  <2>4. ~ \E i \in AtStep({"readBy"})' : chatJob'[i].user = v
    BY <1>5, <2>2 DEF AtStep
  <2>5. SendsOfOthers(v)' = SendsOfOthers(v) \ {j}
        /\ (j \in SendsOfOthers(v) <=> v # u)
    BY <1>1, <1>5 DEF SendsOfOthers, AtStep
  <2>6. CASE v = u
    <3>1. SendsOfOthers(v)' = SendsOfOthers(v)
      BY <2>5, <2>6
    <3> QED BY <1>9, <1>11, <2>3, <2>4, <2>6, <3>1
  <2>7. CASE v # u
    <3>1. Cardinality(SendsOfOthers(v)') = Cardinality(SendsOfOthers(v)) - 1
      BY <2>3, <2>5, <2>7, FS_RemoveElement
    <3>2. member'[v].unread = member[v].unread + 1
      BY <1>9, <2>2, <2>7
    <3> QED BY <1>11, <2>3, <2>4, <3>1, <3>2
  <2> QED BY <2>6, <2>7
<1>18. ASSUME NEW n \in Current' PROVE PreviewFollows(n)'
    BY <1>1, <1>2, <1>4, <1>11, PreviewStays
<1> QED BY <1>10, <1>12, <1>13, <1>14, <1>15, <1>16, <1>17, <1>18 DEF ChatInv

-----------------------------------------------------------------------------
(* Messages read. *)

(* What is said of a user whom another's reading leaves alone. *)
LEMMA UnreadOfOthersStays ==
    ASSUME ChatInv, NEW u \in ChatUsers, NEW j \in ChatJobs,
           In(u)' /\ u \notin miscounted' =>
              /\ In(u) /\ u \notin miscounted /\ member'[u].unread = member[u].unread
              /\ Unseen(u)' = Unseen(u),
           \A i \in ChatJobs \ {j} : chatJob'[i] = chatJob[i],
           j \notin AtStep(Counting), j \notin AtStep(Counting)',
           j \in AtStep({"readBy"}) => chatJob[j].user # u,
           j \in AtStep({"readBy"})' => chatJob'[j].user # u
    PROVE  UnreadFollows(u)'
<1>1. SUFFICES ASSUME In(u)', u \notin miscounted'
               PROVE  IF \E i \in AtStep({"readBy"})' : chatJob'[i].user = u
                      THEN member'[u].unread = 0 /\ AtStep(Counting)' = {}
                      ELSE Cardinality(Unseen(u)') = member'[u].unread
                             + Cardinality({i \in AtStep(Counting)' : chatJob'[i].user # u})
    BY DEF UnreadFollows
<1>2. /\ In(u) /\ u \notin miscounted /\ UnreadFollows(u)
      /\ member'[u].unread = member[u].unread /\ Unseen(u)' = Unseen(u)
    BY <1>1 DEF ChatInv
<1>3. AtStep(Counting)' = AtStep(Counting)
    BY DEF AtStep
<1>4. \A i \in AtStep(Counting) : chatJob'[i].user = chatJob[i].user
    BY DEF AtStep
<1>5. (\E i \in AtStep({"readBy"})' : chatJob'[i].user = u)
         <=> \E i \in AtStep({"readBy"}) : chatJob[i].user = u
    BY DEF AtStep
<1>6. {i \in AtStep(Counting)' : chatJob'[i].user # u}
         = {i \in AtStep(Counting) : chatJob[i].user # u}
    BY <1>3, <1>4
<1> QED BY <1>2, <1>3, <1>5, <1>6 DEF UnreadFollows

LEMMA MarkAsReadKeeps ==
    ASSUME ChatInv, NEW j \in ChatJobs, NEW u \in ChatUsers, MarkAsRead(j, u)
    PROVE  ChatInv'
<1>0. ChatTypeOK /\ PastIsPast
    BY DEF ChatInv
<1>1. PICK job : job = Asking(u, "readBy")
    OBVIOUS
<1>2. /\ job \in ChatJob /\ job.step = "readBy" /\ job.user = u /\ job.preview = NoPreview
      /\ job.members = IdleChat.members
  <2>1. "readBy" \in ChatSteps
    BY DEF ChatSteps
  <2> QED BY <1>0, <1>1, <2>1, ReadingIs
<1>3. /\ Reads(j, u, job) /\ member' = [member EXCEPT ![u].unread = 0]
      /\ miscounted' = IF AtStep(Counting) # {} THEN miscounted \union {u} ELSE miscounted \ {u}
      /\ UNCHANGED <<sent, group, chat, direct, joins, meant, revived, before, withdrawn,
                     rewritten, oldPreview, hidden, races>>
    BY <1>1 DEF MarkAsRead
<1>4. /\ chatJob[j].step = "idle" /\ In(u)
      /\ chatRequests' \in {chatRequests, chatRequests + 1}
      /\ chatRequests' <= MaxChatRequests /\ chatJob' = [chatJob EXCEPT ![j] = job]
  <2>1. chatJob[j].step = "idle"
    BY <1>3 DEF Reads
  <2> QED BY <1>0, <1>3, <2>1, ReadsIs
<1>5. /\ member' \in [ChatUsers -> Member] /\ member'[u].unread = 0
      /\ \A v \in ChatUsers : member'[v].id = member[v].id
      /\ \A v \in ChatUsers \ {u} : member'[v] = member[v]
  <2>1. PICK row, read : row = member[u] /\ read = [row EXCEPT !.unread = 0]
    OBVIOUS
  <2>2. row \in Member /\ member \in [ChatUsers -> Member]
    BY <1>0, <2>1, ChatTypes
  <2>3. read \in Member /\ read.unread = 0 /\ read.id = row.id
    <3>1. 0 \in 0 .. MaxMessages
      BY <1>0, ChatTypes
    <3> QED BY <2>1, <2>2, <3>1 DEF Member
  <2>4. member' = [member EXCEPT ![u] = read]
    BY <1>3, <2>1, <2>2
  <2> QED BY <2>1, <2>2, <2>3, <2>4
<1>6. /\ chatJob' \in [ChatJobs -> ChatJob] /\ chatJob'[j] = job
      /\ \A i \in ChatJobs \ {j} : chatJob'[i] = chatJob[i]
    BY <1>0, <1>2, <1>4, ChatJobMoves
<1>7. ChatTypeOK'
  <2>1. chatRequests' \in 0 .. MaxChatRequests /\ miscounted' \subseteq ChatUsers
    BY <1>0, <1>3, <1>4, ChatTypes, SMTT(40) DEF ChatTypeOK
  <2> QED BY <1>0, <1>3, <1>5, <1>6, <2>1 DEF ChatTypeOK, ChatJob
<1>8. /\ Ids' = Ids /\ Current' = Current
      /\ \A v \in ChatUsers : (In(v)' <=> In(v)) /\ Unseen(v)' = Unseen(v)
    BY <1>3, <1>5 DEF Ids, Current, In, Unseen
<1>9. PastIsPast' /\ DeletionHolds'
    BY <1>3, <1>8 DEF ChatInv, PastIsPast, DeletionHolds
<1>10. MembersHaveCause'
    BY <1>3, <1>8 DEF ChatInv, MembersHaveCause, InGroup
<1>11. \A i \in ChatJobs : ChatJobKnows(chatJob[i])'
  <2>1. ChatJobKnows(job)'
    BY <1>2, IdleChatIs DEF ChatJobKnows
  <2>2. sent <= sent'
    BY <1>0, <1>3, ChatTypes
  <2> QED BY <1>2, <1>3, <1>4, <1>7, <1>8, <2>1, <2>2, ChatJobsStay
<1>12. DirectsAreCounted' /\ DirectOnce'
    BY <1>2, <1>3, <1>4, DirectsStay
<1>a. /\ chatJob[j].step \notin Counting /\ job.step \notin Counting
      /\ chatJob[j].step \notin {"sendSave", "withdrawLast", "withdrawPreview"}
    BY <1>2, <1>4 DEF Counting
<1>13. AtStep(Counting)' = AtStep(Counting)
    BY <1>0, <1>2, <1>4, <1>a, OthersWork
<1>14. UnreadIsSent'
  <2>1. \A v \in ChatUsers : job.members[v].unread = 0
    BY <1>2, IdleChatIs
  <2>2. \A v \in ChatUsers : member'[v].unread = 0 \/ member'[v].unread = member[v].unread
    BY <1>5
  <2> QED BY <1>2, <1>3, <1>4, <1>13, <2>1, <2>2, UnreadIsSentStays
<1>15. ASSUME NEW v \in ChatUsers PROVE UnreadFollows(v)'
  <2>1. CASE v = u
    <3>1. j \in AtStep({"readBy"})' /\ chatJob'[j].user = u
      BY <1>2, <1>6 DEF AtStep
    <3>2. v \notin miscounted' => AtStep(Counting)' = {}
      BY <1>3, <1>13, <2>1
    <3> QED BY <1>5, <2>1, <3>1, <3>2 DEF UnreadFollows
  <2>2. CASE v # u
    <3>1. /\ j \notin AtStep(Counting) /\ j \notin AtStep(Counting)'
          /\ j \notin AtStep({"readBy"}) /\ chatJob'[j].user # v
      BY <1>2, <1>4, <1>6, <1>a, <2>2 DEF AtStep
    <3>2. In(v)' /\ v \notin miscounted' =>
             /\ In(v) /\ v \notin miscounted /\ member'[v].unread = member[v].unread
             /\ Unseen(v)' = Unseen(v)
      BY <1>3, <1>5, <1>8, <2>2
    <3> QED BY <1>6, <3>1, <3>2, UnreadOfOthersStays
  <2> QED BY <2>1, <2>2
<1>16. ASSUME NEW n \in Current' PROVE PreviewFollows(n)'
    BY <1>2, <1>3, <1>4, <1>8, <1>a, PreviewStays
<1> QED BY <1>7, <1>9, <1>10, <1>11, <1>12, <1>14, <1>15, <1>16 DEF ChatInv

LEMMA ReadByKeeps ==
    ASSUME ChatInv, NEW j \in ChatJobs, ReadBy(j)
    PROVE  ChatInv'
<1>0. ChatTypeOK /\ PastIsPast
    BY DEF ChatInv
<1>1. PICK u : u = chatJob[j].user
    OBVIOUS
<1>2. /\ chatJob[j].step = "readBy" /\ Ends(j) /\ u \in ChatUsers
      /\ chat' = [m \in MessageIds |->
                    IF chat[m].here
                    THEN [chat[m] EXCEPT !.readBy = chat[m].readBy \union {u}] ELSE chat[m]]
      /\ miscounted' = IF AtStep(Counting) # {} THEN miscounted \union {u} ELSE miscounted
      /\ UNCHANGED <<sent, group, member, direct, joins, meant, revived, before, withdrawn,
                     rewritten, oldPreview, hidden, races, chatRequests>>
    BY <1>0, <1>1, ChatTypes DEF ReadBy, ChatJob
<1>3. PICK job \in ChatJob :
         /\ chatJob' = [chatJob EXCEPT ![j] = job] /\ job.step = "idle" /\ ChatJobKnows(job)'
         /\ \A v \in ChatUsers : job.members[v].unread = 0
    BY <1>2, EndsIs
<1>4. ASSUME NEW m \in MessageIds
      PROVE  /\ chat'[m] \in ChatMessage /\ chat'[m].here = chat[m].here
             /\ chat'[m].deleted = chat[m].deleted /\ chat'[m].deletedFor = chat[m].deletedFor
             /\ chat[m].here => chat'[m].readBy = chat[m].readBy \union {u}
  <2>1. PICK row : row = chat[m]
    OBVIOUS
  <2>2. row \in ChatMessage
    BY <1>0, <2>1, ChatTypes
  <2>3. chat'[m] = IF row.here THEN [row EXCEPT !.readBy = row.readBy \union {u}] ELSE row
    BY <1>2, <2>1
  <2> QED BY <1>2, <2>1, <2>2, <2>3 DEF ChatMessage
<1>5. chat' \in [MessageIds -> ChatMessage]
    BY <1>2, <1>4
<1>6. /\ chatJob' \in [ChatJobs -> ChatJob] /\ chatJob'[j] = job
      /\ \A i \in ChatJobs \ {j} : chatJob'[i] = chatJob[i]
    BY <1>0, <1>3, ChatJobMoves
<1>7. ChatTypeOK'
  <2>1. miscounted' \subseteq ChatUsers
    BY <1>0, <1>2 DEF ChatTypeOK
  <2> QED BY <1>0, <1>2, <1>5, <1>6, <2>1 DEF ChatTypeOK, ChatJob
<1>8. /\ Ids' = Ids /\ Current' = Current
      /\ \A m \in Ids : m \in MessageIds /\ chat[m].here
      /\ \A v \in ChatUsers : In(v)' <=> In(v)
    BY <1>2, <1>4 DEF Ids, Current, In
<1>9. PastIsPast' /\ DeletionHolds'
  <2>1. \A m \in Ids : chat'[m].deleted = chat[m].deleted
                       /\ chat'[m].deletedFor = chat[m].deletedFor
    BY <1>4, <1>8
  <2> QED BY <1>2, <1>8, <2>1 DEF ChatInv, PastIsPast, DeletionHolds
<1>10. MembersHaveCause'
    BY <1>2, <1>8 DEF ChatInv, MembersHaveCause, InGroup
<1>11. \A i \in ChatJobs : ChatJobKnows(chatJob[i])'
  <2>1. \A m \in Current : m \in Current' /\ chat[m].deleted => chat'[m].deleted
    BY <1>4, <1>8 DEF Current
  <2>2. sent <= sent'
    BY <1>0, <1>2, ChatTypes
  <2> QED BY <1>2, <1>3, <1>7, <1>8, <2>1, <2>2, ChatJobsStay
<1>12. DirectsAreCounted' /\ DirectOnce'
    BY <1>2, <1>3, DirectsStay
<1>a. /\ chatJob[j].step \notin Counting /\ job.step \notin Counting
      /\ chatJob[j].step \notin {"sendSave", "withdrawLast", "withdrawPreview"}
    BY <1>2, <1>3 DEF Counting
<1>13. AtStep(Counting)' = AtStep(Counting)
    BY <1>0, <1>3, <1>a, OthersWork
<1>14. UnreadIsSent'
    BY <1>2, <1>3, <1>13, UnreadIsSentStays
<1>15. ASSUME NEW v \in ChatUsers PROVE UnreadFollows(v)'
  <2>1. CASE v = u
    <3>1. SUFFICES ASSUME In(u)', u \notin miscounted'
                   PROVE  /\ member'[u].unread = 0 /\ AtStep(Counting)' = {}
                          /\ Cardinality(Unseen(u)') = 0
                          /\ Cardinality({i \in AtStep(Counting)' : chatJob'[i].user # u}) = 0
      BY <2>1 DEF UnreadFollows
    <3>2. j \in AtStep({"readBy"}) /\ chatJob[j].user = u
      BY <1>1, <1>2 DEF AtStep
    <3>3. member[u].unread = 0 /\ AtStep(Counting) = {}
      BY <1>2, <1>8, <3>1, <3>2 DEF ChatInv, UnreadFollows
    <3>4. Unseen(u)' = {}
      <4>1. \A m \in Ids : u \in chat'[m].readBy
        BY <1>4, <1>8
      <4> QED BY <1>8, <4>1 DEF Unseen
    <3>5. {i \in AtStep(Counting)' : chatJob'[i].user # u} = {}
      BY <1>13, <3>3
    <3>6. Cardinality({}) = 0
      BY FS_EmptySet
    <3> QED BY <1>2, <1>13, <3>3, <3>4, <3>5, <3>6
  <2>2. CASE v # u
    <3>1. /\ j \notin AtStep(Counting) /\ j \notin AtStep(Counting)'
          /\ chatJob[j].user # v /\ j \notin AtStep({"readBy"})'
      BY <1>1, <1>3, <1>6, <1>a, <2>2 DEF AtStep
    <3>2. Unseen(v)' = Unseen(v)
      <4>1. \A m \in Ids : v \in chat'[m].readBy <=> v \in chat[m].readBy
        BY <1>4, <1>8, <2>2
      <4> QED BY <1>2, <1>8, <4>1 DEF Unseen
    <3>3. In(v)' /\ v \notin miscounted' =>
             /\ In(v) /\ v \notin miscounted /\ member'[v].unread = member[v].unread
             /\ Unseen(v)' = Unseen(v)
      BY <1>2, <1>8, <3>2
    <3> QED BY <1>6, <3>1, <3>3, UnreadOfOthersStays
  <2> QED BY <2>1, <2>2
<1>16. ASSUME NEW n \in Current' PROVE PreviewFollows(n)'
  <2>1. n \in Current /\ chat'[n].deleted = chat[n].deleted
    BY <1>4, <1>8 DEF Current
  <2> QED BY <1>2, <1>3, <1>8, <1>a, <2>1, PreviewStays
<1> QED BY <1>7, <1>9, <1>10, <1>11, <1>12, <1>14, <1>15, <1>16 DEF ChatInv

-----------------------------------------------------------------------------
(* Direct conversations, and requests that die. *)

(* What touches direct conversations only. *)
LEMMA DirectStepKeeps ==
    ASSUME ChatInv, NEW j \in ChatJobs, NEW job \in ChatJob,
           chatJob' = [chatJob EXCEPT ![j] = job],
           chatJob[j].step \in {"idle", "directInsert", "directJoin"},
           job.step \in {"idle", "directInsert", "directJoin"}, ChatJobKnows(job)',
           \/ \A u \in ChatUsers : job.members[u].unread = 0
           \/ job.members = chatJob[j].members,
           UNCHANGED <<group, member, chat, sent, joins, meant, revived, before, miscounted,
                       withdrawn, rewritten, oldPreview, hidden>>,
           direct' \in [bare : 0 .. MaxChatRequests, joined : 0 .. MaxChatRequests],
           races' \in Nat, chatRequests' \in 0 .. MaxChatRequests,
           DirectsAreCounted', DirectOnce'
    PROVE  ChatInv'
<1>0. ChatTypeOK
    BY DEF ChatInv
<1>1. chatJob' \in [ChatJobs -> ChatJob]
    BY <1>0, ChatJobMoves
<1>2. ChatTypeOK'
    BY <1>0, <1>1 DEF ChatTypeOK, ChatJob
<1>3. /\ Ids' = Ids /\ Current' = Current /\ \A u : In(u)' = In(u)
      /\ \A u \in ChatUsers : Unseen(u)' = Unseen(u)
    BY DEF Ids, Current, In, Unseen
<1>4. \A i \in ChatJobs : ChatJobKnows(chatJob[i])'
  <2>1. sent <= sent'
    BY <1>0, ChatTypes
  <2> QED BY <1>2, <1>3, <2>1, ChatJobsStay
<1>5. PastIsPast' /\ DeletionHolds' /\ MembersHaveCause'
    BY <1>3 DEF ChatInv, PastIsPast, DeletionHolds, MembersHaveCause, InGroup, In
<1>a. /\ chatJob[j].step \notin Counting \union {"readBy"}
      /\ job.step \notin Counting \union {"readBy"}
    BY DEF Counting
<1>6. UnreadIsSent'
  <2>1. chatJob[j].step \in Counting <=> job.step \in Counting
    BY <1>a
  <2>2. AtStep(Counting)' = AtStep(Counting)
    BY <1>0, <2>1, OthersWork
  <2> QED BY <2>2, UnreadIsSentStays
<1>7. ASSUME NEW u \in ChatUsers PROVE UnreadFollows(u)'
    BY <1>3, <1>a, UnreadStays
<1>8. ASSUME NEW m \in Current' PROVE PreviewFollows(m)'
    BY <1>3, PreviewStays
<1> QED BY <1>2, <1>4, <1>5, <1>6, <1>7, <1>8 DEF ChatInv

(* The requests at a step of createDirect, counted. *)
LEMMA DirectsAre ==
    ASSUME ChatInv
    PROVE  \E inserting, joining \in Nat :
              /\ inserting = Cardinality(AtStep({"directInsert"}))
              /\ joining = Cardinality(AtStep({"directJoin"}))
              /\ IsFiniteSet(AtStep({"directInsert"})) /\ IsFiniteSet(AtStep({"directJoin"}))
              /\ joining <= direct.bare
              /\ inserting + direct.bare + direct.joined <= chatRequests
  BY FS_CardinalityType DEF ChatInv, DirectsAreCounted

LEMMA DirectsMove ==
    ASSUME ChatInv, NEW j \in ChatJobs, NEW job \in ChatJob,
           chatJob' = [chatJob EXCEPT ![j] = job], NEW step, chatJob[j].step # job.step,
           IsFiniteSet(AtStep({step}))
    PROVE  /\ IsFiniteSet(AtStep({step})')
           /\ chatJob[j].step # step /\ job.step # step => AtStep({step})' = AtStep({step})
           /\ job.step = step => Cardinality(AtStep({step})') = Cardinality(AtStep({step})) + 1
           /\ chatJob[j].step = step =>
                 Cardinality(AtStep({step})') = Cardinality(AtStep({step})) - 1
<1>0. ChatTypeOK
    BY DEF ChatInv
<1>1. AtStep({step})' = IF job.step = step THEN AtStep({step}) \union {j} ELSE AtStep({step}) \ {j}
  <2>1. chatJob'[j] = job /\ \A i \in ChatJobs \ {j} : chatJob'[i] = chatJob[i]
    BY <1>0, ChatJobMoves
  <2> QED BY <2>1 DEF AtStep
<1>2. j \in AtStep({step}) <=> chatJob[j].step = step
    BY DEF AtStep
<1>3. CASE job.step = step
  <2>1. AtStep({step})' = AtStep({step}) \union {j} /\ j \notin AtStep({step})
    BY <1>1, <1>2, <1>3
  <2>2. /\ IsFiniteSet(AtStep({step})')
        /\ Cardinality(AtStep({step})') = Cardinality(AtStep({step})) + 1
    BY <2>1, FS_AddElement
  <2>3. chatJob[j].step # step
    BY <1>3
  <2> QED BY <1>3, <2>2, <2>3
<1>4. CASE chatJob[j].step = step
    BY <1>1, <1>2, <1>4, FS_RemoveElement, ZenonT(40)
<1>5. CASE job.step # step /\ chatJob[j].step # step
    BY <1>1, <1>2, <1>5
<1> QED BY <1>3, <1>4, <1>5

LEMMA DirectFindKeeps ==
    ASSUME ChatInv, NEW j \in ChatJobs, DirectFind(j)
    PROVE  ChatInv'
<1>0. ChatTypeOK /\ DirectOnce
    BY DEF ChatInv
<1>1. PICK base, job : base = IdleChat /\ job = [base EXCEPT !.step = "directInsert", !.none = TRUE]
    OBVIOUS
<1>2. /\ job \in ChatJob /\ job.step = "directInsert" /\ job.preview = NoPreview /\ job.none
      /\ job.members = base.members
  <2>1. base \in ChatJob /\ base.preview = NoPreview
    BY <1>1, IdleChatIs
  <2> QED BY <1>1, <2>1 DEF ChatJob, ChatSteps
<1>3. /\ chatJob[j].step = "idle" /\ chatRequests < MaxChatRequests
      /\ chatRequests' = chatRequests + 1 /\ chatJob' = [chatJob EXCEPT ![j] = job]
      /\ UNCHANGED <<group, member, chat, sent, direct, joins, meant, revived, before,
                     miscounted, withdrawn, rewritten, oldPreview, hidden, races>>
  <2>1. (direct.joined = 0) = TRUE
    BY DEF DirectFind, NotFound
  <2>2. chatJob' = [chatJob EXCEPT ![j] = [IdleChat EXCEPT !.step = "directInsert", !.none = TRUE]]
    BY <2>1 DEF DirectFind
  <2> QED BY <1>1, <2>2 DEF DirectFind
<1>4. PICK inserting, joining \in Nat :
         /\ inserting = Cardinality(AtStep({"directInsert"}))
         /\ joining = Cardinality(AtStep({"directJoin"}))
         /\ IsFiniteSet(AtStep({"directInsert"})) /\ IsFiniteSet(AtStep({"directJoin"}))
         /\ joining <= direct.bare
         /\ inserting + direct.bare + direct.joined <= chatRequests
    BY DirectsAre
<1>5. /\ direct.bare \in Nat /\ direct.joined \in Nat /\ chatRequests \in Nat
      /\ MaxChatRequests \in Nat
    BY <1>0, ChatTypes, ChatAssumption
<1>6. /\ IsFiniteSet(AtStep({"directInsert"})') /\ IsFiniteSet(AtStep({"directJoin"})')
      /\ Cardinality(AtStep({"directInsert"})') = inserting + 1
      /\ Cardinality(AtStep({"directJoin"})') = joining
  <2>1. chatJob[j].step # job.step /\ chatJob[j].step # "directJoin" /\ job.step # "directJoin"
    BY <1>2, <1>3
  <2>2. /\ IsFiniteSet(AtStep({"directInsert"})')
        /\ Cardinality(AtStep({"directInsert"})') = inserting + 1
    BY <1>2, <1>3, <1>4, <2>1, DirectsMove
  <2>3. AtStep({"directJoin"})' = AtStep({"directJoin"})
    BY <1>2, <1>3, <1>4, <2>1, DirectsMove
  <2> QED BY <1>4, <2>2, <2>3
<1>7. DirectsAreCounted'
    BY <1>3, <1>4, <1>5, <1>6 DEF DirectsAreCounted
<1>8. DirectOnce'
    BY <1>0, <1>3 DEF DirectOnce
<1>9. ChatJobKnows(job)'
    BY <1>2, IdleChatIs DEF ChatJobKnows
<1>10. \A u \in ChatUsers : job.members[u].unread = 0
    BY <1>1, <1>2, IdleChatIs
<1>11. direct' \in [bare : 0 .. MaxChatRequests, joined : 0 .. MaxChatRequests]
       /\ races' \in Nat /\ chatRequests' \in 0 .. MaxChatRequests
    BY <1>0, <1>3, <1>5 DEF ChatTypeOK
<1> QED BY <1>2, <1>3, <1>7, <1>8, <1>9, <1>10, <1>11, DirectStepKeeps

LEMMA DirectInsertKeeps ==
    ASSUME ChatInv, NEW j \in ChatJobs, DirectInsert(j)
    PROVE  ChatInv'
<1>0. ChatTypeOK /\ DirectOnce
    BY DEF ChatInv
<1>1. PICK old, job : old = chatJob[j] /\ job = [old EXCEPT !.step = "directJoin"]
    OBVIOUS
<1>2. /\ old \in ChatJob /\ ChatJobKnows(old) /\ old.step = "directInsert"
      /\ direct' = [direct EXCEPT !.bare = direct.bare + 1]
      /\ chatJob' = [chatJob EXCEPT ![j] = job]
      /\ UNCHANGED <<group, member, chat, sent, joins, meant, revived, before, miscounted,
                     withdrawn, rewritten, oldPreview, hidden, races, chatRequests>>
    BY <1>0, <1>1, ChatTypes DEF ChatInv, DirectInsert, Step
<1>3. /\ job \in ChatJob /\ job.step = "directJoin" /\ job.none = old.none
      /\ job.preview = old.preview /\ job.members = old.members
  <2>1. "directJoin" \in ChatSteps
    BY DEF ChatSteps
  <2> QED BY <1>1, <1>2, <2>1, ChatJobIs
<1>4. PICK inserting, joining \in Nat :
         /\ inserting = Cardinality(AtStep({"directInsert"}))
         /\ joining = Cardinality(AtStep({"directJoin"}))
         /\ IsFiniteSet(AtStep({"directInsert"})) /\ IsFiniteSet(AtStep({"directJoin"}))
         /\ joining <= direct.bare
         /\ inserting + direct.bare + direct.joined <= chatRequests
    BY DirectsAre
<1>5. /\ direct.bare \in Nat /\ direct.joined \in Nat /\ chatRequests \in Nat
      /\ MaxChatRequests \in Nat /\ chatRequests <= MaxChatRequests
    BY <1>0, ChatTypes, ChatAssumption
<1>6. direct'.bare = direct.bare + 1 /\ direct'.joined = direct.joined
      /\ direct' = [bare |-> direct.bare + 1, joined |-> direct.joined]
    BY <1>0, <1>2, ChatTypes
<1>7. /\ IsFiniteSet(AtStep({"directInsert"})') /\ IsFiniteSet(AtStep({"directJoin"})')
      /\ Cardinality(AtStep({"directInsert"})') = inserting - 1
      /\ Cardinality(AtStep({"directJoin"})') = joining + 1
  <2>1. chatJob[j].step = "directInsert" /\ chatJob[j].step # job.step
    BY <1>1, <1>2, <1>3
  <2>2. /\ IsFiniteSet(AtStep({"directInsert"})')
        /\ Cardinality(AtStep({"directInsert"})') = inserting - 1
    BY <1>2, <1>3, <1>4, <2>1, DirectsMove
  <2>3. /\ IsFiniteSet(AtStep({"directJoin"})')
        /\ Cardinality(AtStep({"directJoin"})') = joining + 1
    BY <1>2, <1>3, <1>4, <2>1, DirectsMove
  <2> QED BY <2>2, <2>3
<1>a. inserting - 1 \in Nat
    BY <1>7, FS_CardinalityType
<1>8. DirectsAreCounted'
    BY <1>2, <1>4, <1>5, <1>6, <1>7 DEF DirectsAreCounted
<1>9. DirectOnce'
    BY <1>0, <1>2, <1>6 DEF DirectOnce
<1>10. ChatJobKnows(job)'
    BY <1>2, <1>3 DEF ChatJobKnows
<1>11. direct' \in [bare : 0 .. MaxChatRequests, joined : 0 .. MaxChatRequests]
  <2>1. direct.bare + 1 \in 0 .. MaxChatRequests /\ direct.joined \in 0 .. MaxChatRequests
    BY <1>4, <1>5, <1>a
  <2> QED BY <1>6, <2>1
<1>12. races' \in Nat /\ chatRequests' \in 0 .. MaxChatRequests
    BY <1>0, <1>2, ChatTypes
<1> QED BY <1>1, <1>2, <1>3, <1>8, <1>9, <1>10, <1>11, <1>12, DirectStepKeeps

(* A second conversation is that of a request that found none. *)
LEMMA DirectJoinKeeps ==
    ASSUME ChatInv, NEW j \in ChatJobs, DirectJoin(j)
    PROVE  ChatInv'
<1>0. ChatTypeOK /\ DirectOnce
    BY DEF ChatInv
<1>1. PICK old : old = chatJob[j]
    OBVIOUS
<1>2. /\ ChatJobKnows(old) /\ old.step = "directJoin" /\ old.none /\ Ends(j)
      /\ direct' = [bare |-> direct.bare - 1, joined |-> direct.joined + 1]
      /\ races' = IF direct.joined > 0 THEN races + 1 ELSE races
      /\ UNCHANGED <<group, member, chat, sent, joins, meant, revived, before, miscounted,
                     withdrawn, rewritten, oldPreview, hidden, chatRequests>>
    BY <1>0, <1>1 DEF ChatInv, DirectJoin, ChatJobKnows
<1>3. PICK job \in ChatJob :
         /\ chatJob' = [chatJob EXCEPT ![j] = job] /\ job.step = "idle" /\ ChatJobKnows(job)'
         /\ \A v \in ChatUsers : job.members[v].unread = 0
    BY <1>2, EndsIs
<1>4. PICK inserting, joining \in Nat :
         /\ inserting = Cardinality(AtStep({"directInsert"}))
         /\ joining = Cardinality(AtStep({"directJoin"}))
         /\ IsFiniteSet(AtStep({"directInsert"})) /\ IsFiniteSet(AtStep({"directJoin"}))
         /\ joining <= direct.bare
         /\ inserting + direct.bare + direct.joined <= chatRequests
    BY DirectsAre
<1>5. /\ direct.bare \in Nat /\ direct.joined \in Nat /\ chatRequests \in Nat
      /\ MaxChatRequests \in Nat /\ chatRequests <= MaxChatRequests /\ races \in Nat
    BY <1>0, ChatTypes, ChatAssumption
<1>6. direct'.bare = direct.bare - 1 /\ direct'.joined = direct.joined + 1
    BY <1>2
<1>7. /\ IsFiniteSet(AtStep({"directInsert"})') /\ IsFiniteSet(AtStep({"directJoin"})')
      /\ Cardinality(AtStep({"directInsert"})') = inserting
      /\ Cardinality(AtStep({"directJoin"})') = joining - 1 /\ joining - 1 \in Nat
  <2>1. chatJob[j].step = "directJoin" /\ chatJob[j].step # job.step
    BY <1>1, <1>2, <1>3
  <2>2. AtStep({"directInsert"})' = AtStep({"directInsert"})
    BY <1>3, <1>4, <2>1, DirectsMove
  <2>3. /\ IsFiniteSet(AtStep({"directJoin"})')
        /\ Cardinality(AtStep({"directJoin"})') = joining - 1
    BY <1>3, <1>4, <2>1, DirectsMove
  <2>4. joining - 1 \in Nat
    BY <2>3, FS_CardinalityType
  <2> QED BY <1>4, <2>2, <2>3, <2>4
<1>8. DirectsAreCounted'
    BY <1>2, <1>4, <1>5, <1>6, <1>7 DEF DirectsAreCounted
<1>9. DirectOnce'
    BY <1>0, <1>2, <1>5, <1>6 DEF DirectOnce
<1>10. direct' \in [bare : 0 .. MaxChatRequests, joined : 0 .. MaxChatRequests]
  <2>1. direct.bare - 1 \in 0 .. MaxChatRequests /\ direct.joined + 1 \in 0 .. MaxChatRequests
    BY <1>4, <1>5, <1>7
  <2> QED BY <1>2, <2>1
<1>11. races' \in Nat /\ chatRequests' \in 0 .. MaxChatRequests
    BY <1>2, <1>5
<1> QED BY <1>1, <1>2, <1>3, <1>8, <1>9, <1>10, <1>11, DirectStepKeeps

(* A request that dies takes what it was to count or to save with it. *)
LEMMA ChatEndsKeeps ==
    ASSUME ChatInv, NEW j \in ChatJobs, ChatEnds(j)
    PROVE  ChatInv'
<1>0. ChatTypeOK /\ PastIsPast /\ UnreadIsSent /\ DirectOnce /\ DirectsAreCounted
    BY DEF ChatInv
<1>1. PICK old : old = chatJob[j]
    OBVIOUS
<1>2. /\ Ends(j)
      /\ miscounted' = IF old.step \in Counting \union {"readBy"} THEN ChatUsers ELSE miscounted
      /\ old.step \in {"sendSave", "withdrawLast", "withdrawPreview"} => oldPreview'
      /\ ~oldPreview' => ~oldPreview
      /\ UNCHANGED <<sent, group, member, chat, direct, joins, meant, revived, before, withdrawn,
                     rewritten, hidden, races, chatRequests>>
    BY <1>1 DEF ChatEnds
<1>3. PICK job \in ChatJob :
         /\ chatJob' = [chatJob EXCEPT ![j] = job] /\ job.step = "idle" /\ ChatJobKnows(job)'
         /\ \A v \in ChatUsers : job.members[v].unread = 0
    BY <1>2, EndsIs
<1>4. /\ chatJob' \in [ChatJobs -> ChatJob] /\ chatJob'[j] = job
      /\ \A i \in ChatJobs \ {j} : chatJob'[i] = chatJob[i]
    BY <1>0, <1>3, ChatJobMoves
<1>5. ChatTypeOK'
  <2>1. oldPreview' \in BOOLEAN
    BY DEF ChatEnds
  <2>2. miscounted' \subseteq ChatUsers
    BY <1>0, <1>2 DEF ChatTypeOK
  <2> QED BY <1>0, <1>2, <1>4, <2>1, <2>2 DEF ChatTypeOK, ChatJob
<1>6. /\ Ids' = Ids /\ Current' = Current /\ \A u : In(u)' = In(u)
      /\ \A u \in ChatUsers : Unseen(u)' = Unseen(u)
    BY <1>2 DEF Ids, Current, In, Unseen
<1>7. PastIsPast' /\ DeletionHolds' /\ MembersHaveCause'
    BY <1>2, <1>6 DEF ChatInv, PastIsPast, DeletionHolds, MembersHaveCause, InGroup
<1>8. \A i \in ChatJobs : ChatJobKnows(chatJob[i])'
  <2>1. sent <= sent'
    BY <1>0, <1>2, ChatTypes
  <2> QED BY <1>2, <1>3, <1>5, <1>6, <2>1, ChatJobsStay
<1>9. ASSUME NEW step, step # "idle", IsFiniteSet(AtStep({step}))
      PROVE  /\ IsFiniteSet(AtStep({step})')
             /\ Cardinality(AtStep({step})') <= Cardinality(AtStep({step}))
             /\ Cardinality(AtStep({step})') \in Nat /\ Cardinality(AtStep({step})) \in Nat
  <2>1. AtStep({step})' \subseteq AtStep({step})
    BY <1>3, <1>4, <1>9 DEF AtStep
  <2> QED BY <1>9, <2>1, FS_Subset, FS_CardinalityType
<1>10. DirectsAreCounted' /\ DirectOnce'
  <2>1. PICK inserting, joining \in Nat :
           /\ inserting = Cardinality(AtStep({"directInsert"}))
           /\ joining = Cardinality(AtStep({"directJoin"}))
           /\ IsFiniteSet(AtStep({"directInsert"})) /\ IsFiniteSet(AtStep({"directJoin"}))
           /\ joining <= direct.bare
           /\ inserting + direct.bare + direct.joined <= chatRequests
    BY DirectsAre
  <2>2. PICK left, waiting : /\ left = Cardinality(AtStep({"directInsert"})')
                             /\ waiting = Cardinality(AtStep({"directJoin"})')
    OBVIOUS
  <2>3. left \in Nat /\ left <= inserting /\ IsFiniteSet(AtStep({"directInsert"})')
    BY <1>9, <2>1, <2>2
  <2>4. waiting \in Nat /\ waiting <= joining /\ IsFiniteSet(AtStep({"directJoin"})')
    BY <1>9, <2>1, <2>2
  <2>5. direct.bare \in Nat /\ direct.joined \in Nat /\ chatRequests \in Nat
    BY <1>0, ChatTypes
  <2>6. waiting <= direct.bare /\ left + direct.bare + direct.joined <= chatRequests
    BY <2>1, <2>3, <2>4, <2>5
  <2> QED BY <1>0, <1>2, <2>2, <2>3, <2>4, <2>6 DEF DirectsAreCounted, DirectOnce
<1>11. UnreadIsSent'
  <2>1. AtStep(Counting)' \subseteq AtStep(Counting)
    BY <1>3, <1>4 DEF AtStep, Counting
  <2>2. PICK count, left : /\ count = Cardinality(AtStep(Counting))
                           /\ left = Cardinality(AtStep(Counting)')
    OBVIOUS
  <2>3. IsFiniteSet(AtStep(Counting)') /\ left <= count /\ left \in Nat /\ count \in Nat
    BY <1>0, <2>1, <2>2, FS_Subset, FS_CardinalityType DEF UnreadIsSent
  <2>4. /\ \A row \in Member : row.unread \in Nat
        /\ member \in [ChatUsers -> Member] /\ sent \in Nat
        /\ \A i \in ChatJobs : chatJob[i].members \in [ChatUsers -> Member]
    <3>1. \A row \in Member : row.unread \in Nat
      BY <1>0, ChatTypes DEF Member
    <3>2. \A i \in ChatJobs : chatJob[i].members \in [ChatUsers -> Member]
      BY <1>0, ChatTypes DEF ChatJob
    <3> QED BY <1>0, <3>1, <3>2, ChatTypes
  <2>5. \A v \in ChatUsers : member[v].unread + left <= sent /\ left <= sent
    BY <1>0, <2>2, <2>3, <2>4 DEF UnreadIsSent
  <2>6. ASSUME NEW v \in ChatUsers, NEW i \in ChatJobs
        PROVE  chatJob'[i].members[v].unread + left <= sent
    <3>1. CASE i = j
      BY <1>3, <1>4, <2>3, <2>5, <3>1
    <3>2. CASE i # j
      <4>1. PICK kept : kept = chatJob[i].members[v].unread
        OBVIOUS
      <4>2. kept \in Nat /\ kept + count <= sent
        BY <1>0, <2>2, <2>4, <4>1 DEF UnreadIsSent
      <4> QED BY <1>4, <2>3, <2>4, <3>2, <4>1, <4>2
    <3> QED BY <3>1, <3>2
  <2> QED BY <1>2, <2>2, <2>3, <2>5, <2>6 DEF UnreadIsSent
<1>12. ASSUME NEW u \in ChatUsers PROVE UnreadFollows(u)'
  <2>1. CASE old.step \in Counting \union {"readBy"}
    BY <1>2, <2>1 DEF UnreadFollows
  <2>2. CASE old.step \notin Counting \union {"readBy"}
    <3>1. job.step \notin Counting \union {"readBy"}
      BY <1>3 DEF Counting
    <3> QED BY <1>1, <1>2, <1>3, <1>6, <2>2, <3>1, UnreadStays
  <2> QED BY <2>1, <2>2
<1>13. ASSUME NEW m \in Current' PROVE PreviewFollows(m)'
  <2>1. CASE old.step \in {"sendSave", "withdrawLast", "withdrawPreview"}
    BY <1>2, <2>1 DEF PreviewFollows
  <2>2. CASE old.step \notin {"sendSave", "withdrawLast", "withdrawPreview"}
    BY <1>1, <1>2, <1>3, <1>6, <2>2, PreviewStays
  <2> QED BY <2>1, <2>2
<1> QED BY <1>5, <1>7, <1>8, <1>10, <1>11, <1>12, <1>13 DEF ChatInv

LEMMA DeleteConversationKeeps ==
    ASSUME ChatInv, NEW u \in ChatUsers, DeleteConversation(u)
    PROVE  ChatInv'
<1>0. ChatTypeOK /\ PastIsPast /\ UnreadIsSent /\ DirectOnce /\ DirectsAreCounted
    BY DEF ChatInv
<1>1. /\ chatRequests < MaxChatRequests /\ chatRequests' = chatRequests + 1
      /\ group' = [here |-> FALSE, preview |-> NoPreview]
      /\ member' = [v \in ChatUsers |-> Absent]
      /\ chat' = [m \in MessageIds |-> NoMessage]
      /\ meant' = {} /\ withdrawn' = {} /\ revived' = {} /\ hidden' = {}
      /\ UNCHANGED <<sent, direct, chatJob, joins, before, miscounted, rewritten, oldPreview,
                     races>>
    BY DEF DeleteConversation
<1>2. /\ member' \in [ChatUsers -> Member] /\ chat' \in [MessageIds -> ChatMessage]
      /\ \A v \in ChatUsers : ~In(v)' /\ member'[v].unread = 0
      /\ \A m \in MessageIds : ~chat'[m].here
    BY <1>1, IdleChatIs DEF In
<1>3. Ids' = {} /\ Current' = {}
    BY <1>2 DEF Ids, Current
<1>4. chatRequests' \in 0 .. MaxChatRequests /\ chatRequests \in Nat
    BY <1>0, <1>1, ChatTypes, ChatAssumption
<1>5. ChatTypeOK'
  <2>1. NoPreview \in 0 .. DeletedPreview
    BY ChatTypes, <1>0 DEF NoPreview
  <2>2. group' \in [here : BOOLEAN, preview : 0 .. DeletedPreview]
    BY <1>1, <2>1
  <2> QED BY <1>0, <1>1, <1>2, <1>4, <2>2 DEF ChatTypeOK
<1>6. PastIsPast'
    BY <1>0, <1>1, <1>3, IdleChatIs DEF PastIsPast
<1>7. \A i \in ChatJobs : ChatJobKnows(chatJob[i])'
  <2>1. SUFFICES ASSUME NEW i \in ChatJobs PROVE ChatJobKnows(chatJob[i])'
    OBVIOUS
  <2>2. PICK job : job = chatJob[i]
    OBVIOUS
  <2>3. job \in ChatJob /\ ChatJobKnows(job)
    BY <1>0, <2>2, ChatTypes DEF ChatInv
  <2>4. sent <= sent'
    BY <1>0, <1>1, ChatTypes
  <2>5. ChatJobKnows(job)'
    BY <1>0, <1>3, <1>5, <2>3, <2>4, ChatJobStays
  <2>6. chatJob'[i] = job
    BY <1>1, <2>2
  <2> QED BY <2>5, <2>6 DEF ChatJobKnows
<1>8. \A steps : AtStep(steps)' = AtStep(steps)
    BY <1>1 DEF AtStep
<1>9. DirectsAreCounted' /\ DirectOnce'
  <2>1. PICK inserting, joining \in Nat :
           /\ inserting = Cardinality(AtStep({"directInsert"}))
           /\ joining = Cardinality(AtStep({"directJoin"}))
           /\ IsFiniteSet(AtStep({"directInsert"})) /\ IsFiniteSet(AtStep({"directJoin"}))
           /\ joining <= direct.bare
           /\ inserting + direct.bare + direct.joined <= chatRequests
    BY DirectsAre
  <2>2. direct.bare \in Nat /\ direct.joined \in Nat
    BY <1>0, ChatTypes
  <2>3. inserting + direct.bare + direct.joined <= chatRequests'
    BY <1>1, <1>4, <2>1, <2>2
  <2> QED BY <1>0, <1>1, <1>8, <2>1, <2>3 DEF DirectsAreCounted, DirectOnce
<1>10. UnreadIsSent'
  <2>1. PICK count : count = Cardinality(AtStep(Counting))
    OBVIOUS
  <2>2. count \in Nat /\ IsFiniteSet(AtStep(Counting)) /\ sent \in Nat
    BY <1>0, <2>1, FS_CardinalityType, ChatTypes DEF UnreadIsSent
  <2>3. member[u].unread \in Nat /\ member[u].unread + count <= sent
    BY <1>0, <2>1, ChatTypes DEF UnreadIsSent, Member
  <2>4. \A v \in ChatUsers : member'[v].unread + count <= sent
    BY <1>2, <2>2, <2>3
  <2> QED BY <1>0, <1>1, <1>8, <2>1, <2>2, <2>4 DEF UnreadIsSent
<1>11. DeletionHolds' /\ MembersHaveCause'
    BY <1>1, <1>2, <1>3 DEF DeletionHolds, MembersHaveCause, InGroup
<1>12. \A v \in ChatUsers : UnreadFollows(v)'
    BY <1>2 DEF UnreadFollows
<1> QED BY <1>3, <1>5, <1>6, <1>7, <1>9, <1>10, <1>11, <1>12 DEF ChatInv

-----------------------------------------------------------------------------
(* What the chat shows follows its users. *)

LEMMA ChatInitIs ==
    ASSUME ChatInit
    PROVE  ChatInv
<1>1. PICK idle, none : idle = IdleChat /\ none = NoMessage
    OBVIOUS
<1>2. /\ idle \in ChatJob /\ idle.step = "idle" /\ idle.preview = NoPreview
      /\ \A u \in ChatUsers : idle.members[u].unread = 0
      /\ none \in ChatMessage /\ ~none.here
      /\ Absent \in Member /\ Absent.id = 0 /\ Absent.unread = 0
      /\ NoPreview = 0 /\ NoPreview \notin MessageIds
    BY <1>1, IdleChatIs
<1>3. /\ Founder \in ChatUsers /\ MaxMessages \in Nat \ {0} /\ MaxJoins \in Nat \ {0}
      /\ MaxChatRequests \in Nat
    BY ChatAssumption
<1>4. /\ group = [here |-> TRUE, preview |-> NoPreview]
      /\ chat = [m \in MessageIds |-> none] /\ chatJob = [j \in ChatJobs |-> idle]
      /\ sent = 0 /\ direct = [bare |-> 0, joined |-> 0] /\ joins = 1
      /\ revived = {} /\ miscounted = {} /\ withdrawn = {} /\ rewritten = {} /\ hidden = {}
      /\ races = 0 /\ before = [u \in ChatUsers |-> {}] /\ oldPreview = FALSE
      /\ chatRequests = 0
    BY <1>1 DEF ChatInit
<1>5. PICK others \in SUBSET (ChatUsers \ {Founder}) :
         /\ member = [u \in ChatUsers |-> IF u \in others \union {Founder}
                                          THEN [id |-> 1, admin |-> u = Founder, unread |-> 0]
                                          ELSE Absent]
         /\ meant = others \union {Founder}
    BY DEF ChatInit
<1>6. ASSUME NEW u \in ChatUsers
      PROVE  /\ member[u] \in Member /\ member[u].unread = 0 /\ (In(u) <=> u \in meant)
  <2>1. PICK founds \in BOOLEAN : founds = (u = Founder)
    OBVIOUS
  <2>2. 0 \in 0 .. MaxMessages /\ 1 \in 0 .. MaxJoins
    BY <1>3
  <2>3. PICK row : row = [id |-> 1, admin |-> founds, unread |-> 0]
    OBVIOUS
  <2>4. row \in Member /\ row.id = 1 /\ row.unread = 0
    BY <2>2, <2>3 DEF Member
  <2>5. member[u] = IF u \in meant THEN row ELSE Absent
    BY <1>5, <2>1, <2>3
  <2> QED BY <1>2, <2>4, <2>5 DEF In
<1>7. ChatTypeOK
  <2>1. member \in [ChatUsers -> Member] /\ meant \subseteq ChatUsers
    BY <1>3, <1>5, <1>6
  <2>2. group \in [here : BOOLEAN, preview : 0 .. DeletedPreview]
    BY <1>2, <1>3, <1>4 DEF DeletedPreview
  <2>3. direct \in [bare : 0 .. MaxChatRequests, joined : 0 .. MaxChatRequests]
    BY <1>3, <1>4
  <2>4. /\ chat \in [MessageIds -> ChatMessage] /\ chatJob \in [ChatJobs -> ChatJob]
        /\ before \in [ChatUsers -> SUBSET MessageIds]
    BY <1>2, <1>4
  <2>5. /\ sent \in 0 .. MaxMessages /\ joins \in 0 .. MaxJoins
        /\ chatRequests \in 0 .. MaxChatRequests /\ races \in Nat
    BY <1>3, <1>4
  <2>6. oldPreview \in BOOLEAN
    BY <1>4
  <2> QED BY <1>4, <2>1, <2>2, <2>3, <2>4, <2>5, <2>6 DEF ChatTypeOK, ChatJob
<1>8. Ids = {} /\ Current = {} /\ \A u : Unseen(u) = {}
    BY <1>2, <1>4 DEF Ids, Current, Unseen
<1>9. PastIsPast
    BY <1>2, <1>4, <1>8 DEF PastIsPast
<1>10. \A j \in ChatJobs : ChatJobKnows(chatJob[j])
    BY <1>2, <1>4 DEF ChatJobKnows
<1>11. \A steps : "idle" \notin steps => AtStep(steps) = {}
    BY <1>2, <1>4 DEF AtStep
<1>12. IsFiniteSet({}) /\ Cardinality({}) = 0
    BY FS_EmptySet
<1>13. DirectsAreCounted
    BY <1>4, <1>11, <1>12, SMTT(40) DEF DirectsAreCounted
<1>14. AtStep(Counting) = {} /\ AtStep({"readBy"}) = {}
    BY <1>11 DEF Counting
<1>15. UnreadIsSent
    BY <1>2, <1>4, <1>6, <1>12, <1>14 DEF UnreadIsSent
<1>16. DeletionHolds /\ MembersHaveCause /\ DirectOnce
    BY <1>4, <1>6, <1>7, <1>8 DEF DeletionHolds, MembersHaveCause, InGroup, DirectOnce, ChatTypeOK
<1>17. ASSUME NEW u \in ChatUsers PROVE UnreadFollows(u)
  <2>1. {j \in AtStep(Counting) : chatJob[j].user # u} = {}
    BY <1>14
  <2>2. ~ \E j \in AtStep({"readBy"}) : chatJob[j].user = u
    BY <1>14
  <2>3. Cardinality(Unseen(u)) = 0
    BY <1>8, <1>12
  <2>4. Cardinality(Unseen(u))
           = member[u].unread + Cardinality({j \in AtStep(Counting) : chatJob[j].user # u})
    <3>1. member[u].unread = 0
      BY <1>6
    <3>2. Cardinality({j \in AtStep(Counting) : chatJob[j].user # u}) = 0
      BY <1>12, <2>1
    <3> QED BY <2>3, <3>1, <3>2
  <2> QED BY <2>2, <2>4 DEF UnreadFollows
<1> QED BY <1>7, <1>8, <1>9, <1>10, <1>13, <1>15, <1>16, <1>17 DEF ChatInv

LEMMA ChatStuttersKeep ==
    ASSUME ChatInv, UNCHANGED chatVars
    PROVE  ChatInv'
<1> USE DEF chatVars
<1>1. /\ Ids' = Ids /\ Current' = Current /\ \A u : In(u)' = In(u) /\ Unseen(u)' = Unseen(u)
      /\ \A steps : AtStep(steps)' = AtStep(steps)
    BY DEF Ids, Current, In, Unseen, AtStep
<1>2. ChatTypeOK'
    BY DEF ChatInv, ChatTypeOK
<1>3. PastIsPast' /\ DeletionHolds' /\ MembersHaveCause' /\ DirectOnce'
    BY <1>1 DEF ChatInv, PastIsPast, DeletionHolds, MembersHaveCause, InGroup, DirectOnce
<1>4. \A j \in ChatJobs : ChatJobKnows(chatJob[j])'
    BY <1>1 DEF ChatInv, ChatJobKnows
<1>5. DirectsAreCounted' /\ UnreadIsSent'
    BY <1>1 DEF ChatInv, DirectsAreCounted, UnreadIsSent
<1>6. \A u \in ChatUsers : UnreadFollows(u)'
    BY <1>1 DEF ChatInv, UnreadFollows
<1>7. \A m \in Current' : PreviewFollows(m)'
    BY <1>1 DEF ChatInv, PreviewFollows
<1> QED BY <1>2, <1>3, <1>4, <1>5, <1>6, <1>7 DEF ChatInv

LEMMA ChatInvStep ==
    ASSUME ChatInv, [ChatNext]_chatVars
    PROVE  ChatInv'
<1>1. CASE UNCHANGED chatVars
    BY <1>1, ChatStuttersKeep
<1>2. CASE \E u \in ChatUsers : DeleteConversation(u)
    BY <1>2, DeleteConversationKeeps
<1>3. ASSUME NEW j \in ChatJobs, SendInsert(j) \/ SendSave(j) \/ SendCount(j)
      PROVE  ChatInv'
    BY <1>3, SendInsertKeeps, SendSaveKeeps, SendCountKeeps
<1>4. ASSUME NEW j \in ChatJobs,
             WithdrawFind(j) \/ WithdrawSave(j) \/ WithdrawLast(j) \/ WithdrawPreview(j)
      PROVE  ChatInv'
    BY <1>4, WithdrawFindKeeps, WithdrawSaveKeeps, WithdrawLastKeeps, WithdrawPreviewKeeps
<1>5. ASSUME NEW j \in ChatJobs,
             EditSave(j) \/ HideSave(j) \/ ReadBy(j) \/ AddInsert(j) \/ RemoveDelete(j)
             \/ MuteSave(j)
      PROVE  ChatInv'
    BY <1>5, EditSaveKeeps, HideSaveKeeps, ReadByKeeps, AddInsertKeeps, RemoveDeleteKeeps,
       MuteSaveKeeps
<1>6. ASSUME NEW j \in ChatJobs,
             DirectFind(j) \/ DirectInsert(j) \/ DirectJoin(j) \/ ChatEnds(j)
      PROVE  ChatInv'
    BY <1>6, DirectFindKeeps, DirectInsertKeeps, DirectJoinKeeps, ChatEndsKeeps
<1>7. ASSUME NEW j \in ChatJobs, NEW u \in ChatUsers,
             Send(j, u) \/ Edit(j, u) \/ MarkAsRead(j, u) \/ ToggleMute(j, u)
      PROVE  ChatInv'
    BY <1>7, ReadersKeep, MarkAsReadKeeps
<1>8. ASSUME NEW j \in ChatJobs, NEW u \in ChatUsers, NEW m \in MessageIds,
             Withdraw(j, u, m) \/ Hide(j, u, m)
      PROVE  ChatInv'
    BY <1>8, WithdrawKeeps, HideKeeps
<1>9. ASSUME NEW j \in ChatJobs, NEW u \in ChatUsers, NEW v \in ChatUsers,
              AddParticipant(j, u, v) \/ RemoveParticipant(j, u, v)
       PROVE  ChatInv'
    BY <1>9, ParticipantsKeep
<1> QED BY <1>1, <1>2, <1>3, <1>4, <1>5, <1>6, <1>7, <1>8, <1>9 DEF ChatNext

(* ChatInv holds in every state of the chat (ChatService): the numbers, the preview and *)
(* the direct conversations are right but for what requests at work have yet to write.  *)
THEOREM ChatInvHolds == ChatSpec => []ChatInv
<1>1. ChatInv /\ [ChatNext]_chatVars => ChatInv'
    BY ChatInvStep
<1> QED BY <1>1, ChatInitIs, PTL DEF ChatSpec

LEMMA ChatInvFollows ==
    ASSUME ChatInv
    PROVE  ChatFollowsUsers
<1>1. ChatTypeOK
    BY DEF ChatInv
<1>2. UnreadHasCause
  <2>1. SUFFICES ASSUME NEW u \in ChatUsers, In(u), u \notin miscounted,
                        AtStep(Counting \union {"readBy"}) = {}
                 PROVE  member[u].unread = Cardinality(Unseen(u))
    BY DEF UnreadHasCause, InGroup
  <2>2. AtStep(Counting) = {} /\ AtStep({"readBy"}) = {}
    BY <2>1 DEF AtStep
  <2>3. /\ Cardinality(Unseen(u)) = member[u].unread + Cardinality(SendsOfOthers(u))
        /\ member[u].unread \in Nat
    BY <2>1, <2>2, UnreadIs
  <2>4. SendsOfOthers(u) = {} /\ Cardinality({}) = 0
    BY <2>2, FS_EmptySet DEF SendsOfOthers
  <2> QED BY <2>3, <2>4
<1>3. PreviewHasCause
  <2>1. SUFFICES ASSUME Ids # {}, ~oldPreview, LastMessage \notin rewritten,
                        AtStep({"sendSave", "withdrawLast", "withdrawPreview"}) = {}
                 PROVE  group.preview = IF chat[LastMessage].deleted THEN DeletedPreview
                                        ELSE LastMessage
    BY DEF PreviewHasCause
  <2>2. PICK m : m = LastMessage
    OBVIOUS
  <2>3. m \in Ids /\ \A n \in Ids : n <= m
    BY <1>1, <2>1, <2>2, LastIsLast
  <2>4. m \in Current
    BY <2>1, <2>2, <2>3 DEF Current
  <2> QED BY <2>1, <2>2, <2>3, <2>4 DEF ChatInv, PreviewFollows
<1> QED BY <1>2, <1>3 DEF ChatInv, ChatFollowsUsers

(* What the chat shows is what its users did: counters, deletions, participants, the *)
(* preview and direct conversations, each but for the causes its property names.     *)
THEOREM ChatIsOfItsUsers == ChatSpec => []ChatFollowsUsers
<1>1. ChatInv => ChatFollowsUsers
    BY ChatInvFollows
<1> QED BY <1>1, ChatInvHolds, PTL

-----------------------------------------------------------------------------
(* ChatGateway.tla: sockets, sends, and what a step leaves alone. *)

GatewaySteps == {"none", "saved", "emitted", "done", "failed"}
Sending == [step : GatewaySteps, by : SocketUsers]

LEMMA GatewayTypes ==
    ASSUME GatewayTypeOK
    PROVE  /\ socket \in [Sockets -> {"new", "open", "gone"}]
           /\ onlineUsers \in [SocketUsers -> SUBSET Sockets] /\ room \subseteq Sockets
           /\ sending \in [MessageNos -> Sending] /\ stored \in 0 .. Sends
           /\ deletion \in [MessageNos -> {"none", "saved", "done", "failed"}]
           /\ told \in [Sockets -> SUBSET SocketUsers] /\ checked \in [Sockets -> BOOLEAN]
           /\ screen \in [Sockets -> Seq(MessageNos)] /\ preview \in [Sockets -> 0 .. Sends]
           /\ opened \in [Sockets -> 0 .. Sends + 1] /\ from \in [Sockets -> 0 .. Sends + 1]
           /\ overlapped \subseteq SUBSET MessageNos /\ late \subseteq MessageNos
           /\ MessageNos = 1 .. Sends /\ Sends \in Nat
           /\ \A s \in Sockets : SocketUser[s] \in SocketUsers
  BY ChatGatewayAssumption DEF GatewayTypeOK, MessageNos, SocketUsers, Sending, GatewaySteps

(* A message taken out of what a client shows: the others stay, in order. *)
LEMMA WithoutIs ==
    ASSUME NEW S, NEW shown \in Seq(S), NEW m,
           \A i, k \in DOMAIN shown : i # k => shown[i] # shown[k]
    PROVE  /\ Without(shown, m) \in Seq(S)
           /\ \E Old \in [DOMAIN Without(shown, m) -> DOMAIN shown] :
                 /\ \A i \in DOMAIN Without(shown, m) :
                       /\ Without(shown, m)[i] = shown[Old[i]] /\ shown[Old[i]] # m
                       /\ \A k \in DOMAIN Without(shown, m) : i < k => Old[i] < Old[k]
                 /\ \A k \in DOMAIN shown : shown[k] # m =>
                       \E i \in DOMAIN Without(shown, m) : Old[i] = k
<1>1. /\ Len(shown) \in Nat /\ DOMAIN shown = 1 .. Len(shown)
      /\ \A i \in DOMAIN shown : shown[i] \in S
    OBVIOUS
<1>2. CASE \A i \in DOMAIN shown : shown[i] # m
  <2>1. Without(shown, m) = shown
    BY <1>2 DEF Without
  <2>2. PICK Old : Old = [i \in DOMAIN shown |-> i]
    OBVIOUS
  <2> QED BY <1>1, <1>2, <2>1, <2>2
<1>3. CASE \E i \in DOMAIN shown : shown[i] = m
  <2>1. PICK at : at = CHOOSE i \in DOMAIN shown : shown[i] = m
    OBVIOUS
  <2>2. at \in 1 .. Len(shown) /\ shown[at] = m /\ at \in Nat
    BY <1>1, <1>3, <2>1
  <2>a. PICK n : n = Len(shown) - 1
    OBVIOUS
  <2>3. n \in Nat /\ n = Len(shown) - 1 /\ Len(shown) = n + 1
    BY <1>1, <2>2, <2>a
  <2>4. PICK rest : rest = [i \in 1 .. n |-> IF i < at THEN shown[i] ELSE shown[i + 1]]
    OBVIOUS
  <2>5. Without(shown, m) = rest
    BY <1>3, <2>1, <2>3, <2>4 DEF Without
  <2>6. PICK Old : Old = [i \in 1 .. n |-> IF i < at THEN i ELSE i + 1]
    OBVIOUS
  <2>7. ASSUME NEW i \in 1 .. n
        PROVE  /\ Old[i] \in 1 .. Len(shown) /\ rest[i] = shown[Old[i]] /\ Old[i] # at
    BY <1>1, <2>2, <2>3, <2>4, <2>6
  <2>8. DOMAIN rest = 1 .. n /\ rest \in [1 .. n -> S] /\ Old \in [1 .. n -> DOMAIN shown]
    BY <1>1, <2>4, <2>6, <2>7
  <2>9. rest \in Seq(S)
    BY <2>3, <2>8
  <2>10. ASSUME NEW i \in 1 .. n
         PROVE  shown[Old[i]] # m /\ \A k \in 1 .. n : i < k => Old[i] < Old[k]
    <3>1. shown[Old[i]] # m
      BY <1>1, <2>2, <2>7
    <3>2. \A k \in 1 .. n : i < k => Old[i] < Old[k]
      BY <2>2, <2>6
    <3> QED BY <3>1, <3>2
  <2>11. ASSUME NEW k \in DOMAIN shown, shown[k] # m
         PROVE  \E i \in 1 .. n : Old[i] = k
    <3>1. k # at /\ k \in Nat
      BY <1>1, <2>2, <2>11
    <3>2. CASE k < at
      <4>1. k \in 1 .. n /\ Old[k] = k
        BY <1>1, <2>2, <2>3, <2>6, <3>1, <3>2
      <4> QED BY <4>1
    <3>3. CASE at < k
      <4>1. k - 1 \in 1 .. n /\ Old[k - 1] = k
        BY <1>1, <2>2, <2>3, <2>6, <3>1, <3>3
      <4> QED BY <4>1
    <3> QED BY <2>2, <3>1, <3>2, <3>3
  <2>12. /\ \A i \in DOMAIN rest :
               /\ rest[i] = shown[Old[i]] /\ shown[Old[i]] # m
               /\ \A k \in DOMAIN rest : i < k => Old[i] < Old[k]
         /\ \A k \in DOMAIN shown : shown[k] # m => \E i \in DOMAIN rest : Old[i] = k
    BY <2>7, <2>8, <2>10, <2>11
  <2>13. Old \in [DOMAIN rest -> DOMAIN shown]
    BY <2>8
  <2> QED BY <2>5, <2>9, <2>12, <2>13, ZenonT(40)
<1> QED BY <1>2, <1>3

LEMMA PeopleStay ==
    ASSUME PresenceHolds, AskedIsOpen, UNCHANGED <<about, people, told, checked>>
    PROVE  PresenceHolds' /\ AskedIsOpen'
  BY DEF PresenceHolds, AskedIsOpen, Connected, Online, people

LEMMA SendsStay ==
    ASSUME StoredFirst, LaterOverlaps, LateIsKnown,
           UNCHANGED <<sending, stored, deletion, overlapped, late>>
    PROVE  StoredFirst' /\ LaterOverlaps' /\ LateIsKnown'
  BY DEF StoredFirst, LaterOverlaps, LateIsKnown

LEMMA ListStays ==
    ASSUME ListHears,
           \A s \in Connected' :
              s \in Connected /\ preview'[s] = preview[s] /\ opened'[s] = opened[s],
           \A m \in MessageNos : sending'[m].step = "done" =>
              sending[m].step = "done" /\ sending'[m].by = sending[m].by,
           \A pair \in overlapped : pair \in overlapped'
    PROVE  ListHears'
  BY DEF ListHears

(* What a socket shows stays right while nothing is emitted to it. *)
LEMMA ScreenStays ==
    ASSUME GatewayInv, NEW s \in Sockets, screen'[s] = screen[s], from'[s] = from[s],
           s \in room' <=> s \in room,
           \A m \in MessageNos :
              /\ sending[m].step \in {"emitted", "done", "failed"} =>
                    sending'[m].step \in {"emitted", "done", "failed"}
              /\ sending'[m].step \in {"emitted", "done"} =>
                    sending[m].step \in {"emitted", "done"}
              /\ deletion'[m] = "none" => deletion[m] = "none"
              /\ deletion'[m] = "done" => deletion[m] = "done",
           \A m \in late : m \in late', \A pair \in overlapped : pair \in overlapped'
    PROVE  ShownOnce(s)' /\ (s \in room' => SocketHears(s)')
<1>1. ShownOnce(s) /\ (s \in room => SocketHears(s)) /\ GatewayTypeOK
    BY DEF GatewayInv
<1>2. \A i \in DOMAIN screen[s] : screen[s][i] \in MessageNos
  <2>1. screen[s] \in Seq(MessageNos)
    BY <1>1, GatewayTypes
  <2> QED BY <2>1
<1>3. ShownOnce(s)'
    BY <1>1, <1>2 DEF ShownOnce
<1>4. s \in room' => SocketHears(s)'
    BY <1>1, <1>2 DEF SocketHears
<1> QED BY <1>3, <1>4

LEMMA ScreenIsLeft ==
    ASSUME NEW s \in Sockets, screen'[s] = <<>>, s \notin room'
    PROVE  ShownOnce(s)' /\ (s \in room' => SocketHears(s)')
<1>1. DOMAIN <<>> = {}
    OBVIOUS
<1> QED BY <1>1 DEF ShownOnce

-----------------------------------------------------------------------------
(* Presence. *)

(* What Forget does to the clients that are gone, and leaves of the others. *)
LEMMA ForgetIs ==
    ASSUME GatewayTypeOK, NEW gone \in SUBSET Sockets, Forget(gone)
    PROVE  /\ checked' \in [Sockets -> BOOLEAN] /\ screen' \in [Sockets -> Seq(MessageNos)]
           /\ preview' \in [Sockets -> 0 .. Sends] /\ opened' \in [Sockets -> 0 .. Sends + 1]
           /\ from' \in [Sockets -> 0 .. Sends + 1]
           /\ \A s \in gone : ~checked'[s] /\ screen'[s] = <<>>
           /\ \A s \in Sockets : checked'[s] => checked[s]
           /\ \A s \in Sockets \ gone :
                 /\ screen'[s] = screen[s] /\ preview'[s] = preview[s]
                 /\ opened'[s] = opened[s] /\ from'[s] = from[s]
<1>1. /\ screen \in [Sockets -> Seq(MessageNos)]
      /\ preview \in [Sockets -> 0 .. Sends] /\ opened \in [Sockets -> 0 .. Sends + 1]
      /\ from \in [Sockets -> 0 .. Sends + 1] /\ Sends \in Nat
    BY GatewayTypes
<1>2. /\ checked' = [s \in Sockets |-> checked[s] /\ s \notin gone]
      /\ screen' = [s \in Sockets |-> IF s \in gone THEN <<>> ELSE screen[s]]
      /\ preview' = [s \in Sockets |-> IF s \in gone THEN 0 ELSE preview[s]]
      /\ opened' = [s \in Sockets |-> IF s \in gone THEN 0 ELSE opened[s]]
      /\ from' = [s \in Sockets |-> IF s \in gone THEN 0 ELSE from[s]]
    BY DEF Forget
<1>3. checked' \in [Sockets -> BOOLEAN]
    BY <1>2
<1>4. <<>> \in Seq(MessageNos)
    OBVIOUS
<1>5. screen' \in [Sockets -> Seq(MessageNos)]
    BY <1>1, <1>2, <1>4
<1>6. /\ preview' \in [Sockets -> 0 .. Sends] /\ opened' \in [Sockets -> 0 .. Sends + 1]
      /\ from' \in [Sockets -> 0 .. Sends + 1]
    BY <1>1, <1>2
<1>7. \A s \in Sockets : checked'[s] => checked[s] /\ s \notin gone
    BY <1>2
<1> QED BY <1>2, <1>3, <1>5, <1>6, <1>7

LEMMA ConnectKeeps ==
    ASSUME GatewayInv, NEW s \in Sockets, Connect(s)
    PROVE  GatewayInv'
<1>0. /\ GatewayTypeOK /\ PresenceHolds /\ AskedIsOpen /\ StoredFirst /\ LaterOverlaps
      /\ LateIsKnown /\ ListHears
    BY DEF GatewayInv
<1>1. PICK u : u = SocketUser[s]
    OBVIOUS
<1>2. /\ socket[s] = "new" /\ socket' = [socket EXCEPT ![s] = "open"]
      /\ onlineUsers' = [onlineUsers EXCEPT ![u] = onlineUsers[u] \union {s}]
      /\ told' = [t \in Sockets |-> IF about = "presence" /\ t \in Connected \union {s}
                                    THEN told[t] \union {u} ELSE told[t]]
      /\ opened' = [opened EXCEPT ![s] = stored + 1]
      /\ UNCHANGED <<about, room, sending, stored, deletion, overlapped, late, checked, screen,
                     preview, from>>
    BY <1>1 DEF Connect, traffic, sends
<1>3. u \in SocketUsers /\ \A t \in Sockets : SocketUser[t] \in SocketUsers
    BY <1>0, <1>1, GatewayTypes
<1>4. /\ socket' \in [Sockets -> {"new", "open", "gone"}] /\ socket'[s] = "open"
      /\ \A t \in Sockets \ {s} : socket'[t] = socket[t]
      /\ Connected' = Connected \union {s} /\ s \notin Connected
  <2>1. /\ socket' \in [Sockets -> {"new", "open", "gone"}] /\ socket'[s] = "open"
        /\ \A t \in Sockets \ {s} : socket'[t] = socket[t]
    BY <1>0, <1>2, GatewayTypes
  <2> QED BY <1>2, <2>1 DEF Connected
<1>5. /\ onlineUsers' \in [SocketUsers -> SUBSET Sockets]
      /\ onlineUsers'[u] = onlineUsers[u] \union {s}
      /\ \A v \in SocketUsers \ {u} : onlineUsers'[v] = onlineUsers[v]
    BY <1>0, <1>2, <1>3, GatewayTypes
<1>6. Online' = Online \union {u}
    BY <1>3, <1>5 DEF Online
<1>7. opened' \in [Sockets -> 0 .. Sends + 1] /\ opened'[s] = stored + 1
      /\ \A t \in Sockets \ {s} : opened'[t] = opened[t]
  <2>1. stored + 1 \in 0 .. Sends + 1
    BY <1>0, GatewayTypes
  <2> QED BY <1>0, <1>2, <2>1, GatewayTypes
<1>8. GatewayTypeOK'
  <2>1. told' \in [Sockets -> SUBSET SocketUsers]
    <3>1. \A t \in Sockets : told[t] \union {u} \in SUBSET SocketUsers
                             /\ told[t] \in SUBSET SocketUsers
      BY <1>0, <1>3, GatewayTypes
    <3> QED BY <1>2, <3>1
  <2> QED BY <1>0, <1>2, <1>4, <1>5, <1>7, <2>1 DEF GatewayTypeOK
<1>9. PresenceHolds' /\ AskedIsOpen'
  <2>1. ASSUME NEW v \in SocketUsers
        PROVE  onlineUsers'[v] = {t \in Connected' : SocketUser[t] = v}
    <3>1. onlineUsers[v] = {t \in Connected : SocketUser[t] = v}
      BY <1>0 DEF PresenceHolds
    <3> QED BY <1>1, <1>4, <1>5, <3>1
  <2>2. ASSUME NEW t \in Sockets, checked'[t]
        PROVE  /\ t \in Connected /\ t \in Connected' /\ about' = "presence"
               /\ told'[t] = Online'
    <3>1. checked[t]
      BY <1>2, <2>2
    <3>2. t \in Connected /\ about = "presence"
      BY <1>0, <3>1 DEF AskedIsOpen
    <3>3. told[t] = Online
      BY <1>0, <3>1, <3>2 DEF PresenceHolds
    <3> QED BY <1>2, <1>4, <1>6, <3>2, <3>3
  <2>3. AskedIsOpen'
    BY <2>2 DEF AskedIsOpen
  <2>4. \A t \in Connected' : t \in Sockets
    BY DEF Connected
  <2> QED BY <2>1, <2>2, <2>3, <2>4 DEF PresenceHolds
<1>10. StoredFirst' /\ LaterOverlaps' /\ LateIsKnown'
    BY <1>0, <1>2, SendsStay
<1>11. ListHears'
  <2>1. SUFFICES ASSUME NEW t \in Connected', NEW m \in MessageNos,
                        sending[m].step = "done", sending[m].by # SocketUser[t],
                        m >= opened'[t], preview[t] < m
                 PROVE  {preview[t], m} \in overlapped
    BY <1>2 DEF ListHears
  <2>2. CASE t = s
    <3>1. stored < m
      BY <1>0, <1>7, <2>1, <2>2, GatewayTypes
    <3> QED BY <1>0, <2>1, <3>1 DEF StoredFirst
  <2>3. CASE t # s
    <3>1. t \in Connected /\ opened'[t] = opened[t]
      BY <1>4, <1>7, <2>3 DEF Connected
    <3> QED BY <1>0, <2>1, <3>1 DEF ListHears
  <2> QED BY <2>2, <2>3
<1>12. ASSUME NEW t \in Sockets PROVE ShownOnce(t)' /\ (t \in room' => SocketHears(t)')
    BY <1>2, ScreenStays
<1> QED BY <1>8, <1>9, <1>10, <1>11, <1>12 DEF GatewayInv

(* Who closes a tab is offline when it was the last. *)
LEMMA DisconnectKeeps ==
    ASSUME GatewayInv, NEW s \in Sockets, Disconnect(s)
    PROVE  GatewayInv'
<1>0. /\ GatewayTypeOK /\ PresenceHolds /\ AskedIsOpen /\ StoredFirst /\ LaterOverlaps
      /\ LateIsKnown /\ ListHears
    BY DEF GatewayInv
<1>1. PICK u, left : u = SocketUser[s] /\ left = onlineUsers[u] \ {s}
    OBVIOUS
<1>2. /\ s \in Connected /\ socket' = [socket EXCEPT ![s] = "gone"]
      /\ onlineUsers' = [onlineUsers EXCEPT ![u] = left]
      /\ room' = room \ {s}
      /\ told' = [t \in Sockets |-> IF t = s THEN {}
                                    ELSE IF t \in Connected /\ left = {} THEN told[t] \ {u}
                                    ELSE told[t]]
      /\ Forget({s})
      /\ UNCHANGED <<about, sending, stored, deletion, overlapped, late>>
    BY <1>1 DEF Disconnect, IsOffline, traffic, sends
<1>3. u \in SocketUsers /\ \A t \in Sockets : SocketUser[t] \in SocketUsers
    BY <1>0, <1>1, GatewayTypes
<1>4. /\ socket' \in [Sockets -> {"new", "open", "gone"}]
      /\ Connected' = Connected \ {s}
  <2>1. /\ socket' \in [Sockets -> {"new", "open", "gone"}] /\ socket'[s] = "gone"
        /\ \A t \in Sockets \ {s} : socket'[t] = socket[t]
    BY <1>0, <1>2, GatewayTypes
  <2> QED BY <2>1 DEF Connected
<1>5. /\ onlineUsers' \in [SocketUsers -> SUBSET Sockets] /\ onlineUsers'[u] = left
      /\ \A v \in SocketUsers \ {u} : onlineUsers'[v] = onlineUsers[v]
  <2>1. left \in SUBSET Sockets
    BY <1>0, <1>1, <1>3, GatewayTypes
  <2> QED BY <1>0, <1>2, <1>3, <2>1, GatewayTypes
<1>6. Online' = IF left = {} THEN Online \ {u} ELSE Online
  <2>1. s \in onlineUsers[u]
    BY <1>0, <1>1, <1>2, <1>3 DEF PresenceHolds
  <2> QED BY <1>3, <1>5, <2>1 DEF Online
<1>7. /\ checked' \in [Sockets -> BOOLEAN] /\ screen' \in [Sockets -> Seq(MessageNos)]
      /\ preview' \in [Sockets -> 0 .. Sends] /\ opened' \in [Sockets -> 0 .. Sends + 1]
      /\ from' \in [Sockets -> 0 .. Sends + 1]
      /\ ~checked'[s] /\ screen'[s] = <<>>
      /\ \A t \in Sockets : checked'[t] => checked[t]
      /\ \A t \in Sockets \ {s} :
            /\ screen'[t] = screen[t] /\ preview'[t] = preview[t]
            /\ opened'[t] = opened[t] /\ from'[t] = from[t]
    BY <1>0, <1>2, ForgetIs
<1>8. GatewayTypeOK'
  <2>1. told' \in [Sockets -> SUBSET SocketUsers]
    <3>1. \A t \in Sockets : told[t] \ {u} \in SUBSET SocketUsers
                             /\ told[t] \in SUBSET SocketUsers
      BY <1>0, <1>3, GatewayTypes
    <3> QED BY <1>2, <3>1
  <2>2. room' \subseteq Sockets
    BY <1>0, <1>2, GatewayTypes
  <2> QED BY <1>0, <1>2, <1>4, <1>5, <1>7, <2>1, <2>2 DEF GatewayTypeOK
<1>9. PresenceHolds' /\ AskedIsOpen'
  <2>1. ASSUME NEW v \in SocketUsers
        PROVE  onlineUsers'[v] = {t \in Connected' : SocketUser[t] = v}
    <3>1. \A w \in SocketUsers : onlineUsers[w] = {t \in Connected : SocketUser[t] = w}
      BY <1>0 DEF PresenceHolds
    <3>2. CASE v = u
      BY <1>1, <1>3, <1>4, <1>5, <3>1, <3>2
    <3>3. CASE v # u
      BY <1>1, <1>4, <1>5, <3>1, <3>3
    <3> QED BY <3>2, <3>3
  <2>2. ASSUME NEW t \in Sockets, checked'[t]
        PROVE  t \in Connected' /\ about' = "presence" /\ told'[t] = Online'
    <3>1. checked[t] /\ t # s
      BY <1>7, <2>2
    <3>2. t \in Connected /\ about = "presence"
      BY <1>0, <3>1 DEF AskedIsOpen
    <3>3. told[t] = Online
      BY <1>0, <3>1, <3>2 DEF PresenceHolds
    <3> QED BY <1>2, <1>4, <1>6, <3>1, <3>2, <3>3
  <2>3. AskedIsOpen'
    BY <2>2 DEF AskedIsOpen
  <2>4. \A t \in Connected' : t \in Sockets
    BY DEF Connected
  <2> QED BY <2>1, <2>2, <2>3, <2>4 DEF PresenceHolds
<1>10. StoredFirst' /\ LaterOverlaps' /\ LateIsKnown'
    BY <1>0, <1>2, SendsStay
<1>11. ListHears'
  <2>1. \A t \in Connected' :
           t \in Connected /\ preview'[t] = preview[t] /\ opened'[t] = opened[t]
    BY <1>4, <1>7 DEF Connected
  <2> QED BY <1>0, <1>2, <2>1, ListStays
<1>12. ASSUME NEW t \in Sockets PROVE ShownOnce(t)' /\ (t \in room' => SocketHears(t)')
  <2>1. CASE t = s
    BY <1>2, <1>7, <2>1, ScreenIsLeft
  <2>2. CASE t # s
    BY <1>2, <1>7, <2>2, ScreenStays
  <2> QED BY <2>1, <2>2
<1> QED BY <1>8, <1>9, <1>10, <1>11, <1>12 DEF GatewayInv

LEMMA OnlineCheckKeeps ==
    ASSUME GatewayInv, NEW s \in Sockets, OnlineCheck(s)
    PROVE  GatewayInv'
<1>0. /\ GatewayTypeOK /\ PresenceHolds /\ AskedIsOpen /\ StoredFirst /\ LaterOverlaps
      /\ LateIsKnown /\ ListHears
    BY DEF GatewayInv
<1>1. /\ about = "presence" /\ s \in Connected
      /\ told' = [told EXCEPT ![s] = Online] /\ checked' = [checked EXCEPT ![s] = TRUE]
      /\ UNCHANGED <<about, socket, onlineUsers, room, sending, stored, deletion, overlapped,
                     late, screen, preview, opened, from>>
    BY DEF OnlineCheck, people, traffic, sends
<1>2. /\ Connected' = Connected /\ Online' = Online /\ Online \in SUBSET SocketUsers
    BY <1>1 DEF Connected, Online
<1>3. told' \in [Sockets -> SUBSET SocketUsers] /\ told'[s] = Online
      /\ \A t \in Sockets \ {s} : told'[t] = told[t]
    BY <1>0, <1>1, <1>2, GatewayTypes
<1>4. checked' \in [Sockets -> BOOLEAN] /\ \A t \in Sockets \ {s} : checked'[t] = checked[t]
    BY <1>0, <1>1, GatewayTypes
<1>5. GatewayTypeOK'
    BY <1>0, <1>1, <1>3, <1>4 DEF GatewayTypeOK
<1>6. PresenceHolds' /\ AskedIsOpen'
  <2>1. \A u \in SocketUsers : onlineUsers'[u] = {t \in Connected' : SocketUser[t] = u}
    BY <1>0, <1>1, <1>2 DEF PresenceHolds
  <2>2. ASSUME NEW t \in Sockets, checked'[t]
        PROVE  t \in Connected' /\ about' = "presence" /\ told'[t] = Online'
    <3>1. CASE t = s
      BY <1>1, <1>2, <1>3, <3>1
    <3>2. CASE t # s
      <4>1. checked[t]
        BY <1>4, <2>2, <3>2
      <4> QED BY <1>0, <1>1, <1>2, <1>3, <3>2, <4>1 DEF PresenceHolds, AskedIsOpen
    <3> QED BY <3>1, <3>2
  <2>3. AskedIsOpen'
    BY <2>2 DEF AskedIsOpen
  <2>4. \A t \in Connected' : t \in Sockets
    BY DEF Connected
  <2> QED BY <2>1, <2>2, <2>3, <2>4 DEF PresenceHolds
<1>7. StoredFirst' /\ LaterOverlaps' /\ LateIsKnown'
    BY <1>0, <1>1, SendsStay
<1>8. ListHears'
    BY <1>0, <1>1, <1>2, ListStays
<1>9. ASSUME NEW t \in Sockets PROVE ShownOnce(t)' /\ (t \in room' => SocketHears(t)')
    BY <1>1, ScreenStays
<1> QED BY <1>5, <1>6, <1>7, <1>8, <1>9 DEF GatewayInv

LEMMA RestartKeeps ==
    ASSUME GatewayInv, Restart
    PROVE  GatewayInv'
<1>0. GatewayTypeOK /\ StoredFirst /\ LaterOverlaps /\ LateIsKnown
    BY DEF GatewayInv
<1>1. /\ socket' = [s \in Sockets |-> IF s \in Connected THEN "gone" ELSE socket[s]]
      /\ onlineUsers' = [u \in SocketUsers |-> {}] /\ room' = {}
      /\ sending' = [m \in MessageNos |->
                       IF sending[m].step \in {"saved", "emitted"}
                       THEN [sending[m] EXCEPT !.step = "failed"] ELSE sending[m]]
      /\ deletion' = [m \in MessageNos |->
                        IF deletion[m] = "saved" THEN "failed" ELSE deletion[m]]
      /\ told' = [s \in Sockets |-> {}] /\ Forget(Sockets)
      /\ UNCHANGED <<about, stored, overlapped, late>>
    BY DEF Restart
<1>2. socket' \in [Sockets -> {"new", "open", "gone"}] /\ Connected' = {}
  <2>1. socket' \in [Sockets -> {"new", "open", "gone"}]
    BY <1>0, <1>1, GatewayTypes
  <2> QED BY <1>1, <2>1 DEF Connected
<1>3. ASSUME NEW m \in MessageNos
      PROVE  /\ sending'[m] \in Sending
             /\ sending'[m].step \notin {"saved", "emitted"}
             /\ sending[m].step = "none" => sending'[m].step = "none"
             /\ deletion'[m] \in {"none", "saved", "done", "failed"}
             /\ deletion[m] = "none" => deletion'[m] = "none"
  <2>1. PICK row : row = sending[m]
    OBVIOUS
  <2>2. row \in Sending
    BY <1>0, <2>1, GatewayTypes
  <2>3. sending'[m] = IF row.step \in {"saved", "emitted"} THEN [row EXCEPT !.step = "failed"]
                      ELSE row
    BY <1>1, <2>1
  <2>4. /\ sending'[m] \in Sending
        /\ sending'[m].step \notin {"saved", "emitted"}
        /\ row.step = "none" => sending'[m].step = "none"
    BY <2>2, <2>3 DEF Sending, GatewaySteps
  <2>5. /\ deletion'[m] \in {"none", "saved", "done", "failed"}
        /\ deletion[m] = "none" => deletion'[m] = "none"
    BY <1>0, <1>1, GatewayTypes
  <2> QED BY <2>1, <2>4, <2>5
<1>4. /\ checked' \in [Sockets -> BOOLEAN] /\ screen' \in [Sockets -> Seq(MessageNos)]
      /\ preview' \in [Sockets -> 0 .. Sends] /\ opened' \in [Sockets -> 0 .. Sends + 1]
      /\ from' \in [Sockets -> 0 .. Sends + 1]
      /\ \A s \in Sockets : ~checked'[s] /\ screen'[s] = <<>>
    BY <1>0, <1>1, ForgetIs
<1>5. GatewayTypeOK'
  <2>1. /\ sending' \in [MessageNos -> Sending]
        /\ deletion' \in [MessageNos -> {"none", "saved", "done", "failed"}]
    BY <1>1, <1>3
  <2>2. onlineUsers' \in [SocketUsers -> SUBSET Sockets]
        /\ told' \in [Sockets -> SUBSET SocketUsers]
    BY <1>1
  <2> QED BY <1>0, <1>1, <1>2, <1>4, <2>1, <2>2 DEF GatewayTypeOK, Sending, GatewaySteps
<1>6. PresenceHolds' /\ AskedIsOpen' /\ ListHears'
    BY <1>1, <1>2, <1>4 DEF PresenceHolds, AskedIsOpen, ListHears
<1>7. StoredFirst' /\ LaterOverlaps' /\ LateIsKnown'
    BY <1>0, <1>1, <1>3 DEF StoredFirst, LaterOverlaps, LateIsKnown
<1>8. ASSUME NEW t \in Sockets PROVE ShownOnce(t)' /\ (t \in room' => SocketHears(t)')
    BY <1>1, <1>4, ScreenIsLeft
<1> QED BY <1>5, <1>6, <1>7, <1>8 DEF GatewayInv

-----------------------------------------------------------------------------
(* The room, and what is stored. *)

LEMMA JoinKeeps ==
    ASSUME GatewayInv, NEW s \in Sockets, JoinConversation(s)
    PROVE  GatewayInv'
<1>0. /\ GatewayTypeOK /\ PresenceHolds /\ AskedIsOpen /\ StoredFirst /\ LaterOverlaps
      /\ LateIsKnown /\ ListHears
    BY DEF GatewayInv
<1>1. /\ s \in Connected /\ s \notin room /\ room' = room \union {s}
      /\ from' = [from EXCEPT ![s] = stored + 1]
      /\ UNCHANGED <<about, socket, onlineUsers, sending, stored, deletion, overlapped, late,
                     told, checked, screen, preview, opened>>
    BY DEF JoinConversation, people, traffic, sends, views
<1>2. from' \in [Sockets -> 0 .. Sends + 1] /\ from'[s] = stored + 1
      /\ \A t \in Sockets \ {s} : from'[t] = from[t]
  <2>1. stored + 1 \in 0 .. Sends + 1
    BY <1>0, GatewayTypes
  <2> QED BY <1>0, <1>1, <2>1, GatewayTypes
<1>3. GatewayTypeOK'
  <2>1. room' \subseteq Sockets
    BY <1>0, <1>1, GatewayTypes
  <2> QED BY <1>0, <1>1, <1>2, <2>1 DEF GatewayTypeOK
<1>4. PresenceHolds' /\ AskedIsOpen'
    BY <1>0, <1>1, PeopleStay DEF people
<1>5. StoredFirst' /\ LaterOverlaps' /\ LateIsKnown'
    BY <1>0, <1>1, SendsStay
<1>6. ListHears'
    BY <1>0, <1>1, ListStays DEF Connected
<1>7. ASSUME NEW t \in Sockets PROVE ShownOnce(t)' /\ (t \in room' => SocketHears(t)')
  <2>1. CASE t = s
    <3>1. screen[s] = <<>>
      BY <1>1 DEF GatewayInv, ShownOnce
    <3>2. screen'[s] = <<>> /\ DOMAIN screen'[s] = {}
      BY <1>1, <3>1
    <3>3. \A m \in MessageNos : m >= from'[s] => sending'[m].step = "none"
      <4>1. \A m \in MessageNos : m >= stored + 1 => stored < m
        BY <1>0, GatewayTypes
      <4> QED BY <1>0, <1>1, <1>2, <4>1 DEF StoredFirst
    <3> QED BY <2>1, <3>2, <3>3 DEF ShownOnce, SocketHears
  <2>2. CASE t # s
    BY <1>1, <1>2, <2>2, ScreenStays
  <2> QED BY <2>1, <2>2
<1> QED BY <1>3, <1>4, <1>5, <1>6, <1>7 DEF GatewayInv

LEMMA LeaveKeeps ==
    ASSUME GatewayInv, NEW s \in Sockets, LeaveConversation(s)
    PROVE  GatewayInv'
<1>0. /\ GatewayTypeOK /\ PresenceHolds /\ AskedIsOpen /\ StoredFirst /\ LaterOverlaps
      /\ LateIsKnown /\ ListHears
    BY DEF GatewayInv
<1>1. /\ room' = room \ {s} /\ screen' = [screen EXCEPT ![s] = <<>>]
      /\ from' = [from EXCEPT ![s] = 0]
      /\ UNCHANGED <<about, socket, onlineUsers, sending, stored, deletion, overlapped, late,
                     told, checked, preview, opened>>
    BY DEF LeaveConversation, people, traffic, sends
<1>2. /\ from' \in [Sockets -> 0 .. Sends + 1] /\ screen' \in [Sockets -> Seq(MessageNos)]
      /\ screen'[s] = <<>>
      /\ \A t \in Sockets \ {s} : from'[t] = from[t] /\ screen'[t] = screen[t]
  <2>1. <<>> \in Seq(MessageNos)
    OBVIOUS
  <2>2. 0 \in 0 .. Sends + 1
    BY <1>0, GatewayTypes
  <2> QED BY <1>0, <1>1, <2>1, <2>2, GatewayTypes
<1>3. GatewayTypeOK'
  <2>1. room' \subseteq Sockets
    BY <1>0, <1>1, GatewayTypes
  <2> QED BY <1>0, <1>1, <1>2, <2>1 DEF GatewayTypeOK
<1>4. PresenceHolds' /\ AskedIsOpen'
    BY <1>0, <1>1, PeopleStay DEF people
<1>5. StoredFirst' /\ LaterOverlaps' /\ LateIsKnown'
    BY <1>0, <1>1, SendsStay
<1>6. ListHears'
    BY <1>0, <1>1, ListStays DEF Connected
<1>7. ASSUME NEW t \in Sockets PROVE ShownOnce(t)' /\ (t \in room' => SocketHears(t)')
  <2>1. CASE t = s
    BY <1>1, <1>2, <2>1, ScreenIsLeft
  <2>2. CASE t # s
    BY <1>1, <1>2, <2>2, ScreenStays
  <2> QED BY <2>1, <2>2
<1> QED BY <1>3, <1>4, <1>5, <1>6, <1>7 DEF GatewayInv

(* What is stored overlaps the sends that are not done. *)
LEMMA SendMessageKeeps ==
    ASSUME GatewayInv, NEW s \in Sockets, SendMessage(s)
    PROVE  GatewayInv'
<1>0. /\ GatewayTypeOK /\ PresenceHolds /\ AskedIsOpen /\ StoredFirst /\ LaterOverlaps
      /\ LateIsKnown /\ ListHears
    BY DEF GatewayInv
<1>1. PICK m : m = stored + 1
    OBVIOUS
<1>2. /\ s \in Connected /\ stored < Sends /\ stored' = m
      /\ sending' = [sending EXCEPT ![m] = [step |-> "saved", by |-> SocketUser[s]]]
      /\ overlapped' = overlapped \union
           {{m, n} : n \in {k \in MessageNos : sending[k].step \in {"saved", "emitted"}}}
      /\ UNCHANGED <<about, socket, onlineUsers, room, deletion, late, told, checked, screen,
                     preview, opened, from>>
    BY <1>1 DEF SendMessage, people, views
<1>3. m \in MessageNos /\ stored \in Nat /\ m \in Nat /\ stored < m /\ m \in 0 .. Sends
    BY <1>0, <1>1, <1>2, GatewayTypes
<1>4. sending[m].step = "none" /\ deletion[m] = "none"
    BY <1>0, <1>3 DEF StoredFirst
<1>5. PICK row : row = [step |-> "saved", by |-> SocketUser[s]]
    OBVIOUS
<1>6. row \in Sending /\ row.step = "saved"
  <2>1. SocketUser[s] \in SocketUsers
    BY <1>0, GatewayTypes
  <2> QED BY <1>5, <2>1 DEF Sending, GatewaySteps
<1>7. /\ sending' \in [MessageNos -> Sending] /\ sending'[m] = row
      /\ \A n \in MessageNos \ {m} : sending'[n] = sending[n]
  <2>1. sending' = [sending EXCEPT ![m] = row] /\ sending \in [MessageNos -> Sending]
    BY <1>0, <1>2, <1>5, GatewayTypes
  <2> QED BY <1>3, <1>6, <2>1
<1>8. GatewayTypeOK'
  <2>a. overlapped \subseteq SUBSET MessageNos
    BY <1>0, GatewayTypes
  <2>b. \A n \in MessageNos : {m, n} \in SUBSET MessageNos
    BY <1>3
  <2>1. overlapped' \subseteq SUBSET MessageNos
    BY <1>2, <2>a, <2>b
  <2>2. /\ sending' \in [MessageNos -> [step : {"none", "saved", "emitted", "done", "failed"},
                                        by : SocketUsers]]
    BY <1>7 DEF Sending, GatewaySteps
  <2> QED BY <1>0, <1>2, <1>3, <2>1, <2>2 DEF GatewayTypeOK
<1>9. PresenceHolds' /\ AskedIsOpen'
    BY <1>0, <1>2, PeopleStay DEF people
<1>10. StoredFirst'
  <2>1. \A n \in MessageNos : stored' < n => stored < n /\ n # m
    BY <1>0, <1>1, <1>2, <1>3, GatewayTypes
  <2> QED BY <1>0, <1>2, <1>7, <2>1 DEF StoredFirst
<1>11. LaterOverlaps'
  <2>1. SUFFICES ASSUME NEW a \in MessageNos, NEW b \in MessageNos, a < b, b <= m,
                        sending'[a].step \in {"saved", "emitted"}
                 PROVE  {a, b} \in overlapped'
    BY <1>2 DEF LaterOverlaps
  <2>2. a # m /\ a \in Nat /\ b \in Nat
    BY <1>0, <1>3, <2>1, GatewayTypes
  <2>3. sending[a].step \in {"saved", "emitted"}
    BY <1>7, <2>1, <2>2
  <2>4. CASE b = m
    BY <1>2, <2>3, <2>4
  <2>5. CASE b # m
    <3>1. b <= stored
      BY <1>1, <1>3, <2>1, <2>2, <2>5
    <3> QED BY <1>0, <1>2, <2>1, <2>3, <3>1 DEF LaterOverlaps
  <2> QED BY <2>4, <2>5
<1>12. LateIsKnown'
  <2>1. ASSUME NEW n \in MessageNos, deletion[n] = "done"
        PROVE  n # m
    BY <1>4, <2>1
  <2> QED BY <1>0, <1>2, <1>7, <2>1 DEF LateIsKnown
<1>13. \A n \in MessageNos :
          sending'[n].step \in {"emitted", "done"} => sending'[n] = sending[n]
    BY <1>6, <1>7
<1>14. ListHears'
    BY <1>0, <1>2, <1>13, ListStays DEF Connected
<1>15. ASSUME NEW t \in Sockets PROVE ShownOnce(t)' /\ (t \in room' => SocketHears(t)')
  <2>1. ASSUME NEW n \in MessageNos
        PROVE  /\ sending[n].step \in {"emitted", "done", "failed"} =>
                    sending'[n].step \in {"emitted", "done", "failed"}
               /\ sending'[n].step \in {"emitted", "done"} =>
                    sending[n].step \in {"emitted", "done"}
    BY <1>4, <1>6, <1>7, <1>13
  <2> QED BY <1>2, <2>1, ScreenStays
<1> QED BY <1>8, <1>9, <1>10, <1>11, <1>12, <1>14, <1>15 DEF GatewayInv

(* The step of one send, and what it leaves of the others. *)
LEMMA StepIs ==
    ASSUME GatewayTypeOK, NEW m \in MessageNos, NEW to \in GatewaySteps,
           sending' = [sending EXCEPT ![m].step = to]
    PROVE  /\ sending' \in [MessageNos -> Sending]
           /\ sending'[m].step = to /\ sending'[m].by = sending[m].by
           /\ \A n \in MessageNos \ {m} : sending'[n] = sending[n]
<1>1. sending \in [MessageNos -> Sending]
    BY GatewayTypes
<1>2. PICK row : row = sending[m]
    OBVIOUS
<1>3. row \in Sending
    BY <1>1, <1>2
<1>4. PICK new : new = [row EXCEPT !.step = to]
    OBVIOUS
<1>5. new \in Sending /\ new.step = to /\ new.by = row.by
    BY <1>3, <1>4 DEF Sending
<1>6. sending' = [sending EXCEPT ![m] = new]
    BY <1>2, <1>4
<1> QED BY <1>1, <1>2, <1>5, <1>6

LEMMA SendFailsKeeps ==
    ASSUME GatewayInv, NEW m \in MessageNos, SendFails(m)
    PROVE  GatewayInv'
<1>0. /\ GatewayTypeOK /\ PresenceHolds /\ AskedIsOpen /\ StoredFirst /\ LaterOverlaps
      /\ LateIsKnown /\ ListHears
    BY DEF GatewayInv
<1>1. /\ sending[m].step \in {"saved", "emitted"}
      /\ sending' = [sending EXCEPT ![m].step = "failed"]
      /\ UNCHANGED <<about, socket, onlineUsers, room, stored, deletion, told, checked, screen,
                     preview, opened, from, overlapped, late>>
    BY DEF SendFails, people, views, past
<1>2. "failed" \in GatewaySteps
    BY DEF GatewaySteps
<1>3. /\ sending' \in [MessageNos -> Sending]
      /\ sending'[m].step = "failed"
      /\ \A n \in MessageNos \ {m} : sending'[n] = sending[n]
    BY <1>0, <1>1, <1>2, StepIs
<1>4. GatewayTypeOK'
  <2>1. /\ sending' \in [MessageNos -> [step : {"none", "saved", "emitted", "done", "failed"},
                                        by : SocketUsers]]
    BY <1>3 DEF Sending, GatewaySteps
  <2> QED BY <1>0, <1>1, <2>1 DEF GatewayTypeOK
<1>5. PresenceHolds' /\ AskedIsOpen'
    BY <1>0, <1>1, PeopleStay DEF people
<1>6. StoredFirst'
    BY <1>0, <1>1, <1>3 DEF StoredFirst
<1>7. LaterOverlaps' /\ LateIsKnown'
    BY <1>0, <1>1, <1>3 DEF LaterOverlaps, LateIsKnown
<1>8. ListHears'
    BY <1>0, <1>1, <1>3, ListStays DEF Connected
<1>9. ASSUME NEW t \in Sockets PROVE ShownOnce(t)' /\ (t \in room' => SocketHears(t)')
    BY <1>1, <1>3, ScreenStays
<1> QED BY <1>4, <1>5, <1>6, <1>7, <1>8, <1>9 DEF GatewayInv

LEMMA DeleteKeeps ==
    ASSUME GatewayInv, NEW m \in MessageNos, DeleteMessage(m)
    PROVE  GatewayInv'
<1>0. /\ GatewayTypeOK /\ PresenceHolds /\ AskedIsOpen /\ StoredFirst /\ LaterOverlaps
      /\ LateIsKnown /\ ListHears
    BY DEF GatewayInv
<1>1. /\ m <= stored /\ deletion' = [deletion EXCEPT ![m] = "saved"]
      /\ UNCHANGED <<about, socket, onlineUsers, room, sending, stored, told, checked, screen,
                     preview, opened, from, overlapped, late>>
    BY DEF DeleteMessage, people, views, past, sends
<1>2. /\ deletion' \in [MessageNos -> {"none", "saved", "done", "failed"}]
      /\ deletion'[m] = "saved" /\ \A n \in MessageNos \ {m} : deletion'[n] = deletion[n]
    BY <1>0, <1>1, GatewayTypes
<1>3. GatewayTypeOK'
    BY <1>0, <1>1, <1>2 DEF GatewayTypeOK
<1>4. PresenceHolds' /\ AskedIsOpen'
    BY <1>0, <1>1, PeopleStay DEF people
<1>5. StoredFirst'
  <2>1. ~(stored < m)
    BY <1>0, <1>1, GatewayTypes
  <2> QED BY <1>0, <1>1, <1>2, <2>1 DEF StoredFirst
<1>6. LaterOverlaps' /\ LateIsKnown'
    BY <1>0, <1>1, <1>2 DEF LaterOverlaps, LateIsKnown
<1>7. ListHears'
    BY <1>0, <1>1, ListStays DEF Connected
<1>8. ASSUME NEW t \in Sockets PROVE ShownOnce(t)' /\ (t \in room' => SocketHears(t)')
    BY <1>1, <1>2, ScreenStays
<1> QED BY <1>3, <1>4, <1>5, <1>6, <1>7, <1>8 DEF GatewayInv

-----------------------------------------------------------------------------
(* What is emitted. *)

(* A message is emitted once, after those it is newer than: the ones that are shown
   already and are newer were stored while its send was not done. *)
LEMMA EmitNewKeeps ==
    ASSUME GatewayInv, NEW m \in MessageNos, EmitNew(m)
    PROVE  GatewayInv'
<1>0. /\ GatewayTypeOK /\ PresenceHolds /\ AskedIsOpen /\ StoredFirst /\ LaterOverlaps
      /\ LateIsKnown /\ ListHears
    BY DEF GatewayInv
<1>1. /\ sending[m].step = "saved" /\ sending' = [sending EXCEPT ![m].step = "emitted"]
      /\ screen' = [s \in Sockets |-> IF s \in room THEN Append(screen[s], m) ELSE screen[s]]
      /\ UNCHANGED <<about, socket, onlineUsers, room, stored, deletion, told, checked,
                     preview, opened, from, overlapped, late>>
    BY DEF EmitNew, people, past
<1>2. "emitted" \in GatewaySteps
    BY DEF GatewaySteps
<1>3. /\ sending' \in [MessageNos -> Sending] /\ sending'[m].step = "emitted"
      /\ \A n \in MessageNos \ {m} : sending'[n] = sending[n]
    BY <1>0, <1>1, <1>2, StepIs
<1>4. screen' \in [Sockets -> Seq(MessageNos)]
  <2>1. \A s \in Sockets : /\ screen[s] \in Seq(MessageNos)
                           /\ Append(screen[s], m) \in Seq(MessageNos)
    BY <1>0, GatewayTypes
  <2> QED BY <1>1, <2>1
<1>5. GatewayTypeOK'
  <2>1. /\ sending' \in [MessageNos -> [step : {"none", "saved", "emitted", "done", "failed"},
                                        by : SocketUsers]]
    BY <1>3 DEF Sending, GatewaySteps
  <2> QED BY <1>0, <1>1, <1>4, <2>1 DEF GatewayTypeOK
<1>6. PresenceHolds' /\ AskedIsOpen'
    BY <1>0, <1>1, PeopleStay DEF people
<1>7. StoredFirst'
    BY <1>0, <1>1, <1>3 DEF StoredFirst
<1>8. LaterOverlaps' /\ LateIsKnown'
    BY <1>0, <1>1, <1>3 DEF LaterOverlaps, LateIsKnown
<1>9. ListHears'
    BY <1>0, <1>1, <1>3, ListStays DEF Connected
<1>10. ASSUME NEW t \in Sockets PROVE ShownOnce(t)' /\ (t \in room' => SocketHears(t)')
  <2>1. CASE t \notin room
    <3>1. screen[t] = <<>>
      BY <2>1 DEF GatewayInv, ShownOnce
    <3> QED BY <1>1, <2>1, <3>1, ScreenIsLeft
  <2>2. CASE t \in room
    <3>1. PICK shown, n : shown = screen[t] /\ n = Len(screen[t])
      OBVIOUS
    <3>2. ShownOnce(t) /\ SocketHears(t) /\ shown \in Seq(MessageNos)
      BY <1>0, <2>2, <3>1, GatewayTypes DEF GatewayInv
    <3>3. /\ n \in Nat /\ DOMAIN shown = 1 .. n
          /\ \A i \in 1 .. n : shown[i] \in MessageNos
      BY <3>1, <3>2
    <3>4. screen'[t] = Append(shown, m)
      BY <1>1, <2>2, <3>1
    <3>5. /\ DOMAIN screen'[t] = 1 .. n + 1 /\ screen'[t][n + 1] = m
          /\ \A i \in 1 .. n : screen'[t][i] = shown[i]
      BY <3>1, <3>2, <3>3, <3>4
    <3>6. \A i \in 1 .. n + 1 : i \in 1 .. n \/ i = n + 1
      BY <3>3
    <3>7. ASSUME NEW i \in 1 .. n
          PROVE  /\ shown[i] \in MessageNos /\ shown[i] # m
                 /\ sending[shown[i]].step \in {"emitted", "done", "failed"}
                 /\ sending'[shown[i]] = sending[shown[i]]
                 /\ shown[i] < m \/ {shown[i], m} \in overlapped
      <4>1. sending[shown[i]].step \in {"emitted", "done", "failed"}
        BY <3>1, <3>2, <3>3 DEF ShownOnce
      <4>2. shown[i] \in MessageNos /\ shown[i] # m
        BY <1>1, <3>3, <4>1
      <4>3. shown[i] \in Nat /\ m \in Nat /\ stored \in Nat
        BY <1>0, <4>2, GatewayTypes
      <4>4. ~(stored < shown[i])
        BY <1>0, <4>1, <4>2 DEF StoredFirst
      <4>5. m < shown[i] => {m, shown[i]} \in overlapped
        BY <1>0, <1>1, <4>2, <4>3, <4>4 DEF LaterOverlaps
      <4>6. {m, shown[i]} = {shown[i], m}
        OBVIOUS
      <4> QED BY <1>3, <4>1, <4>2, <4>3, <4>5, <4>6
    <3>8. ShownOnce(t)'
      <4>1. ASSUME NEW i \in 1 .. n + 1
            PROVE  sending'[screen'[t][i]].step \in {"emitted", "done", "failed"}
        BY <1>3, <3>5, <3>6, <3>7
      <4>2. ASSUME NEW i \in 1 .. n + 1, NEW k \in 1 .. n + 1, i # k
            PROVE  screen'[t][i] # screen'[t][k]
        <5>1. \A j, l \in 1 .. n : j # l => shown[j] # shown[l]
          BY <3>1, <3>2, <3>3, SMTT(40) DEF ShownOnce
        <5>2. CASE i \in 1 .. n /\ k \in 1 .. n
          BY <3>5, <4>2, <5>1, <5>2
        <5>3. CASE i = n + 1 \/ k = n + 1
          <6>1. (i = n + 1 /\ k \in 1 .. n) \/ (k = n + 1 /\ i \in 1 .. n)
            BY <3>6, <4>2, <5>3
          <6> QED BY <3>5, <3>7, <6>1
        <5> QED BY <3>6, <5>2, <5>3
      <4>3. t \in room'
        BY <1>1, <2>2
      <4>4. \A i \in DOMAIN screen'[t] :
               sending'[screen'[t][i]].step \in {"emitted", "done", "failed"}
        BY ONLY <3>5, <4>1
      <4>5. \A i, k \in DOMAIN screen'[t] : i # k => screen'[t][i] # screen'[t][k]
        BY ONLY <3>5, <4>2
      <4> QED BY ONLY <4>3, <4>4, <4>5 DEF ShownOnce
    <3>9. SocketHears(t)'
      <4>1. ASSUME NEW k \in MessageNos, k >= from'[t],
                   sending'[k].step \in {"emitted", "done"}, deletion'[k] = "none"
            PROVE  \E i \in 1 .. n + 1 : screen'[t][i] = k
        <5>1. CASE k = m
          <6>1. n + 1 \in 1 .. n + 1
            BY <3>3
          <6> QED BY <3>5, <5>1, <6>1
        <5>2. CASE k # m
          <6>1. sending[k].step \in {"emitted", "done"}
            BY <1>3, <4>1, <5>2
          <6>2. \E i \in 1 .. n : shown[i] = k
            BY <1>1, <3>1, <3>2, <3>3, <4>1, <6>1 DEF SocketHears
          <6>3. \A i \in 1 .. n : i \in 1 .. n + 1
            BY <3>3
          <6> QED BY <3>5, <6>2, <6>3
        <5> QED BY <5>1, <5>2
      <4>2. ASSUME NEW i \in 1 .. n + 1, deletion'[screen'[t][i]] = "done"
            PROVE  screen'[t][i] \in late'
        <5>1. CASE i \in 1 .. n
          BY <1>1, <3>1, <3>2, <3>3, <3>5, <4>2, <5>1 DEF SocketHears
        <5>2. CASE i = n + 1
          BY <1>0, <1>1, <3>5, <4>2, <5>2 DEF LateIsKnown
        <5> QED BY <3>6, <5>1, <5>2
      <4>3. ASSUME NEW i \in 1 .. n + 1, NEW k \in 1 .. n + 1, i < k
            PROVE  \/ screen'[t][i] < screen'[t][k]
                   \/ {screen'[t][i], screen'[t][k]} \in overlapped'
        <5>1. CASE k \in 1 .. n
          <6>1. i \in 1 .. n
            BY <3>3, <4>3, <5>1
          <6> QED BY <1>1, <3>1, <3>2, <3>3, <3>5, <4>3, <5>1, <6>1 DEF SocketHears
        <5>2. CASE k = n + 1
          <6>1. i \in 1 .. n
            BY <3>3, <4>3, <5>2
          <6> QED BY <1>1, <3>5, <3>7, <5>2, <6>1
        <5> QED BY <3>6, <5>1, <5>2
      <4> QED BY <3>5, <4>1, <4>2, <4>3 DEF SocketHears
    <3> QED BY <3>8, <3>9
  <2> QED BY <2>1, <2>2
<1> QED BY <1>5, <1>6, <1>7, <1>8, <1>9, <1>10 DEF GatewayInv

(* The lists are told of a message that is not older than the one they show, or whose
   send and the other's overlapped. *)
LEMMA EmitUpdatedKeeps ==
    ASSUME GatewayInv, NEW p \in MessageNos, EmitUpdated(p)
    PROVE  GatewayInv'
<1>0. /\ GatewayTypeOK /\ PresenceHolds /\ AskedIsOpen /\ StoredFirst /\ LaterOverlaps
      /\ LateIsKnown /\ ListHears
    BY DEF GatewayInv
<1>1. /\ sending[p].step = "emitted" /\ sending' = [sending EXCEPT ![p].step = "done"]
      /\ preview' = [s \in Sockets |-> IF s \in Connected /\ SocketUser[s] # sending[p].by
                                       THEN p ELSE preview[s]]
      /\ UNCHANGED <<about, socket, onlineUsers, room, stored, deletion, told, checked,
                     screen, opened, from, overlapped, late>>
    BY DEF EmitUpdated, ToldOf, people, past
<1>2. "done" \in GatewaySteps
    BY DEF GatewaySteps
<1>3. /\ sending' \in [MessageNos -> Sending] /\ sending'[p].step = "done"
      /\ sending'[p].by = sending[p].by
      /\ \A n \in MessageNos \ {p} : sending'[n] = sending[n]
    BY <1>0, <1>1, <1>2, StepIs
<1>4. preview' \in [Sockets -> 0 .. Sends]
  <2>1. p \in 0 .. Sends
    BY <1>0, GatewayTypes
  <2> QED BY <1>0, <1>1, <2>1, GatewayTypes
<1>5. GatewayTypeOK'
  <2>1. /\ sending' \in [MessageNos -> [step : {"none", "saved", "emitted", "done", "failed"},
                                        by : SocketUsers]]
    BY <1>3 DEF Sending, GatewaySteps
  <2> QED BY <1>0, <1>1, <1>4, <2>1 DEF GatewayTypeOK
<1>6. PresenceHolds' /\ AskedIsOpen'
    BY <1>0, <1>1, PeopleStay DEF people
<1>7. StoredFirst'
    BY <1>0, <1>1, <1>3 DEF StoredFirst
<1>8. LaterOverlaps' /\ LateIsKnown'
    BY <1>0, <1>1, <1>3 DEF LaterOverlaps, LateIsKnown
<1>9. ListHears'
  <2>1. SUFFICES ASSUME NEW s \in Connected, NEW m \in MessageNos,
                        sending'[m].step = "done", sending'[m].by # SocketUser[s],
                        m >= opened[s], preview'[s] < m
                 PROVE  {preview'[s], m} \in overlapped
    BY <1>1 DEF ListHears, Connected
  <2>2. s \in Sockets
    BY DEF Connected
  <2>3. CASE SocketUser[s] # sending[p].by
    <3>1. preview'[s] = p
      BY <1>1, <2>2, <2>3
    <3>2. p < m /\ m # p
      BY <1>0, <2>1, <3>1, GatewayTypes
    <3>3. sending[m].step = "done"
      BY <1>3, <2>1, <3>2
    <3>4. m <= stored
      <4>1. ~(stored < m)
        BY <1>0, <3>3 DEF StoredFirst
      <4> QED BY <1>0, <4>1, GatewayTypes
    <3> QED BY <1>0, <1>1, <3>1, <3>2, <3>4 DEF LaterOverlaps
  <2>4. CASE SocketUser[s] = sending[p].by
    <3>1. preview'[s] = preview[s]
      BY <1>1, <2>2, <2>4
    <3>2. m # p
      BY <1>3, <2>1, <2>4
    <3>3. sending'[m] = sending[m]
      BY <1>3, <3>2
    <3> QED BY <1>0, <2>1, <3>1, <3>3 DEF ListHears
  <2> QED BY <2>3, <2>4
<1>10. ASSUME NEW t \in Sockets PROVE ShownOnce(t)' /\ (t \in room' => SocketHears(t)')
    BY <1>1, <1>3, ScreenStays
<1> QED BY <1>5, <1>6, <1>7, <1>8, <1>9, <1>10 DEF GatewayInv

(* The room takes a message out, and its emission may be still to come. *)
LEMMA EmitDeletedKeeps ==
    ASSUME GatewayInv, NEW m \in MessageNos, EmitDeleted(m)
    PROVE  GatewayInv'
<1>0. /\ GatewayTypeOK /\ PresenceHolds /\ AskedIsOpen /\ StoredFirst /\ LaterOverlaps
      /\ LateIsKnown /\ ListHears
    BY DEF GatewayInv
<1>1. /\ deletion[m] = "saved" /\ deletion' = [deletion EXCEPT ![m] = "done"]
      /\ screen' = [s \in Sockets |-> IF s \in room THEN Without(screen[s], m) ELSE screen[s]]
      /\ late' = IF sending[m].step = "saved" THEN late \union {m} ELSE late
      /\ UNCHANGED <<about, socket, onlineUsers, room, sending, stored, told, checked, preview,
                     opened, from, overlapped>>
    BY DEF EmitDeleted, people, sends
<1>2. /\ deletion' \in [MessageNos -> {"none", "saved", "done", "failed"}]
      /\ deletion'[m] = "done" /\ \A n \in MessageNos \ {m} : deletion'[n] = deletion[n]
    BY <1>0, <1>1, GatewayTypes
<1>3. ASSUME NEW t \in Sockets
      PROVE  /\ screen[t] \in Seq(MessageNos) /\ Without(screen[t], m) \in Seq(MessageNos)
             /\ \A i, k \in DOMAIN screen[t] : i # k => screen[t][i] # screen[t][k]
  <2>1. screen[t] \in Seq(MessageNos)
    BY <1>0, GatewayTypes
  <2>2. \A i, k \in DOMAIN screen[t] : i # k => screen[t][i] # screen[t][k]
    BY DEF GatewayInv, ShownOnce
  <2> QED BY <2>1, <2>2, WithoutIs
<1>4. screen' \in [Sockets -> Seq(MessageNos)] /\ late' \subseteq MessageNos
      /\ \A n \in late : n \in late'
    BY <1>0, <1>1, <1>3, GatewayTypes
<1>5. GatewayTypeOK'
    BY <1>0, <1>1, <1>2, <1>4 DEF GatewayTypeOK
<1>6. PresenceHolds' /\ AskedIsOpen'
    BY <1>0, <1>1, PeopleStay DEF people
<1>7. StoredFirst'
  <2>1. ~(stored < m)
    BY <1>0, <1>1 DEF StoredFirst
  <2> QED BY <1>0, <1>1, <1>2, <2>1 DEF StoredFirst
<1>8. LaterOverlaps' /\ LateIsKnown'
    BY <1>0, <1>1, <1>2, <1>4 DEF LaterOverlaps, LateIsKnown
<1>9. ListHears'
    BY <1>0, <1>1, ListStays DEF Connected
<1>10. ASSUME NEW t \in Sockets PROVE ShownOnce(t)' /\ (t \in room' => SocketHears(t)')
  <2>1. CASE t \notin room
    <3>1. screen[t] = <<>>
      BY <2>1 DEF GatewayInv, ShownOnce
    <3> QED BY <1>1, <2>1, <3>1, ScreenIsLeft
  <2>2. CASE t \in room
    <3>1. PICK shown, rest : shown = screen[t] /\ rest = Without(screen[t], m)
      OBVIOUS
    <3>2. /\ ShownOnce(t) /\ SocketHears(t) /\ screen'[t] = rest
          /\ \A i \in DOMAIN shown : shown[i] \in MessageNos
          /\ \A i \in DOMAIN shown : i \in Nat
      <4>1. shown \in Seq(MessageNos)
        BY <1>3, <3>1
      <4> QED BY <1>1, <2>2, <3>1, <4>1 DEF GatewayInv
    <3>a. /\ shown \in Seq(MessageNos) /\ rest = Without(shown, m)
          /\ \A i, k \in DOMAIN shown : i # k => shown[i] # shown[k]
      BY <1>3, <3>1
    <3>b. \E Old \in [DOMAIN Without(shown, m) -> DOMAIN shown] :
             /\ \A i \in DOMAIN Without(shown, m) :
                   /\ Without(shown, m)[i] = shown[Old[i]] /\ shown[Old[i]] # m
                   /\ \A k \in DOMAIN Without(shown, m) : i < k => Old[i] < Old[k]
             /\ \A k \in DOMAIN shown : shown[k] # m =>
                   \E i \in DOMAIN Without(shown, m) : Old[i] = k
      BY ONLY <3>a, WithoutIs
    <3>3. PICK Old \in [DOMAIN rest -> DOMAIN shown] :
             /\ \A i \in DOMAIN rest :
                   /\ rest[i] = shown[Old[i]] /\ shown[Old[i]] # m
                   /\ \A k \in DOMAIN rest : i < k => Old[i] < Old[k]
             /\ \A k \in DOMAIN shown : shown[k] # m => \E i \in DOMAIN rest : Old[i] = k
      BY ONLY <3>a, <3>b
    <3>4. ASSUME NEW i \in DOMAIN rest, NEW k \in DOMAIN rest, i # k
          PROVE  Old[i] # Old[k]
      <4>1. rest \in Seq(MessageNos)
        BY <1>3, <3>1
      <4>2. i < k \/ k < i
        BY <3>4, <4>1
      <4> QED BY <3>2, <3>3, <4>2
    <3>5. ShownOnce(t)'
      BY <1>1, <2>2, <3>1, <3>2, <3>3, <3>4 DEF ShownOnce
    <3>6. SocketHears(t)'
      <4>1. ASSUME NEW n \in MessageNos, n >= from'[t],
                   sending'[n].step \in {"emitted", "done"}, deletion'[n] = "none"
            PROVE  \E i \in DOMAIN rest : rest[i] = n
        <5>1. n # m /\ deletion[n] = "none"
          BY <1>2, <4>1
        <5>2. PICK k \in DOMAIN shown : shown[k] = n
          BY <1>1, <3>1, <3>2, <4>1, <5>1 DEF SocketHears
        <5>3. PICK i \in DOMAIN rest : Old[i] = k
          BY <3>3, <5>1, <5>2
        <5> QED BY <3>3, <5>2, <5>3
      <4>2. ASSUME NEW i \in DOMAIN rest, deletion'[rest[i]] = "done"
            PROVE  rest[i] \in late'
        <5>1. /\ Old[i] \in DOMAIN shown /\ rest[i] = shown[Old[i]] /\ rest[i] # m
              /\ rest[i] \in MessageNos
          BY <3>2, <3>3
        <5>2. deletion[rest[i]] = "done"
          BY <1>2, <4>2, <5>1
        <5> QED BY <1>4, <3>1, <3>2, <5>1, <5>2 DEF SocketHears
      <4>3. ASSUME NEW i \in DOMAIN rest, NEW k \in DOMAIN rest, i < k
            PROVE  rest[i] < rest[k] \/ {rest[i], rest[k]} \in overlapped'
        <5>1. /\ Old[i] \in DOMAIN shown /\ Old[k] \in DOMAIN shown /\ Old[i] < Old[k]
              /\ rest[i] = shown[Old[i]] /\ rest[k] = shown[Old[k]]
          BY <3>3, <4>3
        <5> QED BY <1>1, <3>1, <3>2, <5>1 DEF SocketHears
      <4> QED BY <3>2, <4>1, <4>2, <4>3 DEF SocketHears
    <3> QED BY <3>5, <3>6
  <2> QED BY <2>1, <2>2
<1> QED BY <1>5, <1>6, <1>7, <1>8, <1>9, <1>10 DEF GatewayInv

-----------------------------------------------------------------------------
(* The chat's gateway as a whole. *)

LEMMA GatewayInitIs ==
    ASSUME GatewayInit
    PROVE  GatewayInv
<1>1. Sends \in Nat /\ \A s \in Sockets : SocketUser[s] \in SocketUsers
    BY ChatGatewayAssumption DEF SocketUsers
<1>2. PICK first : first = CHOOSE u \in SocketUsers : TRUE
    OBVIOUS
<1>3. first \in SocketUsers
  <2>1. \E u \in SocketUsers : TRUE
    BY ChatGatewayAssumption, <1>1
  <2> QED BY <1>2, <2>1
<1>4. /\ about \in {"presence", "conversation"}
      /\ socket = [s \in Sockets |-> "new"] /\ onlineUsers = [u \in SocketUsers |-> {}]
      /\ room = {} /\ sending = [m \in MessageNos |-> [step |-> "none", by |-> first]]
      /\ stored = 0 /\ deletion = [m \in MessageNos |-> "none"]
      /\ told = [s \in Sockets |-> {}] /\ checked = [s \in Sockets |-> FALSE]
      /\ screen = [s \in Sockets |-> <<>>] /\ preview = [s \in Sockets |-> 0]
      /\ opened = [s \in Sockets |-> 0] /\ from = [s \in Sockets |-> 0]
      /\ overlapped = {} /\ late = {}
    BY <1>2 DEF GatewayInit
<1>5. Connected = {}
    BY <1>4 DEF Connected
<1>6. \A m \in MessageNos : sending[m].step = "none" /\ deletion[m] = "none"
    BY <1>4
<1>7. GatewayTypeOK
  <2>1. screen \in [Sockets -> Seq(MessageNos)]
    <3>1. <<>> \in Seq(MessageNos)
      OBVIOUS
    <3> QED BY <1>4, <3>1
  <2>2. sending \in [MessageNos -> [step : {"none", "saved", "emitted", "done", "failed"},
                                    by : SocketUsers]]
    BY <1>3, <1>4
  <2>3. /\ stored \in 0 .. Sends /\ preview \in [Sockets -> 0 .. Sends]
        /\ opened \in [Sockets -> 0 .. Sends + 1] /\ from \in [Sockets -> 0 .. Sends + 1]
    BY <1>1, <1>4
  <2>4. socket \in [Sockets -> {"new", "open", "gone"}]
        /\ deletion \in [MessageNos -> {"none", "saved", "done", "failed"}]
        /\ checked \in [Sockets -> BOOLEAN]
    BY <1>4
  <2>5. onlineUsers \in [SocketUsers -> SUBSET Sockets] /\ room \subseteq Sockets
        /\ told \in [Sockets -> SUBSET SocketUsers]
        /\ overlapped \subseteq SUBSET MessageNos /\ late \subseteq MessageNos
    BY <1>4
  <2> QED BY <2>1, <2>2, <2>3, <2>4, <2>5 DEF GatewayTypeOK
<1>8. AskedIsOpen /\ PresenceHolds /\ ListHears
    BY <1>4, <1>5 DEF AskedIsOpen, PresenceHolds, ListHears
<1>9. StoredFirst /\ LaterOverlaps /\ LateIsKnown
    BY <1>6 DEF StoredFirst, LaterOverlaps, LateIsKnown
<1>10. ASSUME NEW s \in Sockets PROVE ShownOnce(s) /\ (s \in room => SocketHears(s))
  <2>1. DOMAIN screen[s] = {}
    BY <1>4
  <2> QED BY <1>4, <2>1 DEF ShownOnce
<1> QED BY <1>7, <1>8, <1>9, <1>10 DEF GatewayInv

LEMMA GatewayStutterKeeps ==
    ASSUME GatewayInv, UNCHANGED gatewayVars
    PROVE  GatewayInv'
<1>1. UNCHANGED <<about, socket, onlineUsers, room, sending, stored, deletion, told, checked,
                  screen, preview, opened, from, overlapped, late>>
    BY DEF gatewayVars
<1>2. GatewayTypeOK'
    BY <1>1 DEF GatewayInv, GatewayTypeOK
<1>3. PresenceHolds' /\ AskedIsOpen'
    BY <1>1, PeopleStay DEF GatewayInv, people
<1>4. StoredFirst' /\ LaterOverlaps' /\ LateIsKnown'
    BY <1>1, SendsStay DEF GatewayInv
<1>5. ListHears'
    BY <1>1, ListStays DEF GatewayInv, Connected
<1>6. ASSUME NEW t \in Sockets PROVE ShownOnce(t)' /\ (t \in room' => SocketHears(t)')
    BY <1>1, ScreenStays
<1> QED BY <1>2, <1>3, <1>4, <1>5, <1>6 DEF GatewayInv

LEMMA GatewayInvStep ==
    ASSUME GatewayInv, [GatewayNext]_gatewayVars
    PROVE  GatewayInv'
<1>1. CASE Restart
    BY <1>1, RestartKeeps
<1>2. ASSUME NEW s \in Sockets,
             \/ Connect(s) \/ Disconnect(s) \/ OnlineCheck(s)
             \/ JoinConversation(s) \/ LeaveConversation(s) \/ SendMessage(s)
      PROVE  GatewayInv'
    BY <1>2, ConnectKeeps, DisconnectKeeps, OnlineCheckKeeps, JoinKeeps, LeaveKeeps,
       SendMessageKeeps
<1>3. ASSUME NEW m \in MessageNos,
             \/ SendFails(m) \/ EmitNew(m) \/ EmitUpdated(m)
             \/ DeleteMessage(m) \/ EmitDeleted(m)
      PROVE  GatewayInv'
    BY <1>3, SendFailsKeeps, EmitNewKeeps, EmitUpdatedKeeps, DeleteKeeps, EmitDeletedKeeps
<1>4. CASE UNCHANGED gatewayVars
    BY <1>4, GatewayStutterKeeps
<1> QED BY <1>1, <1>2, <1>3, <1>4 DEF GatewayNext

(* What the clients of a room should hear, from what each socket of it does. *)
LEMMA ClientsHearFollows ==
    ASSUME GatewayInv
    PROVE  ClientsHear
<1>1. ASSUME NEW s \in room, NEW shown, shown = {screen[s][i] : i \in DOMAIN screen[s]}
      PROVE  /\ \A m \in MessageNos :
                   /\ m >= from[s] /\ sending[m].step = "done" /\ deletion[m] = "none"
                      => m \in shown
                   /\ deletion[m] = "done" /\ m \in shown => m \in late
             /\ \A i, k \in DOMAIN screen[s] :
                   i < k => \/ screen[s][i] < screen[s][k]
                            \/ {screen[s][i], screen[s][k]} \in overlapped
  <2>1. SocketHears(s)
    BY GatewayTypes DEF GatewayInv
  <2> QED BY <1>1, <2>1 DEF SocketHears
<1> QED BY <1>1 DEF GatewayInv, ClientsHear, RoomHears

(* GatewayInv holds in every state of the gateway: who is online, and what each client
   shows, follow from the events alone whatever the order of connections, sends and
   deletions (ChatGateway). *)
THEOREM GatewayInvHolds == GatewaySpec => []GatewayInv
<1>1. GatewayInit => GatewayInv
    BY GatewayInitIs
<1>2. GatewayInv /\ [GatewayNext]_gatewayVars => GatewayInv'
    BY GatewayInvStep
<1> QED BY <1>1, <1>2, PTL DEF GatewaySpec

(* The clients hear what they should: who is online, each message of the room in its
   place and none that was deleted, and the last one of the others in the list. *)
THEOREM ClientsAlwaysHear == GatewaySpec => []ClientsHear
<1>1. GatewayInv => ClientsHear
    BY ClientsHearFollows
<1> QED BY <1>1, GatewayInvHolds, PTL

-----------------------------------------------------------------------------
(* Visits.tla: rows, requests and what a request leaves alone. *)

VisitJob == [step : {"idle", "appoint", "link", "save", "findAppointment", "saveAppointment",
                     "remove", "removeAppointment"},
             visit : 0 .. MaxVisits, copy : Visit, asked : VisitStatuses \union {Keep},
             appt : 0 .. MaxAppointments, agenda : Appointment]

LEMMA StatusTypes ==
    /\ VisitStatuses = {"AGENDADA", "EM_ATENDIMENTO", "CONCLUIDA", "CANCELADA"}
    /\ Keep \notin VisitStatuses
    /\ \A s \in VisitStatuses :
          AppointmentStatus[s] \in {AppointmentStatus[t] : t \in VisitStatuses}
    /\ NewVisit \in Visit /\ NewAppointment \in Appointment
<1>1. /\ VisitStatuses = {"AGENDADA", "EM_ATENDIMENTO", "CONCLUIDA", "CANCELADA"}
      /\ AppointmentStatus["AGENDADA"] = "SCHEDULED"
    BY DEF VisitStatuses, AppointmentStatus
<1>2. 0 \in 0 .. MaxAppointments
    BY VisitsAssumption
<1> QED BY <1>1, <1>2 DEF Keep, NewVisit, NewAppointment, Visit, Appointment

LEMMA IdleVisit ==
    IdleVisitJob \in VisitJob /\ IdleVisitJob.step = "idle" /\ IdleVisitJob.copy.here
  BY StatusTypes, VisitsAssumption DEF IdleVisitJob, VisitJob, NewVisit

LEMMA VisitTypes ==
    ASSUME VisitsTypeOK
    PROVE  /\ Len(visits) \in Nat /\ Len(visits) <= MaxVisits
           /\ visits \in [VisitIds -> Visit]
           /\ Len(appointments) \in Nat /\ Len(appointments) <= MaxAppointments
           /\ appointments \in [AppointmentIds -> Appointment]
           /\ owner \in [AppointmentIds -> VisitIds]
           /\ loose \subseteq VisitIds
           /\ visitJob \in [VisitJobs -> VisitJob]
  BY LenProperties DEF VisitsTypeOK, VisitIds, AppointmentIds, VisitJob

(* A request's step moves its own entry only. *)
LEMMA VisitJobMoves ==
    ASSUME VisitsTypeOK, NEW j \in VisitJobs, NEW job \in VisitJob,
           visitJob' = [visitJob EXCEPT ![j] = job]
    PROVE  /\ visitJob' \in [VisitJobs -> VisitJob]
           /\ visitJob'[j] = job
           /\ \A k \in VisitJobs \ {j} : visitJob'[k] = visitJob[k]
  BY VisitTypes

LEMMA VisitWritten ==
    ASSUME VisitsTypeOK, NEW v \in VisitIds, NEW new \in Visit,
           visits' = [visits EXCEPT ![v] = new]
    PROVE  /\ visits' \in Seq(Visit) /\ Len(visits') = Len(visits) /\ VisitIds' = VisitIds
           /\ visits'[v] = new
           /\ \A w \in VisitIds \ {v} : visits'[w] = visits[w]
<1>1. visits \in Seq(Visit)
    BY DEF VisitsTypeOK
<1>2. v \in 1 .. Len(visits)
    BY DEF VisitIds
<1>3. /\ visits' \in Seq(Visit) /\ Len(visits') = Len(visits)
      /\ \A w \in 1 .. Len(visits) : visits'[w] = IF w = v THEN new ELSE visits[w]
    BY <1>1, <1>2, ExceptSeq
<1> QED BY <1>2, <1>3 DEF VisitIds

LEMMA AppointmentWritten ==
    ASSUME VisitsTypeOK, NEW a \in AppointmentIds, NEW new \in Appointment,
           appointments' = [appointments EXCEPT ![a] = new]
    PROVE  /\ appointments' \in Seq(Appointment) /\ Len(appointments') = Len(appointments)
           /\ AppointmentIds' = AppointmentIds
           /\ appointments'[a] = new
           /\ \A b \in AppointmentIds \ {a} : appointments'[b] = appointments[b]
<1>1. appointments \in Seq(Appointment)
    BY DEF VisitsTypeOK
<1>2. a \in 1 .. Len(appointments)
    BY DEF AppointmentIds
<1>3. /\ appointments' \in Seq(Appointment) /\ Len(appointments') = Len(appointments)
      /\ \A b \in 1 .. Len(appointments) :
            appointments'[b] = IF b = a THEN new ELSE appointments[b]
    BY <1>1, <1>2, ExceptSeq
<1> QED BY <1>2, <1>3 DEF AppointmentIds

(* The foreign key's SET NULL: of the visits of an appointment, its own. *)
LEMMA Unlinking ==
    ASSUME VisitsTypeOK, NamesItsOwn, NEW a \in AppointmentIds, visits' = Unlinked(a)
    PROVE  /\ visits' \in Seq(Visit) /\ Len(visits') = Len(visits) /\ VisitIds' = VisitIds
           /\ \A v \in VisitIds :
                 /\ visits'[v] \in Visit /\ visits'[v].here = visits[v].here
                 /\ visits'[v].status = visits[v].status /\ visits'[v].appt # a
                 /\ visits'[v].appt \in {0, visits[v].appt}
                 /\ v # owner[a] => visits'[v] = visits[v]
<1>0. a # 0 /\ 0 \in 0 .. MaxAppointments
    BY VisitsAssumption DEF AppointmentIds
<1>1. visits \in [VisitIds -> Visit] /\ Len(visits) \in Nat
    BY VisitTypes
<1>2. \A v \in VisitIds : [visits[v] EXCEPT !.appt = 0] \in Visit
    BY <1>0, <1>1 DEF Visit
<1>3. visits' \in [VisitIds -> Visit]
    BY <1>1, <1>2 DEF Unlinked
<1>4. visits' \in Seq(Visit) /\ Len(visits') = Len(visits)
  <2>1. visits' \in [1 .. Len(visits) -> Visit]
    BY <1>3 DEF VisitIds
  <2> QED BY <2>1, <1>1
<1>5. ASSUME NEW v \in VisitIds
      PROVE  /\ visits'[v] \in Visit /\ visits'[v].here = visits[v].here
             /\ visits'[v].status = visits[v].status /\ visits'[v].appt # a
             /\ visits'[v].appt \in {0, visits[v].appt}
             /\ v # owner[a] => visits'[v] = visits[v]
  <2>1. visits[v] \in Visit /\ visits'[v] \in Visit
    BY <1>1, <1>3
  <2>2. visits'[v] = IF visits[v].appt = a THEN [visits[v] EXCEPT !.appt = 0] ELSE visits[v]
    BY <1>1 DEF Unlinked
  <2>3. visits[v].appt = a => owner[a] = v
    BY <1>0 DEF NamesItsOwn
  <2> QED BY <2>1, <2>2, <2>3, <1>0 DEF Visit
<1> QED BY <1>4, <1>5 DEF VisitIds

(* What a request knows stays known, whoever moves. *)
LEMMA StillKnows ==
    ASSUME NEW k \in VisitJobs, Knows(visitJob[k]), visitJob'[k] = visitJob[k],
           VisitIds \subseteq VisitIds', AppointmentIds \subseteq AppointmentIds',
           \A a \in AppointmentIds : owner'[a] = owner[a], loose \subseteq loose'
    PROVE  Knows(visitJob[k])'
  BY DEF Knows

(* A visit follows while nothing of it changes. *)
LEMMA StillFollows ==
    ASSUME NEW w, Follows(w), visits'[w] = visits[w], Made(w)' = Made(w),
           \A a \in Made(w) : appointments'[a] = appointments[a],
           OnVisit(w)' = OnVisit(w), \A j \in OnVisit(w) : visitJob'[j] = visitJob[j]
    PROVE  Follows(w)'
<1>1. AtRest(w) => AtRest(w)'
    BY DEF AtRest
<1>2. ASSUME NEW j \in OnVisit(w)' PROVE AtWork(w, visitJob[j])'
  <2>1. AtWork(w, visitJob[j]) /\ visitJob'[j] = visitJob[j]
    BY <1>2 DEF Follows
  <2> QED BY <2>1, <1>1 DEF AtWork
<1> QED BY <1>1, <1>2 DEF Follows

(* The one request at work on a visit that is not loose. *)
LEMMA AloneOn ==
    ASSUME VisitsInv, NEW v \in VisitIds, v \notin loose, NEW j \in OnVisit(v)
    PROVE  OnVisit(v) = {j} /\ AtWork(v, visitJob[j])
<1>1. v # 0
    BY DEF VisitIds
<1>2. \A i \in OnVisit(v) : i = j
    BY <1>1 DEF VisitsInv, Overlaps, OnVisit
<1> QED BY <1>2 DEF VisitsInv, Follows

(* A request's next step, or its last: the others are as before, on every visit. *)
LEMMA VisitJobSteps ==
    ASSUME VisitsInv, NEW j \in VisitJobs, NEW job \in VisitJob,
           visitJob[j].step # "idle",
           visitJob' = [visitJob EXCEPT ![j] = job],
           job.step = "idle" \/ job.visit = visitJob[j].visit,
           VisitIds \subseteq VisitIds', AppointmentIds \subseteq AppointmentIds',
           \A a \in AppointmentIds : owner'[a] = owner[a], loose \subseteq loose'
    PROVE  /\ visitJob' \in [VisitJobs -> VisitJob] /\ visitJob'[j] = job
           /\ Overlaps'
           /\ \A k \in VisitJobs \ {j} : Knows(visitJob[k])'
           /\ \A w : w # visitJob[j].visit =>
                 OnVisit(w)' = OnVisit(w) /\ \A k \in OnVisit(w) : visitJob'[k] = visitJob[k]
           /\ \A v : v = visitJob[j].visit =>
                 OnVisit(v)' = IF job.step = "idle" THEN OnVisit(v) \ {j} ELSE OnVisit(v)
<1>0. VisitsTypeOK /\ Overlaps /\ \A k \in VisitJobs : Knows(visitJob[k])
    BY DEF VisitsInv
<1>1. /\ visitJob' \in [VisitJobs -> VisitJob] /\ visitJob'[j] = job
      /\ \A k \in VisitJobs \ {j} : visitJob'[k] = visitJob[k]
    BY <1>0, VisitJobMoves
<1>2. Overlaps'
    BY <1>0, <1>1 DEF Overlaps
<1>3. \A k \in VisitJobs \ {j} : Knows(visitJob[k])'
    BY <1>0, <1>1, StillKnows
<1>4. ASSUME NEW w, w # visitJob[j].visit
      PROVE  OnVisit(w)' = OnVisit(w) /\ \A k \in OnVisit(w) : visitJob'[k] = visitJob[k]
    BY <1>1, <1>4 DEF OnVisit
<1>5. ASSUME NEW v, v = visitJob[j].visit
      PROVE  OnVisit(v)' = IF job.step = "idle" THEN OnVisit(v) \ {j} ELSE OnVisit(v)
    BY <1>1, <1>5 DEF OnVisit
<1> QED BY <1>1, <1>2, <1>3, <1>4, <1>5

(* A request begins: a visit that stays out of loose has no other. *)
LEMMA VisitBegins ==
    ASSUME VisitsInv, NEW j \in VisitJobs, NEW v \in Nat \ {0}, NEW job \in VisitJob,
           Begins(j, v, job), job.step # "idle", job.visit = v,
           VisitIds \subseteq VisitIds', AppointmentIds \subseteq AppointmentIds',
           \A a \in AppointmentIds : owner'[a] = owner[a]
    PROVE  /\ visitJob' \in [VisitJobs -> VisitJob] /\ visitJob'[j] = job
           /\ visitRequests' \in 0 .. MaxVisitRequests
           /\ loose \subseteq loose' /\ loose' \subseteq loose \union {v}
           /\ Overlaps'
           /\ \A k \in VisitJobs \ {j} : Knows(visitJob[k])'
           /\ \A w : w # v =>
                 OnVisit(w)' = OnVisit(w) /\ \A k \in OnVisit(w) : visitJob'[k] = visitJob[k]
           /\ v \notin loose' => OnVisit(v) = {} /\ OnVisit(v)' = {j}
           /\ OnVisit(v) = {} => loose' = loose
<1>0. /\ VisitsTypeOK /\ Overlaps /\ \A k \in VisitJobs : Knows(visitJob[k])
      /\ visitRequests \in 0 .. MaxVisitRequests /\ visitRequests < MaxVisitRequests
      /\ visitRequests' = visitRequests + 1 /\ MaxVisitRequests \in Nat
      /\ visitJob[j].step = "idle" /\ visitJob' = [visitJob EXCEPT ![j] = job]
      /\ loose' = IF OnVisit(v) = {} THEN loose ELSE loose \union {v}
    BY VisitsAssumption DEF VisitsInv, VisitsTypeOK, Begins
<1>1. /\ visitJob' \in [VisitJobs -> VisitJob] /\ visitJob'[j] = job
      /\ \A k \in VisitJobs \ {j} : visitJob'[k] = visitJob[k]
    BY <1>0, VisitJobMoves
<1>2. loose \subseteq loose' /\ loose' \subseteq loose \union {v}
    BY <1>0
<1>3. OnVisit(v) # {} => v \in loose'
    BY <1>0
<1>4. Overlaps'
  <2> SUFFICES ASSUME NEW i \in VisitJobs, NEW k \in VisitJobs, i # k,
                      visitJob'[i].step # "idle", visitJob'[k].step # "idle",
                      visitJob'[i].visit = visitJob'[k].visit, visitJob'[i].visit # 0
               PROVE  visitJob'[i].visit \in loose'
    BY DEF Overlaps
  <2>1. CASE i = j
    BY <2>1, <1>1, <1>3 DEF OnVisit
  <2>2. CASE k = j
    BY <2>2, <1>1, <1>3 DEF OnVisit
  <2>3. CASE i # j /\ k # j
    BY <2>3, <1>0, <1>1, <1>2 DEF Overlaps
  <2> QED BY <2>1, <2>2, <2>3
<1>5. \A k \in VisitJobs \ {j} : Knows(visitJob[k])'
    BY <1>0, <1>1, <1>2, StillKnows
<1>6. ASSUME NEW w, w # v
      PROVE  OnVisit(w)' = OnVisit(w) /\ \A k \in OnVisit(w) : visitJob'[k] = visitJob[k]
    BY <1>0, <1>1, <1>6 DEF OnVisit
<1>7. v \notin loose' => OnVisit(v) = {} /\ OnVisit(v)' = {j}
    BY <1>1, <1>3 DEF OnVisit
<1>8. visitRequests' \in 0 .. MaxVisitRequests
    BY <1>0
<1> QED BY <1>0, <1>1, <1>2, <1>4, <1>5, <1>6, <1>7, <1>8

-----------------------------------------------------------------------------
(* create *)

LEMMA CreateVisitKeeps ==
    ASSUME VisitsInv, NEW j \in VisitJobs, NEW s \in AskedStatuses, CreateVisit(j, s)
    PROVE  VisitsInv'
<1>a. PICK v : v = Len(visits) + 1
    OBVIOUS
<1>b. PICK new : new = [NewVisit EXCEPT !.status = s]
    OBVIOUS
<1>c. PICK job : job = [IdleVisitJob EXCEPT !.step = "appoint", !.copy = new, !.visit = v]
    OBVIOUS
<1>0. /\ VisitsTypeOK /\ NamesItsOwn
      /\ Len(visits) \in Nat /\ Len(visits) < MaxVisits /\ MaxVisits \in Nat
      /\ visits \in Seq(Visit) /\ visits \in [VisitIds -> Visit] /\ loose \subseteq VisitIds
      /\ owner \in [AppointmentIds -> VisitIds]
    BY VisitTypes, VisitsAssumption DEF VisitsInv, VisitsTypeOK, CreateVisit
<1>1. new \in Visit /\ new.here /\ new.appt = 0
    BY <1>b, StatusTypes, VisitsAssumption DEF NewVisit, Visit
<1>2. job \in VisitJob /\ job.step = "appoint" /\ job.visit = v /\ job.copy = new
  <2>1. job = [step |-> "appoint", visit |-> v, copy |-> new, asked |-> Keep,
               appt |-> 0, agenda |-> NewAppointment]
    BY <1>c DEF IdleVisitJob
  <2> QED BY <2>1, <1>0, <1>1, <1>a, StatusTypes, VisitsAssumption DEF VisitJob
<1>3. /\ visits' = Append(visits, new) /\ Begins(j, v, job)
      /\ UNCHANGED <<appointments, owner>>
    BY <1>a, <1>b, <1>c DEF CreateVisit
<1>4. /\ visits' \in Seq(Visit) /\ Len(visits') = v /\ visits'[v] = new
      /\ VisitIds' = VisitIds \union {v} /\ v \notin VisitIds /\ v \in Nat \ {0}
      /\ \A w \in VisitIds : visits'[w] = visits[w]
  <2>1. /\ visits' \in Seq(Visit) /\ Len(visits') = Len(visits) + 1
        /\ \A w \in 1 .. Len(visits) : visits'[w] = visits[w]
        /\ visits'[v] = new
    BY <1>0, <1>1, <1>3, <1>a, AppendProperties
  <2> QED BY <2>1, <1>0, <1>a DEF VisitIds
<1>5. OnVisit(v) = {}
    BY <1>4 DEF VisitsInv, Knows, OnVisit
<1>6. /\ visitJob' \in [VisitJobs -> VisitJob] /\ visitJob'[j] = job
      /\ visitRequests' \in 0 .. MaxVisitRequests /\ loose' = loose /\ Overlaps'
      /\ \A k \in VisitJobs \ {j} : Knows(visitJob[k])'
      /\ \A w : w # v =>
            OnVisit(w)' = OnVisit(w) /\ \A k \in OnVisit(w) : visitJob'[k] = visitJob[k]
      /\ v \notin loose' => OnVisit(v)' = {j}
    BY <1>2, <1>3, <1>4, <1>5, VisitBegins DEF AppointmentIds
<1>7. VisitsTypeOK'
  <2>1. owner \in Seq(VisitIds) /\ Len(owner) = Len(appointments)
    BY <1>0 DEF VisitsTypeOK
  <2>2. owner' \in Seq(VisitIds')
    BY <2>1, <1>3, <1>4, SeqMonotonic
  <2> QED BY <2>1, <2>2, <1>0, <1>3, <1>4, <1>6 DEF VisitsTypeOK, VisitJob
<1>8. NamesItsOwn'
    BY <1>0, <1>1, <1>3, <1>4 DEF NamesItsOwn, HereAppointments, AppointmentIds
<1>9. Knows(visitJob[j])'
    BY <1>1, <1>2, <1>4, <1>6 DEF Knows
<1>10. ASSUME NEW w \in VisitIds' \ loose' PROVE Follows(w)'
  <2>1. CASE w = v
    <3>1. Made(v)' = {}
      BY <1>0, <1>3, <1>4 DEF Made, HereAppointments, AppointmentIds
    <3>2. AtWork(v, job)'
      BY <3>1, <1>1, <1>2, <1>4 DEF AtWork
    <3> QED BY <2>1, <3>2, <1>2, <1>6 DEF Follows
  <2>2. CASE w # v
    <3>1. w \in VisitIds \ loose /\ Follows(w)
      BY <2>2, <1>4, <1>6, <1>10 DEF VisitsInv
    <3>2. /\ Made(w)' = Made(w) /\ \A a \in Made(w) : appointments'[a] = appointments[a]
      BY <1>3 DEF Made, HereAppointments, AppointmentIds
    <3> QED BY <3>1, <3>2, <2>2, <1>4, <1>6, StillFollows
  <2> QED BY <2>1, <2>2
<1> QED BY <1>6, <1>7, <1>8, <1>9, <1>10 DEF VisitsInv

LEMMA CreateAppointmentKeeps ==
    ASSUME VisitsInv, NEW j \in VisitJobs, CreateAppointment(j)
    PROVE  VisitsInv'
<1>a. PICK old : old = visitJob[j]
    OBVIOUS
<1>b. PICK a : a = Len(appointments) + 1
    OBVIOUS
<1>c. PICK v : v = old.visit
    OBVIOUS
<1>d. PICK new : new = [here |-> TRUE, status |-> AppointmentStatus[old.copy.status]]
    OBVIOUS
<1>e. PICK job : job = [old EXCEPT !.step = "link", !.appt = a]
    OBVIOUS
<1>0. /\ VisitsTypeOK /\ NamesItsOwn /\ Knows(old) /\ visitJob \in [VisitJobs -> VisitJob]
      /\ visits \in [VisitIds -> Visit] /\ loose \subseteq VisitIds
      /\ appointments \in Seq(Appointment) /\ Len(appointments) \in Nat
      /\ owner \in Seq(VisitIds) /\ Len(owner) = Len(appointments)
      /\ owner \in [AppointmentIds -> VisitIds] /\ MaxAppointments \in Nat
    BY <1>a, VisitTypes, VisitsAssumption DEF VisitsInv, VisitsTypeOK
<1>1. /\ old.step = "appoint" /\ Len(appointments) < MaxAppointments
      /\ appointments' = Append(appointments, new) /\ owner' = Append(owner, v)
      /\ visitJob' = [visitJob EXCEPT ![j] = job]
      /\ UNCHANGED <<visits, visitRequests, loose>>
    BY <1>a, <1>b, <1>c, <1>d, <1>e DEF CreateAppointment, JobIs
<1>2. /\ old \in VisitJob /\ v \in VisitIds /\ old.copy.here /\ new \in Appointment
      /\ new.here /\ new.status = AppointmentStatus[old.copy.status]
    BY <1>0, <1>1, <1>a, <1>c, <1>d DEF Knows, VisitJob, Visit, Appointment
<1>3. /\ job \in VisitJob /\ job.step = "link" /\ job.visit = v /\ job.appt = a
      /\ job.copy = old.copy
  <2>1. a \in 0 .. MaxAppointments
    BY <1>0, <1>1, <1>b
  <2> QED BY <2>1, <1>2, <1>c, <1>e DEF VisitJob
<1>4. /\ appointments' \in Seq(Appointment) /\ Len(appointments') = a
      /\ owner' \in Seq(VisitIds) /\ Len(owner') = a /\ appointments'[a] = new /\ owner'[a] = v
      /\ AppointmentIds' = AppointmentIds \union {a} /\ a \notin AppointmentIds
      /\ \A b \in AppointmentIds : appointments'[b] = appointments[b] /\ owner'[b] = owner[b]
      /\ VisitIds' = VisitIds
  <2>1. /\ appointments' \in Seq(Appointment) /\ Len(appointments') = Len(appointments) + 1
        /\ \A b \in 1 .. Len(appointments) : appointments'[b] = appointments[b]
        /\ appointments'[a] = new
    BY <1>0, <1>1, <1>2, <1>b, AppendProperties
  <2>2. /\ owner' \in Seq(VisitIds) /\ Len(owner') = Len(owner) + 1
        /\ \A b \in 1 .. Len(owner) : owner'[b] = owner[b]
        /\ owner'[a] = v
    BY <1>0, <1>1, <1>2, <1>b, AppendProperties
  <2> QED BY <2>1, <2>2, <1>0, <1>1, <1>b DEF AppointmentIds, VisitIds
<1>5. /\ visitJob' \in [VisitJobs -> VisitJob] /\ visitJob'[j] = job /\ Overlaps'
      /\ \A k \in VisitJobs \ {j} : Knows(visitJob[k])'
      /\ \A w : w # v =>
            OnVisit(w)' = OnVisit(w) /\ \A k \in OnVisit(w) : visitJob'[k] = visitJob[k]
      /\ OnVisit(v)' = OnVisit(v)
    BY <1>0, <1>1, <1>3, <1>4, <1>a, <1>c, VisitJobSteps, ZenonT(40)
<1>6. VisitsTypeOK'
    BY <1>0, <1>1, <1>4, <1>5, <1>b DEF VisitsTypeOK, VisitJob
<1>7. HereAppointments' = HereAppointments \union {a}
    BY <1>2, <1>4 DEF HereAppointments
<1>8. NamesItsOwn'
    BY <1>0, <1>1, <1>4, <1>7 DEF NamesItsOwn, HereAppointments
<1>9. Knows(visitJob[j])'
    BY <1>2, <1>3, <1>4, <1>5 DEF Knows
<1>10. ASSUME NEW w \in VisitIds' \ loose' PROVE Follows(w)'
  <2>0. w \in VisitIds \ loose /\ Follows(w)
    BY <1>1, <1>4, <1>10 DEF VisitsInv
  <2>1. CASE w = v
    <3>1. j \in OnVisit(v)
      BY <1>1, <1>a, <1>c DEF OnVisit
    <3>2. OnVisit(v) = {j} /\ AtWork(v, old)
      BY <3>1, <2>0, <2>1, <1>a, AloneOn
    <3>3. visits[v] = old.copy /\ Made(v) = {}
      BY <3>2, <1>1 DEF AtWork
    <3>4. Made(v)' = {a}
      BY <3>3, <1>4, <1>7 DEF Made, HereAppointments
    <3>5. AtWork(v, job)'
      BY <3>3, <3>4, <1>1, <1>2, <1>3, <1>4 DEF AtWork
    <3> QED BY <2>1, <3>1, <3>2, <3>5, <1>5 DEF Follows
  <2>2. CASE w # v
    <3>1. Made(w)' = Made(w) /\ \A b \in Made(w) : appointments'[b] = appointments[b]
      BY <2>2, <1>4, <1>7 DEF Made, HereAppointments
    <3> QED BY <3>1, <2>0, <2>2, <1>1, <1>5, StillFollows
  <2> QED BY <2>1, <2>2
<1> QED BY <1>5, <1>6, <1>8, <1>9, <1>10 DEF VisitsInv

(* the whole visit is saved with its appointment's id, or refused *)
LEMMA LinkVisitKeeps ==
    ASSUME VisitsInv, NEW j \in VisitJobs, LinkVisit(j)
    PROVE  VisitsInv'
<1>a. PICK old : old = visitJob[j]
    OBVIOUS
<1>b. PICK v : v = old.visit
    OBVIOUS
<1>c. PICK new : new = [old.copy EXCEPT !.appt = old.appt]
    OBVIOUS
<1>0. /\ VisitsTypeOK /\ NamesItsOwn /\ Knows(old) /\ visitJob \in [VisitJobs -> VisitJob]
      /\ visits \in [VisitIds -> Visit] /\ loose \subseteq VisitIds
    BY <1>a, VisitTypes DEF VisitsInv
<1>1. /\ old.step = "link" /\ SavesVisit(v, new)
      /\ visitJob' = [visitJob EXCEPT ![j] = IdleVisitJob]
      /\ UNCHANGED <<appointments, visitRequests, owner, loose>>
    BY <1>a, <1>b, <1>c DEF LinkVisit, JobIs
<1>2. /\ old \in VisitJob /\ v \in VisitIds /\ v # 0 /\ old.copy.here /\ owner[old.appt] = v
      /\ old.appt \in AppointmentIds /\ old.appt # 0
    BY <1>0, <1>1, <1>a, <1>b DEF Knows, VisitIds, AppointmentIds
<1>3. /\ new \in Visit /\ new.here /\ new.appt = old.appt /\ new.status = old.copy.status
    BY <1>2, <1>c DEF VisitJob, Visit
<1>4. /\ visits' \in Seq(Visit) /\ Len(visits') = Len(visits) /\ VisitIds' = VisitIds
      /\ \A w \in VisitIds \ {v} : visits'[w] = visits[w]
      /\ visits'[v] = IF new.appt \in HereAppointments THEN new ELSE visits[v]
      /\ AppointmentIds' = AppointmentIds /\ HereAppointments' = HereAppointments
  <2>1. CASE visits' = [visits EXCEPT ![v] = new] /\ new.appt \in {0} \union HereAppointments
    BY <2>1, <1>0, <1>1, <1>2, <1>3, VisitWritten DEF HereAppointments, AppointmentIds
  <2>2. CASE UNCHANGED visits /\ new.appt \notin {0} \union HereAppointments
    BY <2>2, <1>0, <1>1 DEF VisitsTypeOK, HereAppointments, AppointmentIds, VisitIds
  <2> QED BY <2>1, <2>2, <1>1 DEF SavesVisit
<1>5. /\ visitJob' \in [VisitJobs -> VisitJob] /\ visitJob'[j] = IdleVisitJob /\ Overlaps'
      /\ \A k \in VisitJobs \ {j} : Knows(visitJob[k])'
      /\ \A w : w # v =>
            OnVisit(w)' = OnVisit(w) /\ \A k \in OnVisit(w) : visitJob'[k] = visitJob[k]
      /\ OnVisit(v)' = OnVisit(v) \ {j}
  <2>1. /\ IdleVisitJob \in VisitJob /\ IdleVisitJob.step = "idle" /\ visitJob[j].step # "idle"
        /\ VisitIds \subseteq VisitIds' /\ AppointmentIds \subseteq AppointmentIds'
        /\ \A a \in AppointmentIds : owner'[a] = owner[a]
        /\ loose \subseteq loose'
    BY <1>1, <1>4, <1>a, IdleVisit
  <2> QED BY <2>1, <1>1, <1>a, <1>b, VisitJobSteps
<1>6. VisitsTypeOK'
    BY <1>0, <1>1, <1>4, <1>5 DEF VisitsTypeOK, VisitJob
<1>7. NamesItsOwn'
    BY <1>0, <1>1, <1>2, <1>3, <1>4 DEF NamesItsOwn
<1>8. Knows(visitJob[j])'
    BY <1>5, IdleVisit DEF Knows
<1>9. ASSUME NEW w \in VisitIds' \ loose' PROVE Follows(w)'
  <2>0. w \in VisitIds \ loose /\ Follows(w) /\ Made(w)' = Made(w)
    BY <1>1, <1>4, <1>9 DEF VisitsInv, Made
  <2>1. CASE w = v
    <3>1. j \in OnVisit(v)
      BY <1>1, <1>a, <1>b DEF OnVisit
    <3>2. OnVisit(v) = {j} /\ AtWork(v, old)
      BY <3>1, <2>0, <2>1, <1>a, AloneOn
    <3>3. /\ Made(v) = {old.appt} /\ old.appt \in HereAppointments
          /\ appointments[old.appt].status = AppointmentStatus[old.copy.status]
      BY <3>2, <1>1 DEF AtWork, Made
    <3>4. AtRest(v)'
      BY <3>3, <2>0, <2>1, <1>1, <1>2, <1>3, <1>4 DEF AtRest
    <3> QED BY <2>1, <3>2, <3>4, <1>5 DEF Follows
  <2>2. CASE w # v
    BY <2>0, <2>2, <1>1, <1>4, <1>5, StillFollows
  <2> QED BY <2>1, <2>2
<1> QED BY <1>5, <1>6, <1>7, <1>8, <1>9 DEF VisitsInv

-----------------------------------------------------------------------------
(* update and remove *)

LEMMA UpdateOrRemoveKeeps ==
    ASSUME VisitsInv, NEW j \in VisitJobs, NEW v \in VisitIds,
           NEW asked \in AskedStatuses \union {Keep}, UpdateVisit(j, v, asked) \/ RemoveVisit(j, v)
    PROVE  VisitsInv'
<1>0. /\ VisitsTypeOK /\ NamesItsOwn /\ visits \in [VisitIds -> Visit] /\ v \in Nat \ {0}
      /\ loose \subseteq VisitIds
    BY VisitTypes DEF VisitsInv, VisitIds
<1>1. visits[v].here /\ UNCHANGED <<visits, appointments, owner>>
    BY DEF UpdateVisit, RemoveVisit, HereVisits
<1>2. PICK job \in VisitJob :
         /\ Begins(j, v, job) /\ job.step \in {"save", "remove"} /\ job.visit = v
         /\ job.copy = visits[v] /\ (job.step = "remove" => job.appt = visits[v].appt)
  <2>0. visits[v] \in Visit /\ v \in 0 .. MaxVisits /\ visits[v].appt \in 0 .. MaxAppointments
        /\ asked \in VisitStatuses \union {Keep} /\ Keep \in VisitStatuses \union {Keep}
        /\ 0 \in 0 .. MaxAppointments
    BY <1>0, VisitTypes, VisitsAssumption DEF VisitIds, Visit
  <2>1. CASE UpdateVisit(j, v, asked)
    <3>1. PICK job : job = [IdleVisitJob EXCEPT !.step = "save", !.visit = v, !.copy = visits[v],
                                   !.asked = asked]
      OBVIOUS
    <3>2. job = [step |-> "save", visit |-> v, copy |-> visits[v], asked |-> asked,
                appt |-> 0, agenda |-> NewAppointment]
      BY <3>1 DEF IdleVisitJob
    <3>3. job \in VisitJob
      BY <2>0, <3>2, StatusTypes DEF VisitJob
    <3> QED BY <2>1, <3>1, <3>2, <3>3 DEF UpdateVisit
  <2>2. CASE RemoveVisit(j, v)
    <3>1. PICK job : job = [IdleVisitJob EXCEPT !.step = "remove", !.visit = v, !.copy = visits[v],
                                   !.appt = visits[v].appt]
      OBVIOUS
    <3>2. job = [step |-> "remove", visit |-> v, copy |-> visits[v], asked |-> Keep,
                appt |-> visits[v].appt, agenda |-> NewAppointment]
      BY <3>1 DEF IdleVisitJob
    <3>3. job \in VisitJob
      BY <2>0, <3>2, StatusTypes DEF VisitJob
    <3> QED BY <2>2, <3>1, <3>2, <3>3 DEF RemoveVisit
  <2> QED BY <2>1, <2>2
<1>3. /\ visitJob' \in [VisitJobs -> VisitJob] /\ visitJob'[j] = job
      /\ visitRequests' \in 0 .. MaxVisitRequests
      /\ loose \subseteq loose' /\ loose' \subseteq loose \union {v} /\ Overlaps'
      /\ \A k \in VisitJobs \ {j} : Knows(visitJob[k])'
      /\ \A w : w # v =>
            OnVisit(w)' = OnVisit(w) /\ \A k \in OnVisit(w) : visitJob'[k] = visitJob[k]
      /\ v \notin loose' => OnVisit(v) = {} /\ OnVisit(v)' = {j}
    BY <1>0, <1>1, <1>2, VisitBegins DEF VisitIds, AppointmentIds
<1>4. /\ VisitIds' = VisitIds /\ AppointmentIds' = AppointmentIds
      /\ HereAppointments' = HereAppointments
    BY <1>1 DEF VisitIds, AppointmentIds, HereAppointments
<1>5. VisitsTypeOK'
    BY <1>0, <1>1, <1>3, <1>4 DEF VisitsTypeOK, VisitJob
<1>6. NamesItsOwn'
    BY <1>0, <1>1, <1>4 DEF NamesItsOwn
<1>7. Knows(visitJob[j])'
    BY <1>0, <1>1, <1>2, <1>3, <1>4 DEF Knows, NamesItsOwn, HereAppointments
<1>8. ASSUME NEW w \in VisitIds' \ loose' PROVE Follows(w)'
  <2>0. w \in VisitIds \ loose /\ Follows(w) /\ Made(w)' = Made(w)
    BY <1>1, <1>3, <1>4, <1>8 DEF VisitsInv, Made
  <2>1. CASE w = v
    <3>1. AtRest(v)
      BY <1>3, <1>8, <2>0, <2>1 DEF Follows
    <3>2. AtRest(v)'
      BY <3>1, <2>0, <2>1, <1>1 DEF AtRest
    <3>3. AtWork(v, job)'
      BY <3>2, <1>1, <1>2 DEF AtWork
    <3> QED BY <2>1, <3>3, <1>3, <1>8 DEF Follows
  <2>2. CASE w # v
    BY <2>0, <2>2, <1>1, <1>3, StillFollows
  <2> QED BY <2>1, <2>2
<1> QED BY <1>3, <1>5, <1>6, <1>7, <1>8 DEF VisitsInv

LEMMA SaveVisitKeeps ==
    ASSUME VisitsInv, NEW j \in VisitJobs, SaveVisit(j)
    PROVE  VisitsInv'
<1>a. PICK old : old = visitJob[j]
    OBVIOUS
<1>b. PICK v : v = old.visit
    OBVIOUS
<1>c. PICK new : new = IF old.asked = Keep THEN old.copy
                       ELSE [old.copy EXCEPT !.status = old.asked]
    OBVIOUS
<1>d. PICK job : job = IF Saved(new) /\ new.appt # 0
                       THEN [old EXCEPT !.step = "findAppointment", !.copy = new,
                                        !.appt = new.appt]
                       ELSE IdleVisitJob
    OBVIOUS
<1>0. /\ VisitsTypeOK /\ NamesItsOwn /\ Knows(old) /\ visitJob \in [VisitJobs -> VisitJob]
      /\ visits \in [VisitIds -> Visit] /\ loose \subseteq VisitIds
    BY <1>a, VisitTypes DEF VisitsInv
<1>1. /\ old.step = "save" /\ SavesVisit(v, new)
      /\ visitJob' = [visitJob EXCEPT ![j] = job]
      /\ UNCHANGED <<appointments, visitRequests, owner, loose>>
    BY <1>a, <1>b, <1>c, <1>d DEF SaveVisit, JobIs
<1>2. /\ old \in VisitJob /\ v \in VisitIds /\ v # 0 /\ old.copy.here
      /\ old.copy.appt # 0 =>
            old.copy.appt \in AppointmentIds /\ owner[old.copy.appt] = v
    BY <1>0, <1>1, <1>a, <1>b DEF Knows, VisitIds
<1>3. /\ new \in Visit /\ new.here /\ new.appt = old.copy.appt
      /\ IF old.asked = Keep THEN new = old.copy ELSE new.status = old.asked
    BY <1>2, <1>c DEF VisitJob, Visit
<1>4. /\ job \in VisitJob
      /\ IF new.appt \in HereAppointments
         THEN job.step = "findAppointment" /\ job.visit = v /\ job.copy = new
              /\ job.appt = new.appt /\ job.asked = old.asked
         ELSE job.step = "idle"
  <2>1. 0 \notin HereAppointments
    BY DEF HereAppointments, AppointmentIds
  <2>2. CASE new.appt \in HereAppointments
    <3>1. job = [old EXCEPT !.step = "findAppointment", !.copy = new, !.appt = new.appt]
      BY <1>d, <2>1, <2>2 DEF Saved
    <3>2. new.appt \in 0 .. MaxAppointments
      BY <1>3 DEF Visit
    <3> QED BY <3>1, <3>2, <2>2, <1>2, <1>3, <1>b DEF VisitJob
  <2>3. CASE new.appt \notin HereAppointments
    BY <1>d, <2>3, IdleVisit DEF Saved
  <2> QED BY <2>2, <2>3
<1>5. /\ visits' \in Seq(Visit) /\ Len(visits') = Len(visits) /\ VisitIds' = VisitIds
      /\ \A w \in VisitIds \ {v} : visits'[w] = visits[w]
      /\ visits'[v] = IF new.appt \in {0} \union HereAppointments THEN new ELSE visits[v]
      /\ AppointmentIds' = AppointmentIds /\ HereAppointments' = HereAppointments
  <2>1. CASE visits' = [visits EXCEPT ![v] = new] /\ new.appt \in {0} \union HereAppointments
    BY <2>1, <1>0, <1>1, <1>2, <1>3, VisitWritten DEF HereAppointments, AppointmentIds
  <2>2. CASE UNCHANGED visits /\ new.appt \notin {0} \union HereAppointments
    BY <2>2, <1>0, <1>1 DEF VisitsTypeOK, HereAppointments, AppointmentIds, VisitIds
  <2> QED BY <2>1, <2>2, <1>1 DEF SavesVisit
<1>6. /\ visitJob' \in [VisitJobs -> VisitJob] /\ visitJob'[j] = job /\ Overlaps'
      /\ \A k \in VisitJobs \ {j} : Knows(visitJob[k])'
      /\ \A w : w # v =>
            OnVisit(w)' = OnVisit(w) /\ \A k \in OnVisit(w) : visitJob'[k] = visitJob[k]
      /\ OnVisit(v)' = IF job.step = "idle" THEN OnVisit(v) \ {j} ELSE OnVisit(v)
  <2>1. job \in VisitJob /\ (job.step = "idle" \/ job.visit = v)
    BY <1>4
  <2>2. /\ VisitIds \subseteq VisitIds' /\ AppointmentIds \subseteq AppointmentIds'
        /\ \A a \in AppointmentIds : owner'[a] = owner[a]
        /\ loose \subseteq loose' /\ visitJob[j].step # "idle" /\ v = visitJob[j].visit
        /\ visitJob' = [visitJob EXCEPT ![j] = job]
    BY <1>1, <1>5, <1>a, <1>b
  <2> QED BY <2>1, <2>2, VisitJobSteps
<1>7. VisitsTypeOK'
    BY <1>0, <1>1, <1>5, <1>6 DEF VisitsTypeOK, VisitJob
<1>8. NamesItsOwn'
    BY <1>0, <1>1, <1>2, <1>3, <1>5 DEF NamesItsOwn
<1>9. Knows(visitJob[j])'
  <2>1. CASE new.appt \in HereAppointments
    <3>1. new.appt \in AppointmentIds /\ new.appt # 0
      BY <2>1 DEF HereAppointments, AppointmentIds
    <3> QED BY <2>1, <3>1, <1>1, <1>2, <1>3, <1>4, <1>5, <1>6 DEF Knows
  <2>2. CASE new.appt \notin HereAppointments
    BY <2>2, <1>4, <1>6, IdleVisit, <1>d DEF Knows, Saved
  <2> QED BY <2>1, <2>2
<1>10. ASSUME NEW w \in VisitIds' \ loose' PROVE Follows(w)'
  <2>0. w \in VisitIds \ loose /\ Follows(w) /\ Made(w)' = Made(w)
    BY <1>1, <1>5, <1>10 DEF VisitsInv, Made
  <2>1. CASE w = v
    <3>1. j \in OnVisit(v)
      BY <1>1, <1>a, <1>b DEF OnVisit
    <3>2. OnVisit(v) = {j} /\ AtWork(v, old)
      BY <3>1, <2>0, <2>1, <1>a, AloneOn
    <3>3. /\ visits[v] = old.copy /\ Made(v) = {new.appt} /\ new.appt \in HereAppointments
          /\ appointments[new.appt].status = AppointmentStatus[old.copy.status]
      BY <3>2, <1>1, <1>2, <1>3 DEF AtWork, AtRest, Made
    <3>4. visits'[v] = new /\ job.step = "findAppointment" /\ job.copy = new
          /\ job.appt = new.appt /\ job.asked = old.asked
      BY <3>3, <1>4, <1>5
    <3>5. AtWork(v, job)'
      BY <3>3, <3>4, <2>0, <2>1, <1>1, <1>3 DEF AtWork
    <3> QED BY <2>1, <3>2, <3>4, <3>5, <1>6 DEF Follows
  <2>2. CASE w # v
    BY <2>0, <2>2, <1>1, <1>5, <1>6, StillFollows
  <2> QED BY <2>1, <2>2
<1> QED BY <1>6, <1>7, <1>8, <1>9, <1>10 DEF VisitsInv

LEMMA FindAppointmentKeeps ==
    ASSUME VisitsInv, NEW j \in VisitJobs, FindAppointment(j)
    PROVE  VisitsInv'
<1>a. PICK old : old = visitJob[j]
    OBVIOUS
<1>b. PICK v : v = old.visit
    OBVIOUS
<1>c. PICK job : job = IF old.appt \in HereAppointments
                       THEN [old EXCEPT !.step = "saveAppointment",
                                        !.agenda = appointments[old.appt]]
                       ELSE IdleVisitJob
    OBVIOUS
<1>0. /\ VisitsTypeOK /\ NamesItsOwn /\ Knows(old) /\ visitJob \in [VisitJobs -> VisitJob]
      /\ appointments \in [AppointmentIds -> Appointment] /\ loose \subseteq VisitIds
    BY <1>a, VisitTypes DEF VisitsInv
<1>1. /\ old.step = "findAppointment" /\ visitJob' = [visitJob EXCEPT ![j] = job]
      /\ UNCHANGED <<visits, appointments, visitRequests, owner, loose>>
    BY <1>a, <1>c DEF FindAppointment, JobIs
<1>2. /\ old \in VisitJob /\ v \in VisitIds /\ v # 0
      /\ old.appt \in AppointmentIds /\ owner[old.appt] = v
    BY <1>0, <1>1, <1>a, <1>b DEF Knows, VisitIds
<1>3. /\ job \in VisitJob
      /\ IF old.appt \in HereAppointments
         THEN job.step = "saveAppointment" /\ job.visit = v /\ job.copy = old.copy
              /\ job.appt = old.appt /\ job.asked = old.asked
              /\ job.agenda = appointments[old.appt]
         ELSE job.step = "idle"
  <2>1. appointments[old.appt] \in Appointment
    BY <1>0, <1>2
  <2> QED BY <2>1, <1>2, <1>b, <1>c, IdleVisit DEF VisitJob
<1>4. /\ VisitIds' = VisitIds /\ AppointmentIds' = AppointmentIds
      /\ HereAppointments' = HereAppointments
    BY <1>1 DEF VisitIds, AppointmentIds, HereAppointments
<1>5. /\ visitJob' \in [VisitJobs -> VisitJob] /\ visitJob'[j] = job /\ Overlaps'
      /\ \A k \in VisitJobs \ {j} : Knows(visitJob[k])'
      /\ \A w : w # v =>
            OnVisit(w)' = OnVisit(w) /\ \A k \in OnVisit(w) : visitJob'[k] = visitJob[k]
      /\ OnVisit(v)' = IF job.step = "idle" THEN OnVisit(v) \ {j} ELSE OnVisit(v)
    BY <1>0, <1>1, <1>2, <1>3, <1>4, <1>a, <1>b, VisitJobSteps
<1>6. VisitsTypeOK'
    BY <1>0, <1>1, <1>4, <1>5 DEF VisitsTypeOK, VisitJob
<1>7. NamesItsOwn'
    BY <1>0, <1>1, <1>4 DEF NamesItsOwn
<1>8. Knows(visitJob[j])'
    BY <1>0, <1>1, <1>2, <1>3, <1>4, <1>5, <1>c, IdleVisit DEF Knows
<1>9. ASSUME NEW w \in VisitIds' \ loose' PROVE Follows(w)'
  <2>0. w \in VisitIds \ loose /\ Follows(w) /\ Made(w)' = Made(w)
    BY <1>1, <1>4, <1>9 DEF VisitsInv, Made
  <2>1. CASE w = v
    <3>1. j \in OnVisit(v)
      BY <1>1, <1>a, <1>b DEF OnVisit
    <3>2. OnVisit(v) = {j} /\ AtWork(v, old)
      BY <3>1, <2>0, <2>1, <1>a, AloneOn
    <3>3. old.appt \in HereAppointments
      BY <3>2, <1>1 DEF AtWork, Made
    <3>4. AtWork(v, job)'
      BY <3>2, <3>3, <2>0, <2>1, <1>1, <1>3 DEF AtWork
    <3> QED BY <2>1, <3>2, <3>3, <3>4, <1>3, <1>5 DEF Follows
  <2>2. CASE w # v
    BY <2>0, <2>2, <1>1, <1>5, StillFollows
  <2> QED BY <2>1, <2>2
<1> QED BY <1>5, <1>6, <1>7, <1>8, <1>9 DEF VisitsInv

(* An appointment is written by requests about the visit it was made for, or about a
   visit that is loose. *)
LEMMA SaveAppointmentKeeps ==
    ASSUME VisitsInv, NEW j \in VisitJobs, SaveAppointment(j)
    PROVE  VisitsInv'
<1>a. PICK old : old = visitJob[j]
    OBVIOUS
<1>b. PICK a : a = old.appt
    OBVIOUS
<1>c. PICK new : new = [here |-> TRUE, status |-> AgendaStatus(old)]
    OBVIOUS
<1>0. /\ VisitsTypeOK /\ NamesItsOwn /\ Knows(old) /\ visitJob \in [VisitJobs -> VisitJob]
      /\ appointments \in [AppointmentIds -> Appointment] /\ loose \subseteq VisitIds
    BY <1>a, VisitTypes DEF VisitsInv
<1>1. /\ old.step = "saveAppointment" /\ visitJob' = [visitJob EXCEPT ![j] = IdleVisitJob]
      /\ appointments' = [appointments EXCEPT ![a] = new]
      /\ UNCHANGED <<visits, visitRequests, owner, loose>>
    BY <1>a, <1>b, <1>c DEF SaveAppointment, JobIs
<1>2. /\ old \in VisitJob /\ a \in AppointmentIds
      /\ IF old.visit = 0 THEN owner[a] \in loose ELSE owner[a] = old.visit
    BY <1>0, <1>1, <1>a, <1>b DEF Knows
<1>3. /\ new \in Appointment /\ new.here
      /\ IF old.asked = Keep THEN new.status = old.agenda.status
         ELSE new.status = AppointmentStatus[old.copy.status]
  <2>1. /\ old.copy.status \in VisitStatuses
        /\ old.agenda.status \in {AppointmentStatus[t] : t \in VisitStatuses}
    BY <1>2 DEF VisitJob, Visit, Appointment
  <2> QED BY <2>1, <1>c DEF AgendaStatus, Appointment
<1>4. /\ appointments' \in Seq(Appointment) /\ Len(appointments') = Len(appointments)
      /\ AppointmentIds' = AppointmentIds /\ VisitIds' = VisitIds /\ appointments'[a] = new
      /\ \A b \in AppointmentIds \ {a} : appointments'[b] = appointments[b]
      /\ HereAppointments' = HereAppointments \union {a}
  <2>1. /\ appointments' \in Seq(Appointment) /\ Len(appointments') = Len(appointments)
        /\ AppointmentIds' = AppointmentIds /\ appointments'[a] = new
        /\ \A b \in AppointmentIds \ {a} : appointments'[b] = appointments[b]
    BY <1>0, <1>1, <1>2, <1>3, AppointmentWritten
  <2> QED BY <2>1, <1>1, <1>2, <1>3 DEF HereAppointments, VisitIds
<1>5. /\ visitJob' \in [VisitJobs -> VisitJob] /\ visitJob'[j] = IdleVisitJob /\ Overlaps'
      /\ \A k \in VisitJobs \ {j} : Knows(visitJob[k])'
      /\ \A w : w # old.visit =>
            OnVisit(w)' = OnVisit(w) /\ \A k \in OnVisit(w) : visitJob'[k] = visitJob[k]
      /\ OnVisit(old.visit)' = OnVisit(old.visit) \ {j}
    BY <1>0, <1>1, <1>4, <1>a, IdleVisit, VisitJobSteps, ZenonT(40)
<1>6. VisitsTypeOK'
    BY <1>0, <1>1, <1>4, <1>5 DEF VisitsTypeOK, VisitJob
<1>7. NamesItsOwn'
    BY <1>0, <1>1, <1>4 DEF NamesItsOwn
<1>8. Knows(visitJob[j])'
    BY <1>5, IdleVisit DEF Knows
<1>9. ASSUME NEW w \in VisitIds' \ loose' PROVE Follows(w)'
  <2>0. w \in VisitIds \ loose /\ Follows(w) /\ w # 0
    BY <1>1, <1>4, <1>9 DEF VisitsInv, VisitIds
  <2>1. CASE w = old.visit
    <3>1. j \in OnVisit(w)
      BY <2>1, <1>1, <1>a DEF OnVisit
    <3>2. OnVisit(w) = {j} /\ AtWork(w, old)
      BY <3>1, <2>0, <1>a, AloneOn
    <3>3. /\ visits[w] = old.copy /\ a = old.copy.appt /\ Made(w) = {a}
          /\ new.status = AppointmentStatus[old.copy.status] /\ old.copy.here
      BY <3>2, <2>0, <2>1, <1>0, <1>1, <1>2, <1>3, <1>b DEF AtWork, Knows
    <3>4. Made(w)' = {a} /\ a # 0
      BY <3>3, <1>1, <1>2, <1>4 DEF Made, AppointmentIds
    <3>5. AtRest(w)'
      BY <3>3, <3>4, <1>1, <1>3, <1>4 DEF AtRest
    <3> QED BY <2>1, <3>2, <3>5, <1>5 DEF Follows
  <2>2. CASE w # old.visit
    <3>1. owner[a] # w
      BY <2>0, <2>2, <1>2
    <3>2. Made(w)' = Made(w) /\ \A b \in Made(w) : appointments'[b] = appointments[b]
      BY <3>1, <1>1, <1>4 DEF Made, HereAppointments
    <3> QED BY <3>2, <2>0, <2>2, <1>1, <1>5, StillFollows
  <2> QED BY <2>1, <2>2
<1> QED BY <1>5, <1>6, <1>7, <1>8, <1>9 DEF VisitsInv

LEMMA DeleteVisitKeeps ==
    ASSUME VisitsInv, NEW j \in VisitJobs, DeleteVisit(j)
    PROVE  VisitsInv'
<1>a. PICK old : old = visitJob[j]
    OBVIOUS
<1>b. PICK v : v = old.visit
    OBVIOUS
<1>c. PICK new : new = [visits[v] EXCEPT !.here = FALSE]
    OBVIOUS
<1>d. PICK job : job = IF old.appt = 0 THEN IdleVisitJob
                       ELSE [old EXCEPT !.step = "removeAppointment"]
    OBVIOUS
<1>0. /\ VisitsTypeOK /\ NamesItsOwn /\ Knows(old) /\ visitJob \in [VisitJobs -> VisitJob]
      /\ visits \in [VisitIds -> Visit] /\ loose \subseteq VisitIds
    BY <1>a, VisitTypes DEF VisitsInv
<1>1. /\ old.step = "remove" /\ visitJob' = [visitJob EXCEPT ![j] = job]
      /\ visits' = [visits EXCEPT ![v].here = FALSE]
      /\ UNCHANGED <<appointments, visitRequests, owner, loose>>
    BY <1>a, <1>b, <1>d DEF DeleteVisit, JobIs
<1>2. /\ old \in VisitJob /\ v \in VisitIds /\ v # 0 /\ old.copy.here
      /\ old.appt # 0 => old.appt \in AppointmentIds /\ owner[old.appt] = v
    BY <1>0, <1>1, <1>a, <1>b DEF Knows, VisitIds
<1>3. new \in Visit /\ ~new.here /\ new.appt = visits[v].appt
    BY <1>0, <1>2, <1>c DEF Visit
<1>4. /\ job \in VisitJob
      /\ IF old.appt = 0 THEN job = IdleVisitJob
         ELSE job.step = "removeAppointment" /\ job.visit = v /\ job.appt = old.appt
              /\ job.copy = old.copy
    BY <1>2, <1>b, <1>d, IdleVisit DEF VisitJob
<1>5. /\ visits' \in Seq(Visit) /\ Len(visits') = Len(visits) /\ VisitIds' = VisitIds
      /\ \A w \in VisitIds \ {v} : visits'[w] = visits[w]
      /\ visits'[v] = new /\ AppointmentIds' = AppointmentIds
      /\ HereAppointments' = HereAppointments
  <2>1. visits' = [visits EXCEPT ![v] = new]
    BY <1>0, <1>1, <1>2, <1>c
  <2> QED BY <2>1, <1>0, <1>1, <1>2, <1>3, VisitWritten DEF HereAppointments, AppointmentIds
<1>6. /\ visitJob' \in [VisitJobs -> VisitJob] /\ visitJob'[j] = job /\ Overlaps'
      /\ \A k \in VisitJobs \ {j} : Knows(visitJob[k])'
      /\ \A w : w # v =>
            OnVisit(w)' = OnVisit(w) /\ \A k \in OnVisit(w) : visitJob'[k] = visitJob[k]
      /\ OnVisit(v)' = IF job.step = "idle" THEN OnVisit(v) \ {j} ELSE OnVisit(v)
  <2>1. job.step = "idle" \/ job.visit = v
    BY <1>4, IdleVisit
  <2>2. /\ VisitIds \subseteq VisitIds' /\ AppointmentIds \subseteq AppointmentIds'
        /\ \A a \in AppointmentIds : owner'[a] = owner[a]
        /\ loose \subseteq loose' /\ visitJob[j].step # "idle" /\ v = visitJob[j].visit
        /\ visitJob' = [visitJob EXCEPT ![j] = job] /\ job \in VisitJob
    BY <1>1, <1>4, <1>5, <1>a, <1>b
  <2> QED BY <2>1, <2>2, VisitJobSteps
<1>7. VisitsTypeOK'
    BY <1>0, <1>1, <1>5, <1>6 DEF VisitsTypeOK, VisitJob
<1>8. NamesItsOwn'
    BY <1>0, <1>1, <1>3, <1>5 DEF NamesItsOwn
<1>9. Knows(visitJob[j])'
    BY <1>0, <1>1, <1>2, <1>4, <1>5, <1>6, IdleVisit DEF Knows
<1>10. ASSUME NEW w \in VisitIds' \ loose' PROVE Follows(w)'
  <2>0. w \in VisitIds \ loose /\ Follows(w) /\ Made(w)' = Made(w)
    BY <1>1, <1>5, <1>10 DEF VisitsInv, Made
  <2>1. CASE w = v
    <3>1. j \in OnVisit(v)
      BY <1>1, <1>a, <1>b DEF OnVisit
    <3>2. OnVisit(v) = {j} /\ AtWork(v, old)
      BY <3>1, <2>0, <2>1, <1>a, AloneOn
    <3>3. old.appt # 0 /\ Made(v) = {old.appt}
      BY <3>2, <1>0, <1>1, <1>2 DEF AtWork, AtRest, Knows
    <3>4. AtWork(v, job)'
      BY <3>3, <2>0, <2>1, <1>3, <1>4, <1>5 DEF AtWork
    <3> QED BY <2>1, <3>2, <3>3, <3>4, <1>4, <1>6 DEF Follows
  <2>2. CASE w # v
    BY <2>0, <2>2, <1>1, <1>5, <1>6, StillFollows
  <2> QED BY <2>1, <2>2
<1> QED BY <1>6, <1>7, <1>8, <1>9, <1>10 DEF VisitsInv

(* An appointment goes: only the visit it was made for may lose its link. *)
LEMMA AppointmentGoes ==
    ASSUME VisitsInv, NEW a \in AppointmentIds,
           appointments' = [appointments EXCEPT ![a].here = FALSE], visits' = Unlinked(a),
           UNCHANGED owner
    PROVE  /\ appointments' \in Seq(Appointment) /\ Len(appointments') = Len(appointments)
           /\ visits' \in Seq(Visit) /\ Len(visits') = Len(visits) /\ VisitIds' = VisitIds
           /\ AppointmentIds' = AppointmentIds /\ HereAppointments' = HereAppointments \ {a}
           /\ NamesItsOwn'
           /\ \A v \in VisitIds : visits'[v].here = visits[v].here
           /\ \A v : Made(v)' = Made(v) \ {a}
           /\ \A v \in VisitIds : v # owner[a] =>
                 /\ visits'[v] = visits[v] /\ Made(v)' = Made(v)
                 /\ \A b \in Made(v) : appointments'[b] = appointments[b]
<1>0. /\ VisitsTypeOK /\ NamesItsOwn /\ appointments \in [AppointmentIds -> Appointment]
    BY VisitTypes DEF VisitsInv
<1>a. PICK new : new = [appointments[a] EXCEPT !.here = FALSE]
    OBVIOUS
<1>1. new \in Appointment /\ ~new.here
    BY <1>0, <1>a DEF Appointment
<1>2. appointments' = [appointments EXCEPT ![a] = new]
    BY <1>0, <1>a
<1>3. /\ appointments' \in Seq(Appointment) /\ Len(appointments') = Len(appointments)
      /\ AppointmentIds' = AppointmentIds /\ appointments'[a] = new
      /\ \A b \in AppointmentIds \ {a} : appointments'[b] = appointments[b]
    BY <1>0, <1>1, <1>2, AppointmentWritten
<1>4. HereAppointments' = HereAppointments \ {a}
    BY <1>1, <1>3 DEF HereAppointments
<1>5. /\ visits' \in Seq(Visit) /\ Len(visits') = Len(visits) /\ VisitIds' = VisitIds
      /\ \A v \in VisitIds :
            /\ visits'[v].here = visits[v].here /\ visits'[v].appt # a
            /\ visits'[v].appt \in {0, visits[v].appt}
            /\ v # owner[a] => visits'[v] = visits[v]
    BY <1>0, Unlinking
<1>6. NamesItsOwn'
    BY <1>0, <1>4, <1>5 DEF NamesItsOwn
<1>7. \A v : Made(v)' = Made(v) \ {a}
    BY <1>4 DEF Made
<1>8. \A v : v # owner[a] => a \notin Made(v)
    BY DEF Made
<1>9. \A v : Made(v) \subseteq AppointmentIds
    BY DEF Made, HereAppointments
<1> QED BY <1>3, <1>4, <1>5, <1>6, <1>7, <1>8, <1>9

LEMMA DeleteAppointmentKeeps ==
    ASSUME VisitsInv, NEW j \in VisitJobs, DeleteAppointment(j)
    PROVE  VisitsInv'
<1>a. PICK old : old = visitJob[j]
    OBVIOUS
<1>b. PICK v : v = old.visit
    OBVIOUS
<1>c. PICK a : a = old.appt
    OBVIOUS
<1>0. /\ VisitsTypeOK /\ NamesItsOwn /\ Knows(old) /\ visitJob \in [VisitJobs -> VisitJob]
    BY <1>a, VisitTypes DEF VisitsInv
<1>1. /\ old.step = "removeAppointment" /\ visitJob' = [visitJob EXCEPT ![j] = IdleVisitJob]
      /\ appointments' = [appointments EXCEPT ![a].here = FALSE] /\ visits' = Unlinked(a)
      /\ UNCHANGED <<visitRequests, owner, loose>>
    BY <1>a, <1>c DEF DeleteAppointment, JobIs
<1>2. v \in VisitIds /\ a \in AppointmentIds /\ owner[a] = v
    BY <1>0, <1>1, <1>b, <1>c DEF Knows
<1>3. /\ appointments' \in Seq(Appointment) /\ Len(appointments') = Len(appointments)
      /\ visits' \in Seq(Visit) /\ Len(visits') = Len(visits) /\ VisitIds' = VisitIds
      /\ AppointmentIds' = AppointmentIds /\ NamesItsOwn'
      /\ \A w \in VisitIds : visits'[w].here = visits[w].here
      /\ \A w : Made(w)' = Made(w) \ {a}
      /\ \A w \in VisitIds : w # v =>
            /\ visits'[w] = visits[w] /\ Made(w)' = Made(w)
            /\ \A b \in Made(w) : appointments'[b] = appointments[b]
    BY <1>1, <1>2, AppointmentGoes
<1>4. /\ visitJob' \in [VisitJobs -> VisitJob] /\ visitJob'[j] = IdleVisitJob /\ Overlaps'
      /\ \A k \in VisitJobs \ {j} : Knows(visitJob[k])'
      /\ \A w : w # v =>
            OnVisit(w)' = OnVisit(w) /\ \A k \in OnVisit(w) : visitJob'[k] = visitJob[k]
      /\ OnVisit(v)' = OnVisit(v) \ {j}
  <2>2. /\ VisitIds \subseteq VisitIds' /\ AppointmentIds \subseteq AppointmentIds'
        /\ \A b \in AppointmentIds : owner'[b] = owner[b]
        /\ loose \subseteq loose' /\ visitJob[j].step # "idle" /\ v = visitJob[j].visit
        /\ visitJob' = [visitJob EXCEPT ![j] = IdleVisitJob]
    BY <1>1, <1>3, <1>a, <1>b
  <2> QED BY <2>2, IdleVisit, VisitJobSteps
<1>5. VisitsTypeOK'
    BY <1>0, <1>1, <1>3, <1>4 DEF VisitsTypeOK, VisitJob
<1>6. Knows(visitJob[j])'
    BY <1>4, IdleVisit DEF Knows
<1>7. ASSUME NEW w \in VisitIds' \ loose' PROVE Follows(w)'
  <2>0. w \in VisitIds \ loose /\ Follows(w)
    BY <1>1, <1>3, <1>7 DEF VisitsInv
  <2>1. CASE w = v
    <3>1. j \in OnVisit(v)
      BY <1>1, <1>a, <1>b DEF OnVisit
    <3>2. OnVisit(v) = {j} /\ AtWork(v, old)
      BY <3>1, <2>0, <2>1, <1>a, AloneOn
    <3>3. ~visits'[v].here /\ Made(v)' = {}
      BY <3>2, <1>1, <1>2, <1>3, <1>c DEF AtWork
    <3> QED BY <2>1, <3>2, <3>3, <1>4 DEF Follows, AtRest
  <2>2. CASE w # v
    BY <2>0, <2>2, <1>3, <1>4, StillFollows
  <2> QED BY <2>1, <2>2
<1> QED BY <1>3, <1>4, <1>5, <1>6, <1>7 DEF VisitsInv

LEMMA VisitJobDiesKeeps ==
    ASSUME VisitsInv, NEW j \in VisitJobs, VisitJobDies(j)
    PROVE  VisitsInv'
<1>a. PICK v : v = visitJob[j].visit
    OBVIOUS
<1>0. /\ VisitsTypeOK /\ NamesItsOwn /\ Knows(visitJob[j]) /\ loose \subseteq VisitIds
      /\ visitJob \in [VisitJobs -> VisitJob]
    BY VisitTypes DEF VisitsInv
<1>1. /\ visitJob[j].step # "idle" /\ visitJob' = [visitJob EXCEPT ![j] = IdleVisitJob]
      /\ loose' = loose \union ({v} \ {0})
      /\ UNCHANGED <<visits, appointments, visitRequests, owner>>
    BY <1>a DEF VisitJobDies, JobIs
<1>2. v = 0 \/ v \in VisitIds
    BY <1>0, <1>1, <1>a DEF Knows
<1>3. /\ VisitIds' = VisitIds /\ AppointmentIds' = AppointmentIds
      /\ HereAppointments' = HereAppointments
    BY <1>1 DEF VisitIds, AppointmentIds, HereAppointments
<1>4. /\ visitJob' \in [VisitJobs -> VisitJob] /\ visitJob'[j] = IdleVisitJob /\ Overlaps'
      /\ \A k \in VisitJobs \ {j} : Knows(visitJob[k])'
      /\ \A w : w # v =>
            OnVisit(w)' = OnVisit(w) /\ \A k \in OnVisit(w) : visitJob'[k] = visitJob[k]
    BY <1>1, <1>3, <1>a, IdleVisit, VisitJobSteps
<1>5. VisitsTypeOK'
    BY <1>0, <1>1, <1>2, <1>3, <1>4 DEF VisitsTypeOK, VisitJob
<1>6. NamesItsOwn'
    BY <1>0, <1>1, <1>3 DEF NamesItsOwn
<1>7. Knows(visitJob[j])'
    BY <1>4, IdleVisit DEF Knows
<1>8. ASSUME NEW w \in VisitIds' \ loose' PROVE Follows(w)'
  <2>1. w \in VisitIds \ loose /\ w # v /\ Follows(w) /\ Made(w)' = Made(w)
    BY <1>1, <1>3, <1>8 DEF VisitsInv, Made, VisitIds
  <2> QED BY <2>1, <1>1, <1>4, StillFollows
<1> QED BY <1>4, <1>5, <1>6, <1>7, <1>8 DEF VisitsInv

-----------------------------------------------------------------------------
(* the agenda *)

LEMMA EditAgendaKeeps ==
    ASSUME VisitsInv, NEW j \in VisitJobs, NEW a \in AppointmentIds, NEW s \in AskedStatuses,
           EditAgenda(j, a, s)
    PROVE  VisitsInv'
<1>a. PICK new : new = [NewVisit EXCEPT !.status = s]
    OBVIOUS
<1>b. PICK job : job = [IdleVisitJob EXCEPT !.step = "saveAppointment", !.asked = s, !.appt = a,
                          !.copy = new, !.agenda = appointments[a]]
    OBVIOUS
<1>0. /\ VisitsTypeOK /\ NamesItsOwn /\ Overlaps /\ \A k \in VisitJobs : Knows(visitJob[k])
      /\ visitJob \in [VisitJobs -> VisitJob] /\ loose \subseteq VisitIds
      /\ appointments \in [AppointmentIds -> Appointment]
      /\ owner \in [AppointmentIds -> VisitIds] /\ Len(appointments) \in Nat
      /\ Len(appointments) <= MaxAppointments /\ MaxAppointments \in Nat
      /\ visitRequests \in 0 .. MaxVisitRequests /\ MaxVisitRequests \in Nat
    BY VisitTypes, VisitsAssumption DEF VisitsInv, VisitsTypeOK
<1>1. /\ a \in HereAppointments /\ visitJob[j].step = "idle"
      /\ visitRequests < MaxVisitRequests /\ visitRequests' = visitRequests + 1
      /\ visitJob' = [visitJob EXCEPT ![j] = job] /\ loose' = loose \union {owner[a]}
      /\ UNCHANGED <<visits, appointments, owner>>
    BY <1>a, <1>b DEF EditAgenda, JobIs
<1>2. /\ job \in VisitJob /\ job.step = "saveAppointment" /\ job.visit = 0 /\ job.appt = a
      /\ job.copy.here
  <2>1. new \in Visit /\ new.here
    BY <1>a, StatusTypes, VisitsAssumption DEF NewVisit, Visit
  <2>2. job = [step |-> "saveAppointment", visit |-> 0, copy |-> new, asked |-> s, appt |-> a,
               agenda |-> appointments[a]]
    BY <1>b DEF IdleVisitJob
  <2>3. a \in 0 .. MaxAppointments /\ 0 \in 0 .. MaxVisits /\ appointments[a] \in Appointment
    BY <1>0, VisitsAssumption DEF AppointmentIds
  <2> QED BY <2>1, <2>2, <2>3, StatusTypes, VisitsAssumption DEF VisitJob
<1>3. /\ VisitIds' = VisitIds /\ AppointmentIds' = AppointmentIds
      /\ HereAppointments' = HereAppointments /\ owner[a] \in VisitIds
    BY <1>0, <1>1 DEF VisitIds, AppointmentIds, HereAppointments
<1>4. /\ visitJob' \in [VisitJobs -> VisitJob] /\ visitJob'[j] = job
      /\ \A k \in VisitJobs \ {j} : visitJob'[k] = visitJob[k]
    BY <1>0, <1>1, <1>2, VisitJobMoves
<1>5. VisitsTypeOK'
    BY <1>0, <1>1, <1>3, <1>4 DEF VisitsTypeOK, VisitJob
<1>6. NamesItsOwn' /\ Overlaps'
    BY <1>0, <1>1, <1>2, <1>3, <1>4 DEF NamesItsOwn, Overlaps
<1>7. \A k \in VisitJobs \ {j} : Knows(visitJob[k])'
    BY <1>0, <1>1, <1>3, <1>4, StillKnows
<1>8. Knows(visitJob[j])'
    BY <1>1, <1>2, <1>3, <1>4 DEF Knows
<1>9. ASSUME NEW w \in VisitIds' \ loose' PROVE Follows(w)'
  <2>1. w \in VisitIds \ loose /\ w # 0 /\ Follows(w) /\ Made(w)' = Made(w)
    BY <1>1, <1>3, <1>9 DEF VisitsInv, Made, VisitIds
  <2>2. OnVisit(w)' = OnVisit(w) /\ \A k \in OnVisit(w) : visitJob'[k] = visitJob[k]
    BY <2>1, <1>1, <1>2, <1>4 DEF OnVisit
  <2> QED BY <2>1, <2>2, <1>1, StillFollows
<1> QED BY <1>4, <1>5, <1>6, <1>7, <1>8, <1>9 DEF VisitsInv

LEMMA RemoveFromAgendaKeeps ==
    ASSUME VisitsInv, NEW a \in AppointmentIds, RemoveFromAgenda(a)
    PROVE  VisitsInv'
<1>0. /\ VisitsTypeOK /\ NamesItsOwn /\ Overlaps /\ \A k \in VisitJobs : Knows(visitJob[k])
      /\ loose \subseteq VisitIds /\ owner \in [AppointmentIds -> VisitIds]
      /\ visitRequests \in 0 .. MaxVisitRequests /\ MaxVisitRequests \in Nat
    BY VisitTypes, VisitsAssumption DEF VisitsInv, VisitsTypeOK
<1>1. /\ visitRequests < MaxVisitRequests /\ visitRequests' = visitRequests + 1
      /\ appointments' = [appointments EXCEPT ![a].here = FALSE] /\ visits' = Unlinked(a)
      /\ loose' = loose \union {owner[a]} /\ UNCHANGED <<visitJob, owner>>
    BY DEF RemoveFromAgenda
<1>2. /\ appointments' \in Seq(Appointment) /\ Len(appointments') = Len(appointments)
      /\ visits' \in Seq(Visit) /\ Len(visits') = Len(visits) /\ VisitIds' = VisitIds
      /\ AppointmentIds' = AppointmentIds /\ NamesItsOwn'
      /\ \A w \in VisitIds : w # owner[a] =>
            /\ visits'[w] = visits[w] /\ Made(w)' = Made(w)
            /\ \A b \in Made(w) : appointments'[b] = appointments[b]
    BY <1>1, AppointmentGoes
<1>3. VisitsTypeOK'
    BY <1>0, <1>1, <1>2 DEF VisitsTypeOK
<1>4. Overlaps'
    BY <1>0, <1>1 DEF Overlaps
<1>5. \A k \in VisitJobs : Knows(visitJob[k])'
    BY <1>0, <1>1, <1>2, StillKnows
<1>6. ASSUME NEW w \in VisitIds' \ loose' PROVE Follows(w)'
  <2>1. w \in VisitIds \ loose /\ w # owner[a] /\ Follows(w)
    BY <1>1, <1>2, <1>6 DEF VisitsInv
  <2>2. OnVisit(w)' = OnVisit(w) /\ \A k \in OnVisit(w) : visitJob'[k] = visitJob[k]
    BY <1>1 DEF OnVisit
  <2> QED BY <2>1, <2>2, <1>2, StillFollows
<1> QED BY <1>2, <1>3, <1>4, <1>5, <1>6 DEF VisitsInv

-----------------------------------------------------------------------------
(* The invariant, and what the run checks of it. *)

LEMMA VisitsInitInv == VisitsInit => VisitsInv
<1> SUFFICES ASSUME VisitsInit PROVE VisitsInv
    OBVIOUS
<1>1. /\ visits = <<>> /\ appointments = <<>> /\ owner = <<>> /\ loose = {} /\ visitRequests = 0
      /\ visitJob = [j \in VisitJobs |-> IdleVisitJob]
    BY DEF VisitsInit
<1>2. VisitIds = {} /\ AppointmentIds = {}
    BY <1>1 DEF VisitIds, AppointmentIds
<1>3. VisitsTypeOK
    BY <1>1, <1>2, IdleVisit, EmptySeq, VisitsAssumption DEF VisitsTypeOK, VisitJob
<1>4. NamesItsOwn /\ Overlaps /\ \A j \in VisitJobs : Knows(visitJob[j])
    BY <1>1, <1>2, IdleVisit DEF NamesItsOwn, Overlaps, Knows
<1> QED BY <1>2, <1>3, <1>4 DEF VisitsInv

LEMMA VisitsStutters == ASSUME VisitsInv, UNCHANGED visitVars PROVE VisitsInv'
<1>1. UNCHANGED <<visits, appointments, visitJob, visitRequests, owner, loose>>
    BY DEF visitVars
<1>2. /\ VisitIds' = VisitIds /\ AppointmentIds' = AppointmentIds
      /\ HereAppointments' = HereAppointments
    BY <1>1 DEF VisitIds, AppointmentIds, HereAppointments
<1>3. VisitsTypeOK' /\ NamesItsOwn' /\ Overlaps'
    BY <1>1, <1>2 DEF VisitsInv, VisitsTypeOK, NamesItsOwn, Overlaps
<1>4. \A k \in VisitJobs : Knows(visitJob[k])'
    BY <1>1, <1>2, StillKnows DEF VisitsInv
<1>5. ASSUME NEW w \in VisitIds' \ loose' PROVE Follows(w)'
  <2>1. Follows(w) /\ Made(w)' = Made(w) /\ OnVisit(w)' = OnVisit(w)
    BY <1>1, <1>2, <1>5 DEF VisitsInv, Made, OnVisit
  <2> QED BY <2>1, <1>1, StillFollows
<1> QED BY <1>3, <1>4, <1>5 DEF VisitsInv

LEMMA VisitsInvStep == ASSUME VisitsInv, [VisitsNext]_visitVars PROVE VisitsInv'
<1>1. CASE UNCHANGED visitVars
    BY <1>1, VisitsStutters
<1>2. ASSUME NEW a \in AppointmentIds, RemoveFromAgenda(a) PROVE VisitsInv'
    BY <1>2, RemoveFromAgendaKeeps
<1>3. ASSUME NEW j \in VisitJobs,
             \/ CreateAppointment(j) \/ LinkVisit(j) \/ SaveVisit(j) \/ FindAppointment(j)
             \/ SaveAppointment(j) \/ DeleteVisit(j) \/ DeleteAppointment(j) \/ VisitJobDies(j)
      PROVE  VisitsInv'
    BY <1>3, CreateAppointmentKeeps, LinkVisitKeeps, SaveVisitKeeps, FindAppointmentKeeps,
       SaveAppointmentKeeps, DeleteVisitKeeps, DeleteAppointmentKeeps, VisitJobDiesKeeps
<1>4. ASSUME NEW j \in VisitJobs, NEW s \in AskedStatuses, CreateVisit(j, s) PROVE VisitsInv'
    BY <1>4, CreateVisitKeeps
<1>5. ASSUME NEW j \in VisitJobs, NEW v \in VisitIds,
             NEW asked \in AskedStatuses \union {Keep}, UpdateVisit(j, v, asked)
      PROVE  VisitsInv'
    BY <1>5, UpdateOrRemoveKeeps
<1>6. ASSUME NEW j \in VisitJobs, NEW v \in VisitIds, RemoveVisit(j, v) PROVE VisitsInv'
    BY <1>6, UpdateOrRemoveKeeps
<1>7. ASSUME NEW j \in VisitJobs, NEW a \in AppointmentIds, NEW s \in AskedStatuses,
             EditAgenda(j, a, s)
      PROVE  VisitsInv'
    BY <1>7, EditAgendaKeeps
<1> QED BY <1>1, <1>2, <1>3, <1>4, <1>5, <1>6, <1>7 DEF VisitsNext

LEMMA VisitsInvMeans == VisitsInv => VisitsInStep
<1> SUFFICES ASSUME VisitsInv PROVE VisitsInStep
    OBVIOUS
<1>0. /\ NamesItsOwn /\ owner \in [AppointmentIds -> VisitIds]
      /\ \A v \in VisitIds \ loose : Follows(v)
    BY VisitTypes DEF VisitsInv
<1>1. OneVisitEach
    BY <1>0 DEF NamesItsOwn, OneVisitEach, HereVisits
<1>2. InStep
  <2> SUFFICES ASSUME NEW v \in HereVisits \ loose, OnVisit(v) = {}
               PROVE  /\ visits[v].appt \in HereAppointments
                      /\ appointments[visits[v].appt].status = AppointmentStatus[visits[v].status]
    BY DEF InStep
  <2>1. v \in VisitIds \ loose /\ visits[v].here
    BY DEF HereVisits
  <2>2. AtRest(v)
    BY <2>1, <1>0 DEF Follows
  <2> QED BY <2>1, <2>2 DEF AtRest, Made
<1>3. NoneLeft
  <2> SUFFICES ASSUME NEW a \in HereAppointments, owner[a] \notin loose, OnVisit(owner[a]) = {}
               PROVE  \E v \in HereVisits : visits[v].appt = a
    BY DEF NoneLeft
  <2>1. owner[a] \in VisitIds \ loose /\ a \in Made(owner[a])
    BY <1>0 DEF HereAppointments, Made
  <2>2. AtRest(owner[a])
    BY <2>1, <1>0 DEF Follows
  <2> QED BY <2>1, <2>2 DEF AtRest, HereVisits
<1> QED BY <1>1, <1>2, <1>3 DEF VisitsInStep

(***************************************************************************)
(* The requests about visits keep the inductive invariant: whatever        *)
(* overlaps or dies, what each request holds of its visit and of an        *)
(* appointment stays what it was, or the visit is loose.                   *)
(***************************************************************************)
THEOREM VisitsInvHolds == VisitsSpec => []VisitsInv
<1>1. VisitsInv /\ [VisitsNext]_visitVars => VisitsInv'
    BY VisitsInvStep
<1> QED BY <1>1, VisitsInitInv, PTL DEF VisitsSpec

(* Visits and their appointments keep in step (VisitsService, AppointmentsService). *)
THEOREM VisitsKeepInStep == VisitsSpec => []VisitsInStep
  BY VisitsInvHolds, VisitsInvMeans, PTL

-----------------------------------------------------------------------------
(* CabinetDesk.tla *)

(* The visits of the last days are finitely many. *)
LEMMA SinceIs ==
    ASSUME DeskTypeOK, NEW days \in Int
    PROVE  /\ Since(days) \in SUBSET (1 .. Len(deskVisits)) /\ IsFiniteSet(Since(days))
           /\ Cardinality(Since(days)) \in 0 .. MaxDeskVisits
           /\ Len(deskVisits) \in Nat /\ DOMAIN deskVisits = 1 .. Len(deskVisits)
           /\ \A v \in DOMAIN deskVisits : deskVisits[v] \in DeskVisit /\ deskVisits[v].day \in Int
<1>1. deskVisits \in Seq(DeskVisit) /\ Len(deskVisits) <= MaxDeskVisits
    BY DEF DeskTypeOK
<1>2. Len(deskVisits) \in Nat /\ DOMAIN deskVisits = 1 .. Len(deskVisits)
    BY <1>1
<1>3. Since(days) \in SUBSET (1 .. Len(deskVisits))
    BY <1>2 DEF Since, DeskIds
<1>4. IsFiniteSet(1 .. Len(deskVisits)) /\ Cardinality(1 .. Len(deskVisits)) = Len(deskVisits)
  <2>1. PICK n \in Nat : n = Len(deskVisits)
    BY <1>2
  <2>2. IsFiniteSet(1 .. n) /\ Cardinality(1 .. n) = n
    BY FS_Interval
  <2> QED BY <2>1, <2>2
<1>5. /\ IsFiniteSet(Since(days)) /\ Cardinality(Since(days)) \in Nat
      /\ Cardinality(Since(days)) <= Len(deskVisits)
    BY <1>3, <1>4, FS_Subset, FS_CardinalityType
<1>6. \A v \in DOMAIN deskVisits : deskVisits[v] \in DeskVisit
    BY <1>1, <1>2
<1>7. \A v \in DOMAIN deskVisits : deskVisits[v].day \in Int
    BY <1>6, CabinetDeskAssumption DEF DeskVisit
<1> QED BY <1>1, <1>2, <1>3, <1>5, <1>6, <1>7, CabinetDeskAssumption

(* The names on top have no more visits than there are, and all of them when there are  *)
(* five at most: each group counts the visits that it is of.                            *)
LEMMA TopIs ==
    ASSUME DeskTypeOK, NEW top \in TopVisitors
    PROVE  /\ Total([g \in top |-> g.count]) \in Nat
           /\ Total([g \in top |-> g.count]) <= Cardinality(Since(30))
           /\ MaxDeskVisits <= 5 => Total([g \in top |-> g.count]) = Cardinality(Since(30))
<1>1. PICK month : month = Since(30)
    OBVIOUS
<1>2. IsFiniteSet(month) /\ Cardinality(month) \in 0 .. MaxDeskVisits
    BY <1>1, SinceIs
<1>3. PICK same : same = [v \in month |-> {w \in month : /\ TopName(w) = TopName(v)
                             /\ (deskVisits[w].voter # NoOne) = (deskVisits[v].voter # NoOne)}]
    OBVIOUS
<1>4. PICK of : of = [v \in month |-> [name |-> TopName(v),
                         isVoter |-> deskVisits[v].voter # NoOne,
                         count |-> Cardinality(same[v])]]
    OBVIOUS
<1>5. Groups = {of[v] : v \in month}
    BY <1>1, <1>3, <1>4 DEF Groups
<1>6. \A v \in month : \A w \in month : of[w] = of[v] <=> w \in same[v]
  <2>1. SUFFICES ASSUME NEW v \in month, NEW w \in month PROVE of[w] = of[v] <=> w \in same[v]
    OBVIOUS
  <2>2. ASSUME of[w] = of[v] PROVE w \in same[v]
    <3>1. of[w].name = of[v].name /\ of[w].isVoter = of[v].isVoter
      BY <2>2
    <3> QED BY <1>3, <1>4, <3>1
  <2>3. ASSUME w \in same[v] PROVE of[w] = of[v]
    <3>1. /\ TopName(w) = TopName(v)
          /\ (deskVisits[w].voter # NoOne) = (deskVisits[v].voter # NoOne)
      BY <1>3, <2>3
    <3>2. same[w] = same[v]
      BY <1>3, <3>1
    <3> QED BY <1>4, <3>1, <3>2
  <2> QED BY <2>2, <2>3
<1>7. top \in SUBSET Groups
    BY DEF TopVisitors
<1>8. \A g \in top : g.count = Cardinality({v \in month : of[v] = g})
  <2>1. SUFFICES ASSUME NEW g \in top PROVE g.count = Cardinality({v \in month : of[v] = g})
    OBVIOUS
  <2>2. PICK v \in month : g = of[v]
    BY <1>5, <1>7
  <2>3. {w \in month : of[w] = g} = same[v]
    BY <1>3, <1>6, <2>2
  <2> QED BY <1>4, <2>2, <2>3
<1>9. PICK f : f = [g \in top |-> g.count]
    OBVIOUS
<1>10. f = [g \in top |-> Cardinality({v \in month : of[v] = g})]
    BY <1>8, <1>9
<1>11. /\ Total(f) = Cardinality({v \in month : of[v] \in top})
       /\ Total(f) \in Nat /\ Total(f) <= Cardinality(month)
  <2>1. IsFiniteSet(month)
    BY <1>2
  <2>2. ASSUME NEW D, NEW c, f = [d \in D |-> Cardinality({r \in month : c[r] = d})]
        PROVE  /\ Total(f) = Cardinality({r \in month : c[r] \in D})
               /\ Total(f) \in Nat /\ Total(f) <= Cardinality(month)
    BY ONLY <2>1, <2>2, CountsOfSome
  <2> QED BY ONLY <1>10, <2>2
<1>12. ASSUME MaxDeskVisits <= 5 PROVE Total(f) = Cardinality(month)
  <2>1. of \in Surjection(month, Groups)
    BY <1>4, <1>5 DEF Surjection
  <2>2. IsFiniteSet(Groups) /\ Cardinality(Groups) <= Cardinality(month)
    BY <1>2, <2>1, FS_Surjection
  <2>3. Cardinality(Groups) \in Nat /\ ~(Cardinality(Groups) > 5)
    BY <1>2, <1>12, <2>2, FS_CardinalityType, CabinetDeskAssumption
  <2>4. Cardinality(top) = Cardinality(Groups)
    BY <2>3 DEF TopVisitors
  <2>5. top = Groups
    BY <1>7, <2>2, <2>4, FS_Subset
  <2>6. {v \in month : of[v] \in top} = month
    BY <1>5, <2>5
  <2> QED BY <1>11, <2>6
<1> QED BY <1>1, <1>9, <1>11, <1>12

(* The days have all the visits of the month. *)
LEMMA DailyIs ==
    ASSUME DeskTypeOK
    PROVE  Total([d \in VisitDays |-> Cardinality({v \in Since(30) : deskVisits[v].day = d})])
              = Cardinality(Since(30))
<1>1. PICK month : month = Since(30)
    OBVIOUS
<1>2. IsFiniteSet(month)
    BY <1>1, SinceIs
<1>3. PICK of : of = [v \in month |-> deskVisits[v].day]
    OBVIOUS
<1>4. \A v \in month : of[v] \in VisitDays
  <2>1. PICK days \in Int : days = 30
    OBVIOUS
  <2>2. /\ Since(days) \in SUBSET (1 .. Len(deskVisits))
        /\ DOMAIN deskVisits = 1 .. Len(deskVisits)
        /\ \A v \in DOMAIN deskVisits : deskVisits[v] \in DeskVisit
    BY SinceIs
  <2>3. \A v \in month : v \in DOMAIN deskVisits
    BY <1>1, <2>1, <2>2
  <2> QED BY <1>3, <2>2, <2>3 DEF DeskVisit
<1>5. \A d \in VisitDays : {v \in month : deskVisits[v].day = d} = {v \in month : of[v] = d}
    BY <1>3
<1>6. PICK f : f = [d \in VisitDays |-> Cardinality({v \in month : deskVisits[v].day = d})]
    OBVIOUS
<1>7. f = [d \in VisitDays |-> Cardinality({v \in month : of[v] = d})]
    BY <1>5, <1>6
<1>8. Total(f) = Cardinality(month)
    BY <1>2, <1>4, <1>7, CountsAddUp
<1> QED BY <1>1, <1>6, <1>8

(* What the queries may answer, against the visits of the week and of the month. *)
LEMMA ResultsAre ==
    ASSUME DeskTypeOK, NEW q \in BoardQueries, NEW n \in QueryResults(q)
    PROVE  /\ n \in 0 .. MaxDeskVisits + Cardinality(Visitors)
           /\ q # "visitors" => n <= Cardinality(Since(30))
           /\ q \in {"last30", "daily"} => n = Cardinality(Since(30))
           /\ q = "top" /\ MaxDeskVisits <= 5 => n = Cardinality(Since(30))
           /\ q = "today" => n <= Cardinality(Since(7))
           /\ q = "last7" => n = Cardinality(Since(7))
<1>1. PICK m, w : m = Cardinality(Since(30)) /\ w = Cardinality(Since(7))
    OBVIOUS
<1>2. PICK c : c = Cardinality(Visitors)
    OBVIOUS
<1>3. c \in Nat /\ MaxDeskVisits \in Nat /\ m \in 0 .. MaxDeskVisits /\ w \in 0 .. MaxDeskVisits
    BY <1>1, <1>2, SinceIs, FS_CardinalityType, CabinetDeskAssumption
<1>4. IsFiniteSet(Since(30)) /\ IsFiniteSet(Since(7)) /\ Today \in Int
    BY SinceIs, CabinetDeskAssumption
<1>5. Since(0) \in SUBSET Since(7) /\ Since(7) \in SUBSET Since(30)
  <2>1. \A v \in DeskIds : deskVisits[v].day \in Int
    BY SinceIs DEF DeskIds
  <2> QED BY <1>4, <2>1 DEF Since
<1>6. /\ Cardinality(Since(0)) \in Nat /\ Cardinality(Since(0)) <= w /\ w <= m
    BY <1>1, <1>4, <1>5, FS_Subset, FS_CardinalityType
<1>7. CASE q = "today"
  <2>1. n = Cardinality(Since(0))
    BY <1>7 DEF QueryResults
  <2> QED BY <1>1, <1>2, <1>3, <1>6, <1>7, <2>1
<1>8. CASE q = "last7"
  <2>1. n = w
    BY <1>1, <1>8 DEF QueryResults
  <2> QED BY <1>1, <1>2, <1>3, <1>6, <1>8, <2>1
<1>9. CASE q = "last30"
  <2>1. n = m
    BY <1>1, <1>9 DEF QueryResults
  <2> QED BY <1>1, <1>2, <1>3, <1>9, <2>1
<1>10. CASE q = "visitors"
  <2>1. PICK here : here = {v \in Visitors : visitorRow[v].here}
    OBVIOUS
  <2>2. n = Cardinality(here) /\ here \in SUBSET Visitors
    BY <1>10, <2>1 DEF QueryResults
  <2>3. n \in Nat /\ n <= c
    BY <1>2, <2>2, FS_Subset, FS_CardinalityType, CabinetDeskAssumption
  <2> QED BY <1>2, <1>3, <1>10, <2>3
<1>11. CASE q = "top"
  <2>1. PICK top \in TopVisitors : n = Total([g \in top |-> g.count])
    BY <1>11 DEF QueryResults
  <2>2. n \in Nat /\ n <= m /\ (MaxDeskVisits <= 5 => n = m)
    BY <1>1, <2>1, TopIs
  <2> QED BY <1>1, <1>2, <1>3, <1>11, <2>2
<1>12. CASE q = "daily"
  <2>1. n = m
    BY <1>1, <1>12, DailyIs DEF QueryResults
  <2> QED BY <1>1, <1>2, <1>3, <1>12, <2>1
<1>13. CASE q = "voters"
  <2>1. PICK some : some = {v \in Since(30) : deskVisits[v].voter # NoOne}
    OBVIOUS
  <2>2. n = Cardinality(some) /\ some \in SUBSET Since(30)
    BY <1>13, <2>1 DEF QueryResults
  <2>3. n \in Nat /\ n <= m
    BY <1>1, <1>4, <2>2, FS_Subset, FS_CardinalityType
  <2> QED BY <1>1, <1>2, <1>3, <1>13, <2>3
<1> QED BY <1>7, <1>8, <1>9, <1>10, <1>11, <1>12, <1>13 DEF BoardQueries

(* What is found of a visitor among the voters. *)
LEMMA MatchIs ==
    ASSUME DeskTypeOK
    PROVE  MatchIsTrue
<1>1. SUFFICES ASSUME NEW v \in Visitors, NEW row, row = visitorRow[v], row.phone # NoPhone
               PROVE  VoterMatch(row.name, row.phone) =
                        {c \in {d \in electorate : /\ Card[d].name = row.name
                                                   /\ Card[d].phone.digits = row.phone.digits} :
                            ")" \notin Card[c].phone.marks}
    BY DEF MatchIsTrue
<1>2. row.phone \in Phones /\ electorate \in SUBSET Electors
    BY <1>1 DEF DeskTypeOK, VisitorRow
<1>3. PICK asked : asked = row.phone
    OBVIOUS
<1>4. asked = [digits |-> asked.digits, marks |-> asked.marks]
    BY <1>2, <1>3, CabinetDeskAssumption
<1>5. ASSUME NEW c \in electorate, NEW phone, phone = Card[c].phone
      PROVE  [phone EXCEPT !.marks = StrippedByQuery(@)] = Bare(asked)
                <=> phone.digits = asked.digits /\ ")" \notin phone.marks
  <2>1. phone = [digits |-> phone.digits, marks |-> phone.marks] /\ phone.marks \subseteq Marks
    BY <1>2, <1>5, CabinetDeskAssumption
  <2>2. [phone EXCEPT !.marks = StrippedByQuery(@)]
           = [digits |-> phone.digits, marks |-> StrippedByQuery(phone.marks)]
    BY <2>1
  <2>3. Bare(asked) = [digits |-> asked.digits, marks |-> {}]
    BY <1>4 DEF Bare
  <2>4. StrippedByQuery(phone.marks) = {} <=> ")" \notin phone.marks
    <3>1. \A m \in phone.marks : m = ")" \/ m \in {" ", "-", "("}
      BY <2>1 DEF Marks
    <3>2. ")" \notin {" ", "-", "("}
      OBVIOUS
    <3> QED BY <3>1, <3>2 DEF StrippedByQuery
  <2> QED BY <2>2, <2>3, <2>4
<1> QED BY <1>1, <1>3, <1>5 DEF VoterMatch


(* The list that has no last day is the month. *)
LEMMA ListIsMonth ==
    ASSUME DeskTypeOK, NEW to \in VisitDays, \A day \in VisitDays : day <= to
    PROVE  ListedVisits(NoOne, Today - 30, to) = Since(30)
<1>1. \A v \in DeskIds : deskVisits[v].day \in VisitDays /\ deskVisits[v].day \in Int
    BY SinceIs DEF DeskIds, DeskVisit
<1>2. \A v \in DeskIds : Today - 30 <= deskVisits[v].day <=> deskVisits[v].day >= Today - 30
    BY <1>1, CabinetDeskAssumption
<1> QED BY <1>1, <1>2 DEF ListedVisits, Since

(* What FiguresAgree says of two answers. *)
PairsAgree ==
    LET Within(q, r) ==
            board.asked = {q, r} => board.answer[q] <= board.answer[r] + board.changes
    IN BoardFilled =>
        /\ Within("today", "last7")
        /\ \A q \in {"today", "last7", "voters", "top", "daily"} : Within(q, "last30")
        /\ Within("last30", "daily")
        /\ MaxDeskVisits <= 5 => Within("last30", "top")

BoardTypeOK == board \in BoardType

(* An answer that nothing has overtaken is the list. *)
LEMMA AgreeIs == DeskTypeOK /\ BoardTypeOK /\ BoardTells /\ PairsAgree => FiguresAgree
<1> SUFFICES ASSUME DeskTypeOK, board \in BoardType, BoardTells, PairsAgree
             PROVE  FiguresAgree
    BY DEF BoardTypeOK
<1>1. PICK m, a : m = Cardinality(Since(30)) /\ a = board.answer["last30"]
    OBVIOUS
<1>2. m \in Nat /\ a \in Int /\ board.changes \in Nat
    BY <1>1, SinceIs, CabinetDeskAssumption DEF BoardType, BoardQueries
<1>3. ASSUME BoardFilled, board.changes = 0, "last30" \in board.asked PROVE a = m
  <2>1. a # -1
    BY <1>1, <1>3 DEF BoardFilled
  <2>2. a <= m + board.changes /\ m <= a + board.changes
    BY <1>1, <2>1 DEF BoardTells, BoardQueries
  <2> QED BY <1>2, <1>3, <2>2
<1>4. ASSUME BoardFilled, board.changes = 0, "last30" \in board.asked, NEW to \in VisitDays,
             \A day \in VisitDays : day <= to
      PROVE  board.answer["last30"] = Cardinality(ListedVisits(NoOne, Today - 30, to))
    BY <1>1, <1>3, <1>4, ListIsMonth
<1> QED BY <1>4 DEF PairsAgree, FiguresAgree

LEMMA AgreeHas ==
    ASSUME FiguresAgree
    PROVE  PairsAgree
BY DEF FiguresAgree, PairsAgree

(* Two sets that differ by a row have as many rows, or one more or less. *)
LEMMA NearlyAsMany ==
    ASSUME NEW S, NEW T, IsFiniteSet(S), NEW x,
           \/ S \subseteq T /\ T \subseteq S \union {x}
           \/ T \subseteq S /\ S \subseteq T \union {x}
    PROVE  /\ Cardinality(S) \in Nat /\ Cardinality(T) \in Nat
           /\ Cardinality(S) <= Cardinality(T) + 1 /\ Cardinality(T) <= Cardinality(S) + 1
<1>1. IsFiniteSet(S \union {x})
    BY FS_AddElement
<1>2. IsFiniteSet(T)
    BY <1>1, FS_Subset
<1>3. ASSUME NEW A, NEW B, IsFiniteSet(A), IsFiniteSet(B), A \subseteq B, B \subseteq A \union {x}
      PROVE  Cardinality(A) <= Cardinality(B) /\ Cardinality(B) <= Cardinality(A) + 1
  <2>1. PICK a, b, c : a = Cardinality(A) /\ b = Cardinality(B) /\ c = Cardinality(A \union {x})
    OBVIOUS
  <2>2. a \in Nat /\ b \in Nat /\ a <= b
    BY <1>3, <2>1, FS_CardinalityType, FS_Subset
  <2>3. IsFiniteSet(A \union {x}) /\ (c = a \/ c = a + 1)
    BY <1>3, <2>1, FS_AddElement
  <2>4. b <= c
    BY <1>3, <2>1, <2>3, FS_Subset
  <2> QED BY <2>1, <2>2, <2>3, <2>4
<1>4. Cardinality(S) \in Nat /\ Cardinality(T) \in Nat
    BY <1>2, FS_CardinalityType
<1> QED BY <1>2, <1>3, <1>4

(* The visits of the week and of the month, for each write, differ by one at most. *)
DaysKept ==
    /\ Since(7)' = Since(7) /\ Since(30)' = Since(30)
DaysNear ==
    \E x : \A days \in {7, 30} :
        \/ Since(days) \subseteq Since(days)' /\ Since(days)' \subseteq Since(days) \union {x}
        \/ Since(days)' \subseteq Since(days) /\ Since(days) \subseteq Since(days)' \union {x}

(* Writes leave the answers near. *)
LEMMA WritesKeepBoard ==
    ASSUME DeskTypeOK, board \in BoardType, BoardTells, PairsAgree, DeskWrite,
           DaysNear
    PROVE  board' \in BoardType /\ BoardTells' /\ PairsAgree'
<1>1. PICK m, w, n, u : /\ m = Cardinality(Since(30)) /\ w = Cardinality(Since(7))
                        /\ n = Cardinality(Since(30)') /\ u = Cardinality(Since(7)')
    OBVIOUS
<1>2. /\ m \in Nat /\ w \in Nat /\ n \in Nat /\ u \in Nat
      /\ m <= n + 1 /\ n <= m + 1 /\ w <= u + 1 /\ u <= w + 1
  <2>1. IsFiniteSet(Since(30)) /\ IsFiniteSet(Since(7))
    BY SinceIs
  <2>2. PICK x : \A days \in {7, 30} :
           \/ Since(days) \subseteq Since(days)' /\ Since(days)' \subseteq Since(days) \union {x}
           \/ Since(days)' \subseteq Since(days) /\ Since(days) \subseteq Since(days)' \union {x}
    BY DEF DaysNear
  <2>3. m \in Nat /\ n \in Nat /\ m <= n + 1 /\ n <= m + 1
    BY <1>1, <2>1, <2>2, NearlyAsMany
  <2>4. w \in Nat /\ u \in Nat /\ w <= u + 1 /\ u <= w + 1
    BY <1>1, <2>1, <2>2, NearlyAsMany
  <2> QED BY <2>3, <2>4
<1>3. CASE board.asked = {}
  <2>1. board' = board
    BY <1>3 DEF DeskWrite
  <2>2. \A q \in BoardQueries : board.answer[q] = -1
    BY <1>3 DEF BoardTells
  <2> QED BY <1>3, <2>1, <2>2 DEF BoardTells, PairsAgree, BoardFilled, BoardQueries
<1>4. CASE board.asked # {}
  <2>1. board' = [board EXCEPT !.changes = @ + 1]
    BY <1>4 DEF DeskWrite
  <2>2. PICK a, c : a = board.answer /\ c = board.changes
    OBVIOUS
  <2>3. c \in Nat /\ a \in [BoardQueries -> Int]
    BY <2>2 DEF BoardType
  <2>4. /\ board' \in BoardType /\ board'.answer = a /\ board'.changes = c + 1
        /\ board'.asked = board.asked
    BY <2>1, <2>2 DEF BoardType
  <2>5. \A q \in BoardQueries : a[q] \in Int
    BY <2>3
  <2>6. BoardTells'
    <3>1. /\ \A q \in BoardQueries : a[q] # -1 => q \in board.asked
          /\ \A q \in BoardQueries \ {"visitors"} : a[q] # -1 => a[q] <= m + c
          /\ a["today"] # -1 => a["today"] <= w + c
          /\ a["last7"] # -1 => w <= a["last7"] + c
          /\ a["last30"] # -1 => m <= a["last30"] + c
          /\ a["daily"] # -1 => m <= a["daily"] + c
          /\ MaxDeskVisits <= 5 => (a["top"] # -1 => m <= a["top"] + c)
      BY <1>1, <2>2 DEF BoardTells
    <3>2. /\ \A q \in BoardQueries \ {"visitors"} : a[q] # -1 => a[q] <= n + (c + 1)
          /\ a["today"] # -1 => a["today"] <= u + (c + 1)
          /\ a["last7"] # -1 => u <= a["last7"] + (c + 1)
          /\ a["last30"] # -1 => n <= a["last30"] + (c + 1)
          /\ a["daily"] # -1 => n <= a["daily"] + (c + 1)
          /\ MaxDeskVisits <= 5 => (a["top"] # -1 => n <= a["top"] + (c + 1))
      BY ONLY <1>2, <2>3, <2>5, <3>1 DEF BoardQueries
    <3> QED BY <1>1, <2>4, <3>1, <3>2 DEF BoardTells
  <2>7. PairsAgree'
    <3>1. BoardFilled' <=> BoardFilled
      BY <2>2, <2>4 DEF BoardFilled
    <3>2. \A q, r \in BoardQueries : a[q] <= a[r] + c => a[q] <= a[r] + (c + 1)
      BY <2>3, <2>5
    <3> QED BY <2>2, <2>4, <3>1, <3>2 DEF PairsAgree, BoardQueries
  <2> QED BY <2>4, <2>6, <2>7
<1> QED BY <1>3, <1>4

(* A query answers with what it counts now. *)
LEMMA QueriesKeepBoard ==
    ASSUME DeskTypeOK, board \in BoardType, BoardTells, NEW q \in BoardQueries, RunQuery(q)
    PROVE  /\ board' \in BoardType /\ BoardTells' /\ PairsAgree'
           /\ \A p \in BoardQueries : board'.answer[p] = board.answer[p]
                 \/ board'.answer[p] \in 0 .. MaxDeskVisits + Cardinality(Visitors)
<1>1. PICK m, w : m = Cardinality(Since(30)) /\ w = Cardinality(Since(7))
    OBVIOUS
<1>2. m \in Nat /\ w \in Nat
    BY <1>1, SinceIs, CabinetDeskAssumption
<1>3. Since(30)' = Since(30) /\ Since(7)' = Since(7)
    BY DEF RunQuery, Since, DeskIds
<1>4. PICK n \in QueryResults(q) : board' = [board EXCEPT !.answer[q] = n]
    BY DEF RunQuery
<1>5. /\ n \in 0 .. MaxDeskVisits + Cardinality(Visitors)
      /\ q # "visitors" => n <= m
      /\ q \in {"last30", "daily"} => n = m
      /\ q = "top" /\ MaxDeskVisits <= 5 => n = m
      /\ q = "today" => n <= w
      /\ q = "last7" => n = w
    BY <1>1, ResultsAre
<1>6. n \in Nat
    BY <1>5, FS_CardinalityType, CabinetDeskAssumption
<1>7. PICK a, b, c : a = board.answer /\ b = [board.answer EXCEPT ![q] = n] /\ c = board.changes
    OBVIOUS
<1>8. c \in Nat /\ a \in [BoardQueries -> Int] /\ b \in [BoardQueries -> Int]
    BY <1>6, <1>7 DEF BoardType
<1>9. /\ b[q] = n /\ \A p \in BoardQueries : p # q => b[p] = a[p]
      /\ \A p \in BoardQueries : a[p] \in Int /\ b[p] \in Int
    BY <1>7, <1>8
<1>10. /\ board' \in BoardType /\ board'.answer = b /\ board'.changes = c
       /\ board'.asked = board.asked
    BY <1>4, <1>6, <1>7, <1>8 DEF BoardType
<1>11. /\ \A p \in BoardQueries : a[p] # -1 => p \in board.asked
       /\ \A p \in BoardQueries \ {"visitors"} : a[p] # -1 => a[p] <= m + c
       /\ a["today"] # -1 => a["today"] <= w + c
       /\ a["last7"] # -1 => w <= a["last7"] + c
       /\ a["last30"] # -1 => m <= a["last30"] + c
       /\ a["daily"] # -1 => m <= a["daily"] + c
       /\ MaxDeskVisits <= 5 => (a["top"] # -1 => m <= a["top"] + c)
    BY <1>1, <1>7 DEF BoardTells
<1>12. q \in board.asked
    BY DEF RunQuery
<1>13. /\ \A p \in BoardQueries : b[p] # -1 => p \in board.asked
       /\ \A p \in BoardQueries \ {"visitors"} : b[p] # -1 => b[p] <= m + c
       /\ b["today"] # -1 => b["today"] <= w + c
       /\ b["last7"] # -1 => w <= b["last7"] + c
       /\ b["last30"] # -1 => m <= b["last30"] + c
       /\ b["daily"] # -1 => m <= b["daily"] + c
       /\ MaxDeskVisits <= 5 => (b["top"] # -1 => m <= b["top"] + c)
    BY ONLY <1>2, <1>5, <1>6, <1>8, <1>9, <1>11, <1>12 DEF BoardQueries
<1>14. BoardTells'
    BY <1>1, <1>3, <1>10, <1>13 DEF BoardTells
<1>15. PairsAgree'
  <2>1. ASSUME BoardFilled' PROVE \A p \in board.asked : b[p] # -1
    BY <1>10, <2>1 DEF BoardFilled
  <2>2. ASSUME BoardFilled', NEW p \in BoardQueries, NEW r \in BoardQueries, p # r,
               board.asked = {p, r},
               p \in {"today", "last7", "voters", "top", "daily", "last30"},
               \/ <<p, r>> = <<"today", "last7">> \/ r \in {"last30", "daily"}
               \/ r = "top" /\ MaxDeskVisits <= 5
        PROVE  b[p] <= b[r] + c
    <3>1. b[p] # -1 /\ b[r] # -1
      BY <2>1, <2>2
    <3>2. CASE q = p
      <4>1. b[r] = a[r] /\ b[p] = n
        BY <1>9, <2>2, <3>2
      <4> QED BY <1>2, <1>5, <1>6, <1>8, <1>9, <1>11, <2>2, <3>1, <3>2, <4>1
    <3>3. CASE q = r
      <4>1. b[p] = a[p] /\ b[r] = n
        BY <1>9, <2>2, <3>3
      <4> QED BY <1>2, <1>5, <1>6, <1>8, <1>9, <1>11, <2>2, <3>1, <3>3, <4>1
    <3> QED BY <1>12, <2>2, <3>2, <3>3
  <2> QED BY <1>10, <2>2 DEF PairsAgree, BoardQueries
<1>16. \A p \in BoardQueries : board'.answer[p] = board.answer[p]
                 \/ board'.answer[p] \in 0 .. MaxDeskVisits + Cardinality(Visitors)
    BY <1>5, <1>7, <1>9, <1>10
<1> QED BY <1>10, <1>14, <1>15, <1>16

(* What the variables are, named apart. *)
LEMMA DeskTypes ==
    ASSUME DeskTypeOK
    PROVE  /\ visitorRow \in [Visitors -> VisitorRow] /\ deskVisits \in Seq(DeskVisit)
           /\ Len(deskVisits) \in Nat /\ Len(deskVisits) <= MaxDeskVisits
           /\ DOMAIN deskVisits = 1 .. Len(deskVisits) /\ electorate \subseteq Electors
           /\ \A v \in DOMAIN deskVisits : deskVisits[v] \in DeskVisit
           /\ \A v \in Visitors : visitorRow[v] \in VisitorRow
BY SinceIs DEF DeskTypeOK

LEMMA DeskStarts ==
    ASSUME DeskInit
    PROVE  DeskInv
<1>1. NoVisitor \in VisitorRow
    BY CabinetDeskAssumption DEF NoVisitor, VisitorRow
<1>2. Cardinality(Visitors) \in Nat
    BY FS_CardinalityType, CabinetDeskAssumption
<1>3. /\ board \in BoardType /\ board.asked = {} /\ \A q \in BoardQueries : board.answer[q] = -1
    BY DEF DeskInit, NoBoard, BoardType
<1>4. DeskTypeOK
  <2>1. visitorRow \in [Visitors -> VisitorRow]
    BY <1>1 DEF DeskInit
  <2>2. /\ deskVisits = <<>> /\ deskVisits \in Seq(DeskVisit) /\ Len(deskVisits) = 0
    BY DEF DeskInit
  <2>3. \A q \in BoardQueries : board.answer[q] \in -1 .. MaxDeskVisits + Cardinality(Visitors)
    BY <1>2, <1>3, CabinetDeskAssumption
  <2> QED BY <2>1, <2>2, <2>3, CabinetDeskAssumption DEF DeskInit, DeskTypeOK
<1>5. RowsOfUpdates
    BY DEF DeskInit, RowsOfUpdates
<1>6. VisitsHaveSomebody
    BY DEF DeskInit, VisitsHaveSomebody, DeskIds
<1>7. BoardTells
    BY <1>3 DEF BoardTells, BoardQueries
<1>8. PairsAgree
    BY <1>3 DEF PairsAgree, BoardFilled
<1> QED BY <1>3, <1>4, <1>5, <1>6, <1>7, <1>8, AgreeIs DEF DeskInv, BoardTypeOK

(* The rows, but for the dashboard: what each step keeps. *)
DeskRows ==
    /\ visitorRow \in [Visitors -> VisitorRow]
    /\ deskVisits \in Seq(DeskVisit) /\ Len(deskVisits) <= MaxDeskVisits
    /\ electorate \subseteq Electors
    /\ RowsOfUpdates /\ VisitsHaveSomebody

LEMMA CreatesVisitor ==
    ASSUME DeskInv, NEW v \in Visitors, NEW name \in Names, NEW phone \in Phones,
           CreateVisitor(v, name, phone)
    PROVE  DeskRows' /\ DaysKept
<1>1. PICK row : row = [here |-> TRUE, name |-> name, phone |-> phone]
    OBVIOUS
<1>2. row \in VisitorRow /\ row.here /\ visitorRow' = [visitorRow EXCEPT ![v] = row]
    BY <1>1 DEF CreateVisitor, VisitorRow
<1>3. DeskTypeOK /\ RowsOfUpdates /\ VisitsHaveSomebody
    BY DEF DeskInv
<1>4. /\ visitorRow' \in [Visitors -> VisitorRow] /\ visitorRow'[v].here
      /\ \A w \in Visitors : visitorRow[w].here => visitorRow'[w].here
    BY <1>2, <1>3, DeskTypes
<1>5. VisitsHaveSomebody'
    BY <1>3, <1>4, DeskTypes DEF VisitsHaveSomebody, DeskIds, CreateVisitor, DeskVisit
<1> QED BY <1>3, <1>4, <1>5, DeskTypes
        DEF DeskRows, RowsOfUpdates, CreateVisitor, DaysKept, Since, DeskIds

LEMMA UpdatesVisitor ==
    ASSUME DeskInv, NEW j \in DeskJobs, NEW v \in Visitors, NEW name \in Names,
           UpdateVisitor(j, v, name)
    PROVE  DeskRows' /\ DaysKept
<1>1. DeskTypeOK /\ RowsOfUpdates /\ VisitsHaveSomebody
    BY DEF DeskInv
<1>2. PICK row : row = [visitorRow[v] EXCEPT !.name = name]
    OBVIOUS
<1>3. row \in VisitorRow /\ row.here
    BY <1>1, <1>2, DeskTypes DEF UpdateVisitor, VisitorRow
<1>4. deskJob' = [deskJob EXCEPT ![j] = [visitor |-> v, row |-> row]]
    BY <1>2 DEF UpdateVisitor
<1>5. RowsOfUpdates'
    BY <1>1, <1>3, <1>4 DEF RowsOfUpdates
<1> QED BY <1>1, <1>5, DeskTypes
        DEF DeskRows, VisitsHaveSomebody, UpdateVisitor, DaysKept, Since, DeskIds

LEMMA SavesVisitor ==
    ASSUME DeskInv, NEW j \in DeskJobs, UpdateVisitorSave(j)
    PROVE  DeskRows' /\ DaysKept
<1>1. DeskTypeOK /\ RowsOfUpdates /\ VisitsHaveSomebody
    BY DEF DeskInv
<1>2. PICK v, row : v = deskJob[j].visitor /\ row = deskJob[j].row
    OBVIOUS
<1>3. /\ v \in Visitors /\ row \in VisitorRow /\ row.here
      /\ visitorRow' = [visitorRow EXCEPT ![v] = row]
    BY <1>1, <1>2 DEF UpdateVisitorSave, RowsOfUpdates
<1>4. /\ visitorRow' \in [Visitors -> VisitorRow] /\ visitorRow'[v].here
      /\ \A w \in Visitors : visitorRow[w].here => visitorRow'[w].here
    BY <1>1, <1>3, DeskTypes
<1>5. VisitsHaveSomebody'
    BY <1>1, <1>4, DeskTypes DEF VisitsHaveSomebody, DeskIds, UpdateVisitorSave, DeskVisit
<1>6. RowsOfUpdates'
    BY <1>1 DEF RowsOfUpdates, UpdateVisitorSave
<1> QED BY <1>1, <1>4, <1>5, <1>6, DeskTypes
        DEF DeskRows, UpdateVisitorSave, DaysKept, Since, DeskIds

LEMMA RemovesVisitor ==
    ASSUME DeskInv, NEW v \in Visitors, RemoveVisitor(v)
    PROVE  DeskRows' /\ DaysKept
<1>1. DeskTypeOK /\ RowsOfUpdates /\ VisitsHaveSomebody
    BY DEF DeskInv
<1>2. PICK n : n = Len(deskVisits)
    OBVIOUS
<1>3. n \in Nat /\ DOMAIN deskVisits = 1 .. n
    BY <1>1, <1>2, DeskTypes
<1>4. \A w \in 1 .. n : deskVisits[w] \in DeskVisit
    BY <1>1, <1>3, DeskTypes
<1>5. ASSUME NEW w \in 1 .. n
      PROVE  /\ deskVisits'[w] = [deskVisits[w] EXCEPT !.visitor = IF @ = v THEN NoOne ELSE @]
             /\ deskVisits'[w] \in DeskVisit /\ deskVisits'[w].here = deskVisits[w].here
             /\ deskVisits'[w].day = deskVisits[w].day
             /\ deskVisits'[w].voter = deskVisits[w].voter
             /\ deskVisits'[w].visitor = IF deskVisits[w].visitor = v THEN NoOne
                                         ELSE deskVisits[w].visitor
  <2>1. deskVisits'[w] = [deskVisits[w] EXCEPT !.visitor = IF @ = v THEN NoOne ELSE @]
    BY <1>3 DEF RemoveVisitor
  <2> QED BY <1>4, <2>1 DEF DeskVisit
<1>6. deskVisits' \in [1 .. n -> DeskVisit] /\ DOMAIN deskVisits' = 1 .. n
    BY <1>3, <1>5 DEF RemoveVisitor
<1>7. deskVisits' \in Seq(DeskVisit) /\ Len(deskVisits') = n
    BY <1>3, <1>6
<1>8. visitorRow' = [visitorRow EXCEPT ![v].here = FALSE]
    BY DEF RemoveVisitor
<1>9. /\ visitorRow' \in [Visitors -> VisitorRow]
      /\ \A w \in Visitors : w # v => visitorRow'[w] = visitorRow[w]
    BY <1>1, <1>8, DeskTypes DEF VisitorRow
<1>10. /\ orphaned.visits \subseteq orphaned'.visits
       /\ \A w \in 1 .. n : deskVisits[w].visitor = v => w \in orphaned'.visits
    BY <1>3 DEF RemoveVisitor
<1>11. VisitsHaveSomebody'
  <2>1. SUFFICES ASSUME NEW w \in 1 .. n, deskVisits'[w].here
                 PROVE  /\ deskVisits'[w].visitor # NoOne =>
                              visitorRow'[deskVisits'[w].visitor].here
                        /\ deskVisits'[w].visitor = NoOne /\ deskVisits'[w].voter = NoOne
                              => w \in orphaned'.visits
    BY <1>6 DEF VisitsHaveSomebody, DeskIds
  <2>2. /\ deskVisits[w].visitor # NoOne => visitorRow[deskVisits[w].visitor].here
        /\ deskVisits[w].visitor = NoOne /\ deskVisits[w].voter = NoOne => w \in orphaned.visits
    BY <1>1, <1>3, <1>5, <2>1 DEF VisitsHaveSomebody, DeskIds
  <2>3. deskVisits[w].visitor \in Visitors \union {NoOne}
    BY <1>4 DEF DeskVisit
  <2>4. CASE deskVisits[w].visitor = v
    <3>1. deskVisits'[w].visitor = NoOne
      BY <1>5, <2>4
    <3> QED BY <1>10, <2>4, <3>1
  <2>5. CASE deskVisits[w].visitor # v
    <3>1. /\ deskVisits'[w].visitor = deskVisits[w].visitor
          /\ deskVisits'[w].voter = deskVisits[w].voter
      BY <1>5, <2>5
    <3> QED BY <1>9, <1>10, <2>2, <2>3, <2>5, <3>1
  <2> QED BY <2>4, <2>5
<1>12. DaysKept
  <2>1. DeskIds' = DeskIds
    BY <1>3, <1>5, <1>6 DEF DeskIds
  <2>2. \A w \in DeskIds : deskVisits'[w].day = deskVisits[w].day
    BY <1>3, <1>5 DEF DeskIds
  <2> QED BY <2>1, <2>2 DEF DaysKept, Since
<1> QED BY <1>1, <1>2, <1>7, <1>9, <1>11, <1>12, DeskTypes
        DEF DeskRows, RowsOfUpdates, RemoveVisitor

LEMMA AddsVisit ==
    ASSUME DeskInv, NEW v \in Visitors \union {NoOne}, NEW c \in Electors \union {NoOne},
           NEW day \in VisitDays, AddVisit(v, c, day)
    PROVE  DeskRows' /\ DaysNear
<1>1. DeskTypeOK /\ RowsOfUpdates /\ VisitsHaveSomebody
    BY DEF DeskInv
<1>2. PICK n, row : n = Len(deskVisits)
                    /\ row = [here |-> TRUE, day |-> day, visitor |-> v, voter |-> c]
    OBVIOUS
<1>3. n \in Nat /\ DOMAIN deskVisits = 1 .. n /\ row \in DeskVisit /\ deskVisits \in Seq(DeskVisit)
    BY <1>1, <1>2, DeskTypes DEF DeskVisit
<1>4. deskVisits' = Append(deskVisits, row) /\ n < MaxDeskVisits
    BY <1>2 DEF AddVisit
<1>5. /\ deskVisits' \in Seq(DeskVisit) /\ Len(deskVisits') = n + 1
      /\ DOMAIN deskVisits' = 1 .. n + 1 /\ deskVisits'[n + 1] = row
      /\ \A w \in 1 .. n : deskVisits'[w] = deskVisits[w]
    BY <1>2, <1>3, <1>4
<1>6. \A w \in 1 .. n + 1 : w \in 1 .. n \/ w = n + 1
    BY <1>3
<1>7. 1 .. n \subseteq 1 .. n + 1
    BY <1>3
<1>8. VisitsHaveSomebody'
  <2>1. v # NoOne => visitorRow[v].here
    BY DEF AddVisit, VisitOf
  <2>2. ~(v = NoOne /\ c = NoOne)
    BY DEF AddVisit, VisitOf
  <2> QED BY <1>1, <1>2, <1>3, <1>5, <1>6, <2>1, <2>2 DEF VisitsHaveSomebody, DeskIds, AddVisit
<1>9. DaysNear
  <2>1. ASSUME NEW days \in {7, 30}
        PROVE  /\ Since(days) \subseteq Since(days)'
               /\ Since(days)' \subseteq Since(days) \union {n + 1}
    BY <1>3, <1>5, <1>6, <1>7 DEF Since, DeskIds
  <2> QED BY <2>1 DEF DaysNear
<1>10. Len(deskVisits') <= MaxDeskVisits
    BY <1>3, <1>4, <1>5, CabinetDeskAssumption
<1> QED BY <1>1, <1>5, <1>8, <1>9, <1>10, DeskTypes DEF DeskRows, RowsOfUpdates, AddVisit

LEMMA RemovesVisit ==
    ASSUME DeskInv, NEW w \in DeskIds, RemoveVisitOf(w)
    PROVE  DeskRows' /\ DaysNear
<1>1. DeskTypeOK /\ RowsOfUpdates /\ VisitsHaveSomebody
    BY DEF DeskInv
<1>2. PICK n : n = Len(deskVisits)
    OBVIOUS
<1>3. n \in Nat /\ DOMAIN deskVisits = 1 .. n /\ w \in 1 .. n /\ deskVisits \in Seq(DeskVisit)
    BY <1>1, <1>2, DeskTypes DEF DeskIds
<1>4. \A u \in 1 .. n : deskVisits[u] \in DeskVisit
    BY <1>1, <1>3, DeskTypes
<1>5. PICK row : row = [deskVisits[w] EXCEPT !.here = FALSE]
    OBVIOUS
<1>6. row \in DeskVisit /\ ~row.here
    BY <1>3, <1>4, <1>5 DEF DeskVisit
<1>7. deskVisits' = [deskVisits EXCEPT ![w] = row]
    BY <1>5 DEF RemoveVisitOf
<1>8. /\ deskVisits' \in Seq(DeskVisit) /\ Len(deskVisits') = n /\ DOMAIN deskVisits' = 1 .. n
      /\ deskVisits'[w] = row /\ \A u \in 1 .. n : u # w => deskVisits'[u] = deskVisits[u]
    BY <1>2, <1>3, <1>6, <1>7
<1>9. VisitsHaveSomebody'
    BY <1>1, <1>3, <1>6, <1>8 DEF VisitsHaveSomebody, DeskIds, RemoveVisitOf
<1>10. DaysNear
  <2>1. ASSUME NEW days \in {7, 30}
        PROVE  Since(days)' \subseteq Since(days) /\ Since(days) \subseteq Since(days)' \union {w}
    BY <1>3, <1>6, <1>8 DEF Since, DeskIds
  <2> QED BY <2>1 DEF DaysNear
<1> QED BY <1>1, <1>2, <1>8, <1>9, <1>10, DeskTypes DEF DeskRows, RowsOfUpdates, RemoveVisitOf

LEMMA RemovesElector ==
    ASSUME DeskInv, NEW c \in electorate, RemoveVoterCard(c)
    PROVE  DeskRows' /\ DaysKept
<1>1. DeskTypeOK /\ RowsOfUpdates /\ VisitsHaveSomebody
    BY DEF DeskInv
<1> QED BY <1>1, DeskTypes
        DEF DeskRows, RemoveVoterCard, RowsOfUpdates, VisitsHaveSomebody, DaysKept, Since, DeskIds

(* The answers that are there are counts. *)
AnswersAreCounts ==
    \A q \in BoardQueries : board.answer[q] \in -1 .. MaxDeskVisits + Cardinality(Visitors)

(* A write keeps all of the invariant, given what it keeps of the rows. *)
LEMMA WritesKeepDesk ==
    ASSUME DeskInv, DeskWrite, DeskRows', DaysKept \/ DaysNear
    PROVE  DeskInv'
<1>1. DeskTypeOK /\ board \in BoardType /\ BoardTells /\ PairsAgree
    BY AgreeHas DEF DeskInv
<1>2. DaysNear
    BY DEF DaysKept, DaysNear
<1>3. board' \in BoardType /\ BoardTells' /\ PairsAgree'
    BY <1>1, <1>2, WritesKeepBoard
<1>4. board'.answer = board.answer
    BY <1>1 DEF DeskWrite, BoardType
<1>5. DeskTypeOK'
    BY <1>1, <1>4 DEF DeskRows, DeskTypeOK
<1>6. FiguresAgree'
  <2>1. BoardTypeOK'
    BY <1>3 DEF BoardTypeOK
  <2> QED BY <1>3, <1>5, <2>1, AgreeIs, PTL
<1> QED BY <1>3, <1>5, <1>6 DEF DeskInv, DeskRows

(* What neither writes nor answers keeps all of it. *)
LEMMA ReadsKeepDesk ==
    ASSUME DeskInv, DeskRows', UNCHANGED <<visitorRow, deskVisits, electorate>>,
           board' \in BoardType, BoardTells', PairsAgree', AnswersAreCounts'
    PROVE  DeskInv'
<1>1. DeskTypeOK'
    BY DEF DeskRows, DeskTypeOK, AnswersAreCounts
<1>2. FiguresAgree'
  <2>1. BoardTypeOK'
    BY DEF BoardTypeOK
  <2> QED BY <1>1, <2>1, AgreeIs, PTL
<1> QED BY <1>1, <1>2 DEF DeskInv, DeskRows

LEMMA AsksForBoard ==
    ASSUME DeskInv, NEW q \in BoardQueries, NEW r \in BoardQueries, GetDashboard(q, r)
    PROVE  DeskInv'
<1>1. /\ board' = [NoBoard EXCEPT !.asked = {q, r}]
      /\ UNCHANGED <<visitorRow, deskVisits, electorate, deskJob, orphaned>>
    BY DEF GetDashboard
<1>2. /\ board' \in BoardType /\ \A p \in BoardQueries : board'.answer[p] = -1
      /\ board'.asked = {q, r}
    BY <1>1 DEF NoBoard, BoardType
<1>3. BoardTells' /\ ~BoardFilled'
    BY <1>2 DEF BoardTells, BoardQueries, BoardFilled
<1>4. PairsAgree'
    BY <1>3 DEF PairsAgree
<1>5. AnswersAreCounts'
  <2>1. MaxDeskVisits + Cardinality(Visitors) \in Nat
    BY FS_CardinalityType, CabinetDeskAssumption
  <2> QED BY <1>2, <2>1 DEF AnswersAreCounts
<1>6. DeskRows'
    BY <1>1 DEF DeskInv, DeskTypeOK, DeskRows, RowsOfUpdates, VisitsHaveSomebody, DeskIds
<1> QED BY <1>1, <1>2, <1>3, <1>4, <1>5, <1>6, ReadsKeepDesk

LEMMA AnswersBoard ==
    ASSUME DeskInv, AnswerBoard
    PROVE  DeskInv'
<1>1. /\ board' = NoBoard
      /\ UNCHANGED <<visitorRow, deskVisits, electorate, deskJob, orphaned>>
    BY DEF AnswerBoard
<1>2. /\ board' \in BoardType /\ \A p \in BoardQueries : board'.answer[p] = -1
      /\ board'.asked = {}
    BY <1>1 DEF NoBoard, BoardType
<1>3. BoardTells' /\ ~BoardFilled'
    BY <1>2 DEF BoardTells, BoardQueries, BoardFilled
<1>4. PairsAgree'
    BY <1>3 DEF PairsAgree
<1>5. AnswersAreCounts'
  <2>1. MaxDeskVisits + Cardinality(Visitors) \in Nat
    BY FS_CardinalityType, CabinetDeskAssumption
  <2> QED BY <1>2, <2>1 DEF AnswersAreCounts
<1>6. DeskRows'
    BY <1>1 DEF DeskInv, DeskTypeOK, DeskRows, RowsOfUpdates, VisitsHaveSomebody, DeskIds
<1> QED BY <1>1, <1>2, <1>3, <1>4, <1>5, <1>6, ReadsKeepDesk

LEMMA RunsQuery ==
    ASSUME DeskInv, NEW q \in BoardQueries, RunQuery(q)
    PROVE  DeskInv'
<1>1. DeskTypeOK /\ board \in BoardType /\ BoardTells
    BY DEF DeskInv
<1>2. /\ board' \in BoardType /\ BoardTells' /\ PairsAgree'
      /\ \A p \in BoardQueries : board'.answer[p] = board.answer[p]
            \/ board'.answer[p] \in 0 .. MaxDeskVisits + Cardinality(Visitors)
    BY <1>1, QueriesKeepBoard
<1>3. AnswersAreCounts'
    BY <1>1, <1>2 DEF AnswersAreCounts, DeskTypeOK
<1>4. DeskRows' /\ UNCHANGED <<visitorRow, deskVisits, electorate>>
    BY DEF RunQuery, DeskInv, DeskTypeOK, DeskRows, RowsOfUpdates, VisitsHaveSomebody, DeskIds
<1> QED BY <1>2, <1>3, <1>4, ReadsKeepDesk

(* An update that only reads leaves the dashboard alone. *)
LEMMA FindsVisitor ==
    ASSUME DeskInv, NEW j \in DeskJobs, NEW v \in Visitors, NEW name \in Names,
           UpdateVisitor(j, v, name)
    PROVE  DeskInv'
<1>1. DeskRows' /\ DaysKept
    BY UpdatesVisitor
<1>2. board' = board /\ UNCHANGED <<visitorRow, deskVisits, electorate>>
    BY DEF UpdateVisitor
<1>3. board' \in BoardType /\ AnswersAreCounts'
    BY <1>2 DEF DeskInv, DeskTypeOK, AnswersAreCounts
<1>4. BoardTells'
    BY <1>1, <1>2 DEF DeskInv, BoardTells, DaysKept
<1>5. PairsAgree'
    BY <1>2, AgreeHas DEF DeskInv, PairsAgree, BoardFilled
<1> QED BY <1>1, <1>2, <1>3, <1>4, <1>5, ReadsKeepDesk

(* Every step of the desk keeps its invariant. *)
LEMMA DeskSteps ==
    ASSUME DeskInv, [DeskNext]_deskVars
    PROVE  DeskInv'
<1>1. CASE UNCHANGED deskVars
  <2>1. DeskTypeOK' /\ (board \in BoardType)'
    BY <1>1 DEF deskVars, DeskInv, DeskTypeOK, BoardType
  <2>2. RowsOfUpdates' /\ VisitsHaveSomebody'
    BY <1>1 DEF deskVars, DeskInv, RowsOfUpdates, VisitsHaveSomebody, DeskIds
  <2>3. /\ \A days : Since(days)' = Since(days)
        /\ \A a, b : ListedVisits(NoOne, a, b)' = ListedVisits(NoOne, a, b)
    BY <1>1 DEF deskVars, Since, ListedVisits, VisitorName, VoterName, DeskIds
  <2>4. BoardTells'
    BY <1>1, <2>3 DEF deskVars, DeskInv, BoardTells
  <2>5. FiguresAgree'
    BY <1>1, <2>3 DEF deskVars, DeskInv, FiguresAgree, BoardFilled
  <2> QED BY <2>1, <2>2, <2>4, <2>5 DEF DeskInv
<1>2. CASE AnswerBoard
    BY <1>2, AnswersBoard
<1>3. ASSUME NEW q \in BoardQueries, RunQuery(q) PROVE DeskInv'
    BY <1>3, RunsQuery
<1>4. ASSUME NEW q \in BoardQueries, GetDashboard(q, "last30") PROVE DeskInv'
    BY <1>4, AsksForBoard DEF BoardQueries
<1>5. CASE GetDashboard("today", "last7")
    BY <1>5, AsksForBoard DEF BoardQueries
<1>6. ASSUME NEW v \in Visitors, RemoveVisitor(v) PROVE DeskInv'
    BY <1>6, RemovesVisitor, WritesKeepDesk DEF RemoveVisitor
<1>7. ASSUME NEW v \in Visitors, NEW name \in Names, NEW phone \in Phones,
             CreateVisitor(v, name, phone)
      PROVE  DeskInv'
    BY <1>7, CreatesVisitor, WritesKeepDesk DEF CreateVisitor
<1>8. ASSUME NEW v \in Visitors, NEW j \in DeskJobs, NEW name \in Names, UpdateVisitor(j, v, name)
      PROVE  DeskInv'
    BY <1>8, FindsVisitor
<1>9. ASSUME NEW j \in DeskJobs, UpdateVisitorSave(j) PROVE DeskInv'
    BY <1>9, SavesVisitor, WritesKeepDesk DEF UpdateVisitorSave
<1>10. ASSUME NEW v \in Visitors \union {NoOne}, NEW c \in electorate \union {NoOne},
              NEW day \in VisitDays, AddVisit(v, c, day)
       PROVE  DeskInv'
  <2>1. c \in Electors \union {NoOne}
    BY DEF DeskInv, DeskTypeOK
  <2>2. DeskRows' /\ DaysNear
    BY <1>10, <2>1, AddsVisit
  <2> QED BY <1>10, <2>2, WritesKeepDesk DEF AddVisit
<1>11. ASSUME NEW w \in DeskIds, RemoveVisitOf(w) PROVE DeskInv'
    BY <1>11, RemovesVisit, WritesKeepDesk DEF RemoveVisitOf
<1>12. ASSUME NEW c \in electorate, RemoveVoterCard(c) PROVE DeskInv'
    BY <1>12, RemovesElector, WritesKeepDesk DEF RemoveVoterCard
<1> QED BY <1>1, <1>2, <1>3, <1>4, <1>5, <1>6, <1>7, <1>8, <1>9, <1>10, <1>11, <1>12 DEF DeskNext

(* DeskInv is an invariant, with the types of the desk: what is on the dashboard is not   *)
(* far from what its queries would count, and an update saves the row of somebody.        *)
THEOREM DeskInvHolds == DeskSpec => []DeskInv
<1>1. DeskInit => DeskInv
    BY DeskStarts
<1>2. DeskInv /\ [DeskNext]_deskVars => DeskInv'
    BY DeskSteps
<1> QED BY <1>1, <1>2, PTL DEF DeskSpec

(* The desk is kept for any visitors, voters and days: visits have somebody, the figures  *)
(* of a dashboard agree but for the writes while it was made, and the match is true.      *)
THEOREM DeskAlwaysKept == DeskSpec => []DeskIsKept
<1>1. DeskInv => DeskIsKept
    BY MatchIs DEF DeskInv, DeskIsKept
<1> QED BY <1>1, DeskInvHolds, PTL

-----------------------------------------------------------------------------
(* The parts of MCOffice.tla beside one another. *)

PartInv ==
    /\ part = "chat" => ChatInv
    /\ part = "gateway" => GatewayInv
    /\ part = "voters" => VotersInv
    /\ part = "lists" => ListsInv
    /\ part = "geocoder" => GeocoderInv
    /\ VisitsInv
    /\ part = "help" => HelpInv
    /\ part = "desk" => DeskInv

LEMMA PartInit == Init => PartInv
<1> SUFFICES ASSUME Init PROVE PartInv
    OBVIOUS
<1>1. /\ ChatInit /\ GatewayInit /\ VotersInit /\ ListsInit /\ GeocoderInit /\ VisitsInit
      /\ HelpInit /\ DeskInit
    BY DEF Init
<1> QED BY <1>1, ChatInitIs, GatewayInitIs, VotersInvInit, ListsInvInit, GeocoderInvInit,
           VisitsInitInv, HelpStarts, DeskStarts DEF PartInv

LEMMA PartStep == ASSUME PartInv, [Next]_vars PROVE PartInv'
<1>1. /\ part' = part
      /\ part = "chat" => [ChatNext]_chatVars
      /\ part = "gateway" => [GatewayNext]_gatewayVars
      /\ part = "voters" => [VotersNext]_voterVars
      /\ part = "lists" => [ListsNext]_listVars
      /\ part = "geocoder" => [GeocoderNext]_geocoderVars
      /\ [VisitsNext]_visitVars
      /\ part = "help" => [HelpNext]_helpVars
      /\ part = "desk" => [DeskNext]_deskVars
    BY DEF Next, vars
<1>2. part = "chat" => ChatInv'
    BY <1>1, ChatInvStep DEF PartInv
<1>3. part = "gateway" => GatewayInv'
    BY <1>1, GatewayInvStep DEF PartInv
<1>4. part = "voters" => VotersInv'
    BY <1>1, VotersInvStep DEF PartInv
<1>5. part = "lists" => ListsInv'
    BY <1>1, ListsInvStep DEF PartInv
<1>6. part = "geocoder" => GeocoderInv'
    BY <1>1, GeocoderInvStep DEF PartInv
<1>7. VisitsInv'
    BY <1>1, VisitsInvStep DEF PartInv
<1>8. part = "help" => HelpInv'
    BY <1>1, HelpSteps DEF PartInv
<1>9. part = "desk" => DeskInv'
    BY <1>1, DeskSteps DEF PartInv
<1> QED BY <1>1, <1>2, <1>3, <1>4, <1>5, <1>6, <1>7, <1>8, <1>9 DEF PartInv

(* The part that is at work keeps its inductive invariant, and the others stay as they are. *)
THEOREM PartsKeepInv == Spec => []PartInv
<1>1. PartInv /\ [Next]_vars => PartInv'
    BY PartStep
<1> QED BY <1>1, PartInit, PTL DEF Spec

(* The conversations follow their users and the open clients show what they should of     *)
(* them (ChatFollowsUsers, ClientsHear), in the composition that TLC checks.              *)
THEOREM ChatIsAlwaysFollowed == Spec => []ChatIsFollowed
<1>1. PartInv => ChatIsFollowed
    BY ChatInvFollows, ClientsHearFollows DEF PartInv, ChatIsFollowed
<1> QED BY <1>1, PartsKeepInv, PTL

(* The voters are kept in order by requests and imports (VotersInOrder), shown to and      *)
(* changed by those who may (ListsAreTrue) and looked up fairly (GeocoderIsFair), in the   *)
(* composition that TLC checks.                                                            *)
THEOREM VotersAreAlwaysKept == Spec => []VotersAreKept
<1>1. VotersInv => VotersInOrder
    BY VotersFollow
<1>2. PartInv => VotersAreKept
    BY <1>1, ListsFollow DEF PartInv, VotersAreKept, GeocoderInv
<1> QED BY <1>2, PartsKeepInv, PTL

(* The visits and their appointments keep in step but for what requests have yet to do     *)
(* (VisitsInStep), in the composition that TLC checks.                                     *)
THEOREM VisitsStayInStep == Spec => []VisitsInStep
<1>1. PartInv => VisitsInStep
    BY VisitsInvMeans DEF PartInv
<1> QED BY <1>1, PartsKeepInv, PTL

(* Every part keeps the types and the inductive invariant that TLC checks of it.           *)
THEOREM PartsAreAlwaysTyped == Spec => []OfficeTypeOK
<1>1. PartInv => OfficeTypeOK
    BY DEF PartInv, OfficeTypeOK
<1> QED BY <1>1, PartsKeepInv, PTL

(* Help records agree with their types, imports and cabinet visits (RecordsAgree), the     *)
(* desk shows the visits and voters it should (DeskIsKept), and the figures of the         *)
(* neighborhoods add up (FiguresAddUp), in the composition that TLC checks.                *)
THEOREM RecordsAreAlwaysKept == Spec => []RecordsAreKept
<1>1. HelpInv => RecordsAgree
    BY FiguresAre DEF HelpInv, RecordsAgree
<1>2. DeskInv => DeskIsKept
    BY MatchIs DEF DeskInv, DeskIsKept
<1>3. ListsInv => FiguresAddUp
    BY HoodsAddUp DEF ListsInv
<1>4. PartInv => RecordsAreKept
    BY <1>1, <1>2, <1>3 DEF PartInv, RecordsAreKept
<1> QED BY <1>4, PartsKeepInv, PTL
=============================================================================
