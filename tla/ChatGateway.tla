---------------------------- MODULE ChatGateway ----------------------------
(***************************************************************************)
(* The sockets of the internal chat (ChatGateway): who is online, and what *)
(* is emitted to the sockets of one conversation and to those of its       *)
(* participants after a message is sent or deleted.  The rows these write, *)
(* and who takes part, are in Chat.tla.  What is emitted to a socket       *)
(* reaches it in the order it was emitted.                                 *)
(***************************************************************************)
EXTENDS Naturals, Sequences, FiniteSets

CONSTANTS Sockets,
          SocketUser,    \* whose a socket is
          Sends          \* bound: messages ever stored, numbered as they are stored

ASSUME ChatGatewayAssumption ==
    Sends \in Nat /\ DOMAIN SocketUser = Sockets /\ Sockets # {}

VARIABLES about,        \* what a behaviour is about: who is online, or the conversation
          socket,       \* state of each socket
          onlineUsers,  \* user -> its sockets; no sockets, no entry
          room,         \* sockets that joined the conversation
          sending,      \* the sends, and how far each is
          stored,
          deletion,     \* the deletion of each message, and how far it is
          told,         \* client: users shown as online, once it asked
          checked,      \* client: whether it asked
          screen,       \* client: messages shown, in order
          preview,      \* client: the message its list shows of the conversation
          opened,       \* history: the first message stored since a socket opened,
          from,         \* and since it joined the room
          overlapped,   \* history: sends that were stored while another was not done
          late          \* history: messages deleted before they were emitted

gatewayVars == <<about, socket, onlineUsers, room, sending, stored, deletion, told, checked,
                 screen, preview, opened, from, overlapped, late>>

SocketUsers == {SocketUser[s] : s \in Sockets}
MessageNos == 1 .. Sends
Connected == {s \in Sockets : socket[s] = "open"}
Online == {u \in SocketUsers : onlineUsers[u] # {}}
views == <<told, checked, screen, preview>>
sends == <<sending, stored>>
people == <<socket, onlineUsers>>
past == <<opened, from, overlapped, late>>
traffic == <<sends, deletion, overlapped, late>>

\* a client that is gone shows nothing
Forget(gone) ==
    /\ checked' = [s \in Sockets |-> checked[s] /\ s \notin gone]
    /\ screen' = [s \in Sockets |-> IF s \in gone THEN <<>> ELSE screen[s]]
    /\ preview' = [s \in Sockets |-> IF s \in gone THEN 0 ELSE preview[s]]
    /\ opened' = [s \in Sockets |-> IF s \in gone THEN 0 ELSE opened[s]]
    /\ from' = [s \in Sockets |-> IF s \in gone THEN 0 ELSE from[s]]

GatewayInit ==
    /\ about \in {"presence", "conversation"}
    /\ socket = [s \in Sockets |-> "new"]
    /\ onlineUsers = [u \in SocketUsers |-> {}]
    /\ room = {}
    /\ sending = [m \in MessageNos |->
                    [step |-> "none", by |-> CHOOSE u \in SocketUsers : TRUE]]
    /\ stored = 0
    /\ deletion = [m \in MessageNos |-> "none"]
    /\ told = [s \in Sockets |-> {}] /\ checked = [s \in Sockets |-> FALSE]
    /\ screen = [s \in Sockets |-> <<>>] /\ preview = [s \in Sockets |-> 0]
    /\ opened = [s \in Sockets |-> 0] /\ from = [s \in Sockets |-> 0]
    /\ overlapped = {} /\ late = {}

----------------------------------------------------------------------------
(* Presence *)

\* handleConnection, with a token that verifies: the user's first socket or another
Connect(s) ==
    LET u == SocketUser[s] IN
    /\ socket[s] = "new"
    /\ about = "conversation" =>   \* bound: one tab of each user
          \A t \in Sockets : SocketUser[t] = u => socket[t] = "new"
    /\ socket' = [socket EXCEPT ![s] = "open"]
    /\ onlineUsers' = [onlineUsers EXCEPT ![u] = @ \union {s}]
    /\ told' = [t \in Sockets |->
                  IF about = "presence" /\ t \in Connected \union {s} THEN told[t] \union {u}
                  ELSE told[t]]
    /\ opened' = [opened EXCEPT ![s] = stored + 1]
    /\ UNCHANGED <<about, room, traffic, checked, screen, preview, from>>

\* Mutant: says so at every tab that is closed
OfflineAnyway(left) == TRUE

IsOffline(left) == left = {}

\* handleDisconnect; socket.io takes the socket out of its rooms
Disconnect(s) ==
    LET u == SocketUser[s]
        left == onlineUsers[u] \ {s}
    IN
    /\ s \in Connected
    /\ socket' = [socket EXCEPT ![s] = "gone"]
    /\ onlineUsers' = [onlineUsers EXCEPT ![u] = left]
    /\ room' = room \ {s}
    /\ told' = [t \in Sockets |-> IF t = s THEN {}
                                  ELSE IF t \in Connected /\ IsOffline(left) THEN told[t] \ {u}
                                  ELSE told[t]]
    /\ Forget({s})
    /\ UNCHANGED <<about, traffic>>
\* online:check answers for the users it is asked of
OnlineCheck(s) ==
    /\ about = "presence" /\ s \in Connected /\ ~checked[s]
    /\ told' = [told EXCEPT ![s] = Online]
    /\ checked' = [checked EXCEPT ![s] = TRUE]
    /\ UNCHANGED <<about, people, room, traffic, screen, preview, opened, from>>
\* the server restarts: its map and its rooms are gone, and so is what it was doing
Restart ==
    /\ Connected # {}
    /\ socket' = [s \in Sockets |-> IF s \in Connected THEN "gone" ELSE socket[s]]
    /\ onlineUsers' = [u \in SocketUsers |-> {}]
    /\ room' = {}
    /\ sending' = [m \in MessageNos |->
                     IF sending[m].step \in {"saved", "emitted"}
                     THEN [sending[m] EXCEPT !.step = "failed"] ELSE sending[m]]
    /\ deletion' = [m \in MessageNos |->
                      IF deletion[m] = "saved" THEN "failed" ELSE deletion[m]]
    /\ told' = [s \in Sockets |-> {}]
    /\ Forget(Sockets)
    /\ UNCHANGED <<about, stored, overlapped, late>>

----------------------------------------------------------------------------
(* The conversation *)

\* conversation:join, after which the client loads the messages there are
JoinConversation(s) ==
    /\ about = "conversation" /\ s \in Connected \ room
    /\ room' = room \union {s}
    /\ from' = [from EXCEPT ![s] = stored + 1]
    /\ UNCHANGED <<about, people, traffic, views, opened>>
LeaveConversation(s) ==
    /\ s \in room
    /\ room' = room \ {s}
    /\ screen' = [screen EXCEPT ![s] = <<>>]
    /\ from' = [from EXCEPT ![s] = 0]
    /\ UNCHANGED <<about, people, traffic, told, checked, preview, opened>>

\* message:send: ChatService.sendMessage stores the message ...
SendMessage(s) ==
    LET m == stored + 1 IN
    /\ about = "conversation" /\ s \in Connected /\ stored < Sends
    /\ stored' = m
    /\ sending' = [sending EXCEPT ![m] = [step |-> "saved", by |-> SocketUser[s]]]
    /\ overlapped' = overlapped \union
         {{m, n} : n \in {k \in MessageNos : sending[k].step \in {"saved", "emitted"}}}
    /\ UNCHANGED <<about, people, room, deletion, views, opened, from, late>>
\* ... and may fail after that, or when the participants are asked for
SendFails(m) ==
    /\ sending[m].step \in {"saved", "emitted"}
    /\ sending' = [sending EXCEPT ![m].step = "failed"]
    /\ UNCHANGED <<about, people, room, stored, deletion, views, past>>
\* ... it is emitted to the room ...
EmitNew(m) ==
    /\ sending[m].step = "saved"
    /\ sending' = [sending EXCEPT ![m].step = "emitted"]
    /\ screen' = [s \in Sockets |-> IF s \in room THEN Append(screen[s], m) ELSE screen[s]]
    /\ UNCHANGED <<about, people, room, stored, deletion, told, checked, preview, past>>

\* Mutant: tells the sender and not the others
ToldSelf(m) == {s \in Connected : SocketUser[s] = sending[m].by}

\* the sockets of the other participants
ToldOf(m) == {s \in Connected : SocketUser[s] # sending[m].by}

\* ... and once the participants are known, their lists are told
EmitUpdated(m) ==
    /\ sending[m].step = "emitted"
    /\ sending' = [sending EXCEPT ![m].step = "done"]
    /\ preview' = [s \in Sockets |-> IF s \in ToldOf(m) THEN m ELSE preview[s]]
    /\ UNCHANGED <<about, people, room, stored, deletion, told, checked, screen, past>>

\* a client takes the message out; it shows it once at most (ShownOnce)
Without(shown, m) ==
    IF \A i \in DOMAIN shown : shown[i] # m THEN shown
    ELSE LET at == CHOOSE i \in DOMAIN shown : shown[i] = m
         IN  [i \in 1 .. Len(shown) - 1 |-> IF i < at THEN shown[i] ELSE shown[i + 1]]

\* message:delete: the row first, then the room
DeleteMessage(m) ==
    /\ m <= stored /\ \A n \in MessageNos : deletion[n] = "none"   \* bound: one is deleted
    /\ \E s \in Connected : SocketUser[s] = sending[m].by
    /\ deletion' = [deletion EXCEPT ![m] = "saved"]
    /\ UNCHANGED <<about, people, room, sends, views, past>>
EmitDeleted(m) ==
    /\ deletion[m] = "saved"
    /\ deletion' = [deletion EXCEPT ![m] = "done"]
    /\ screen' = [s \in Sockets |-> IF s \in room THEN Without(screen[s], m) ELSE screen[s]]
    /\ late' = IF sending[m].step = "saved" THEN late \union {m} ELSE late
    /\ UNCHANGED <<about, people, room, sends, told, checked, preview, opened, from,
                   overlapped>>

GatewayNext ==
    \/ Restart
    \/ \E s \in Sockets :
          \/ Connect(s) \/ Disconnect(s) \/ OnlineCheck(s)
          \/ JoinConversation(s) \/ LeaveConversation(s) \/ SendMessage(s)
    \/ \E m \in MessageNos :
          \/ SendFails(m) \/ EmitNew(m) \/ EmitUpdated(m) \/ DeleteMessage(m) \/ EmitDeleted(m)

GatewaySpec == GatewayInit /\ [][GatewayNext]_gatewayVars

----------------------------------------------------------------------------
(* Properties *)

GatewayTypeOK ==
    /\ socket \in [Sockets -> {"new", "open", "gone"}]
    /\ onlineUsers \in [SocketUsers -> SUBSET Sockets]
    /\ room \subseteq Sockets
    /\ sending \in [MessageNos -> [step : {"none", "saved", "emitted", "done", "failed"},
                                   by : SocketUsers]]
    /\ stored \in 0 .. Sends
    /\ deletion \in [MessageNos -> {"none", "saved", "done", "failed"}]
    /\ told \in [Sockets -> SUBSET SocketUsers] /\ checked \in [Sockets -> BOOLEAN]
    /\ screen \in [Sockets -> Seq(MessageNos)] /\ preview \in [Sockets -> 0 .. Sends]
    /\ opened \in [Sockets -> 0 .. Sends + 1] /\ from \in [Sockets -> 0 .. Sends + 1]
    /\ overlapped \subseteq SUBSET MessageNos /\ late \subseteq MessageNos

\* A user is in the map as long as one of its sockets is open, and a client that asked
\* once who is online shows just those, from the events alone: in whatever order tabs are
\* opened and closed, and across a restart.
PresenceHolds ==
    /\ \A u \in SocketUsers : onlineUsers[u] = {s \in Connected : SocketUser[s] = u}
    /\ \A s \in Connected : checked[s] => told[s] = Online

\* A socket in the room since before a message was stored shows it once its send is done,
\* and no longer once its deletion is, unless the deletion overtook the emission; and it
\* shows messages in the order they were stored unless their sends overlapped.
RoomHears ==
    \A s \in room :
        LET shown == {screen[s][i] : i \in DOMAIN screen[s]} IN
        /\ \A m \in MessageNos :
              /\ m >= from[s] /\ sending[m].step = "done" /\ deletion[m] = "none"
                 => m \in shown
              /\ deletion[m] = "done" /\ m \in shown => m \in late
        /\ \A i, k \in DOMAIN screen[s] :
              i < k => \/ screen[s][i] < screen[s][k]
                       \/ {screen[s][i], screen[s][k]} \in overlapped

\* The list of a client that was there shows the last message of the others whose send is
\* done, unless another of theirs was sent at the same time.
ListHears ==
    \A s \in Connected, m \in MessageNos :
        /\ sending[m].step = "done" /\ sending[m].by # SocketUser[s] /\ m >= opened[s]
        /\ preview[s] < m
        => {preview[s], m} \in overlapped

\* What clients show is what the events should have told them (the properties above).
ClientsHear == PresenceHolds /\ RoomHears /\ ListHears

----------------------------------------------------------------------------
(* The inductive invariant behind ClientsHear *)

\* Only an open client has asked who is online.
AskedIsOpen == \A s \in Sockets : checked[s] => s \in Connected /\ about = "presence"

\* Messages are sent and deleted from when they are stored.
StoredFirst ==
    \A m \in MessageNos :
        stored < m => sending[m].step = "none" /\ deletion[m] = "none"

\* What is stored while a send is not done overlaps it.
LaterOverlaps ==
    \A m, n \in MessageNos :
        m < n /\ n <= stored /\ sending[m].step \in {"saved", "emitted"} => {m, n} \in overlapped

\* A deletion that is done and an emission that is to come: the deletion overtook it.
LateIsKnown ==
    \A m \in MessageNos : deletion[m] = "done" /\ sending[m].step = "saved" => m \in late

\* A client shows messages that were emitted, each once, and those of the room only.
ShownOnce(s) ==
    /\ s \notin room => screen[s] = <<>>
    /\ \A i \in DOMAIN screen[s] :
          sending[screen[s][i]].step \in {"emitted", "done", "failed"}
    /\ \A i, k \in DOMAIN screen[s] : i # k => screen[s][i] # screen[s][k]

\* What a socket of the room shows; between its emission and the end of its send, too.
SocketHears(s) ==
    /\ \A m \in MessageNos :
          m >= from[s] /\ sending[m].step \in {"emitted", "done"} /\ deletion[m] = "none"
             => \E i \in DOMAIN screen[s] : screen[s][i] = m
    /\ \A i \in DOMAIN screen[s] :
          deletion[screen[s][i]] = "done" => screen[s][i] \in late
    /\ \A i, k \in DOMAIN screen[s] :
          i < k => \/ screen[s][i] < screen[s][k]
                   \/ {screen[s][i], screen[s][k]} \in overlapped

GatewayInv ==
    /\ GatewayTypeOK /\ AskedIsOpen /\ StoredFirst /\ LaterOverlaps /\ LateIsKnown
    /\ PresenceHolds /\ ListHears
    /\ \A s \in Sockets : ShownOnce(s) /\ (s \in room => SocketHears(s))
=============================================================================
