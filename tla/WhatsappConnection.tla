------------------------- MODULE WhatsappConnection -------------------------
(***************************************************************************)
(* The WhatsApp connections of one tenant.  A connection is in three       *)
(* places: its row, the entry WhatsappEvolutionService keeps in the        *)
(* process (instances), and an instance of the Evolution server, which is  *)
(* outside the repository and tells of itself in its answers and in the    *)
(* webhooks it posts, late, out of order or never.                         *)
(***************************************************************************)
EXTENDS Naturals, FiniteSets, Sequences

CONSTANTS Connections,   \* ids of whatsapp_connections
          ConnectJobs,   \* requests and webhook handlers at work
          MaxRequests,   \* bound: requests begun, restarts
          MaxRemote,     \* bound: instances that open or close by themselves, and losses
          MaxLosses,     \* bound: calls that fail or lose their answer, webhooks lost
          MaxEvents      \* bound: all of these together

ASSUME WhatsappConnectionAssumption ==
    /\ IsFiniteSet(Connections) /\ Connections # {}
    /\ MaxRequests \in Nat /\ MaxRemote \in Nat /\ MaxLosses \in Nat /\ MaxEvents \in Nat

VARIABLES row, created,  \* the rows, and their ids by createdAt
          inst,          \* instances
          remote,        \* Evolution's instance: "absent", "connecting", "open" or "shut"
          hooks,         \* webhooks on their way
          conjob,
          staleInst,     \* history: the entry was given older news than Evolution's
                         \* last, or missed the last
          staleRow,      \* history: the row missed, or got late, what inst knows
          unruly,        \* history: why there may be "two" default rows, or "none"
          orphan,        \* history: Evolution made an instance, and the answer or the
                         \* row's update with its token was lost
          leaked,        \* history: a connection was deleted while a request was about
                         \* it, or Evolution did not delete its instance
          requests, remoteMoves, losses

connectionVars == <<row, created, inst, remote, hooks, conjob, staleInst,
                    staleRow, unruly, orphan, leaked, requests, remoteMoves, losses>>

Status == {"PENDING", "CONNECTED", "DISCONNECTED"}
ConnectionRow == [state : {"new", "here", "gone"}, status : Status,
                  token : BOOLEAN, isDefault : BOOLEAN]
NoInst == [status |-> "none", qr |-> FALSE]
ConnectSteps == {"idle", "insert", "connect", "state", "recreate", "update", "set", "qr",
                 "logout", "drop", "discRow", "delete", "promote", "promoteRow",
                 "openRow", "closeRow", "status", "default"}
IdleJob == [step |-> "idle", conn |-> CHOOSE c \in Connections : TRUE, open |-> FALSE,
            again |-> FALSE, flag |-> FALSE, deletes |-> FALSE, was |-> "PENDING",
            next |-> CHOOSE c \in Connections : TRUE]

Here == {c \in Connections : row[c].state = "here"}
Defaults == {c \in Here : row[c].isDefault}
Quiet(c) == \A j \in ConnectJobs : conjob[j].step = "idle" \/ conjob[j].conn # c

HappensMore == requests + remoteMoves + losses < MaxEvents
BeginsAnother == requests < MaxRequests /\ HappensMore
Befalls == remoteMoves + losses < MaxRemote /\ HappensMore
Loses == losses < MaxLosses /\ Befalls

\* the connections the tenant has made, paired and disconnected before, the first the default
ConnectionInit ==
    /\ \E n \in 0 .. Cardinality(Connections) :
          created \in {ids \in [1 .. n -> Connections] :
                         \A i, k \in 1 .. n : ids[i] = ids[k] => i = k}
    /\ row = [c \in Connections |->
                 IF \E i \in DOMAIN created : created[i] = c
                 THEN [state |-> "here", status |-> "DISCONNECTED", token |-> TRUE,
                       isDefault |-> created[1] = c]
                 ELSE [state |-> "new", status |-> "PENDING", token |-> FALSE,
                       isDefault |-> FALSE]]
    /\ inst = [c \in Connections |-> NoInst]
    /\ remote = [c \in Connections |-> "absent"]
    /\ hooks = {}
    /\ conjob = [j \in ConnectJobs |-> IdleJob]
    /\ staleInst = [c \in Connections |-> FALSE]
    /\ staleRow = [c \in Connections |-> FALSE]
    /\ unruly = {}
    /\ orphan = {}
    /\ leaked = {}
    /\ requests = 0 /\ remoteMoves = 0 /\ losses = 0

\* what most steps leave alone
counters == <<requests, remoteMoves, losses>>
history1 == <<unruly, orphan, leaked>>

To(j, step) == conjob' = [conjob EXCEPT ![j].step = step]
Finish(j) == conjob' = [conjob EXCEPT ![j] = IdleJob]

\* an UPDATE of the row of c, which affects nothing once the row is gone
Update(c, new) == row' = IF row[c].state = "here" THEN [row EXCEPT ![c] = new] ELSE row

\* the process stores `status` for c, having heard that Evolution is open or is not;
\* the webhooks in `coming` are still to come
Store(c, status, qr, open, coming) ==
    /\ inst' = [inst EXCEPT ![c] = [status |-> status, qr |-> qr]]
    /\ staleInst' = [staleInst EXCEPT ![c] = /\ open # (remote[c] = "open")
                                            /\ <<c, remote[c]>> \notin coming]

----------------------------------------------------------------------------
(* WhatsappService: requests about connections *)

Begins(j, c, step, flag, deletes) ==
    /\ conjob[j].step = "idle" /\ BeginsAnother
    /\ conjob' = [conjob EXCEPT ![j] = [IdleJob EXCEPT !.step = step, !.conn = c,
                                          !.flag = flag, !.deletes = deletes]]
    /\ requests' = requests + 1

\* c is being deleted while another request is about it
Crossed(c, deletes) ==
    IF (deletes /\ ~Quiet(c)) \/ \E j \in ConnectJobs : conjob[j].conn = c /\ conjob[j].deletes
    THEN {c} ELSE {}

\* createConnection counts the tenant's rows ...
Create(j, c) ==
    /\ row[c].state = "new" /\ Quiet(c)
    /\ Begins(j, c, "insert", Here = {}, FALSE)
    /\ UNCHANGED <<row, created, inst, remote, hooks, staleInst, staleRow, history1,
                   remoteMoves, losses>>
\* ... and inserts one, the default if it counted none
Insert(j) ==
    LET c == conjob[j].conn IN
    /\ conjob[j].step = "insert"
    /\ row' = [row EXCEPT ![c] = [state |-> "here", status |-> "PENDING", token |-> FALSE,
                                  isDefault |-> conjob[j].flag]]
    /\ created' = Append(created, c)
    /\ unruly' = unruly \union (IF conjob[j].flag /\ Here # {} THEN {"two"} ELSE {})
                        \union (IF ~conjob[j].flag /\ Here = {} THEN {"none"} ELSE {})
    /\ To(j, "connect")
    /\ UNCHANGED <<inst, remote, hooks, staleInst, staleRow, orphan, leaked, counters>>

\* startConnection, also from the legacy endpoint: PENDING, then connect
Start(j, c) ==
    /\ row[c].state = "here"
    /\ Begins(j, c, "connect", FALSE, FALSE)
    /\ row' = [row EXCEPT ![c].status = "PENDING"]
    /\ staleRow' = [staleRow EXCEPT ![c] = FALSE]
    /\ leaked' = leaked \union Crossed(c, FALSE)
    /\ UNCHANGED <<created, inst, remote, hooks, staleInst, unruly, orphan, remoteMoves,
                   losses>>

\* updateConnection: to become the default, first all others stop being it ...
MakeDefault(j, c) ==
    /\ row[c].state = "here"
    /\ Begins(j, c, "default", TRUE, FALSE)
    /\ row' = [d \in Connections |-> [row[d] EXCEPT !.isDefault = FALSE]]
    /\ UNCHANGED <<created, inst, remote, hooks, staleInst, staleRow, history1,
                   remoteMoves, losses>>
\* ... and to stop being it, nobody takes its place
SetDefault(j) ==
    LET c == conjob[j].conn IN
    /\ conjob[j].step = "default"
    /\ Update(c, [row[c] EXCEPT !.isDefault = TRUE])
    /\ unruly' = IF row[c].state # "here" THEN unruly \union {"none"}
                 ELSE IF Defaults \ {c} # {} THEN unruly \union {"two"} ELSE {}
    /\ Finish(j)
    /\ UNCHANGED <<created, inst, remote, hooks, staleInst, staleRow, orphan, leaked, counters>>
UnsetDefault(c) ==
    /\ row[c].state = "here" /\ row[c].isDefault /\ BeginsAnother
    /\ row' = [row EXCEPT ![c].isDefault = FALSE]
    /\ unruly' = unruly \union {"none"}
    /\ requests' = requests + 1
    /\ UNCHANGED <<created, inst, remote, hooks, conjob, staleInst, staleRow, orphan, leaked,
                   remoteMoves, losses>>

\* Mutant: an instance the process does not know is not logged out
LogsOutKnown(c) == inst[c] # NoInst

\* disconnect falls back to the row for the name and the token
LogsOut(c) == inst[c] # NoInst \/ row[c].token

\* disconnectConnection and deleteConnection: both find the row, then disconnect
Disconnect(j, c, deletes) ==
    /\ row[c].state = "here"
    /\ Begins(j, c, IF LogsOut(c) THEN "logout" ELSE "drop",
              row[c].isDefault, deletes)
    /\ leaked' = leaked \union Crossed(c, deletes)
    /\ UNCHANGED <<row, created, inst, remote, hooks, staleInst, staleRow, unruly, orphan,
                   remoteMoves, losses>>
\* logout and delete of the instance; an error is logged and the rest goes on
Logout(j) ==
    LET c == conjob[j].conn IN
    /\ conjob[j].step = "logout"
    /\ \/ /\ remote' = [remote EXCEPT ![c] = "absent"]
          /\ orphan' = orphan \ {c}
          /\ UNCHANGED <<leaked, losses>>
       \/ /\ Loses /\ losses' = losses + 1
          /\ leaked' = IF conjob[j].deletes THEN leaked \union {c} ELSE leaked
          /\ UNCHANGED <<remote, orphan>>
    /\ To(j, "drop")
    /\ UNCHANGED <<row, created, inst, hooks, staleInst, staleRow, unruly,
                   requests, remoteMoves>>
DropInstance(j) ==
    LET c == conjob[j].conn IN
    /\ conjob[j].step = "drop"
    /\ inst' = [inst EXCEPT ![c] = NoInst]
    /\ staleInst' = [staleInst EXCEPT ![c] = FALSE]
    /\ To(j, "discRow")
    /\ UNCHANGED <<row, created, remote, hooks, staleRow, history1, counters>>
\* the UPDATE sets name and token to undefined, which leaves them as they are
DisconnectRow(j) ==
    LET c == conjob[j].conn IN
    /\ conjob[j].step = "discRow"
    /\ Update(c, [row[c] EXCEPT !.status = "DISCONNECTED"])
    /\ staleRow' = [staleRow EXCEPT ![c] = FALSE]
    /\ IF conjob[j].deletes THEN To(j, "delete") ELSE Finish(j)
    /\ UNCHANGED <<created, inst, remote, hooks, staleInst, history1, counters>>
DeleteRow(j) ==
    LET c == conjob[j].conn IN
    /\ conjob[j].step = "delete"
    /\ row' = [row EXCEPT ![c].state = "gone"]
    /\ leaked' = leaked \union
         (IF \E i \in ConnectJobs \ {j} : conjob[i].conn = c /\ conjob[i].step # "idle"
          THEN {c} ELSE {})
    /\ unruly' = unruly \union
         (IF \/ ~conjob[j].flag /\ row[c].isDefault
             \/ \E i \in ConnectJobs : conjob[i].step = "promoteRow" /\ conjob[i].next = c
          THEN {"none"} ELSE {})
    /\ IF conjob[j].flag THEN To(j, "promote") ELSE Finish(j)
    /\ UNCHANGED <<created, inst, remote, hooks, staleInst, staleRow, orphan, counters>>

\* Mutant: the first row is promoted, also when it is the one that was deleted
OldestOrItself(c) == IF Len(created) = 0 THEN {} ELSE {created[1]}

\* the next default: the oldest row there is
Oldest(c) ==
    {created[i] : i \in {k \in DOMAIN created : /\ row[created[k]].state = "here"
                                                /\ \A m \in 1 .. k - 1 :
                                                     row[created[m]].state # "here"}}
\* if the row had been the default, the next one is found ...
Promote(j) ==
    LET found == Oldest(conjob[j].conn) IN
    /\ conjob[j].step = "promote"
    /\ \/ found = {} /\ Finish(j)
       \/ \E d \in found :
             conjob' = [conjob EXCEPT ![j].step = "promoteRow", ![j].next = d]
    /\ UNCHANGED <<row, created, inst, remote, hooks, staleInst, staleRow, history1, counters>>
\* ... and made the default
PromoteRow(j) ==
    LET d == conjob[j].next IN
    /\ conjob[j].step = "promoteRow"
    /\ Update(d, [row[d] EXCEPT !.isDefault = TRUE])
    /\ unruly' = unruly \union
         (IF row[d].state = "here" /\ Defaults \ {d} # {} THEN {"two"} ELSE {})
    /\ Finish(j)
    /\ UNCHANGED <<created, inst, remote, hooks, staleInst, staleRow, orphan, leaked,
                   counters>>

\* the steps between which the tenant has no default
Promotes == {"promote", "promoteRow"}
Unsettled == Promotes \union {"default"}

\* a request dies between two statements: the database fails, or a call throws; connect
\* gives the token it had up for a new instance, and one just made is then unknown
ConnectFails(j) ==
    LET s == conjob[j] IN
    /\ s.step \notin {"idle", "drop", "logout", "state", "set", "qr"} /\ Loses
    /\ losses' = losses + 1
    /\ unruly' = unruly \union (IF s.step \in Unsettled THEN {"none"} ELSE {})
    /\ staleRow' = IF s.step \in {"closeRow", "discRow", "status"}
                   THEN [staleRow EXCEPT ![s.conn] = TRUE] ELSE staleRow
    /\ orphan' = IF s.step = "update" /\ s.again THEN orphan \union {s.conn} ELSE orphan
    /\ IF s.step = "update" /\ ~s.again THEN To(j, "recreate") ELSE Finish(j)
    /\ UNCHANGED <<row, created, inst, remote, hooks, staleInst, leaked, requests, remoteMoves>>

----------------------------------------------------------------------------
(* WhatsappEvolutionService.connect *)

\* it finds the row; a token it has, or Evolution gives it, is tried first
Connect(j) ==
    LET c == conjob[j].conn IN
    /\ conjob[j].step = "connect"
    /\ \/ row[c].state # "here" /\ Finish(j)
       \/ /\ row[c].state = "here"
          /\ To(j, IF inst[c] # NoInst \/ row[c].token \/ remote[c] # "absent"
                   THEN "state" ELSE "recreate")
    /\ UNCHANGED <<row, created, inst, remote, hooks, staleInst, staleRow, history1,
                   counters>>
\* fetchConnectionState: the answer is kept over configureWebhook and the UPDATE
ConnectState(j) ==
    LET c == conjob[j].conn IN
    /\ conjob[j].step = "state"
    /\ \/ /\ remote[c] # "absent"
          /\ conjob' = [conjob EXCEPT ![j].step = "update", ![j].open = remote[c] = "open"]
          /\ UNCHANGED losses
       \/ remote[c] = "absent" /\ To(j, "recreate") /\ UNCHANGED losses
       \/ /\ Loses /\ losses' = losses + 1
          /\ To(j, "recreate")
    /\ UNCHANGED <<row, created, inst, remote, hooks, staleInst, staleRow, history1,
                   requests, remoteMoves>>
\* createInstance; the name is refused if Evolution still has it, and an answer that is
\* lost leaves an instance whose token the process does not know
Recreate(j) ==
    LET c == conjob[j].conn IN
    /\ conjob[j].step = "recreate"
    /\ \/ /\ remote[c] = "absent"
          /\ remote' = [remote EXCEPT ![c] = "connecting"]
          /\ \/ /\ conjob' = [conjob EXCEPT ![j].step = "update", ![j].again = TRUE,
                                            ![j].open = FALSE]
                /\ UNCHANGED <<orphan, losses>>
             \/ /\ Loses /\ losses' = losses + 1
                /\ orphan' = orphan \union {c}
                /\ Finish(j)
       \/ remote[c] # "absent" /\ Finish(j) /\ UNCHANGED <<remote, orphan, losses>>
    /\ UNCHANGED <<row, created, inst, hooks, staleInst, staleRow, unruly, leaked,
                   requests, remoteMoves>>
ConnectRow(j) ==
    LET c == conjob[j].conn IN
    /\ conjob[j].step = "update"
    /\ Update(c, [row[c] EXCEPT !.status = "PENDING", !.token = TRUE])
    /\ staleRow' = [staleRow EXCEPT ![c] = FALSE]
    /\ orphan' = orphan \ {c}
    /\ To(j, "set")
    /\ UNCHANGED <<created, inst, remote, hooks, staleInst, unruly, leaked, counters>>
ConnectSet(j) ==
    LET c == conjob[j].conn IN
    /\ conjob[j].step = "set"
    /\ Store(c, IF conjob[j].open THEN "CONNECTED" ELSE "PENDING", FALSE, conjob[j].open, hooks)
    /\ staleRow' = [staleRow EXCEPT ![c] = row[c].status = "CONNECTED" /\ ~conjob[j].open]
    /\ IF conjob[j].open THEN Finish(j) ELSE To(j, "qr")
    /\ UNCHANGED <<row, created, remote, hooks, history1, counters>>
\* fetchQrCode: null on an error; the entry is looked up again
ConnectQr(j) ==
    LET c == conjob[j].conn IN
    /\ conjob[j].step = "qr"
    /\ inst' = IF inst[c] = NoInst THEN inst
               ELSE [inst EXCEPT ![c].qr = remote[c] \in {"shut", "connecting"}]
    /\ Finish(j)
    /\ UNCHANGED <<row, created, remote, hooks, staleInst, staleRow, history1, counters>>

----------------------------------------------------------------------------
(* getStatus, and with it isConnected and ensureInstance *)

\* only when the process has no entry
Ask(j, c) ==
    /\ inst[c] = NoInst /\ row[c].state = "here" /\ row[c].token
    /\ conjob[j].step = "idle" /\ BeginsAnother
    /\ conjob' = [conjob EXCEPT ![j] = [IdleJob EXCEPT !.step = "status", !.conn = c,
                                                       !.was = row[c].status]]
    /\ requests' = requests + 1
    /\ UNCHANGED <<row, created, inst, remote, hooks, staleInst, staleRow, history1,
                   remoteMoves, losses>>
\* what getStatus makes of Evolution's state
StatusOf(state) == CASE state = "open" -> "CONNECTED"
                     [] state = "connecting" -> "PENDING"
                     [] OTHER -> "DISCONNECTED"
\* the answer makes an entry, and the row follows if it differed when it was read; when
\* there is no answer nothing is written
Answer(j) ==
    LET c == conjob[j].conn IN
    /\ conjob[j].step = "status" /\ remote[c] # "absent"
    /\ LET status == StatusOf(remote[c]) IN
          /\ Store(c, status, FALSE, remote[c] = "open", hooks)
          /\ IF conjob[j].was = status
             THEN UNCHANGED row
             ELSE Update(c, [row[c] EXCEPT !.status = status])
          /\ staleRow' = [staleRow EXCEPT ![c] = row'[c].status # status]
    /\ Finish(j)
    /\ UNCHANGED <<created, remote, hooks, history1, counters>>
NoAnswer(j) ==
    /\ conjob[j].step = "status" /\ remote[conjob[j].conn] = "absent"
    /\ Finish(j)
    /\ UNCHANGED <<row, created, inst, remote, hooks, staleInst, staleRow, history1,
                   counters>>

----------------------------------------------------------------------------
(* Evolution (external), and its webhooks *)

\* the phone is paired, loses its connection or gets it back
RemoteMoves(c, to) ==
    /\ Befalls
    /\ remote[c] \notin {"absent", to}
    /\ remote' = [remote EXCEPT ![c] = to]
    /\ hooks' = hooks \union {<<c, to>>}
    /\ remoteMoves' = remoteMoves + 1
    /\ UNCHANGED <<row, created, inst, conjob, staleInst, staleRow, history1,
                   requests, losses>>
RemoteQr(c) ==
    /\ Befalls /\ remote[c] \in {"shut", "connecting"}
    /\ hooks' = hooks \union {<<c, "qr">>}
    /\ remoteMoves' = remoteMoves + 1
    /\ UNCHANGED <<row, created, inst, remote, conjob, staleInst, staleRow, history1,
                   requests, losses>>
HookLost(h) ==
    /\ h \in hooks /\ Loses
    /\ hooks' = hooks \ {h}
    /\ losses' = losses + 1
    /\ staleInst' = [staleInst EXCEPT ![h[1]] = @ \/ h[2] = remote[h[1]]]
    /\ UNCHANGED <<row, created, inst, remote, conjob, staleRow, history1, requests, remoteMoves>>
\* handleConnectionUpdate and handleQrCodeUpdate of a connection without entry: nothing
HookDropped(h) ==
    /\ h \in hooks /\ inst[h[1]] = NoInst
    /\ hooks' = hooks \ {h}
    /\ UNCHANGED <<row, created, inst, remote, conjob, staleInst, staleRow, history1,
                   counters>>
\* handleConnectionUpdate of any other state than open, close and disconnected: nothing
HookIgnored(c) ==
    /\ <<c, "connecting">> \in hooks /\ inst[c] # NoInst
    /\ hooks' = hooks \ {<<c, "connecting">>}
    /\ UNCHANGED <<row, created, inst, remote, conjob, staleInst, staleRow, history1,
                   counters>>
\* handleQrCodeUpdate: the entry only
HookQr(c) ==
    /\ <<c, "qr">> \in hooks /\ inst[c] # NoInst
    /\ hooks' = hooks \ {<<c, "qr">>}
    /\ Store(c, "PENDING", TRUE, FALSE, hooks \ {<<c, "qr">>})
    /\ staleRow' = [staleRow EXCEPT ![c] = TRUE]
    /\ UNCHANGED <<row, created, remote, conjob, history1, counters>>

\* Mutant: the entry keeps the status it has until the row was written
StoredLate(c, status) == inst[c].status

\* Mutant: Evolution's word is stored for the status
StoredRaw(c, status) == remote[c]

StoredStatus(c, status) == status

\* handleConnectionUpdate: the entry at once, the row after a find and a call
HookState(j, c, told) ==
    LET open == told = "open" IN
    /\ <<c, told>> \in hooks /\ inst[c] # NoInst /\ conjob[j].step = "idle"
    /\ hooks' = hooks \ {<<c, told>>}
    /\ Store(c, StoredStatus(c, IF open THEN "CONNECTED" ELSE "DISCONNECTED"), FALSE, open,
             hooks \ {<<c, told>>})
    /\ conjob' = [conjob EXCEPT ![j] = [IdleJob EXCEPT
                    !.step = IF open THEN "openRow" ELSE "closeRow", !.conn = c]]
    /\ UNCHANGED <<row, created, remote, staleRow, history1, counters>>
HookRow(j) ==
    LET c == conjob[j].conn
        status == IF conjob[j].step = "openRow" THEN "CONNECTED" ELSE "DISCONNECTED"
    IN
    /\ conjob[j].step \in {"openRow", "closeRow"}
    /\ Update(c, [row[c] EXCEPT !.status = status])
    /\ staleRow' = [staleRow EXCEPT ![c] = inst[c].status # status]
    /\ Finish(j)
    /\ UNCHANGED <<created, inst, remote, hooks, staleInst, history1, counters>>

----------------------------------------------------------------------------
(* The module starts again: requests and entries are gone; before the first *)
(* request it gives a lone connection its default and restores the rows     *)
(* that say CONNECTED, asking Evolution (`answers`: the ones it got)        *)

Restart(answers) ==
    LET restored == {c \in Here : row[c].status = "CONNECTED" /\ row[c].token}
        reached == {c \in answers : remote[c] # "absent"}
        lone == Cardinality(Here) = 1
    IN
    /\ BeginsAnother
    /\ answers \subseteq restored
    /\ conjob' = [j \in ConnectJobs |-> IdleJob]
    /\ inst' = [c \in Connections |->
                  IF c \notin restored THEN NoInst
                  ELSE [status |-> IF c \in reached /\ remote[c] = "open"
                                   THEN "CONNECTED" ELSE "DISCONNECTED", qr |-> FALSE]]
    /\ row' = [c \in Connections |->
                 [row[c] EXCEPT !.status = IF c \in reached /\ remote[c] # "open"
                                           THEN "DISCONNECTED" ELSE @,
                                !.isDefault = @ \/ (lone /\ c \in Here /\ Defaults = {})]]
    /\ unruly' = IF lone THEN {}
                 ELSE unruly \union
                   (IF \E j \in ConnectJobs : conjob[j].step \in Unsettled
                    THEN {"none"} ELSE {})
    /\ staleInst' = [c \in Connections |-> c \in restored \ reached]
    /\ staleRow' = [c \in Connections |-> c \in restored \ reached]
    /\ orphan' = orphan \union
         {conjob[j].conn : j \in {i \in ConnectJobs : conjob[i].step = "update" /\ conjob[i].again}}
    /\ requests' = requests + 1
    /\ UNCHANGED <<created, remote, hooks, leaked, remoteMoves, losses>>

ConnectionNext ==
    \/ \E answers \in SUBSET Connections : Restart(answers)
    \/ \E h \in hooks : HookLost(h) \/ HookDropped(h)
    \/ \E c \in Connections :
          \/ UnsetDefault(c) \/ RemoteQr(c) \/ HookQr(c) \/ HookIgnored(c)
          \/ \E to \in {"open", "shut", "connecting"} : RemoteMoves(c, to)
    \/ \E j \in ConnectJobs :
          \/ Insert(j) \/ SetDefault(j) \/ Logout(j) \/ DropInstance(j) \/ DisconnectRow(j)
          \/ DeleteRow(j) \/ Promote(j) \/ PromoteRow(j) \/ ConnectFails(j)
          \/ Connect(j) \/ ConnectState(j) \/ Recreate(j) \/ ConnectRow(j) \/ ConnectSet(j)
          \/ ConnectQr(j) \/ Answer(j) \/ NoAnswer(j) \/ HookRow(j)
          \/ \E c \in Connections :
                \/ Create(j, c) \/ Start(j, c) \/ MakeDefault(j, c) \/ Ask(j, c)
                \/ \E deletes \in BOOLEAN : Disconnect(j, c, deletes)
                \/ \E told \in {"open", "shut"} : HookState(j, c, told)

ConnectionSpec == ConnectionInit /\ [][ConnectionNext]_connectionVars

----------------------------------------------------------------------------
(* Properties *)

ConnectionTypeOK ==
    /\ row \in [Connections -> ConnectionRow]
    /\ created \in Seq(Connections)
    /\ inst \in [Connections -> [status : Status \union {"none"}, qr : BOOLEAN]]
    /\ remote \in [Connections -> {"absent", "connecting", "open", "shut"}]
    /\ hooks \subseteq Connections \X {"connecting", "open", "shut", "qr"}
    /\ conjob \in [ConnectJobs -> [step : ConnectSteps, conn : Connections, open : BOOLEAN,
                                   again : BOOLEAN, flag : BOOLEAN, deletes : BOOLEAN,
                                   was : Status, next : Connections]]
    /\ staleInst \in [Connections -> BOOLEAN]
    /\ staleRow \in [Connections -> BOOLEAN]
    /\ unruly \subseteq {"two", "none"}
    /\ orphan \subseteq Connections
    /\ leaked \subseteq Connections
    /\ requests \in 0 .. MaxRequests
    /\ remoteMoves \in 0 .. MaxRemote /\ losses \in 0 .. MaxLosses

\* A tenant has one default connection while it has any, unless two requests
\* counted, cleared or promoted at once, one of them stopped half-way, the connection
\* chosen to be the default was deleted before it was made the default, or an update took
\* the flag from the only default.
DefaultConnection ==
    (\A j \in ConnectJobs : conjob[j].step \notin Unsettled \union {"insert"}) =>
        /\ Cardinality(Defaults) > 1 => "two" \in unruly
        /\ Here # {} /\ Defaults = {} => "none" \in unruly

\* Once a deleted connection is quiet, nothing of it is left, neither the entry nor
\* Evolution's instance with its webhooks, unless another request was about it while
\* it was deleted or Evolution failed to delete the instance; and when it had made the
\* instance for a connect that never stored its token (the answer or the update was
\* lost, or the process stopped between them), the instance alone may be left.
DeletedLeavesNothing ==
    \A c \in Connections \ leaked :
        row[c].state = "gone" /\ Quiet(c) =>
            inst[c] = NoInst /\ (c \in orphan \/ remote[c] = "absent")

\* The entry sendMessage relies on says CONNECTED when Evolution is open, and then
\* only, unless the webhook that tells is on its way, was lost, or was overtaken by an
\* older answer that a connect held or by another webhook, or Evolution is connecting
\* again, of which the webhook is ignored; and a row that says CONNECTED has an entry
\* that says so or none, unless a QR code, a failed restore or a late write came between.
StatusHasCause ==
    \A c \in Here : Quiet(c) /\ inst[c] # NoInst =>
        /\ <<c, remote[c]>> \notin hooks /\ ~staleInst[c] =>
              /\ remote[c] = "open" => inst[c].status = "CONNECTED"
              /\ inst[c].status = "CONNECTED" => remote[c] \in {"open", "connecting"}
        /\ row[c].status = "CONNECTED" /\ ~staleRow[c] => inst[c].status = "CONNECTED"

----------------------------------------------------------------------------
(* The inductive invariant: what the steps of a request leave true *)

\* the requests at work on c
JobsOn(c) == {j \in ConnectJobs : conjob[j].step # "idle" /\ conjob[j].conn = c}

\* Rows that are there are listed by createdAt.
HereIsCreated ==
    IsFiniteSet(Here) /\ \A c \in Here : \E i \in DOMAIN created : created[i] = c

\* Why there are two default rows, or none.
DefaultsHaveCause ==
    /\ \A c, d \in Defaults : c # d => "two" \in unruly
    /\ Here # {} /\ Defaults = {} =>
          \/ "none" \in unruly
          \/ \E j \in ConnectJobs :
                \/ conjob[j].step \in {"default", "promote"}
                \/ conjob[j].step = "promoteRow" /\ row[conjob[j].next].state = "here"

\* A row that is not there yet is known to the request that will insert it, and to no other.
NewIsUnknown(c) ==
    /\ row[c].state = "new" =>
          /\ inst[c] = NoInst /\ remote[c] = "absent"
          /\ \A what \in {"connecting", "open", "shut", "qr"} : <<c, what>> \notin hooks
          /\ \A i, j \in JobsOn(c) : i = j
    /\ \A j \in JobsOn(c) : conjob[j].step = "insert" <=> row[c].state = "new"

\* An entry, and an instance of Evolution's, have a token the row keeps, but for an
\* instance just made whose token is to be written.
TokenIsKept(c) ==
    /\ inst[c] # NoInst => inst[c].status # "none" /\ (row[c].state = "here" => row[c].token)
    /\ remote[c] # "absent" =>
          \/ row[c].token
          \/ c \in leaked \union orphan
          \/ \E j \in JobsOn(c) : conjob[j].step = "update" /\ conjob[j].again
    /\ \A j \in JobsOn(c) :
          conjob[j].step \in {"set", "status"} /\ row[c].state = "here" => row[c].token

\* Nobody connects a row that is being deleted or gone, and Evolution's instance went first,
\* but for one whose token the row does not have.
DeletionIsAlone(c) ==
    c \notin leaked =>
        /\ row[c].state = "gone" =>
              /\ inst[c] = NoInst /\ (c \in orphan \/ remote[c] = "absent")
              /\ \A j \in JobsOn(c) : conjob[j].step \in Promotes
        /\ \A j \in JobsOn(c) : conjob[j].deletes /\ conjob[j].step \notin Promotes =>
              /\ \A i \in JobsOn(c) \ {j} :
                    conjob[i].step \in {"default", "status", "openRow", "closeRow"}
              /\ conjob[j].step # "logout" =>
                    remote[c] = "absent" \/ (c \in orphan /\ ~row[c].token)
              /\ conjob[j].step \notin {"logout", "drop"} => inst[c] = NoInst

\* What StatusHasCause says, with the requests that are about to make it true.
EntryHasCause(c) ==
    inst[c] # NoInst /\ ~staleInst[c] /\ <<c, remote[c]>> \notin hooks =>
        \/ /\ remote[c] = "open" => inst[c].status = "CONNECTED"
           /\ inst[c].status = "CONNECTED" => remote[c] \in {"open", "connecting"}
        \/ \E j \in JobsOn(c) : conjob[j].step = "drop"
RowHasCause(c) ==
    row[c].state = "here" /\ inst[c] # NoInst /\ ~staleRow[c] /\ row[c].status = "CONNECTED" =>
        inst[c].status = "CONNECTED" \/ \E j \in JobsOn(c) : conjob[j].step = "closeRow"

Holds(c) ==
    NewIsUnknown(c) /\ TokenIsKept(c) /\ DeletionIsAlone(c) /\ EntryHasCause(c) /\ RowHasCause(c)

\* A request that deletes, and no other, comes to the steps of a deletion.
Deletes(job) ==
    /\ job.deletes => job.step \in {"logout", "drop", "discRow", "delete"} \union Promotes
    /\ job.step \in Promotes \union {"delete"} => job.deletes

\* with which the three properties are inductive
ConnectionInv ==
    /\ ConnectionTypeOK
    /\ HereIsCreated
    /\ DefaultsHaveCause
    /\ \A c \in Connections : Holds(c)
    /\ \A j \in ConnectJobs : Deletes(conjob[j])
=============================================================================
