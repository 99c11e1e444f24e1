-------------------------- MODULE WhatsappFigures --------------------------
(***************************************************************************)
(* What WhatsappService shows of the messages of a tenant: the list of     *)
(* chats, page by page, and the figures of a range of days, on screen or   *)
(* as a spreadsheet.  Each is made of several queries, and messages are    *)
(* written between them.                                                   *)
(***************************************************************************)
EXTENDS Integers, FiniteSets, FiniteSetsExt, Rows

CONSTANTS Lines,        \* connections of the tenant
          Phones,       \* of the contacts
          MaxDay,       \* bound: days
          MaxMessages,  \* bound: messages ever stored
          MaxEdits,     \* bound: chats read, flagged or deleted
          MaxWrites,    \* bound: both
          PageLimit,    \* chats of a page
          TopContacts   \* contacts on the panel

ASSUME WhatsappFiguresAssumption ==
    /\ MaxDay \in Nat /\ MaxMessages \in Nat /\ MaxEdits \in Nat /\ MaxWrites \in Nat
    /\ PageLimit \in Nat \ {0} /\ TopContacts \in Nat \ {0}

VARIABLES reader,     \* what a behaviour is about: the list or the figures, which look
                      \* at different columns of the messages
          log,        \* rows of whatsapp_messages
          today, stored, edits,
          view,       \* the list of chats a user scrolls
          report,     \* the figures a user asked for
          came,       \* history: chats that got a message since the list was opened,
          removed,    \* whether one was read, flagged or deleted since,
          written,    \* and whether anything was since the figures' first query
          wanted,     \* history: what a user's last click on "reply later" was to do
          cameSince   \* history: chats that got a message since they were flagged

figureVars == <<reader, log, today, stored, edits, view, report, came, removed, written,
                wanted, cameSince>>

Days == 0 .. MaxDay
Chats == Lines \X Phones
Filters == {"all", "unread", "reply-later"}
NoDay == -1
EveryLine == "every"
Message == [id : 1 .. MaxMessages, chat : Chats, inbound : BOOLEAN, readByUser : BOOLEAN,
            replyLater : BOOLEAN, day : Days]

Of(rows, chat) == {m \in rows : m.chat = chat}
On(rows, line) == {m \in rows : line \in {EveryLine, m.chat[1]}}
Inbound(rows) == {m \in rows : m.inbound}
Unread(rows) == {m \in rows : m.inbound /\ ~m.readByUser}
ChatsOf(rows) == {m.chat : m \in rows}
PhonesOf(rows) == {m.chat[2] : m \in rows}
LastOf(rows) == Max({m.id : m \in rows})
Flagged(rows) == \E m \in rows : m.replyLater

NoView == [step |-> "closed", line |-> EveryLine, filter |-> "all", page |-> 0,
           rows |-> {}, more |-> TRUE]
NoReport == [step |-> "none", kind |-> "panel", line |-> EveryLine, since |-> 0,
             until |-> NoDay, total |-> 0, contacts |-> 0,
             volume |-> [d \in Days |-> 0], top |-> [p \in {} |-> 0], answered |-> 0,
             asking |-> 0]

FiguresInit ==
    /\ reader \in {"list", "figures"}
    /\ log = {} /\ today = 0 /\ stored = 0 /\ edits = 0
    /\ view = NoView /\ report = NoReport
    /\ came = {} /\ removed = FALSE /\ written = FALSE
    /\ wanted = [c \in Chats |-> FALSE] /\ cameSince = {}

readers == <<view, report>>
shown == <<came, removed, written, wanted, cameSince>>
store == <<reader, log, today, stored, edits>>

\* the chats a history names: nothing asks for those of the figures
Noted(chats) == IF reader = "list" THEN chats ELSE {}

\* bound: a list is scrolled and figures are asked for once, and what follows does not
\* change what was shown
Open == /\ stored + edits < MaxWrites
        /\ report.step # "done" /\ (view.step = "shown" => view.more)

\* a chat read or deleted before anything is shown: as if its messages were the user's own,
\* or never came
Reading == view.step # "closed" \/ report.step # "none"

\* a message is received or sent
MessageStored(chat, inbound) ==
    /\ Open /\ stored < MaxMessages /\ stored' = stored + 1
    /\ log' = log \union {[id |-> stored + 1, chat |-> chat, inbound |-> inbound,
                           readByUser |-> ~inbound, replyLater |-> FALSE, day |-> today]}
    /\ came' = came \union Noted({chat})
    /\ written' = TRUE
    /\ cameSince' = cameSince \union Noted({chat})
    /\ UNCHANGED <<reader, today, edits, readers, removed, wanted>>
NextDay ==
    /\ reader = "figures" /\ report.step # "done" /\ today < MaxDay /\ today' = today + 1
    /\ UNCHANGED <<reader, log, stored, edits, readers, shown>>

Edits(rows) ==
    /\ Open /\ edits < MaxEdits /\ edits' = edits + 1
    /\ log' = rows
    /\ removed' = TRUE /\ written' = TRUE
    /\ UNCHANGED <<reader, today, stored, readers, came>>

ReadChat(chat) ==
    /\ reader = "list" /\ Reading
    /\ Unread(Of(log, chat)) # {}
    /\ Edits((log \ Of(log, chat)) \union
             {[m EXCEPT !.readByUser = TRUE] : m \in Of(log, chat)})
    /\ UNCHANGED <<wanted, cameSince>>

OppositeOfLast(rows, latest) == ~latest.replyLater

\* toggleReplyLater: the opposite of the last message, on every message of the chat
FlagChat(chat) ==
    LET rows == Of(log, chat)
        latest == CHOOSE m \in rows : m.id = LastOf(rows)
    IN /\ reader = "list" /\ rows # {}
       /\ Edits((log \ rows) \union
                 {[m EXCEPT !.replyLater = OppositeOfLast(rows, latest)] : m \in rows})
       /\ wanted' = [wanted EXCEPT ![chat] = ~Flagged(rows)]
       /\ cameSince' = IF Flagged(rows) THEN cameSince ELSE cameSince \ {chat}
RemoveChat(chat) ==
    /\ Of(log, chat) # {}
    /\ Reading
    /\ Edits(log \ Of(log, chat))
    /\ wanted' = [wanted EXCEPT ![chat] = FALSE]
    /\ cameSince' = cameSince \ {chat}

----------------------------------------------------------------------------
(* The list of chats *)

Listed(line, filter) ==
    {c \in ChatsOf(On(log, line)) :
        /\ filter = "unread" => Unread(Of(log, c)) # {}
        /\ filter = "reply-later" => Flagged(Of(log, c))}

\* place in the order of the last message, the newest first
RankOf(c, chats) == Cardinality({d \in chats : LastOf(Of(log, d)) > LastOf(Of(log, c))})

\* Mutant: pages counted from zero
OffsetFromZero(page) == page * PageLimit

Offset(page) == (page - 1) * PageLimit

\* getChats: one query groups the messages by chat ...
GetChats(line, filter, page) ==
    LET chats == Listed(line, filter)
        found == {c \in chats : RankOf(c, chats) \in Offset(page) .. Offset(page) + PageLimit}
        onPage == {c \in found : RankOf(c, chats) < Offset(page) + PageLimit}
    IN view' = [step |-> "grouped", line |-> line, filter |-> filter, page |-> page,
                rows |-> view.rows \union
                   {[chat |-> c, page |-> page, at |-> LastOf(Of(log, c)),
                     last |-> 0] : c \in onPage},
                more |-> found # onPage]

OpenChats(line, filter) ==
    /\ reader = "list" /\ view.step = "closed"
    /\ GetChats(line, filter, 1)
    /\ came' = {} /\ removed' = FALSE
    /\ UNCHANGED <<store, report, written, wanted, cameSince>>
ScrollChats ==
    /\ view.step = "shown" /\ view.more
    /\ GetChats(view.line, view.filter, view.page + 1)
    /\ UNCHANGED <<store, report, shown>>
\* ... and another the last message of each
FillChats ==
    /\ view.step = "grouped"
    /\ view' = [view EXCEPT !.step = "shown", !.rows =
                  {IF r.page = view.page
                   THEN [r EXCEPT !.last = IF Of(log, r.chat) = {} THEN 0
                                           ELSE LastOf(Of(log, r.chat))]
                   ELSE r : r \in view.rows}]
    /\ UNCHANGED <<store, report, shown>>

----------------------------------------------------------------------------
(* The figures *)

\* buildDateRange: the last days, or from a day to a day
InRange(since, until) ==
    {m \in log : m.day >= since /\ (until # NoDay => m.day <= until)}
Reported == On(InRange(report.since, report.until), report.line)

ByDay(rows) == [d \in Days |-> Cardinality({m \in rows : m.day = d})]
ByPhone(rows, phones) == [p \in phones |-> Cardinality({m \in rows : m.chat[2] = p})]

\* the contacts with the most messages, no more than there is room for
TopOf(rows) ==
    {top \in SUBSET PhonesOf(rows) :
        /\ Cardinality(top) = Min({TopContacts, Cardinality(PhonesOf(rows))})
        /\ \A p \in top, q \in PhonesOf(rows) \ top :
              ByPhone(rows, {p})[p] >= ByPhone(rows, {q})[q]}

\* Mutant: counts the contacts that were answered on any day
AnsweredEver(rows) == PhonesOf(log \ Inbound(log)) \intersect PhonesOf(Inbound(log))

\* the contacts written to, of those that wrote since the range began: its end is not
\* looked at
Answered(rows) ==
    PhonesOf(rows \ Inbound(rows)) \intersect
        PhonesOf(Inbound(On(InRange(report.since, NoDay), report.line)))

\* the first query of getAnalytics and of exportAnalyticsToExcel
AskFigures(kind, line, since, until) ==
    LET rows == On(InRange(since, until), line) IN
    /\ reader = "figures" /\ report.step = "none"
    /\ report' = [NoReport EXCEPT
          !.step = IF kind = "panel" THEN "volume" ELSE "contacts", !.kind = kind,
          !.line = line, !.since = since, !.until = until,
          !.total = Cardinality(rows), !.contacts = Cardinality(PhonesOf(rows))]
    /\ written' = FALSE /\ removed' = FALSE
    /\ UNCHANGED <<store, view, came, wanted, cameSince>>
\* the panel asks for the volume first, the spreadsheet for the contacts; the spreadsheet
\* lists all of them
FiguresByDay ==
    /\ report.step = "volume"
    /\ report' = [report EXCEPT !.volume = ByDay(Reported),
                    !.step = IF report.kind = "panel" THEN "contacts" ELSE "done"]
    /\ UNCHANGED <<store, view, shown>>
FiguresByContact ==
    /\ report.step = "contacts"
    /\ \E top \in IF report.kind = "panel" THEN TopOf(Reported) ELSE {PhonesOf(Reported)} :
          report' = [report EXCEPT !.top = ByPhone(Reported, top),
                       !.step = IF report.kind = "panel" THEN "rate" ELSE "volume"]
    /\ UNCHANGED <<store, view, shown>>
ResponseRate ==
    /\ report.step = "rate"
    /\ report' = [report EXCEPT !.answered = Cardinality(Answered(Reported)),
                    !.asking = Cardinality(PhonesOf(Inbound(Reported))), !.step = "done"]
    /\ UNCHANGED <<store, view, shown>>

FiguresNext ==
    \/ NextDay \/ ScrollChats \/ FillChats
    \/ FiguresByDay \/ FiguresByContact \/ ResponseRate
    \/ \E c \in Chats :
          \/ ReadChat(c) \/ FlagChat(c) \/ RemoveChat(c)
          \/ \E inbound \in BOOLEAN : MessageStored(c, inbound)
    \/ \E line \in Lines \union {EveryLine} :
          \/ \E filter \in Filters : OpenChats(line, filter)
          \/ \E kind \in {"panel", "sheet"}, since \in 0 .. today :
                \E until \in (since .. MaxDay - 1) \union {NoDay} :   \* MaxDay is as good as none
                   AskFigures(kind, line, since, until)

FiguresSpec == FiguresInit /\ [][FiguresNext]_figureVars

----------------------------------------------------------------------------
(* Properties *)

\* A user who scrolled to the end saw every chat, unless a chat was read, flagged or
\* deleted meanwhile, which shifts the pages up; a new message shifts them down: then
\* only the chat that got it may be missed, and a chat is shown twice only then.
PagesCoverTheList ==
    /\ (view.step = "shown" /\ ~view.more /\ ~removed) =>
          \A c \in Listed(view.line, view.filter) \ came : \E r \in view.rows : r.chat = c
    /\ (came = {} /\ ~removed) =>
          \A r, s \in view.rows : r.chat = s.chat => r = s
    /\ view.step = "shown" => \A r \in view.rows : r.last >= r.at \/ removed

\* The parts of a panel or of a spreadsheet add up to its total, but for the contacts the
\* panel has no room for, unless something was written between its queries; new messages
\* only make a later query count more than an earlier one.  No more contacts were answered
\* than wrote, unless the range has an end: it also counts those who wrote after it.
FiguresAddUp ==
    report.step = "done" =>
        LET volume == Total(report.volume)
            top == Total(report.top)
        IN /\ ~written => /\ volume = report.total
                          /\ IF report.kind = "sheet" \/ report.contacts <= TopContacts
                             THEN top = report.total ELSE top < report.total
           /\ ~removed => /\ volume >= report.total
                          /\ report.kind = "sheet" => report.total <= top /\ top <= volume
           /\ report.answered > report.asking =>
                 /\ report.until # NoDay
                 /\ removed \/ \E m \in Inbound(On(log, report.line)) : m.day > report.until

\* A click on "reply later" flags a chat, or takes the flag off, as the list shows it,
\* unless a message came after the flag was set: then the flag stays.
FlagFollowsClicks ==
    \A c \in Chats :
        Of(log, c) # {} /\ Flagged(Of(log, c)) # wanted[c] => c \in cameSince

ViewRow == [chat : Chats, page : Nat, at : Nat, last : Nat]
View == [step : {"closed", "grouped", "shown"}, line : Lines \union {EveryLine},
         filter : Filters, page : Nat, rows : SUBSET ViewRow, more : BOOLEAN]
Report == [step : {"none", "volume", "contacts", "rate", "done"}, kind : {"panel", "sheet"},
           line : Lines \union {EveryLine}, since : Nat, until : Int, total : Nat,
           contacts : Nat, volume : [Days -> Nat],
           top : UNION {[phones -> 0 .. MaxMessages] : phones \in SUBSET Phones},
           answered : Nat, asking : Nat]

FiguresTypeOK ==
    /\ reader \in {"list", "figures"}
    /\ log \subseteq Message /\ today \in Days
    /\ stored \in 0 .. MaxMessages /\ edits \in 0 .. MaxEdits
    /\ view \in View /\ report \in Report
    /\ \A r \in view.rows : r.page \in 1 .. view.page
    /\ came \subseteq Chats /\ cameSince \subseteq Chats /\ wanted \in [Chats -> BOOLEAN]
    /\ removed \in BOOLEAN /\ written \in BOOLEAN

\* Messages are numbered as they come, and their flags are those of the last click but in
\* chats that got a message since.
LogKnown ==
    /\ \A m \in log : m.id <= stored
    /\ \A m, n \in log : m.id = n.id => m = n
    /\ \A c \in Chats \ cameSince : \A m \in Of(log, c) : m.replyLater = wanted[c]
    /\ reader = "figures" => /\ \A m \in log : ~m.replyLater
                             /\ \A c \in Chats : ~wanted[c]

\* What is shown of the list, unless a chat was read, flagged or deleted: the pages hold the
\* first chats that got no message, and each row the last message it had then.
Filled(r) == r.page < view.page \/ view.step = "shown"
InView(c) == \E r \in view.rows : r.chat = c
ViewKnown ==
    /\ view.step = "closed" => view.rows = {}
    /\ view.step # "closed" => reader = "list" /\ view.page >= 1
    /\ view.step # "closed" /\ ~removed =>
          LET chats == Listed(view.line, view.filter) IN
          /\ \A c \in chats \ came :
                RankOf(c, chats) < Offset(view.page) + PageLimit \/ ~view.more => InView(c)
          /\ \A r \in view.rows :
                /\ Of(log, r.chat) # {} /\ LastOf(Of(log, r.chat)) >= r.at
                /\ Filled(r) => r.last >= r.at
                /\ came = {} =>
                      /\ r.chat \in chats
                      /\ RankOf(r.chat, chats) \in
                            Offset(r.page) .. Offset(r.page) + PageLimit - 1
                      /\ r.at = LastOf(Of(log, r.chat))
                      /\ r.last = IF Filled(r) THEN r.at ELSE 0

\* What a report has found, unless something was written since.
VolumeFound ==
    report.step = "done" \/ (report.kind = "panel" /\ report.step \in {"contacts", "rate"})
TopFound ==
    \/ report.step = "done" \/ (report.kind = "panel" /\ report.step = "rate")
    \/ (report.kind = "sheet" /\ report.step = "volume")
VolumeKnown ==
    LET volume == Total(report.volume) IN
    /\ ~written => volume = report.total
    /\ ~removed => volume >= report.total
TopKnown ==
    LET top == Total(report.top) IN
    /\ top \in Nat
    /\ ~written => IF report.kind = "sheet" \/ report.contacts <= TopContacts
                   THEN top = report.total ELSE top < report.total
    /\ ~removed /\ report.kind = "sheet" =>
          /\ report.total <= top /\ top <= Cardinality(Reported)
          /\ report.step = "done" => top <= Total(report.volume)
ReportKnown ==
    report.step # "none" =>
        /\ reader = "figures" /\ (report.step = "rate" => report.kind = "panel")
        /\ ~written => /\ report.total = Cardinality(Reported)
                       /\ report.contacts = Cardinality(PhonesOf(Reported))
        /\ ~removed => report.total <= Cardinality(Reported)
        /\ VolumeFound => VolumeKnown
        /\ TopFound => TopKnown
        /\ IF report.step = "done" /\ report.kind = "panel"
           THEN /\ report.answered = Cardinality(Answered(Reported))
                /\ report.asking = Cardinality(PhonesOf(Inbound(Reported)))
           ELSE report.answered = 0 /\ report.asking = 0

\* What the list and the figures rest on: inductive.
FiguresInv == FiguresTypeOK /\ LogKnown /\ ViewKnown /\ ReportKnown
=============================================================================
