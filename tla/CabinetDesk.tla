---------------------------- MODULE CabinetDesk ----------------------------
(***************************************************************************)
(* The desk of the cabinet (CabinetVisitsService): its visitors, the list  *)
(* of their visits, the dashboard, whose seven queries run at once and see *)
(* each its own moment, and the question whether a visitor is a voter.     *)
(* How a visit is made, with its help record, is in HelpRecords.tla.       *)
(***************************************************************************)
EXTENDS Integers, FiniteSets, Sequences, Rows

CONSTANTS Visitors,       \* rows of visitors there may be
          Names,          \* a visitor's, in lower case and trimmed
          Phones,         \* [digits, marks]: as they are written; NoPhone may be one
          Electors, Card, \* voters, and the [name, phone] of each
          NoOne,         \* in the place of a visitor, a voter or a name
          VisitDays, Today,   \* days of visits, by number
          DeskJobs,       \* requests that change a visitor
          MaxDeskVisits, MaxDeskWork   \* bounds: visits, changes

Marks == {" ", "-", "(", ")"}   \* what the service strips from a phone

ASSUME CabinetDeskAssumption ==
    /\ IsFiniteSet(Visitors) /\ Names # {} /\ Phones # {}
    /\ \A p \in Phones \union {Card[c].phone : c \in Electors} :
          p = [digits |-> p.digits, marks |-> p.marks] /\ p.marks \subseteq Marks
    /\ Today \in Int /\ VisitDays \subseteq Int
    /\ MaxDeskVisits \in Nat /\ MaxDeskWork \in Nat
    /\ NoOne \notin Visitors \union Electors \union Names

VARIABLES visitorRow, deskVisits,
          electorate,    \* the voters there are
          deskJob,       \* an update of a visitor between its read and its save
          board,         \* the answer to a request for the dashboard, as it is filled
          deskWork,
          orphaned       \* history: visitors removed, and the visits they left

deskVars == <<visitorRow, deskVisits, electorate, deskJob, board, deskWork, orphaned>>

NoPhone == [digits |-> "", marks |-> {}]
VisitorRow == [here : BOOLEAN, name : Names, phone : Phones]
DeskVisit == [here : BOOLEAN, day : VisitDays, visitor : Visitors \union {NoOne},
              voter : Electors \union {NoOne}]
DeskIds == {v \in DOMAIN deskVisits : deskVisits[v].here}
NoVisitor == [here |-> FALSE, name |-> CHOOSE n \in Names : TRUE,
              phone |-> CHOOSE p \in Phones : TRUE]
BoardQueries == {"today", "last7", "last30", "visitors", "top", "daily", "voters"}
NoBoard == [asked |-> {}, answer |-> [q \in BoardQueries |-> -1], changes |-> 0]
Undone == [visitor |-> NoOne, row |-> NoVisitor]

DeskInit ==
    /\ visitorRow = [v \in Visitors |-> NoVisitor] /\ deskVisits = <<>>
    /\ electorate = Electors
    /\ deskJob = [j \in DeskJobs |-> Undone]
    /\ board = NoBoard /\ deskWork = 0 /\ orphaned = [visits |-> {}, removed |-> {}]

----------------------------------------------------------------------------
(* The name of a visit, the list, the queries of the dashboard *)

VisitorName(v) == IF deskVisits[v].visitor = NoOne THEN NoOne
                  ELSE visitorRow[deskVisits[v].visitor].name
\* voters are joined by an id that no foreign key keeps
VoterName(v) == IF deskVisits[v].voter \in electorate THEN Card[deskVisits[v].voter].name
                ELSE NoOne

\* findAllPaginated: a name to search, a first and a last day
ListedVisits(name, from, to) ==
    {v \in DeskIds : /\ from <= deskVisits[v].day /\ deskVisits[v].day <= to
                      /\ name \in {NoOne, VisitorName(v), VoterName(v)}}

\* Mutant: the first day is left out
After(days) == {v \in DeskIds : deskVisits[v].day > Today - days}

Since(days) == {v \in DeskIds : deskVisits[v].day >= Today - days}

\* one group for each name, of the visitor before that of the voter, and for voters apart
TopName(v) == IF VisitorName(v) # NoOne THEN VisitorName(v) ELSE VoterName(v)
Groups ==
    LET OfVoter(v) == deskVisits[v].voter # NoOne
        Group(v) == {w \in Since(30) : TopName(w) = TopName(v) /\ OfVoter(w) = OfVoter(v)}
    IN {[name |-> TopName(v), isVoter |-> OfVoter(v), count |-> Cardinality(Group(v))] :
            v \in Since(30)}
\* orderBy count DESC, limit 5: those of one count come in any order
TopVisitors ==
    {top \in SUBSET Groups :
        /\ Cardinality(top) = IF Cardinality(Groups) > 5 THEN 5 ELSE Cardinality(Groups)
        /\ \A g \in top, h \in Groups \ top : g.count >= h.count}

\* what a query may answer
QueryResults(q) ==
    CASE q = "today" -> {Cardinality(Since(0))}
      [] q = "last7" -> {Cardinality(Since(7))}
      [] q = "last30" -> {Cardinality(Since(30))}
      [] q = "visitors" -> {Cardinality({v \in Visitors : visitorRow[v].here})}
      [] q = "top" -> {Total([g \in top |-> g.count]) : top \in TopVisitors}
      [] q = "daily" -> {Total([d \in VisitDays |->
                                  Cardinality({v \in Since(30) : deskVisits[v].day = d})])}
      [] q = "voters" -> {Cardinality({v \in Since(30) : deskVisits[v].voter # NoOne})}

\* the queries touch nothing, so that any two of them are seen without the others
GetDashboard(q, r) ==
    /\ board.asked = {}
    /\ board' = [NoBoard EXCEPT !.asked = {q, r}]
    /\ UNCHANGED <<visitorRow, deskVisits, electorate, deskJob, deskWork, orphaned>>
\* Promise.all: the queries run on connections of their own, in any order
RunQuery(q) ==
    /\ q \in board.asked /\ board.answer[q] = -1
    /\ \E n \in QueryResults(q) : board' = [board EXCEPT !.answer[q] = n]
    /\ UNCHANGED <<visitorRow, deskVisits, electorate, deskJob, deskWork, orphaned>>
BoardFilled == board.asked # {} /\ \A q \in board.asked : board.answer[q] # -1
AnswerBoard ==
    /\ BoardFilled /\ board' = NoBoard
    /\ UNCHANGED <<visitorRow, deskVisits, electorate, deskJob, deskWork, orphaned>>

----------------------------------------------------------------------------
(* Is a visitor a voter? *)

\* Mutant: the phone of the voter is compared as it is written
NoneStripped(marks) == marks

\* the query strips three marks and forgets the fourth
StrippedByQuery(marks) == marks \ {" ", "-", "("}

\* the service strips them all before it asks
Bare(phone) == [phone EXCEPT !.marks = {}]

\* checkVoterMatchByData, and checkVoterMatch with the data of a visitor
VoterMatch(name, phone) ==
    {c \in electorate :
        /\ Card[c].name = name
        /\ \/ phone = NoPhone
           \/ [Card[c].phone EXCEPT !.marks = StrippedByQuery(@)] = Bare(phone)}

----------------------------------------------------------------------------
(* Writes *)

\* a row of visitors, of visits or of voters changes while the dashboard is read
DeskWrite ==
    /\ deskWork < MaxDeskWork /\ deskWork' = deskWork + 1
    /\ board' = IF board.asked # {} THEN [board EXCEPT !.changes = @ + 1] ELSE board

CreateVisitor(v, name, phone) ==
    /\ ~visitorRow[v].here /\ v \notin orphaned.removed /\ DeskWrite
    /\ visitorRow' = [visitorRow EXCEPT ![v] = [here |-> TRUE, name |-> name, phone |-> phone]]
    /\ UNCHANGED <<deskVisits, electorate, deskJob, orphaned>>
\* updateVisitor: the row is found, and the whole of it saved, inserted when it is gone
UpdateVisitor(j, v, name) ==
    /\ deskJob[j] = Undone /\ visitorRow[v].here
    /\ deskJob' = [deskJob EXCEPT ![j] = [visitor |-> v,
                                          row |-> [visitorRow[v] EXCEPT !.name = name]]]
    /\ UNCHANGED <<visitorRow, deskVisits, electorate, board, deskWork, orphaned>>
UpdateVisitorSave(j) ==
    /\ deskJob[j] # Undone /\ DeskWrite
    /\ visitorRow' = [visitorRow EXCEPT ![deskJob[j].visitor] = deskJob[j].row]
    /\ deskJob' = [deskJob EXCEPT ![j] = Undone]
    /\ UNCHANGED <<deskVisits, electorate, orphaned>>
\* removeVisitor: the foreign key takes the visitor from the visits, which stay
RemoveVisitor(v) ==
    /\ visitorRow[v].here /\ DeskWrite
    /\ visitorRow' = [visitorRow EXCEPT ![v].here = FALSE]
    /\ deskVisits' = [w \in DOMAIN deskVisits |->
           [deskVisits[w] EXCEPT !.visitor = IF @ = v THEN NoOne ELSE @]]
    /\ orphaned' = [visits |-> orphaned.visits \union
                                  {w \in DOMAIN deskVisits : deskVisits[w].visitor = v},
                    removed |-> orphaned.removed \union {v}]
    /\ UNCHANGED <<electorate, deskJob>>
\* Mutant: a visit of nobody is not refused
VisitOfNobody(v, c) == v # NoOne => visitorRow[v].here

\* createCabinetVisit refuses a visit of nobody, the foreign key one of a visitor who is gone
VisitOf(v, c) == /\ v # NoOne \/ c # NoOne
                 /\ v # NoOne => visitorRow[v].here
AddVisit(v, c, day) ==
    /\ Len(deskVisits) < MaxDeskVisits /\ VisitOf(v, c) /\ DeskWrite
    /\ deskVisits' = Append(deskVisits, [here |-> TRUE, day |-> day, visitor |-> v, voter |-> c])
    /\ UNCHANGED <<visitorRow, electorate, deskJob, orphaned>>
RemoveVisitOf(w) ==
    /\ w \in DeskIds /\ DeskWrite
    /\ deskVisits' = [deskVisits EXCEPT ![w].here = FALSE]
    /\ UNCHANGED <<visitorRow, electorate, deskJob, orphaned>>
\* VotersService.remove
RemoveVoterCard(c) ==
    /\ c \in electorate /\ DeskWrite /\ electorate' = electorate \ {c}
    /\ UNCHANGED <<visitorRow, deskVisits, deskJob, orphaned>>

DeskNext ==
    \/ AnswerBoard
    \/ \E q \in BoardQueries : RunQuery(q) \/ GetDashboard(q, "last30")
    \/ GetDashboard("today", "last7")
    \/ \E v \in Visitors :
          \/ RemoveVisitor(v)
          \/ \E name \in Names, phone \in Phones : CreateVisitor(v, name, phone)
          \/ \E j \in DeskJobs, name \in Names : UpdateVisitor(j, v, name)
    \/ \E j \in DeskJobs : UpdateVisitorSave(j)
    \/ \E v \in Visitors \union {NoOne}, c \in electorate \union {NoOne}, day \in VisitDays :
          AddVisit(v, c, day)
    \/ \E w \in DeskIds : RemoveVisitOf(w)
    \/ \E c \in electorate : RemoveVoterCard(c)

DeskSpec == DeskInit /\ [][DeskNext]_deskVars

----------------------------------------------------------------------------
DeskTypeOK ==
    /\ visitorRow \in [Visitors -> VisitorRow]
    /\ deskVisits \in Seq(DeskVisit) /\ Len(deskVisits) <= MaxDeskVisits
    /\ electorate \subseteq Electors
    /\ \A q \in BoardQueries : board.answer[q] \in -1 .. MaxDeskVisits + Cardinality(Visitors)

\* A visit has a visitor who is there or a voter, unless its visitor was removed; an update
\* may bring the visitor back, but not to his visits.
VisitsHaveSomebody ==
    \A v \in DeskIds :
        /\ deskVisits[v].visitor # NoOne => visitorRow[deskVisits[v].visitor].here
        /\ deskVisits[v].visitor = NoOne /\ deskVisits[v].voter = NoOne => v \in orphaned.visits

\* The figures of a dashboard agree: today's visits are among those of the week, and these
\* among those of the month, which the days add up to, of which the voters' are a part, and
\* of which the names on top have all when there are five at most; but for one visit or
\* another for each write while the queries ran, so that nonVoterVisitsLast30, a difference
\* of two of them, goes below zero.
FiguresAgree ==
    LET Within(q, r) ==
            board.asked = {q, r} => board.answer[q] <= board.answer[r] + board.changes
    IN BoardFilled =>
        /\ Within("today", "last7")
        /\ \A q \in {"today", "last7", "voters", "top", "daily"} : Within(q, "last30")
        /\ Within("last30", "daily")
        /\ MaxDeskVisits <= 5 => Within("last30", "top")
        /\ board.changes = 0 /\ "last30" \in board.asked =>
              \A to \in VisitDays : (\A day \in VisitDays : day <= to) =>
                 board.answer["last30"] = Cardinality(ListedVisits(NoOne, Today - 30, to))

\* A visitor with the name and the phone of a voter is taken for one, unless the voter's
\* phone was written with a ')'; and nobody is who has another phone.
MatchIsTrue ==
    \A v \in {w \in Visitors : visitorRow[w].here /\ visitorRow[w].phone # NoPhone} :
        LET row == visitorRow[v]
            same == {c \in electorate : /\ Card[c].name = row.name
                                        /\ Card[c].phone.digits = row.phone.digits}
        IN VoterMatch(row.name, row.phone) = {c \in same : ")" \notin Card[c].phone.marks}

DeskIsKept == VisitsHaveSomebody /\ FiguresAgree /\ MatchIsTrue

----------------------------------------------------------------------------
(* The inductive invariant behind DeskIsKept *)

BoardType == [asked : SUBSET BoardQueries, answer : [BoardQueries -> Int], changes : Nat]

\* The row that an update will save is of a visitor who was there.
RowsOfUpdates ==
    \A j \in DeskJobs : deskJob[j] # Undone =>
        deskJob[j].visitor \in Visitors /\ deskJob[j].row \in VisitorRow /\ deskJob[j].row.here

\* An answer is not far from what its query would count now: none is above the month, or
\* the week, by more than the writes since, nor one that counts them all below it.
BoardTells ==
    LET AtMost(q, n) == board.answer[q] # -1 => board.answer[q] <= n + board.changes
        AtLeast(q, n) == board.answer[q] # -1 => n <= board.answer[q] + board.changes
        month == Cardinality(Since(30))
        week == Cardinality(Since(7))
    IN /\ \A q \in BoardQueries : board.answer[q] # -1 => q \in board.asked
       /\ \A q \in BoardQueries \ {"visitors"} : AtMost(q, month)
       /\ AtMost("today", week) /\ AtLeast("last7", week)
       /\ AtLeast("last30", month) /\ AtLeast("daily", month)
       /\ MaxDeskVisits <= 5 => AtLeast("top", month)

DeskInv ==
    /\ DeskTypeOK /\ board \in BoardType /\ RowsOfUpdates
    /\ VisitsHaveSomebody /\ BoardTells /\ FiguresAgree
=============================================================================
