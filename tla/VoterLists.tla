----------------------------- MODULE VoterLists -----------------------------
(***************************************************************************)
(* What the office and a leader see and change of a tenant's voters: the   *)
(* pages, the figures, the spreadsheet and the map, each limited to the    *)
(* leader's own voters when a leader asks, and the leader's own requests,  *)
(* which check that a voter is theirs before a wait and write after it.    *)
(* Voters.tla has the counts, the import and the geocoding.                *)
(***************************************************************************)
EXTENDS Integers, FiniteSets, FiniteSetsExt, Rows

CONSTANTS ListVoters,   \* bound: voters ever inserted, numbered
          ListLeaders,  \* bound: leaders, numbered
          Neighborhoods,        \* neighborhoods
          NoHood,
          PerPage,
          MaxChanges    \* bound: voters moved, removed, placed; leaders removed

ASSUME VoterListsAssumption ==
    /\ ListVoters \in Nat \ {0} /\ ListLeaders \in Nat \ {0}
    /\ NoHood \notin Neighborhoods /\ PerPage \in Nat \ {0} /\ MaxChanges \in Nat

VARIABLES asks,       \* what a behaviour is about: pages, or a leader's requests
          voter,      \* rows of voters
          inserted,
          leaders,    \* rows of leaders
          own,        \* the request of a leader at work
          paging,     \* the pages somebody went through
          fewer,      \* history: whether a voter moved or went since the first page,
          grown,      \* and whether one was inserted
          given,      \* history: the leader the office, or a create, gave each voter
          crossing,   \* history: voters the office moved while a leader's request was out
          taken,       \* history: voters a leader's request removed
          changes

listVars == <<asks, voter, inserted, leaders, own, paging, fewer, grown, given, crossing,
              taken, changes>>

NoScope == -1      \* the office asks
NoLeaderId == -2   \* NO_LEADER_ID: a leader without a leader's row asks
VoterNos == 1 .. ListVoters
LeaderNos == 1 .. ListLeaders
Holders == {0} \union LeaderNos
Scopes == {NoScope, NoLeaderId} \union LeaderNos
VoterRow == [here : BOOLEAN, leader : Holders, at : 0 .. ListVoters,
             hood : Neighborhoods \union {NoHood}, placed : BOOLEAN]
Nobody == [here |-> FALSE, leader |-> 0, at |-> 0, hood |-> NoHood, placed |-> FALSE]
NoRequest == [step |-> "idle", id |-> 1, leader |-> 1]
NoPages == [step |-> "none", scope |-> NoScope, wanted |-> {}, page |-> 0, seen |-> {},
            total |-> 0]

history == <<given, crossing, taken>>
pages == <<paging, fewer, grown>>

ListsInit ==
    /\ asks \in {"pages", "requests"}
    /\ voter = [v \in VoterNos |-> Nobody] /\ inserted = 0
    /\ leaders = LeaderNos
    /\ own = NoRequest /\ paging = NoPages
    /\ fewer = FALSE /\ grown = FALSE
    /\ given = [v \in VoterNos |-> 0]
    /\ crossing = {} /\ taken = {} /\ changes = 0

Here == {v \in VoterNos : voter[v].here}

----------------------------------------------------------------------------
(* Queries *)

\* Mutant: without a leader, without a limit
ScopedIfAny(vs, scope) ==
    IF scope \in {NoScope, NoLeaderId} THEN vs ELSE {v \in vs : voter[v].leader = scope}

\* scopeSql
Scoped(vs, scope) == IF scope = NoScope THEN vs ELSE {v \in vs : voter[v].leader = scope}

\* the voters of a list: of the scope, and of the leaders it is filtered by
ListOf(scope, wanted) ==
    {v \in Scoped(Here, scope) : wanted # {} => voter[v].leader \in wanted}

\* exportToExcel: the same, each with the name of a leader that is still there
Spreadsheet(scope, wanted) ==
    [v \in ListOf(scope, wanted) |-> IF voter[v].leader \in leaders THEN voter[v].leader
                                     ELSE 0]

\* getListStats
ListStats(scope, wanted) ==
    LET vs == ListOf(scope, wanted)
        named == {v \in vs : voter[v].hood # NoHood}
        bairros == {voter[v].hood : v \in named}
    IN [total |-> Cardinality(vs), withNeighborhood |-> Cardinality(named),
        of |-> [h \in bairros |-> Cardinality({v \in named : voter[v].hood = h})]]
\* getStatsByNeighborhood and getStatsByCity
ByHood(scope) ==
    [h \in {voter[v].hood : v \in Scoped(Here, scope)} \ {NoHood} |->
        Cardinality({v \in Scoped(Here, scope) : voter[v].hood = h})]

\* getLeaderRankingByConfidence: joined with the leaders there are
Ranking(scope) ==
    [l \in {voter[v].leader : v \in Scoped(Here, scope)} \intersect leaders |->
        Cardinality({v \in Scoped(Here, scope) : voter[v].leader = l})]

\* getHeatmapData, and getHeatmapAggregated, which leaves out those without a neighborhood
Heatmap(scope) == {v \in Scoped(Here, scope) : voter[v].placed}
Aggregated(scope) ==
    [h \in {voter[v].hood : v \in Heatmap(scope)} \ {NoHood} |->
        Cardinality({v \in Heatmap(scope) : voter[v].hood = h})]
\* getGeocodeStatus, of the whole tenant
GeocodePending == {v \in Here : ~voter[v].placed /\ voter[v].hood # NoHood}
GeocodeGroups == {voter[v].hood : v \in GeocodePending}

----------------------------------------------------------------------------
(* The office *)

\* bound: one list is gone through, and what follows does not change what was seen
Open == paging.step = "shown" => paging.page * PerPage < paging.total

Changes == Open /\ changes < MaxChanges /\ changes' = changes + 1

\* create, or a batch of the import: one INSERT, so one createdAt for all its rows
InsertVoters(n, l, hood) ==
    LET new == inserted + 1 .. inserted + n IN
    /\ Open /\ inserted + n <= ListVoters
    /\ asks = "requests" => inserted + n < ListVoters   \* fewer are enough
    /\ asks = "pages" => hood = NoHood /\ l # 2   \* one leader's list is enough
    /\ voter' = [v \in VoterNos |->
                   IF v \in new THEN [here |-> TRUE, leader |-> l, at |-> inserted + 1,
                                      hood |-> hood, placed |-> FALSE]
                   ELSE voter[v]]
    /\ inserted' = inserted + n
    /\ given' = [v \in VoterNos |-> IF v \in new THEN l ELSE given[v]]
    /\ grown' = TRUE
    /\ UNCHANGED <<asks, leaders, own, paging, fewer, crossing, taken, changes>>
\* update with another leader, whole; its statements are in Voters.tla
MoveListed(v, l) ==
    /\ v \in Here /\ Changes
    /\ voter' = [voter EXCEPT ![v].leader = l]
    /\ asks = "pages" => l # 2
    /\ given' = [given EXCEPT ![v] = l]
    /\ crossing' = IF own.step # "idle" /\ own.id = v THEN crossing \union {v} ELSE crossing
    /\ fewer' = TRUE
    /\ UNCHANGED <<asks, inserted, leaders, own, paging, grown, taken>>
RemoveListed(v) ==
    /\ v \in Here /\ Changes
    /\ voter' = [voter EXCEPT ![v].here = FALSE]
    /\ fewer' = TRUE
    /\ UNCHANGED <<asks, inserted, leaders, own, paging, grown, history>>
\* nothing in voters refers to the row of a leader: their leaderId stays
RemoveLeader(l) ==
    /\ asks = "requests" /\ l \in leaders /\ Changes
    /\ leaders' = leaders \ {l}
    /\ UNCHANGED <<asks, voter, inserted, own, pages, history>>
PlaceHood(h) ==
    /\ h \in GeocodeGroups /\ Changes
    /\ voter' = [v \in VoterNos |-> IF v \in GeocodePending /\ voter[v].hood = h
                               THEN [voter[v] EXCEPT !.placed = TRUE] ELSE voter[v]]
    /\ UNCHANGED <<asks, inserted, leaders, own, pages, history>>

----------------------------------------------------------------------------
(* Requests of a leader *)

\* Mutant: looks for the voter of anybody
AnyVoter(l) == Here

\* findOne with the leader's scope
OwnVoters(l) == Scoped(Here, l)

\* update and remove check that the voter is the leader's ...
LeaderAsks(l, v, step) ==
    /\ asks = "requests" /\ own.step = "idle" /\ v \in OwnVoters(l)
    /\ own' = [step |-> step, id |-> v, leader |-> l]
    /\ UNCHANGED <<asks, voter, inserted, leaders, pages, history, changes>>
\* ... and, after the geocoder or a query answered, write the row whosever it is by then:
\* the leader gets it
LeaderSaves ==
    /\ own.step = "edit"
    /\ voter' = IF own.id \in Here THEN [voter EXCEPT ![own.id].leader = own.leader] ELSE voter
    /\ own' = NoRequest
    /\ UNCHANGED <<asks, inserted, leaders, pages, history, changes>>
LeaderDeletes ==
    /\ own.step = "remove"
    /\ voter' = [voter EXCEPT ![own.id].here = FALSE]
    /\ taken' = IF own.id \in Here THEN taken \union {<<own.leader, own.id>>} ELSE taken
    /\ own' = NoRequest
    /\ UNCHANGED <<asks, inserted, leaders, pages, given, crossing, changes>>

----------------------------------------------------------------------------
(* findAllPaginated *)

\* sets of n of the voters that "ORDER BY createdAt DESC" may put first: rows of one
\* INSERT come in any order, another one in each query
Firsts(vs, n) ==
    {first \in SUBSET vs :
        /\ Cardinality(first) = Min({n, Cardinality(vs)})
        /\ \A v \in first, w \in vs \ first : voter[v].at >= voter[w].at}

\* Mutant: the first page begins after itself
OffsetFromOne(page) == page * PerPage

Skipped(page) == (page - 1) * PerPage

GetPage(scope, wanted, page) ==
    LET vs == ListOf(scope, wanted) IN
    \E before \in Firsts(vs, Skipped(page)) :
        \E data \in Firsts(vs \ before, PerPage) :
            paging' = [step |-> "count", scope |-> scope, wanted |-> wanted, page |-> page,
                       seen |-> paging.seen \union {<<v, page>> : v \in data},
                       total |-> paging.total]

FirstPage(scope, wanted) ==
    /\ asks = "pages" /\ paging.step = "none"
    /\ GetPage(scope, wanted, 1)
    /\ fewer' = FALSE /\ grown' = FALSE
    /\ UNCHANGED <<asks, voter, inserted, leaders, own, history, changes>>
\* getManyAndCount counts in a query of its own, unless the page is not full
CountPages ==
    /\ paging.step = "count"
    /\ paging' = [paging EXCEPT !.step = "shown",
                    !.total = Cardinality(ListOf(paging.scope, paging.wanted))]
    /\ UNCHANGED <<asks, voter, inserted, leaders, own, fewer, grown, history, changes>>
NextPage ==
    /\ paging.step = "shown" /\ paging.page * PerPage < paging.total
    /\ GetPage(paging.scope, paging.wanted, paging.page + 1)
    /\ UNCHANGED <<asks, voter, inserted, leaders, own, fewer, grown, history, changes>>

ListsNext ==
    \/ LeaderSaves \/ LeaderDeletes \/ CountPages \/ NextPage
    \/ \E n \in 1 .. 2, l \in Holders, h \in Neighborhoods \union {NoHood} :
          InsertVoters(n, l, h)
    \/ \E h \in Neighborhoods : PlaceHood(h)
    \/ \E l \in LeaderNos : RemoveLeader(l)
    \/ \E v \in VoterNos :
          \/ RemoveListed(v)
          \/ \E l \in Holders : MoveListed(v, l)
          \/ \E l \in LeaderNos, step \in {"edit", "remove"} : LeaderAsks(l, v, step)
    \/ FirstPage(NoScope, {}) \/ FirstPage(NoScope, {1}) \/ FirstPage(1, {})

ListsSpec == ListsInit /\ [][ListsNext]_listVars

----------------------------------------------------------------------------
(* Properties *)

Paging == [step : {"none", "count", "shown"}, scope : Scopes, wanted : SUBSET LeaderNos,
           page : Nat, seen : SUBSET (VoterNos \X Nat), total : 0 .. ListVoters]

ListsTypeOK ==
    /\ asks \in {"pages", "requests"}
    /\ voter \in [VoterNos -> VoterRow] /\ inserted \in 0 .. ListVoters
    /\ leaders \subseteq LeaderNos
    /\ own \in [step : {"idle", "edit", "remove"}, id : VoterNos, leader : LeaderNos]
    /\ paging \in Paging /\ \A s \in paging.seen : s[2] \in 1 .. paging.page
    /\ fewer \in BOOLEAN /\ grown \in BOOLEAN
    /\ given \in [VoterNos -> Holders] /\ crossing \subseteq VoterNos
    /\ taken \subseteq LeaderNos \X VoterNos
    /\ changes \in 0 .. MaxChanges

\* Whoever went through all the pages saw every voter of the list, and each once, unless
\* voters moved, went or came meanwhile, or the voter was inserted together with another:
\* rows of one INSERT have one createdAt and change places between two queries.
PagesShowEachOnce ==
    LET vs == ListOf(paging.scope, paging.wanted)
        Alone(v) == \A w \in vs : voter[w].at = voter[v].at => w = v
        Times(v) == Cardinality({s \in paging.seen : s[1] = v})
    IN (paging.step = "shown" /\ ~fewer) =>
          /\ paging.page * PerPage >= paging.total =>
                \A v \in vs : Alone(v) /\ Times(v) = 0 => grown
          /\ \A v \in vs : Alone(v) /\ Times(v) > 1 => grown

\* A leader asking sees no voter of another leader, in no list, figure, map or spreadsheet,
\* and one who has no leader's row sees none; what a page counts is what the figures count.
ScopeHolds ==
    \A scope \in Scopes, wanted \in {{}, {1}} :
        LET vs == ListOf(scope, wanted)
            stats == ListStats(scope, wanted)
        IN /\ scope \in LeaderNos =>
                /\ \A v \in vs \union Heatmap(scope) : voter[v].leader = scope
                /\ DOMAIN Ranking(scope) \subseteq {scope}
           /\ DOMAIN Spreadsheet(scope, wanted) = vs /\ stats.total = Cardinality(vs)
           /\ wanted = {} => stats.of = ByHood(scope)
           /\ scope = NoLeaderId => vs \union Heatmap(scope) = {}
    /\ Here = Heatmap(NoScope) \union GeocodePending \union {v \in Here : voter[v].hood = NoHood}
    /\ Cardinality(GeocodeGroups) <= Cardinality(GeocodePending)

\* The figures of the neighborhoods add up to those with one, in the list and on the map.
FiguresAddUp ==
    \A scope \in Scopes, wanted \in {{}, {1}} :
        LET stats == ListStats(scope, wanted) IN
        /\ stats.withNeighborhood = Total(stats.of)
        /\ Total(Aggregated(scope)) <= Cardinality(Heatmap(scope))

\* A leader's request changes or removes only a voter the office gave to that leader, and
\* takes none from another leader, unless the office moved the voter between the request's
\* check and its write.
LeaderTouchesOwn ==
    /\ \A v \in Here : voter[v].leader # given[v] => v \in crossing
    /\ \A l \in LeaderNos, v \in VoterNos : <<l, v>> \in taken /\ given[v] # l => v \in crossing

\* The lists show whose voters they should, and all of them (the properties above).
ListsAreTrue == PagesShowEachOnce /\ ScopeHolds /\ LeaderTouchesOwn

----------------------------------------------------------------------------
(* The inductive invariant behind ListsAreTrue *)

\* A leader's request is about a voter that was the leader's when it checked; a voter that
\* was removed does not come back, and one not yet inserted is of no request.
OwnRequests ==
    /\ \A v \in Here : v <= inserted
    /\ own.step # "idle" => /\ asks = "requests" /\ own.id <= inserted
                            /\ given[own.id] = own.leader \/ own.id \in crossing
    /\ \A t \in taken : t[2] <= inserted /\ t[2] \notin Here

\* those that a list shows before v
Newer(vs, v) == {w \in vs : voter[w].at > voter[v].at}

\* The pages gone through show the voters of the list that come first, each once; what was
\* counted is the list.
PagesAreFirst ==
    LET vs == ListOf(paging.scope, paging.wanted)
        Alone(v) == \A w \in vs : voter[w].at = voter[v].at => w = v
    IN /\ paging.step # "none" => asks = "pages"
       /\ paging.step # "none" /\ ~fewer /\ ~grown =>
             \A v \in vs : Alone(v) =>
                /\ (\E s \in paging.seen : s[1] = v)
                      <=> Cardinality(Newer(vs, v)) < paging.page * PerPage
                /\ \A s, t \in paging.seen : s[1] = v /\ t[1] = v => s = t
       /\ paging.step = "none" => paging = NoPages
       /\ paging.step = "shown" /\ ~fewer /\ ~grown => paging.total = Cardinality(vs)

ListsInv == ListsTypeOK /\ OwnRequests /\ LeaderTouchesOwn /\ PagesAreFirst
=============================================================================
