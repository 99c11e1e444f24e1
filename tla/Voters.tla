------------------------------- MODULE Voters -------------------------------
(***************************************************************************)
(* The voters of a tenant (VotersService): requests that create, move and  *)
(* remove them, the import of a spreadsheet with its index of duplicates,  *)
(* its batch and the leaders and help records it makes, the count of       *)
(* voters each leader's row keeps, and the geocoding in the background.    *)
(***************************************************************************)
EXTENDS Naturals, FiniteSets, Sequences, Rows

CONSTANTS MaxVoters,      \* bound: rows of voters
          MaxLeaders,     \* bound: rows of leaders
          LeaderNames,
          Keys,           \* normalized names with their phones
          Towns, States,  \* a place is a town (neighborhood, city) in a state
          Files,          \* spreadsheets that can be imported
          Imports, VoterJobs,   \* imports and requests at work
          BatchSize,
          MaxWork,       \* bound: requests and imports
          NoKey, NoLeader

\* a line of a spreadsheet: no name; no phone, hence no key; the name in other letters
\* than the key's; a leader; a help record; a value the database refuses
Row == [named : BOOLEAN, key : Keys \union {NoKey}, spelled : BOOLEAN,
        leader : LeaderNames \union {NoLeader}, help : BOOLEAN, refused : BOOLEAN,
        town : Towns, state : States]

ASSUME VotersAssumption ==
    /\ MaxVoters \in Nat \ {0} /\ MaxLeaders \in Nat \ {0} /\ BatchSize \in Nat \ {0}
    /\ MaxWork \in Nat
    /\ NoKey \notin Keys /\ NoLeader \notin LeaderNames
    /\ LeaderNames # {} /\ Towns # {} /\ States # {}
    /\ \A f \in Files : f \in Seq(Row)

VARIABLES voters,     \* rows, by order of insertion
          leaderRow,  \* leaders: name and votersCount
          import,
          voterJob,
          geocoding,  \* the groups the background job still has to look up
          uncounted,  \* history: leaders whose count a request left behind
          crossed,    \* history: keys inserted by one while another had looked for them
          work

voterVars == <<voters, leaderRow, import, voterJob, geocoding, uncounted, crossed,
               work>>

VoterIds == 1 .. MaxVoters
LeaderIds == 1 .. MaxLeaders
NoPlace == [town |-> CHOOSE t \in Towns : TRUE, state |-> CHOOSE s \in States : TRUE]
Voter == [here : BOOLEAN, key : Keys \union {NoKey}, spelled : BOOLEAN, leader : 0 .. MaxLeaders,
          place : [town : Towns, state : States], found : States, placed : BOOLEAN]
NewVoter == [here |-> FALSE, key |-> NoKey, spelled |-> FALSE, leader |-> 0, place |-> NoPlace,
             found |-> NoPlace.state, placed |-> FALSE]

\* the index: 0 for a key it does not have, an id, or PENDING_IN_BATCH
Pending == MaxVoters + 1
IdleImport == [step |-> "idle", file |-> <<>>, at |-> 1,
               leaderOf |-> [n \in LeaderNames |-> 0], index |-> [k \in Keys |-> 0],
               batch |-> <<>>, imported |-> 0, skipped |-> 0, duplicates |-> 0,
               helped |-> 0, unhelped |-> 0,
               since |-> 0, mine |-> {}]   \* history: the voters at the index, and its own
IdleVoterJob == [step |-> "idle", id |-> 1, copy |-> NewVoter, old |-> 0, leader |-> 0]

Count == Len(voters)
HereV == {v \in 1 .. Count : voters[v].here}
WithKey(k) == {v \in HereV : voters[v].key = k}
VotersOf(l) == {v \in HereV : voters[v].leader = l}
\* syncLeaderVotersCount, one UPDATE
Synced(rows, of) == [l \in DOMAIN rows |-> IF l \in of THEN [rows[l] EXCEPT !.count =
                                                              Cardinality(VotersOf(l))]
                                           ELSE rows[l]]
Max2(S) == CHOOSE x \in S : \A y \in S : y <= x

VotersInit ==
    /\ leaderRow = <<[name |-> CHOOSE n \in LeaderNames : TRUE, count |-> 1]>>
    /\ voters = <<[NewVoter EXCEPT !.here = TRUE, !.leader = 1]>>
    /\ import = [i \in Imports |-> IdleImport]
    /\ voterJob = [j \in VoterJobs |-> IdleVoterJob]
    /\ geocoding = {}
    /\ uncounted = {} /\ crossed = {}
    /\ work = 0

----------------------------------------------------------------------------
(* create, update and remove *)

\* a request about voter v, or the next one, begins with what it finds
Edits(j, job) ==
    /\ voterJob[j].step = "idle" /\ work < MaxWork
    /\ work' = work + 1
    /\ voterJob' = [voterJob EXCEPT ![j] = job]
    /\ UNCHANGED <<voters, leaderRow, import, geocoding, uncounted, crossed>>

\* create: the geocoder may find the place first; nothing looks for the key
CreateVoter(j, k, l, place, placed) ==
    /\ Count < MaxVoters /\ l \in 0 .. Len(leaderRow) /\ work < MaxWork
    /\ voterJob[j].step = "idle"
    /\ voters' = Append(voters, [here |-> TRUE, key |-> k, spelled |-> TRUE, leader |-> l,
                                 place |-> place, found |-> place.state, placed |-> placed])
    /\ work' = work + 1
    /\ crossed' = IF k = NoKey THEN crossed ELSE crossed \union {k}
    /\ voterJob' = IF l = 0 THEN voterJob
                   ELSE [voterJob EXCEPT ![j] = [IdleVoterJob EXCEPT !.step = "syncNew",
                                                                     !.leader = l]]
    /\ UNCHANGED <<leaderRow, import, geocoding, uncounted>>
\* update: the leader it has is read when the request names one, then the row ...
UpdateVoter(j, v, names, l) ==
    /\ v \in HereV /\ l \in 0 .. Len(leaderRow)
    /\ Edits(j, [step |-> IF names THEN "find" ELSE "edit", id |-> v, copy |-> voters[v],
                 old |-> voters[v].leader, leader |-> l])
FindVoter(j) ==
    LET job == voterJob[j] IN
    /\ job.step = "find"
    /\ voterJob' = [voterJob EXCEPT ![j] =
         IF voters[job.id].here THEN [job EXCEPT !.step = "move", !.copy = voters[job.id]]
         ELSE IdleVoterJob]
    /\ UNCHANGED <<voters, leaderRow, import, geocoding, uncounted, crossed, work>>
\* ... which is saved whole, inserted again if it was removed
SaveVoter(j) ==
    LET job == voterJob[j]
        new == IF job.step = "move" THEN [job.copy EXCEPT !.leader = job.leader] ELSE job.copy
        was == voters[job.id]
        moved == IF was.here THEN IF was.leader = new.leader THEN {} ELSE {was.leader, new.leader}
                 ELSE {new.leader}
    IN
    /\ job.step \in {"move", "edit"}
    /\ voters' = [voters EXCEPT ![job.id] = new]
    /\ uncounted' = uncounted \union
         (moved \ (IF job.step = "move" THEN {0, job.old, job.leader} ELSE {0}))
    /\ crossed' = IF was.here \/ job.copy.key = NoKey THEN crossed
                  ELSE crossed \union {job.copy.key}
    /\ voterJob' = [voterJob EXCEPT ![j] =
         IF job.step = "edit" THEN IdleVoterJob
         ELSE IF job.old # 0 THEN [job EXCEPT !.step = "syncOld"]
         ELSE IF job.leader # 0 THEN [job EXCEPT !.step = "syncNew"]
         ELSE IdleVoterJob]
    /\ UNCHANGED <<leaderRow, import, geocoding, work>>
RemoveVoter(j, v) ==
    /\ v \in HereV
    /\ Edits(j, [IdleVoterJob EXCEPT !.step = "remove", !.id = v, !.copy = voters[v],
                                     !.old = voters[v].leader])
DeleteVoter(j) ==
    LET job == voterJob[j]
        was == voters[job.id]
    IN
    /\ job.step = "remove"
    /\ voters' = [voters EXCEPT ![job.id].here = FALSE]
    /\ uncounted' = uncounted \union (IF was.here THEN {was.leader} \ {0, job.old} ELSE {})
    /\ voterJob' = [voterJob EXCEPT ![j] = IF job.old # 0 THEN [job EXCEPT !.step = "syncOld"]
                                           ELSE IdleVoterJob]
    /\ UNCHANGED <<leaderRow, import, geocoding, crossed, work>>

\* Mutant: the leader that has the voter now is not counted again
NewLeaderForgotten(job) == {job.old}

\* the leaders a request still has to count: the one that had the voter, and the new one
ToSync(job) == IF job.step = "syncOld" THEN {job.old, job.leader} ELSE {job.leader}

SyncCount(j) ==
    LET job == voterJob[j]
        l == IF job.step = "syncOld" THEN job.old ELSE job.leader
    IN
    /\ job.step \in {"syncOld", "syncNew"}
    /\ leaderRow' = Synced(leaderRow, {l})
    /\ uncounted' = uncounted \ {l}
    /\ voterJob' = [voterJob EXCEPT ![j] =
         IF ToSync(job) \ {0, l} # {} THEN [job EXCEPT !.step = "syncNew"] ELSE IdleVoterJob]
    /\ UNCHANGED <<voters, import, geocoding, crossed, work>>
\* the request dies, or the database fails
VoterJobFails(j) ==
    LET job == voterJob[j] IN
    /\ job.step # "idle"
    /\ uncounted' = uncounted \union
         (IF job.step \in {"syncOld", "syncNew"} THEN {job.old, job.leader} \ {0} ELSE {})
    /\ voterJob' = [voterJob EXCEPT ![j] = IdleVoterJob]
    /\ UNCHANGED <<voters, leaderRow, import, geocoding, crossed, work>>

----------------------------------------------------------------------------
(* importFromExcel *)

OfImport(i) == import[i].file[import[i].at]
Importing(i) == /\ import[i].step = "rows" /\ import[i].at <= Len(import[i].file)
                /\ Len(import[i].batch) < BatchSize
KnownAt(i) == LET r == OfImport(i) IN r.key # NoKey /\ import[i].index[r.key] # 0
LeaderOf(i, r) == IF r.leader = NoLeader THEN 0 ELSE import[i].leaderOf[r.leader]
NeedsLeader(i) == OfImport(i).leader # NoLeader /\ LeaderOf(i, OfImport(i)) = 0
\* the row goes to the database at once when it brings a help record
Ready(i) == Importing(i) /\ OfImport(i).named /\ ~NeedsLeader(i)
Next1(job) == [job EXCEPT !.at = @ + 1]

AsVoter(i, r) == [here |-> TRUE, key |-> r.key, spelled |-> r.spelled, leader |-> LeaderOf(i, r),
                  place |-> [town |-> r.town, state |-> r.state], found |-> r.state,
                  placed |-> FALSE]
\* keys of rows that another inserted since the import looked for them
Crossing(i, rows) ==
    {k \in Keys : /\ \E n \in DOMAIN rows : rows[n].key = k
                  /\ \E v \in WithKey(k) : v > import[i].since /\ v \notin import[i].mine}

\* the leaders' names, and then the keys of the voters that have a phone
ImportStarts(i, file) ==
    /\ import[i] = IdleImport /\ work < MaxWork
    /\ work' = work + 1
    /\ import' = [import EXCEPT ![i] =
         [IdleImport EXCEPT !.step = "index", !.file = file,
            !.leaderOf = [n \in LeaderNames |->
               Max2({0} \union {l \in 1 .. Len(leaderRow) : leaderRow[l].name = n})]]]
    /\ UNCHANGED <<voters, leaderRow, voterJob, geocoding, uncounted, crossed>>
ImportIndex(i) ==
    /\ import[i].step = "index"
    /\ import' = [import EXCEPT ![i].step = "rows", ![i].since = Count,
         ![i].index = [k \in Keys |-> Max2({0} \union WithKey(k))]]
    /\ UNCHANGED <<voters, leaderRow, voterJob, geocoding, uncounted, crossed, work>>

\* rows that no statement is run for: unnamed, already there, or put in the batch
SkipUnnamed(i) ==
    /\ Importing(i) /\ ~OfImport(i).named
    /\ import' = [import EXCEPT ![i] = [Next1(import[i]) EXCEPT !.skipped = @ + 1]]
    /\ UNCHANGED <<voters, leaderRow, voterJob, geocoding, uncounted, crossed, work>>
SkipDuplicate(i) ==
    /\ Ready(i) /\ KnownAt(i) /\ ~OfImport(i).help
    /\ import' = [import EXCEPT ![i] = [Next1(import[i]) EXCEPT !.duplicates = @ + 1]]
    /\ UNCHANGED <<voters, leaderRow, voterJob, geocoding, uncounted, crossed, work>>
\* Mutant: only what the table has is in the index
IndexUnchanged(index, k) == index

\* "Adicionar ao indice para detectar duplicatas dentro do proprio arquivo"
IndexedPending(index, k) == IF k = NoKey THEN index ELSE [index EXCEPT ![k] = Pending]

PutInBatch(i) ==
    LET r == OfImport(i) IN
    /\ Ready(i) /\ ~KnownAt(i) /\ ~r.help
    /\ import' = [import EXCEPT ![i] = [Next1(import[i]) EXCEPT !.batch = Append(@, r),
                                          !.index = IndexedPending(@, r.key)]]
    /\ UNCHANGED <<voters, leaderRow, voterJob, geocoding, uncounted, crossed, work>>
\* a leader nobody had when the import began is made
ImportLeader(i) ==
    /\ Importing(i) /\ OfImport(i).named /\ NeedsLeader(i) /\ Len(leaderRow) < MaxLeaders
    /\ leaderRow' = Append(leaderRow, [name |-> OfImport(i).leader, count |-> 0])
    /\ import' = [import EXCEPT ![i].leaderOf[OfImport(i).leader] = Len(leaderRow) + 1]
    /\ UNCHANGED <<voters, voterJob, geocoding, uncounted, crossed, work>>

\* flushBatch, when the batch is full, a row with a help record is next, or at the end:
\* one INSERT, or, when that fails, one for each row
Flush(i) ==
    LET job == import[i]
        kept == Kept(job.batch)
    IN
    /\ job.step = "rows" /\ job.batch # <<>> /\ Count + Len(kept) <= MaxVoters
    /\ \/ Len(job.batch) = BatchSize
       \/ job.at > Len(job.file)
       \/ /\ Ready(i) /\ OfImport(i).help
          /\ (KnownAt(i) => job.index[OfImport(i).key] = Pending)
    /\ voters' = voters \o [n \in DOMAIN kept |-> AsVoter(i, kept[n])]
    /\ import' = [import EXCEPT ![i] = [job EXCEPT !.batch = <<>>, !.imported = @ + Len(kept),
                                          !.mine = @ \union (Count + 1 .. Count + Len(kept)),
                                          !.skipped = @ + (Len(job.batch) - Len(kept))]]
    /\ crossed' = crossed \union Crossing(i, kept)
    /\ UNCHANGED <<leaderRow, voterJob, geocoding, uncounted, work>>

\* a duplicate with a help record, of a voter whose id the index has ...
Helps(i, job, made) ==
    import' = [import EXCEPT ![i] =
                 IF made THEN [job EXCEPT !.helped = @ + 1] ELSE [job EXCEPT !.unhelped = @ + 1]]
HelpDuplicate(i) ==
    LET id == import[i].index[OfImport(i).key] IN
    /\ Ready(i) /\ KnownAt(i) /\ OfImport(i).help /\ id # Pending
    /\ \E made \in BOOLEAN : Helps(i, [Next1(import[i]) EXCEPT !.duplicates = @ + 1], made)
    /\ UNCHANGED <<voters, leaderRow, voterJob, geocoding, uncounted, crossed, work>>
\* ... or is looked for by the very name and phone, and may not be found
HelpPending(i) ==
    LET r == OfImport(i)
        found == {v \in WithKey(r.key) : voters[v].spelled = r.spelled}
        job == [Next1(import[i]) EXCEPT !.duplicates = @ + 1]
    IN
    /\ Ready(i) /\ KnownAt(i) /\ r.help /\ import[i].batch = <<>>
    /\ import[i].index[r.key] = Pending
    /\ \/ /\ found = {}
          /\ import' = [import EXCEPT ![i] = job]
       \/ /\ \E v \in found, made \in BOOLEAN :
                Helps(i, [job EXCEPT !.index[r.key] = v], made)
    /\ UNCHANGED <<voters, leaderRow, voterJob, geocoding, uncounted, crossed, work>>
\* a new voter with a help record is saved alone; refused, it stays pending in the index
HelpNew(i) ==
    LET r == OfImport(i)
        job == Next1(import[i])
    IN
    /\ Ready(i) /\ ~KnownAt(i) /\ r.help /\ import[i].batch = <<>> /\ Count < MaxVoters
    /\ \/ /\ r.refused
          /\ import' = [import EXCEPT ![i] = [job EXCEPT !.skipped = @ + 1,
                                                !.index = IndexedPending(@, r.key)]]
          /\ UNCHANGED <<voters, crossed>>
       \/ /\ ~r.refused
          /\ voters' = Append(voters, AsVoter(i, r))
          /\ crossed' = crossed \union Crossing(i, <<r>>)
          /\ \E made \in BOOLEAN :
                Helps(i, [job EXCEPT !.imported = @ + 1, !.mine = @ \union {Count + 1},
                            !.index = IF r.key = NoKey THEN @
                                      ELSE [@ EXCEPT ![r.key] = Count + 1]], made)
    /\ UNCHANGED <<leaderRow, voterJob, geocoding, uncounted, work>>

\* at the end all leaders are counted, and the geocoding begins, which nobody awaits
ImportEnds(i) ==
    /\ import[i].step = "rows" /\ import[i].at > Len(import[i].file) /\ import[i].batch = <<>>
    /\ import' = [import EXCEPT ![i].step = "done"]
    /\ leaderRow' = Synced(leaderRow, DOMAIN leaderRow)
    /\ uncounted' = {}
    /\ geocoding' = geocoding \union {voters[v].place : v \in {w \in HereV : ~voters[w].placed}}
    /\ UNCHANGED <<voters, voterJob, crossed, work>>
\* a statement throws: what was flushed stays, uncounted
ImportFails(i) ==
    /\ import[i].step \in {"index", "rows"}
    /\ import' = [import EXCEPT ![i].step = "failed"]
    /\ uncounted' = uncounted \union DOMAIN leaderRow
    /\ UNCHANGED <<voters, leaderRow, voterJob, geocoding, crossed, work>>

\* geocodeAllVoters: the groups are of a town and a state, the UPDATE is of a town
Geocode(group, found) ==
    LET those == {v \in HereV : ~voters[v].placed /\ voters[v].place.town = group.town} IN
    /\ group \in geocoding
    /\ geocoding' = geocoding \ {group}
    /\ voters' = [v \in DOMAIN voters |->
                    IF found /\ v \in those
                    THEN [voters[v] EXCEPT !.placed = TRUE, !.found = group.state] ELSE voters[v]]
    /\ UNCHANGED <<leaderRow, import, voterJob, uncounted, crossed, work>>

VotersNext ==
    \/ \E i \in Imports :
          \/ ImportIndex(i) \/ SkipUnnamed(i) \/ SkipDuplicate(i) \/ PutInBatch(i)
          \/ ImportLeader(i) \/ Flush(i) \/ HelpDuplicate(i) \/ HelpPending(i) \/ HelpNew(i)
          \/ ImportEnds(i) \/ ImportFails(i)
          \/ \E file \in Files : ImportStarts(i, file)
    \/ \E j \in VoterJobs :
          \/ FindVoter(j) \/ SaveVoter(j) \/ DeleteVoter(j) \/ SyncCount(j) \/ VoterJobFails(j)
          \/ \E k \in Keys \union {NoKey}, l \in 0 .. MaxLeaders, placed \in BOOLEAN :
                CreateVoter(j, k, l, NoPlace, placed)
          \/ \E v \in VoterIds :
                \/ RemoveVoter(j, v)
                \/ \E names \in BOOLEAN, l \in 0 .. MaxLeaders : UpdateVoter(j, v, names, l)
    \/ \E group \in geocoding, found \in BOOLEAN : Geocode(group, found)

VotersSpec == VotersInit /\ [][VotersNext]_voterVars

----------------------------------------------------------------------------
(* Properties *)

ImportState ==
    [step : {"idle", "index", "rows", "done", "failed"}, file : Files \union {<<>>}, at : Nat,
     leaderOf : [LeaderNames -> 0 .. MaxLeaders], index : [Keys -> 0 .. Pending],
     batch : Seq(Row), imported : Nat, skipped : Nat, duplicates : Nat, helped : Nat,
     unhelped : Nat, since : 0 .. MaxVoters, mine : SUBSET VoterIds]
VoterJobState ==
    [step : {"idle", "find", "move", "edit", "remove", "syncOld", "syncNew"}, id : VoterIds,
     copy : Voter, old : 0 .. MaxLeaders, leader : 0 .. MaxLeaders]

VotersTypeOK ==
    /\ voters \in Seq(Voter) /\ Count <= MaxVoters
    /\ leaderRow \in Seq([name : LeaderNames, count : 0 .. MaxVoters])
    /\ Len(leaderRow) <= MaxLeaders
    /\ import \in [Imports -> ImportState] /\ voterJob \in [VoterJobs -> VoterJobState]
    /\ \A i \in Imports :
          /\ import[i].at \in 1 .. Len(import[i].file) + 1
          /\ Len(import[i].batch) <= BatchSize
    /\ geocoding \subseteq [town : Towns, state : States]
    /\ uncounted \subseteq LeaderIds /\ crossed \subseteq Keys
    /\ work \in 0 .. MaxWork

\* Every row of a spreadsheet up to the one at work is counted once: imported, skipped,
\* a duplicate, or still in the batch; and what is said to be imported was inserted.
RowsAreCounted ==
    \A i \in Imports :
        LET job == import[i] IN
        /\ job.imported + job.skipped + job.duplicates + Len(job.batch) = job.at - 1
        /\ job.imported = Cardinality(job.mine)

Done(i) == 1 .. import[i].at - 1
SameKey(r, q) == r.key # NoKey /\ r.key = q.key

\* A named row that was gone through has a voter with its name and phone, or waits in the
\* batch, unless the database refused a row of that name and phone in the same file: the
\* index keeps the refused one, and later rows of it are dropped as duplicates.
NamedRowsLand ==
    \A i \in Imports : \A n \in Done(i) :
        LET r == import[i].file[n] IN
        r.named /\ r.key # NoKey =>
            \/ \E v \in 1 .. Count : voters[v].key = r.key
            \/ \E b \in DOMAIN import[i].batch : import[i].batch[b].key = r.key
            \/ \E m \in Done(i) : SameKey(import[i].file[m], r) /\ import[i].file[m].refused

\* A row with a help record makes one or is counted as failing to, unless its voter was
\* refused, or an earlier row spelled the name otherwise, or the voter was removed (and
\* perhaps inserted again, or inserted twice).
HelpIsCounted ==
    \A i \in Imports :
        LET file == import[i].file
            asked == {n \in Done(i) : file[n].named /\ file[n].help}
        IN
        \/ Cardinality(asked) = import[i].helped + import[i].unhelped
        \/ \E n \in asked :
              \/ file[n].refused
              \/ \E m \in Done(i) : /\ SameKey(file[m], file[n])
                                    /\ (file[m].refused \/ file[m].spelled # file[n].spelled)
              \/ \E v \in 1 .. Count : voters[v].key = file[n].key /\ ~voters[v].here
              \/ file[n].key \in crossed

\* Two voters have one name and phone only when a request created one, or two imports
\* looked for it before either inserted it.
DuplicatesHaveCause == \A k \in Keys : Cardinality(WithKey(k)) > 1 => k \in crossed

\* A leader's votersCount is the number of its voters once no request or import is at
\* work, unless one died before counting, or saved a voter somebody else had moved.
CountHasCause ==
    (\A i \in Imports : import[i].step # "rows")
    /\ (\A j \in VoterJobs : voterJob[j].step \notin {"syncOld", "syncNew"}) =>
        \A l \in DOMAIN leaderRow :
            l \notin uncounted => leaderRow[l].count = Cardinality(VotersOf(l))

\* A voter has the coordinates of its own town, unless a town of the same name in another
\* state was looked up first: the UPDATE of a group leaves the state out.
PlaceHasCause ==
    \A v \in HereV :
        voters[v].placed /\ voters[v].found # voters[v].place.state =>
            \E w \in 1 .. Count :
                voters[w].place = [voters[v].place EXCEPT !.state = voters[v].found]

\* The import and the requests keep the voters in order (the properties above).
VotersInOrder ==
    /\ RowsAreCounted /\ NamedRowsLand /\ HelpIsCounted
    /\ DuplicatesHaveCause /\ CountHasCause /\ PlaceHasCause

----------------------------------------------------------------------------
(* The inductive invariant behind VotersInOrder *)

\* A row of a file that is in the batch, was refused, or has a voter with the name as it
\* spells it.
HasVoter(i, r) ==
    \/ r.refused
    \/ \E b \in DOMAIN import[i].batch : import[i].batch[b] = r
    \/ \E v \in 1 .. Count : voters[v].key = r.key /\ voters[v].spelled = r.spelled
InBatch(i, k) == \E b \in DOMAIN import[i].batch : import[i].batch[b].key = k

\* What the index of an import knows.  A key is pending for a row of the file; one without a
\* voter in the index, or yet to be inserted, has none but those that others inserted since;
\* and a row of the batch is one of the file and pending, the only one of its key.
IndexTells(i) ==
    LET job == import[i] IN
    /\ job.since <= Count /\ \A v \in job.mine : v <= Count
    /\ job.step = "index" => job.at = 1 /\ job.batch = <<>> /\ job.mine = {}
    /\ \A k \in Keys :
          /\ job.index[k] \notin {0, Pending} =>
                job.index[k] <= Count /\ voters[job.index[k]].key = k
          /\ job.index[k] = Pending =>
                \E m \in Done(i) : job.file[m].key = k /\ HasVoter(i, job.file[m])
          /\ job.step = "rows" /\ (job.index[k] = 0 \/ InBatch(i, k)) =>
                k \in crossed \/ \A v \in WithKey(k) : v > job.since /\ v \notin job.mine
    /\ \A b \in DOMAIN job.batch :
          /\ \E m \in Done(i) : job.file[m] = job.batch[b]
          /\ job.batch[b].key # NoKey =>
                /\ job.index[job.batch[b].key] = Pending
                /\ \A c \in DOMAIN job.batch : job.batch[c].key = job.batch[b].key => c = b

\* A key whose voter was removed, and perhaps came back.
GoneOrCrossed(k) == k \in crossed \/ \E v \in 1 .. Count : voters[v].key = k /\ ~voters[v].here

\* HelpIsCounted, but for voters without a key, who come and go.
Asked(i) == {n \in Done(i) : import[i].file[n].named /\ import[i].file[n].help}
Excused(i, n) ==
    LET file == import[i].file IN
    \/ file[n].refused
    \/ \E m \in Done(i) : /\ SameKey(file[m], file[n])
                          /\ (file[m].refused \/ file[m].spelled # file[n].spelled)
    \/ file[n].key # NoKey /\ GoneOrCrossed(file[n].key)
HelpTells(i) == \/ Cardinality(Asked(i)) = import[i].helped + import[i].unhelped
                \/ \E n \in Asked(i) : Excused(i, n)

\* What a request saves is the row it read, of a voter that was there.
CopiesAreOfRows ==
    \A j \in VoterJobs :
        LET job == voterJob[j] IN
        /\ job.step \in {"find", "move", "edit", "remove"} => job.id <= Count
        /\ job.step \in {"move", "edit"} =>
              /\ job.copy.here /\ job.copy.key = voters[job.id].key
              /\ job.copy.spelled = voters[job.id].spelled
              /\ job.copy.place = voters[job.id].place

\* A row has the coordinates of its own town in some state where a voter is.
PlacedRight(row) ==
    row.found = row.place.state
    \/ \E w \in 1 .. Count : voters[w].place = [row.place EXCEPT !.state = row.found]
PlacesAreRight ==
    /\ \A v \in 1 .. Count : PlacedRight(voters[v])
    /\ \A j \in VoterJobs : voterJob[j].step \in {"move", "edit"} => PlacedRight(voterJob[j].copy)
    /\ \A group \in geocoding : \E w \in 1 .. Count : voters[w].place = group

\* A leader's count is right, or somebody is still to count it, or did not.
WillCount(j, l) ==
    LET job == voterJob[j] IN
    \/ job.step = "syncOld" /\ l \in {job.old, job.leader}
    \/ job.step = "syncNew" /\ l = job.leader
CountsAreComing ==
    \/ \E i \in Imports : import[i].step = "rows"
    \/ \A l \in DOMAIN leaderRow :
          \/ l \in uncounted \/ leaderRow[l].count = Cardinality(VotersOf(l))
          \/ \E j \in VoterJobs : WillCount(j, l)

\* without Cardinality
NoneTwice == \A k \in Keys \ crossed : \A v, w \in WithKey(k) : v = w

VotersInv ==
    /\ VotersTypeOK /\ RowsAreCounted /\ NamedRowsLand /\ NoneTwice
    /\ \A i \in Imports : IndexTells(i) /\ HelpTells(i)
    /\ CopiesAreOfRows /\ PlacesAreRight /\ CountsAreComing
=============================================================================
