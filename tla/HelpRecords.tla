---------------------------- MODULE HelpRecords ----------------------------
(***************************************************************************)
(* Help records, their types and the visits to the cabinet                 *)
(* (HelpRecordsService, CabinetVisitsService): records made one at a time, *)
(* with a type made on the way when it is missing; the import of a         *)
(* spreadsheet; cabinet visits, each with a record of its own; and the     *)
(* list, the figures above it and the spreadsheet it can be saved to.      *)
(***************************************************************************)
EXTENDS Naturals, FiniteSets, Sequences, Rows

CONSTANTS MaxRecords,     \* bound: rows of help records
          MaxVisitsIn,    \* bound: rows of cabinet visits
          MaxHelpWork,    \* bound: requests and imports
          HelpJobs, HelpImports,   \* requests and imports at work
          TypeNames, CabinetType,  \* names of types; the one of the cabinet visits
          LowerCase,      \* the name of a type in lower case
          People, Hoods,  \* voters, named after themselves, and neighborhoods
          Leads,          \* names of leaders
          Sheets,         \* spreadsheets that can be imported
          SheetBatch,     \* rows inserted at once
          None

HelpStatuses == {"PENDING", "IN_PROGRESS", "COMPLETED", "CANCELLED"}
SheetRow == [type : TypeNames \union {None}, person : People \union {None},
             hood : Hoods \union {None}, lead : Leads \union {None},
             status : HelpStatuses \union {"UNKNOWN", None}, refused : BOOLEAN]

ASSUME HelpRecordsAssumption ==
    /\ MaxRecords \in Nat \ {0} /\ MaxVisitsIn \in Nat /\ MaxHelpWork \in Nat
    /\ SheetBatch \in Nat \ {0}
    /\ CabinetType \in TypeNames /\ LowerCase \in [TypeNames -> TypeNames]
    /\ None \notin HelpStatuses \union TypeNames \union People \union Hoods \union Leads
    /\ \A s \in Sheets : s \in Seq(SheetRow)

VARIABLES records, cabinetVisits,   \* rows, by order of insertion
          types,       \* how many rows of types have a name
          leads,       \* how many rows of leaders have a name
          hood,        \* the neighborhood of each voter
          helpJob, helpImport,
          helpWork,
          doubled,     \* history: types made by hand, or by one while another had looked
          lost         \* history: types and records removed, records left half done

helpVars == <<records, cabinetVisits, types, leads, hood, helpJob, helpImport, helpWork,
              doubled, lost>>

RecordIds == 1 .. Len(records)
CabinetIds == 1 .. Len(cabinetVisits)
HelpRecord == [here : BOOLEAN, type : TypeNames, person : People \union {None},
               status : HelpStatuses, of : {"request", "inline", "cabinet", "sheet"}]
CabinetVisit == [here : BOOLEAN, record : 1 .. MaxRecords, person : People \union {None}]
IdleHelpJob == [step |-> "idle", type |-> CabinetType, person |-> None, status |-> "PENDING",
                cabinet |-> FALSE, missing |-> FALSE, visit |-> 0, record |-> 0]
IdleHelpImport == [step |-> "idle", sheet |-> <<>>, at |-> 1, typeSet |-> {}, newTypes |-> <<>>,
                   leadOf |-> {}, hoodOf |-> [p \in People |-> None], toUpdate |-> {},
                   batch |-> <<>>, imported |-> 0, skipped |-> 0,
                   absent |-> {}, mine |-> {}]   \* history: types not there, own records

HelpInit ==
    /\ records = <<>> /\ cabinetVisits = <<>>
    /\ types = [n \in TypeNames |-> 0] /\ leads = [n \in Leads |-> 0]
    /\ hood = [p \in People |-> None]
    /\ helpJob = [j \in HelpJobs |-> IdleHelpJob]
    /\ helpImport = [i \in HelpImports |-> IdleHelpImport]
    /\ helpWork = 0
    /\ doubled = {} /\ lost = [types |-> {}, records |-> {}]

Works == helpWork < MaxHelpWork /\ helpWork' = helpWork + 1
HelpJobIs(j, job) == helpJob' = [helpJob EXCEPT ![j] = job]
ImportIs(i, job) == helpImport' = [helpImport EXCEPT ![i] = job]
sheetVars == <<leads, hood, helpImport>>
rowVars == <<records, cabinetVisits, types>>

----------------------------------------------------------------------------
(* types and records by request *)

CreateType(n) ==
    /\ Works
    /\ types' = [types EXCEPT ![n] = @ + 1]
    /\ doubled' = doubled \union {n}
    /\ UNCHANGED <<records, cabinetVisits, sheetVars, helpJob, lost>>
RemoveType(n) ==
    /\ Works /\ types[n] > 0
    /\ types' = [types EXCEPT ![n] = @ - 1]
    /\ lost' = [lost EXCEPT !.types = @ \union {n}]
    /\ UNCHANGED <<records, cabinetVisits, sheetVars, helpJob, doubled>>
\* the request's own record may name a type that no row has
CreateRecord(n, p) ==
    /\ Works /\ Len(records) < MaxRecords
    /\ records' = Append(records, [here |-> TRUE, type |-> n, person |-> p,
                                   status |-> "PENDING", of |-> "request"])
    /\ UNCHANGED <<cabinetVisits, types, sheetVars, helpJob, doubled, lost>>
RemoveRecord(r) ==
    /\ Works /\ r \in RecordIds /\ records[r].here
    /\ records' = [records EXCEPT ![r].here = FALSE]
    /\ lost' = [lost EXCEPT !.records = @ \union {r}]
    /\ UNCHANGED <<cabinetVisits, types, sheetVars, helpJob, doubled>>
\* a voter is given a neighborhood
MoveVoter(p, h) ==
    /\ Works /\ hood[p] # h
    /\ hood' = [hood EXCEPT ![p] = h]
    /\ UNCHANGED <<rowVars, leads, helpImport, helpJob, doubled, lost>>

----------------------------------------------------------------------------
(* createInlineRecord and createCabinetVisit: the type is looked for, made when missing, *)
(* then the record is made, then the visit                                               *)

\* Mutant: a status the enumeration does not have goes to the row
AsWritten(status) == status

StatusOf(status) == IF status \in HelpStatuses THEN status ELSE "PENDING"

\* Mutant: the type is made without looking
NeverThere(n) == FALSE

TypeThere(n) == types[n] > 0

FindType(j, job) ==
    /\ helpJob[j].step = "idle" /\ Works
    /\ HelpJobIs(j, [job EXCEPT !.step = IF TypeThere(job.type) THEN "record" ELSE "type",
                                !.missing = types[job.type] = 0])
    /\ UNCHANGED <<rowVars, sheetVars, doubled, lost>>
CreateInlineRecord(j, n, p, status) ==
    FindType(j, [IdleHelpJob EXCEPT !.type = n, !.person = p, !.status = StatusOf(status)])
CreateCabinetVisit(j, p) ==
    FindType(j, [IdleHelpJob EXCEPT !.person = p, !.status = "COMPLETED", !.cabinet = TRUE])
SaveType(j) ==
    LET job == helpJob[j] IN
    /\ job.step = "type"
    /\ types' = [types EXCEPT ![job.type] = @ + 1]
    /\ doubled' = IF job.missing /\ types[job.type] > 0 THEN doubled \union {job.type} ELSE doubled
    /\ HelpJobIs(j, [job EXCEPT !.step = "record"])
    /\ UNCHANGED <<records, cabinetVisits, sheetVars, helpWork, lost>>
SaveRecord(j) ==
    LET job == helpJob[j] IN
    /\ job.step = "record" /\ Len(records) < MaxRecords
    /\ records' = Append(records, [here |-> TRUE, type |-> job.type, person |-> job.person,
                                   status |-> job.status,
                                   of |-> IF job.cabinet THEN "cabinet" ELSE "inline"])
    /\ HelpJobIs(j, IF job.cabinet THEN [job EXCEPT !.step = "visit", !.record = Len(records) + 1]
                    ELSE IdleHelpJob)
    /\ UNCHANGED <<cabinetVisits, types, sheetVars, helpWork, doubled, lost>>
SaveCabinetVisit(j) ==
    LET job == helpJob[j] IN
    /\ job.step = "visit" /\ Len(cabinetVisits) < MaxVisitsIn
    /\ cabinetVisits' = Append(cabinetVisits, [here |-> TRUE, record |-> job.record,
                                               person |-> job.person])
    /\ HelpJobIs(j, IdleHelpJob)
    /\ UNCHANGED <<records, types, sheetVars, helpWork, doubled, lost>>
\* removeCabinetVisit: the record goes first
RemoveCabinetVisit(j, c) ==
    /\ c \in CabinetIds /\ cabinetVisits[c].here /\ helpJob[j].step = "idle" /\ Works
    /\ HelpJobIs(j, [IdleHelpJob EXCEPT !.step = "deleteRecord", !.visit = c,
                                        !.record = cabinetVisits[c].record])
    /\ UNCHANGED <<rowVars, sheetVars, doubled, lost>>
DeleteRecord(j) ==
    LET job == helpJob[j] IN
    /\ job.step = "deleteRecord"
    /\ records' = [records EXCEPT ![job.record].here = FALSE]
    /\ HelpJobIs(j, [job EXCEPT !.step = "deleteVisit"])
    /\ UNCHANGED <<cabinetVisits, types, sheetVars, helpWork, doubled, lost>>
DeleteCabinetVisit(j) ==
    /\ helpJob[j].step = "deleteVisit"
    /\ cabinetVisits' = [cabinetVisits EXCEPT ![helpJob[j].visit].here = FALSE]
    /\ HelpJobIs(j, IdleHelpJob)
    /\ UNCHANGED <<records, types, sheetVars, helpWork, doubled, lost>>
\* the request dies, or the database fails
HelpJobDies(j) ==
    LET job == helpJob[j] IN
    /\ job.step # "idle"
    /\ lost' = [lost EXCEPT !.records = @ \union ({job.record} \ {0})]
    /\ HelpJobIs(j, IdleHelpJob)
    /\ UNCHANGED <<rowVars, sheetVars, helpWork, doubled>>

----------------------------------------------------------------------------
(* importFromExcel *)

\* the voters, then the leaders, then the types that are there
ImportLoads(i, sheet) ==
    LET job == helpImport[i] IN
    \/ /\ job.step = "idle" /\ Works
       /\ ImportIs(i, [job EXCEPT !.step = "leads", !.sheet = sheet, !.hoodOf = hood])
       /\ UNCHANGED <<rowVars, leads, hood, helpJob, doubled, lost>>
    \/ /\ job.step = "leads" /\ sheet = job.sheet
       /\ ImportIs(i, [job EXCEPT !.step = "types", !.leadOf = {n \in Leads : leads[n] > 0}])
       /\ UNCHANGED <<rowVars, leads, hood, helpJob, helpWork, doubled, lost>>
    \/ /\ job.step = "types" /\ sheet = job.sheet
       /\ ImportIs(i, [job EXCEPT !.step = "rows", !.absent = {n \in TypeNames : types[n] = 0},
                         !.typeSet = {LowerCase[n] : n \in {m \in TypeNames : types[m] > 0}}])
       /\ UNCHANGED <<rowVars, leads, hood, helpJob, helpWork, doubled, lost>>

AtRow(i) == /\ helpImport[i].step = "rows" /\ helpImport[i].at <= Len(helpImport[i].sheet)
            /\ Len(helpImport[i].batch) < SheetBatch
RowOf(i) == helpImport[i].sheet[helpImport[i].at]
SkipRow(i) ==
    /\ AtRow(i) /\ RowOf(i).type = None
    /\ ImportIs(i, [helpImport[i] EXCEPT !.at = @ + 1, !.skipped = @ + 1])
    /\ UNCHANGED <<rowVars, leads, hood, helpJob, helpWork, doubled, lost>>

\* Mutant: a type is new however often the spreadsheet names it
EveryTime(job, n) == TRUE

IsNewType(job, n) == LowerCase[n] \notin job.typeSet

\* a row goes to the batch: the leader it names is made at once, the type it names and
\* the neighborhood of a voter that had none wait for the end
TakeRow(i) ==
    LET job == helpImport[i]
        row == RowOf(i)
        new == IsNewType(job, row.type)
        moves == row.hood # None /\ row.person # None /\ job.hoodOf[row.person] = None
    IN
    /\ AtRow(i) /\ row.type # None
    /\ leads' = IF row.lead \in Leads \ job.leadOf THEN [leads EXCEPT ![row.lead] = @ + 1]
                ELSE leads
    /\ ImportIs(i, [job EXCEPT
         !.at = @ + 1, !.batch = Append(@, row), !.leadOf = @ \union ({row.lead} \ {None}),
         !.typeSet = @ \union {LowerCase[row.type]},
         !.newTypes = IF new THEN Append(@, row.type) ELSE @,
         !.hoodOf = IF moves THEN [@ EXCEPT ![row.person] = row.hood] ELSE @,
         !.toUpdate = IF moves THEN @ \union {row.person} ELSE @])
    /\ UNCHANGED <<rowVars, hood, helpJob, helpWork, doubled, lost>>
\* one INSERT, or, when that fails, one for each row
InsertRows(i) ==
    LET job == helpImport[i]
        kept == Kept(job.batch)
        first == Len(records) + 1
    IN
    /\ job.step = "rows" /\ job.batch # <<>> /\ Len(records) + Len(kept) <= MaxRecords
    /\ Len(job.batch) = SheetBatch \/ job.at > Len(job.sheet)
    /\ records' = records \o [n \in DOMAIN kept |->
         [here |-> TRUE, type |-> kept[n].type, person |-> kept[n].person, of |-> "sheet",
          status |-> StatusOf(kept[n].status)]]
    /\ ImportIs(i, [job EXCEPT !.batch = <<>>, !.imported = @ + Len(kept),
                      !.skipped = @ + (Len(job.batch) - Len(kept)),
                      !.mine = @ \union (first .. Len(records) + Len(kept))])
    /\ UNCHANGED <<cabinetVisits, types, leads, hood, helpJob, helpWork, doubled, lost>>
\* an UPDATE for each voter, by id alone ...
UpdateHood(i) ==
    LET job == helpImport[i] IN
    /\ job.step = "rows" /\ job.at > Len(job.sheet) /\ job.batch = <<>>
    /\ \E p \in job.toUpdate :
          /\ hood' = [hood EXCEPT ![p] = job.hoodOf[p]]
          /\ ImportIs(i, [job EXCEPT !.toUpdate = @ \ {p}])
    /\ UNCHANGED <<rowVars, leads, helpJob, helpWork, doubled, lost>>
\* ... and the new types, in one transaction
ImportTypes(i) ==
    LET job == helpImport[i]
        made == {job.newTypes[k] : k \in DOMAIN job.newTypes}
    IN
    /\ job.step = "rows" /\ job.at > Len(job.sheet) /\ job.batch = <<>> /\ job.toUpdate = {}
    /\ types' = [n \in TypeNames |-> types[n] + Cardinality({k \in DOMAIN job.newTypes :
                                                               job.newTypes[k] = n})]
    /\ doubled' = doubled \union {n \in made \intersect job.absent : types[n] > 0}
    /\ ImportIs(i, [job EXCEPT !.step = "done"])
    /\ UNCHANGED <<records, cabinetVisits, leads, hood, helpJob, helpWork, lost>>
\* what was inserted stays
ImportDies(i) ==
    /\ helpImport[i].step \in {"leads", "types", "rows"}
    /\ ImportIs(i, [helpImport[i] EXCEPT !.step = "dead"])
    /\ UNCHANGED <<rowVars, leads, hood, helpJob, helpWork, doubled, lost>>

HelpNext ==
    \/ \E n \in TypeNames : CreateType(n) \/ RemoveType(n)
    \/ \E n \in TypeNames, p \in People \union {None} : CreateRecord(n, p)
    \/ \E r \in RecordIds : RemoveRecord(r)
    \/ \E p \in People, h \in Hoods : MoveVoter(p, h)
    \/ \E j \in HelpJobs :
          \/ SaveType(j) \/ SaveRecord(j) \/ SaveCabinetVisit(j) \/ DeleteRecord(j)
          \/ DeleteCabinetVisit(j) \/ HelpJobDies(j)
          \/ \E n \in TypeNames, p \in People, status \in {"IN_PROGRESS", "UNKNOWN"} :
                CreateInlineRecord(j, n, p, status)
          \/ \E p \in People \union {None} : CreateCabinetVisit(j, p)
          \/ \E c \in CabinetIds : RemoveCabinetVisit(j, c)
    \/ \E i \in HelpImports :
          \/ SkipRow(i) \/ TakeRow(i) \/ InsertRows(i) \/ UpdateHood(i) \/ ImportTypes(i)
          \/ ImportDies(i)
          \/ \E sheet \in Sheets : ImportLoads(i, sheet)

HelpSpec == HelpInit /\ [][HelpNext]_helpVars

----------------------------------------------------------------------------
(* The list of records, the figures above it, and the spreadsheet *)

\* filters: a text to search, a status, a neighborhood
Filters == [search : TypeNames \union People \union {None}, status : HelpStatuses \union {None},
            hood : Hoods \union {None}]
HoodOf(r) == IF records[r].person = None THEN None ELSE hood[records[r].person]
Filtered(f) == {r \in RecordIds : /\ records[r].here
                                  /\ f.status \in {None, records[r].status}
                                  /\ f.hood \in {None, HoodOf(r)}}
\* findAllPaginated searches the names of the voters, too
Listed(f) == {r \in Filtered(f) : f.search \in {None, records[r].type, records[r].person}}
Figures(f) ==
    LET found == {r \in Filtered(f) : f.search \in {None, records[r].type}}
        Having(s) == Cardinality({r \in found : records[r].status = s})
    IN [total |-> Cardinality(found), pending |-> Having("PENDING"),
        inProgress |-> Having("IN_PROGRESS"), completed |-> Having("COMPLETED"),
        cancelled |-> Having("CANCELLED"),
        hoods |-> {HoodOf(r) : r \in found} \ {None}]
Exported(f) == {r \in RecordIds :
                  /\ records[r].here /\ f.status \in {None, records[r].status}
                  /\ f.search \in {None, records[r].type}
                  /\ f.hood # None => records[r].person # None /\ HoodOf(r) = f.hood}

----------------------------------------------------------------------------
(* Properties *)

HelpJob ==
    [step : {"idle", "type", "record", "visit", "deleteRecord", "deleteVisit"},
     type : TypeNames, person : People \union {None}, status : HelpStatuses,
     cabinet : BOOLEAN, missing : BOOLEAN, visit : 0 .. MaxVisitsIn, record : 0 .. MaxRecords]
HelpImport ==
    [step : {"idle", "leads", "types", "rows", "done", "dead"},
     sheet : Sheets \union {<<>>}, at : Nat \ {0}, typeSet : SUBSET TypeNames,
     newTypes : Seq(TypeNames), leadOf : SUBSET Leads, hoodOf : [People -> Hoods \union {None}],
     toUpdate : SUBSET People, batch : Seq(SheetRow), imported : Nat, skipped : Nat,
     absent : SUBSET TypeNames, mine : SUBSET (1 .. MaxRecords)]

HelpRecordsTypeOK ==
    /\ records \in Seq(HelpRecord) /\ Len(records) <= MaxRecords
    /\ cabinetVisits \in Seq(CabinetVisit) /\ Len(cabinetVisits) <= MaxVisitsIn
    /\ types \in [TypeNames -> Nat] /\ leads \in [Leads -> Nat]
    /\ hood \in [People -> Hoods \union {None}]
    /\ helpJob \in [HelpJobs -> HelpJob]
    /\ helpImport \in [HelpImports -> HelpImport]
    /\ \A i \in HelpImports :
          /\ Len(helpImport[i].batch) <= SheetBatch
          /\ helpImport[i].at <= Len(helpImport[i].sheet) + 1
          /\ helpImport[i].mine \subseteq RecordIds
    /\ helpWork \in 0 .. MaxHelpWork
    /\ doubled \subseteq TypeNames
    /\ lost \in [types : SUBSET TypeNames, records : SUBSET (1 .. MaxRecords)]

\* The answer to an import counts every row once, as imported or as skipped.
SheetIsCounted ==
    \A i \in HelpImports :
        LET job == helpImport[i] IN
        /\ job.imported + job.skipped + Len(job.batch) = job.at - 1
        /\ job.imported = Cardinality(job.mine)

\* Two rows of types have one name only when somebody asked for it by hand, or somebody
\* made the type after another had looked for it.
TypesHaveCause == \A n \in TypeNames : types[n] > 1 => n \in doubled

\* A record made inline or with a cabinet visit has its type, and so has a record of an
\* import that ended, in some spelling; unless the type was removed.
TypesAreThere ==
    /\ \A r \in RecordIds :
          records[r].of \in {"inline", "cabinet"} =>
              types[records[r].type] > 0 \/ records[r].type \in lost.types
    /\ \A i \in HelpImports : helpImport[i].step = "done" =>
          \A r \in helpImport[i].mine : \E n \in TypeNames :
              /\ LowerCase[n] = LowerCase[records[r].type]
              /\ types[n] > 0 \/ n \in lost.types

\* A cabinet visit has its record, and the record its visit, unless a request about them
\* is at work or died, or the record was removed by itself.
VisitsHaveRecords ==
    /\ \A c \in CabinetIds :
          cabinetVisits[c].here /\ ~records[cabinetVisits[c].record].here =>
              \/ cabinetVisits[c].record \in lost.records
              \/ \E j \in HelpJobs : helpJob[j].step = "deleteVisit" /\ helpJob[j].visit = c
    /\ \A r \in RecordIds :
          records[r].here /\ records[r].of = "cabinet" =>
              \/ \E c \in CabinetIds : cabinetVisits[c].record = r /\ cabinetVisits[c].here
              \/ r \in lost.records
              \/ \E j \in HelpJobs : helpJob[j].step # "idle" /\ helpJob[j].record = r

\* The figures and the spreadsheet are of the records that the list shows, unless the
\* search matches the name of a voter; and the figures add up, and are those of each status.
FiguresAreOfTheList ==
    \A f \in {g \in Filters : g.status = None} :
        LET figures == Figures(f) IN
        /\ figures.total = figures.pending + figures.inProgress + figures.completed
                           + figures.cancelled
        /\ figures.total = Cardinality(Exported(f))
        /\ f.search \in People \/ figures.total = Cardinality(Listed(f))
        /\ f.hood # None /\ figures.total > 0 => figures.hoods = {f.hood}
        /\ figures.pending = Figures([f EXCEPT !.status = "PENDING"]).total

\* Records, types and cabinet visits agree (the properties above).
RecordsAgree ==
    /\ SheetIsCounted /\ TypesHaveCause /\ TypesAreThere /\ VisitsHaveRecords
    /\ FiguresAreOfTheList

----------------------------------------------------------------------------
(* The inductive invariant behind RecordsAgree *)

\* A type that was made stays, or was removed.
TypeMade(n) == types[n] > 0 \/ n \in lost.types

\* A request makes a type only if it found none, and a record only when its type is made;
\* the record that a request works on is of the visit it removes, or of none yet.
JobsKnow ==
    \A j \in HelpJobs :
        LET job == helpJob[j] IN
        /\ job.step = "type" => job.missing
        /\ job.step = "record" => TypeMade(job.type)
        /\ IF job.step \in {"visit", "deleteRecord", "deleteVisit"} THEN job.record \in RecordIds
           ELSE job.record = 0
        /\ job.step \in {"deleteRecord", "deleteVisit"} =>
              job.visit \in CabinetIds /\ cabinetVisits[job.visit].record = job.record
        /\ job.step = "deleteVisit" => ~records[job.record].here
        /\ job.step = "visit" =>
              /\ records[job.record].here \/ job.record \in lost.records
              /\ \A c \in CabinetIds : cabinetVisits[c].record # job.record
              /\ \A k \in HelpJobs : helpJob[k].step = "visit" /\ helpJob[k].record = job.record
                                     => k = j

\* No two visits have one record.
VisitsApart ==
    /\ \A c \in CabinetIds : cabinetVisits[c].record \in RecordIds
    /\ \A c, d \in CabinetIds : cabinetVisits[c].record = cabinetVisits[d].record => c = d

\* An import knows the types that were there when it looked and those its rows named, each
\* of which is made, was removed, or waits to be made, once; so it does for its records.
ImportsKnow ==
    \A i \in HelpImports :
        LET job == helpImport[i]
            Waits(n) == \E k \in DOMAIN job.newTypes : job.newTypes[k] = n
        IN
        /\ job.step \in {"idle", "leads", "types"} =>
              /\ job.at = 1 /\ job.imported = 0 /\ job.skipped = 0 /\ job.batch = <<>>
              /\ job.newTypes = <<>> /\ job.mine = {}
        /\ \A b \in DOMAIN job.batch : job.batch[b].type # None
        /\ job.step = "rows" =>
              /\ \A n \in TypeNames \ job.absent : LowerCase[n] \in job.typeSet
              /\ \A k \in DOMAIN job.newTypes : /\ job.newTypes[k] \in job.absent
                                                /\ LowerCase[job.newTypes[k]] \in job.typeSet
              /\ \A k, m \in DOMAIN job.newTypes : job.newTypes[k] = job.newTypes[m] => k = m
              /\ \A t \in job.typeSet : \E n \in TypeNames :
                    LowerCase[n] = t /\ (Waits(n) \/ TypeMade(n))
              /\ \A b \in DOMAIN job.batch : LowerCase[job.batch[b].type] \in job.typeSet
              /\ \A r \in job.mine : LowerCase[records[r].type] \in job.typeSet

HelpInv ==
    /\ HelpRecordsTypeOK /\ JobsKnow /\ VisitsApart /\ ImportsKnow
    /\ SheetIsCounted /\ TypesHaveCause /\ TypesAreThere /\ VisitsHaveRecords
=============================================================================
