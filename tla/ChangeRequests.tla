--------------------------- MODULE ChangeRequests ---------------------------
(***************************************************************************)
(* A leader asks for a voter to be changed or removed; an administrator    *)
(* approves, which applies the request to the voter, or rejects, and the   *)
(* leader may then resubmit it.  approve reads the request, checks that it *)
(* is pending, changes the voter and saves the request it read; reject and *)
(* resubmit also save what they read.  Nothing locks a request, and no     *)
(* transaction joins it to its voter.                                      *)
(*                                                                         *)
(* A change is a set of columns of its own, so a voter is the set of       *)
(* changes in force; that one approved request may overwrite what another  *)
(* put into the same column is not modelled.  Left out too: whose request  *)
(* it is (leader scope), review notes, geocoding, the leader's count of    *)
(* voters.                                                                 *)
(***************************************************************************)
EXTENDS Naturals

CONSTANTS
    Requests,    \* change requests
    Voters,
    VoterOf,     \* the voter of each request
    Changes,     \* what may be proposed
    Jobs,        \* HTTP requests at work at once
    MaxFaults,   \* bound: how many jobs stop half-way
    None

ASSUME ChangeRequestsAssumption ==
    /\ VoterOf \in [Requests -> Voters]
    /\ MaxFaults \in Nat
    /\ None \notin Requests \cup Voters \cup Changes

Status == {"PENDENTE", "APROVADA", "REJEITADA"}

(* Without proposed changes the request is to remove the voter. *)
Request == [status : Status, changes : Changes \cup {None}]

(* A voter's row: the changes in force. *)
Voter == [has : SUBSET Changes]

ASSUME RowsAssumption == None \notin Request \cup Voter

VARIABLES
    request,     \* voter_change_requests; None: no row
    voter,       \* voters: None: no row
    audit,       \* audit_logs: the decisions recorded
    announced,   \* requests whose approvers know of the last submission
    told,        \* decisions the requester was notified of
    job,
    faults,
    applied,     \* history: what approvals did to voters
    crossed,     \* history: requests saved over a newer row
    lost,        \* history: where a job of the request stopped half-way
    disturbed    \* history: voters edited directly, or saved over a newer row

records == <<audit, announced, told>>
history == <<applied, crossed, lost, disturbed>>
vars == <<request, voter, records, job, faults, history>>

Step == {"idle", "findVoter", "saveVoter", "removeVoter", "saveApproved",
         "saveRejected", "saveResubmitted", "log", "notify", "announce", "edit"}

(* copy: the request as it was read, or as it was saved; next: what a      *)
(* resubmission proposes; found: the voter's row as it was read.           *)
Job == [at : Step, r : Requests \cup {None}, v : Voters \cup {None},
        copy : Request \cup {None}, next : Changes \cup {None},
        found : Voter \cup {None}]

Idle == [at |-> "idle", r |-> None, v |-> None, copy |-> None, next |-> None,
         found |-> None]

Init ==
    /\ request = [r \in Requests |-> None]
    /\ voter = [v \in Voters |-> [has |-> {}]]
    /\ audit = {} /\ announced = {} /\ told = {}
    /\ job = [j \in Jobs |-> Idle]
    /\ faults = 0
    /\ applied = {} /\ crossed = {} /\ lost = {} /\ disturbed = {}

At(j, step) == job[j].at = step

Start(j, step, r, v, copy, next, found) ==
    job' = [job EXCEPT ![j] = [at |-> step, r |-> r, v |-> v, copy |-> copy,
                               next |-> next, found |-> found]]

Goto(j, step) == job' = [job EXCEPT ![j].at = step]

Finish(j) == job' = [job EXCEPT ![j] = Idle]

Is(r, status) == request[r] # None /\ request[r].status = status

-----------------------------------------------------------------------------
(* create: the voter is found, the pending request inserted, and its       *)
(* approvers are notified.                                                 *)
Create(j, r) ==
    /\ At(j, "idle")
    /\ request[r] = None /\ voter[VoterOf[r]] # None
    /\ \E c \in Changes \cup {None} :
          request' = [request EXCEPT ![r] = [status |-> "PENDENTE", changes |-> c]]
    /\ Start(j, "announce", r, None, None, None, None)
    /\ UNCHANGED <<voter, records, faults, history>>

(* approve and reject begin alike: findOne, assertPending. *)
Review(j, r) ==
    /\ At(j, "idle")
    /\ Is(r, "PENDENTE")
    /\ \E step \in {"findVoter", "saveRejected"} :
          Start(j, step, r, VoterOf[r], request[r], None, None)
    /\ UNCHANGED <<request, voter, records, faults, history>>

(* resubmit: only what was rejected; a removal proposes no changes.        *)
Resubmit(j, r) ==
    /\ At(j, "idle")
    /\ Is(r, "REJEITADA")
    /\ \E c \in IF request[r].changes = None THEN {None} ELSE Changes :
          Start(j, "saveResubmitted", r, None, request[r], c, None)
    /\ UNCHANGED <<request, voter, records, faults, history>>

-----------------------------------------------------------------------------
(* Mutant: every approved request is applied as an update. *)
FindVoterToUpdate(j) ==
    LET v == job[j].v IN
    /\ At(j, "findVoter")
    /\ IF voter[v] = None
       THEN Finish(j)
       ELSE job' = [job EXCEPT ![j].at = "saveVoter", ![j].found = voter[v]]
    /\ UNCHANGED <<request, voter, records, faults, history>>

(* votersService.update and remove find the voter first: 404 ends the job. *)
FindVoter(j) ==
    LET v == job[j].v IN
    /\ At(j, "findVoter")
    /\ IF voter[v] = None
       THEN Finish(j)
       ELSE job' = [job EXCEPT
                ![j].at = IF job[j].copy.changes = None THEN "removeVoter" ELSE "saveVoter",
                ![j].found = voter[v]]
    /\ UNCHANGED <<request, voter, records, faults, history>>

(* A save over a row that has changed since it was found, or is gone.      *)
Disturb(j, more) ==
    disturbed' = disturbed \cup more \cup
                 (IF voter[job[j].v] = job[j].found THEN {} ELSE {job[j].v})

Apply(j) == applied' = applied \cup {<<job[j].r, job[j].copy.changes>>}

(* Mutant: the request of a changed voter is left as it is. *)
SaveVoterOnly(j) ==
    /\ At(j, "saveVoter")
    /\ voter' = [voter EXCEPT ![job[j].v] =
                    [has |-> job[j].found.has \cup {job[j].copy.changes}]]
    /\ Disturb(j, {}) /\ Apply(j)
    /\ Goto(j, "log")
    /\ UNCHANGED <<request, records, faults, crossed, lost>>

SaveVoter(j) ==
    /\ At(j, "saveVoter")
    /\ voter' = [voter EXCEPT ![job[j].v] =
                    [has |-> job[j].found.has \cup {job[j].copy.changes}]]
    /\ Disturb(j, {}) /\ Apply(j)
    /\ Goto(j, "saveApproved")
    /\ UNCHANGED <<request, records, faults, crossed, lost>>

RemoveVoter(j) ==
    /\ At(j, "removeVoter")
    /\ voter' = [voter EXCEPT ![job[j].v] = None]
    /\ Apply(j)
    /\ Goto(j, "saveApproved")
    /\ UNCHANGED <<request, records, faults, crossed, lost, disturbed>>

-----------------------------------------------------------------------------
(* requestsRepo.save writes the request as it was read, with the decision. *)
Cross(j) ==
    crossed' = crossed \cup (IF request[job[j].r] = job[j].copy THEN {} ELSE {job[j].r})

(* Mutant: only the status is written, the proposed changes are left. *)
SaveDecisionOnly(j, step, decision) ==
    LET saved == [job[j].copy EXCEPT !.status = decision] IN
    /\ At(j, step)
    /\ request' = [request EXCEPT ![job[j].r].status = decision]
    /\ Cross(j)
    /\ job' = [job EXCEPT ![j].at = "log", ![j].copy = saved]
    /\ UNCHANGED <<voter, records, faults, applied, lost, disturbed>>

(* Mutant: the requester is told, and the log forgotten. *)
SaveUnlogged(j, step, decision) ==
    LET saved == [job[j].copy EXCEPT !.status = decision] IN
    /\ At(j, step)
    /\ request' = [request EXCEPT ![job[j].r] = saved]
    /\ Cross(j)
    /\ job' = [job EXCEPT ![j].at = "notify", ![j].copy = saved]
    /\ UNCHANGED <<voter, records, faults, applied, lost, disturbed>>

SaveDecision(j, step, decision) ==
    LET saved == [job[j].copy EXCEPT !.status = decision] IN
    /\ At(j, step)
    /\ request' = [request EXCEPT ![job[j].r] = saved]
    /\ Cross(j)
    /\ job' = [job EXCEPT ![j].at = "log", ![j].copy = saved]
    /\ UNCHANGED <<voter, records, faults, applied, lost, disturbed>>

(* Mutant: the approvers are only told of new requests. *)
SaveQuietly(j) ==
    LET saved == [status |-> "PENDENTE", changes |-> job[j].next] IN
    /\ At(j, "saveResubmitted")
    /\ request' = [request EXCEPT ![job[j].r] = saved]
    /\ announced' = announced \ {job[j].r}
    /\ Cross(j)
    /\ Finish(j)
    /\ UNCHANGED <<voter, audit, told, faults, applied, lost, disturbed>>

SaveResubmitted(j) ==
    LET saved == [status |-> "PENDENTE", changes |-> job[j].next] IN
    /\ At(j, "saveResubmitted")
    /\ request' = [request EXCEPT ![job[j].r] = saved]
    /\ announced' = announced \ {job[j].r}
    /\ Cross(j)
    /\ Goto(j, "announce")
    /\ UNCHANGED <<voter, audit, told, faults, applied, lost, disturbed>>

Entry(j) == <<job[j].r, job[j].copy.status, job[j].copy.changes>>

Log(j) ==
    /\ At(j, "log")
    /\ audit' = audit \cup {Entry(j)}
    /\ Goto(j, "notify")
    /\ UNCHANGED <<request, voter, announced, told, faults, history>>

NotifyRequester(j) ==
    /\ At(j, "notify")
    /\ told' = told \cup {Entry(j)}
    /\ Finish(j)
    /\ UNCHANGED <<request, voter, audit, announced, faults, history>>

NotifyApprovers(j) ==
    /\ At(j, "announce")
    /\ announced' = announced \cup {job[j].r}
    /\ Finish(j)
    /\ UNCHANGED <<request, voter, audit, told, faults, history>>

-----------------------------------------------------------------------------
(* Administrators also edit and remove voters directly: find, then save.   *)
FindForEdit(j, v) ==
    /\ At(j, "idle")
    /\ voter[v] # None
    /\ Start(j, "edit", None, v, None, None, voter[v])
    /\ UNCHANGED <<request, voter, records, faults, history>>

SaveEdit(j) ==
    /\ At(j, "edit")
    /\ \E new \in Voter : voter' = [voter EXCEPT ![job[j].v] = new]
    /\ Disturb(j, {job[j].v})
    /\ Finish(j)
    /\ UNCHANGED <<request, records, faults, applied, crossed, lost>>

RemoveDirectly(v) ==
    /\ voter[v] # None
    /\ voter' = [voter EXCEPT ![v] = None]
    /\ UNCHANGED <<request, records, job, faults, history>>

(* A statement throws, or the process stops: nothing is undone. *)
JobFails(j) ==
    /\ ~At(j, "idle")
    /\ faults < MaxFaults
    /\ faults' = faults + 1
    /\ lost' = lost \cup {<<job[j].r, job[j].at>>}
    /\ Finish(j)
    /\ UNCHANGED <<request, voter, records, applied, crossed, disturbed>>

-----------------------------------------------------------------------------
JobStep(j) ==
    \/ FindVoter(j) \/ SaveVoter(j) \/ RemoveVoter(j)
    \/ SaveDecision(j, "saveApproved", "APROVADA")
    \/ SaveDecision(j, "saveRejected", "REJEITADA")
    \/ SaveResubmitted(j) \/ Log(j) \/ NotifyRequester(j) \/ NotifyApprovers(j)
    \/ SaveEdit(j)

Next ==
    \/ \E j \in Jobs :
          \/ \E r \in Requests : Create(j, r) \/ Review(j, r) \/ Resubmit(j, r)
          \/ \E v \in Voters : FindForEdit(j, v)
          \/ JobStep(j) \/ JobFails(j)
    \/ \E v \in Voters : RemoveDirectly(v)

Spec == Init /\ [][Next]_vars

-----------------------------------------------------------------------------
(* Type correctness. *)
TypeOK ==
    /\ request \in [Requests -> Request \cup {None}]
    /\ voter \in [Voters -> Voter \cup {None}]
    /\ audit \in SUBSET (Requests \X Status \X (Changes \cup {None}))
    /\ told \in SUBSET (Requests \X Status \X (Changes \cup {None}))
    /\ announced \in SUBSET Requests
    /\ job \in [Jobs -> Job]
    /\ faults \in 0..MaxFaults
    /\ applied \in SUBSET (Requests \X (Changes \cup {None}))
    /\ crossed \in SUBSET Requests
    /\ lost \in SUBSET ((Requests \cup {None}) \X Step)
    /\ disturbed \in SUBSET Voters

(***************************************************************************)
(* An approved request is in force: its changes are in the voter's row, or *)
(* the voter is gone, unless the voter was also edited directly or a save  *)
(* went over a newer row.  Whatever reviews and resubmissions cross, the   *)
(* changes that an approved request shows are those that were applied.     *)
(***************************************************************************)
InForce(v, c) ==
    \/ v \in disturbed
    \/ voter[v] = None
    \/ c # None /\ c \in voter[v].has

ApprovedInForce ==
    \A r \in Requests : Is(r, "APROVADA") => InForce(VoterOf[r], request[r].changes)

(***************************************************************************)
(* What was applied to a voter is shown as approved, unless the approval   *)
(* is still at work, stopped before its save, or a save crossed another.   *)
(***************************************************************************)
AppliedIsApproved ==
    \A r \in Requests, c \in Changes \cup {None} : <<r, c>> \in applied =>
        \/ request[r] = [status |-> "APROVADA", changes |-> c]
        \/ r \in crossed
        \/ <<r, "saveApproved">> \in lost
        \/ \E j \in Jobs :
              At(j, "saveApproved") /\ job[j].r = r /\ job[j].copy.changes = c

(***************************************************************************)
(* The audit log has an entry for what approvals applied, and nothing that *)
(* was not, unless the approval is still at work or stopped half-way.      *)
(***************************************************************************)
AuditIsComplete ==
    \A r \in Requests, c \in Changes \cup {None} :
        /\ <<r, "APROVADA", c>> \in audit => <<r, c>> \in applied
        /\ <<r, c>> \in applied =>
              \/ <<r, "APROVADA", c>> \in audit
              \/ \E step \in {"saveApproved", "log"} : <<r, step>> \in lost
              \/ \E j \in Jobs :
                    /\ \/ At(j, "saveApproved")
                       \/ At(j, "log") /\ job[j].copy.status = "APROVADA"
                    /\ job[j].r = r /\ job[j].copy.changes = c

(***************************************************************************)
(* The approvers know of every pending submission, unless the notification *)
(* is still to be sent, or its job stopped before it.                      *)
(***************************************************************************)
PendingIsAnnounced ==
    \A r \in Requests : Is(r, "PENDENTE") =>
        \/ r \in announced
        \/ <<r, "announce">> \in lost
        \/ \E j \in Jobs : At(j, "announce") /\ job[j].r = r

(***************************************************************************)
(* "Esta solicitacao ja foi analisada e nao pode ser alterada"             *)
(* (voter-change-requests.service.ts:285): an approved request stays what  *)
(* it is.                                                                  *)
(***************************************************************************)
AnalysedStaysUnaltered ==
    [][\A r \in Requests : Is(r, "APROVADA") => request'[r] = request[r]]_vars
=============================================================================
