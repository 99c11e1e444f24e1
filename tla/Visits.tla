------------------------------- MODULE Visits -------------------------------
(***************************************************************************)
(* Visits and the agenda (VisitsService, AppointmentsService): every visit *)
(* has an appointment of its own, which the requests about the visit       *)
(* create, keep in step and remove after it, in statements of their own.   *)
(***************************************************************************)
EXTENDS Naturals, FiniteSets, Sequences

CONSTANTS MaxVisits,         \* bound: rows of visits
          MaxAppointments,   \* bound: rows of appointments
          MaxVisitRequests,  \* bound: requests about visits and appointments
          VisitJobs,         \* requests at work
          AskedStatuses      \* statuses the requests ask for

\* visitStatusToAppointmentStatus
AppointmentStatus == [AGENDADA |-> "SCHEDULED", EM_ATENDIMENTO |-> "IN_PROGRESS",
                      CONCLUIDA |-> "COMPLETED", CANCELADA |-> "CANCELLED"]
VisitStatuses == DOMAIN AppointmentStatus
Keep == "KEEP"   \* a request that does not name the status

ASSUME VisitsAssumption ==
    /\ MaxVisits \in Nat \ {0} /\ MaxAppointments \in Nat \ {0} /\ MaxVisitRequests \in Nat
    /\ AskedStatuses \subseteq VisitStatuses

VARIABLES visits,       \* rows, by order of insertion; appt is appointmentId, 0 for NULL
          appointments,
          visitJob,
          visitRequests,
          owner,        \* history: the visit each appointment was made for
          loose         \* history: visits whose requests overlapped or died, or whose
                        \* appointment was edited or removed in the agenda

visitVars == <<visits, appointments, visitJob, visitRequests, owner, loose>>

Visit == [here : BOOLEAN, status : VisitStatuses, appt : 0 .. MaxAppointments]
Appointment == [here : BOOLEAN, status : {AppointmentStatus[s] : s \in VisitStatuses}]
NewVisit == [here |-> TRUE, status |-> "AGENDADA", appt |-> 0]
NewAppointment == [here |-> TRUE, status |-> "SCHEDULED"]
IdleVisitJob == [step |-> "idle", visit |-> 0, copy |-> NewVisit, asked |-> Keep,
                 appt |-> 0, agenda |-> NewAppointment]

VisitIds == 1 .. Len(visits)
AppointmentIds == 1 .. Len(appointments)
HereVisits == {v \in VisitIds : visits[v].here}
HereAppointments == {a \in AppointmentIds : appointments[a].here}
OnVisit(v) == {j \in VisitJobs : visitJob[j].step # "idle" /\ visitJob[j].visit = v}

VisitsInit ==
    /\ visits = <<>> /\ appointments = <<>>
    /\ visitJob = [j \in VisitJobs |-> IdleVisitJob]
    /\ visitRequests = 0 /\ owner = <<>> /\ loose = {}

\* a request begins about visit v; it overlaps the ones already at work on it
Begins(j, v, job) ==
    /\ visitJob[j].step = "idle" /\ visitRequests < MaxVisitRequests
    /\ visitRequests' = visitRequests + 1
    /\ visitJob' = [visitJob EXCEPT ![j] = job]
    /\ loose' = IF OnVisit(v) = {} THEN loose ELSE loose \union {v}
JobIs(j, job) == visitJob' = [visitJob EXCEPT ![j] = job]

----------------------------------------------------------------------------
(* create: the visit, its appointment, and the visit again with its appointmentId *)

CreateVisit(j, s) ==
    LET new == [NewVisit EXCEPT !.status = s] IN
    /\ Len(visits) < MaxVisits
    /\ visits' = Append(visits, new)
    /\ Begins(j, Len(visits) + 1, [IdleVisitJob EXCEPT !.step = "appoint", !.copy = new,
                                     !.visit = Len(visits) + 1])
    /\ UNCHANGED <<appointments, owner>>
CreateAppointment(j) ==
    LET job == visitJob[j] IN
    /\ job.step = "appoint" /\ Len(appointments) < MaxAppointments
    /\ appointments' = Append(appointments,
                              [here |-> TRUE, status |-> AppointmentStatus[job.copy.status]])
    /\ owner' = Append(owner, job.visit)
    /\ JobIs(j, [job EXCEPT !.step = "link", !.appt = Len(appointments) + 1])
    /\ UNCHANGED <<visits, visitRequests, loose>>

\* saving a whole visit: its row is written over, or inserted again when it was removed,
\* and refused when it names an appointment that is no longer there
SavesVisit(id, new) ==
    \/ /\ new.appt \in {0} \union HereAppointments
       /\ visits' = [visits EXCEPT ![id] = new]
    \/ /\ new.appt \notin {0} \union HereAppointments
       /\ UNCHANGED visits
Saved(new) == new.appt \in {0} \union HereAppointments

LinkVisit(j) ==
    LET job == visitJob[j] IN
    /\ job.step = "link"
    /\ SavesVisit(job.visit, [job.copy EXCEPT !.appt = job.appt])
    /\ JobIs(j, IdleVisitJob)
    /\ UNCHANGED <<appointments, visitRequests, owner, loose>>

----------------------------------------------------------------------------
(* update: the visit is found and saved, then its appointment is found and saved *)

UpdateVisit(j, v, asked) ==
    /\ v \in HereVisits
    /\ Begins(j, v, [IdleVisitJob EXCEPT !.step = "save", !.visit = v, !.copy = visits[v],
                                         !.asked = asked])
    /\ UNCHANGED <<visits, appointments, owner>>
SaveVisit(j) ==
    LET job == visitJob[j]
        new == IF job.asked = Keep THEN job.copy ELSE [job.copy EXCEPT !.status = job.asked]
    IN
    /\ job.step = "save"
    /\ SavesVisit(job.visit, new)
    /\ JobIs(j, IF Saved(new) /\ new.appt # 0
                THEN [job EXCEPT !.step = "findAppointment", !.copy = new, !.appt = new.appt]
                ELSE IdleVisitJob)
    /\ UNCHANGED <<appointments, visitRequests, owner, loose>>
FindAppointment(j) ==
    LET job == visitJob[j] IN
    /\ job.step = "findAppointment"
    /\ JobIs(j, IF job.appt \in HereAppointments
                THEN [job EXCEPT !.step = "saveAppointment", !.agenda = appointments[job.appt]]
                ELSE IdleVisitJob)
    /\ UNCHANGED <<visits, appointments, visitRequests, owner, loose>>

\* Mutant: the appointment keeps its own status
StatusForgotten(job) == job.agenda.status

\* the status goes to the appointment only when the request named one
AgendaStatus(job) == IF job.asked = Keep THEN job.agenda.status
                     ELSE AppointmentStatus[job.copy.status]

SaveAppointment(j) ==
    LET job == visitJob[j] IN
    /\ job.step = "saveAppointment"
    /\ appointments' = [appointments EXCEPT ![job.appt] =
                          [here |-> TRUE, status |-> AgendaStatus(job)]]
    /\ JobIs(j, IdleVisitJob)
    /\ UNCHANGED <<visits, visitRequests, owner, loose>>

----------------------------------------------------------------------------
(* remove: the visit, then its appointment *)

RemoveVisit(j, v) ==
    /\ v \in HereVisits
    /\ Begins(j, v, [IdleVisitJob EXCEPT !.step = "remove", !.visit = v, !.copy = visits[v],
                                         !.appt = visits[v].appt])
    /\ UNCHANGED <<visits, appointments, owner>>
DeleteVisit(j) ==
    LET job == visitJob[j] IN
    /\ job.step = "remove"
    /\ visits' = [visits EXCEPT ![job.visit].here = FALSE]
    /\ JobIs(j, IF job.appt = 0 THEN IdleVisitJob ELSE [job EXCEPT !.step = "removeAppointment"])
    /\ UNCHANGED <<appointments, visitRequests, owner, loose>>
\* deleting an appointment: "onDelete: 'SET NULL'" of the visits that name it
Unlinked(a) == [v \in VisitIds |-> IF visits[v].appt = a THEN [visits[v] EXCEPT !.appt = 0]
                                   ELSE visits[v]]
DeleteAppointment(j) ==
    LET job == visitJob[j] IN
    /\ job.step = "removeAppointment"
    /\ appointments' = [appointments EXCEPT ![job.appt].here = FALSE]
    /\ visits' = Unlinked(job.appt)
    /\ JobIs(j, IdleVisitJob)
    /\ UNCHANGED <<visitRequests, owner, loose>>

\* the request dies, or the database fails
VisitJobDies(j) ==
    /\ visitJob[j].step # "idle"
    /\ loose' = loose \union ({visitJob[j].visit} \ {0})
    /\ JobIs(j, IdleVisitJob)
    /\ UNCHANGED <<visits, appointments, visitRequests, owner>>

----------------------------------------------------------------------------
(* the agenda's own update and remove *)

EditAgenda(j, a, s) ==
    /\ a \in HereAppointments /\ visitJob[j].step = "idle" /\ visitRequests < MaxVisitRequests
    /\ visitRequests' = visitRequests + 1
    /\ JobIs(j, [IdleVisitJob EXCEPT !.step = "saveAppointment", !.asked = s, !.appt = a,
                   !.copy = [NewVisit EXCEPT !.status = s], !.agenda = appointments[a]])
    /\ loose' = loose \union {owner[a]}
    /\ UNCHANGED <<visits, appointments, owner>>
RemoveFromAgenda(a) ==
    /\ a \in HereAppointments /\ visitRequests < MaxVisitRequests
    /\ visitRequests' = visitRequests + 1
    /\ appointments' = [appointments EXCEPT ![a].here = FALSE]
    /\ visits' = Unlinked(a)
    /\ loose' = loose \union {owner[a]}
    /\ UNCHANGED <<visitJob, owner>>

VisitsNext ==
    \/ \E j \in VisitJobs :
          \/ CreateAppointment(j) \/ LinkVisit(j) \/ SaveVisit(j) \/ FindAppointment(j)
          \/ SaveAppointment(j) \/ DeleteVisit(j) \/ DeleteAppointment(j) \/ VisitJobDies(j)
          \/ \E s \in AskedStatuses : CreateVisit(j, s)
          \/ \E v \in VisitIds :
                \/ RemoveVisit(j, v)
                \/ \E asked \in AskedStatuses \union {Keep} : UpdateVisit(j, v, asked)
          \/ \E a \in AppointmentIds, s \in AskedStatuses : EditAgenda(j, a, s)
    \/ \E a \in AppointmentIds : RemoveFromAgenda(a)

VisitsSpec == VisitsInit /\ [][VisitsNext]_visitVars

----------------------------------------------------------------------------
(* Properties *)

VisitsTypeOK ==
    /\ visits \in Seq(Visit) /\ Len(visits) <= MaxVisits
    /\ appointments \in Seq(Appointment) /\ Len(appointments) <= MaxAppointments
    /\ visitRequests \in 0 .. MaxVisitRequests
    /\ owner \in Seq(VisitIds) /\ Len(owner) = Len(appointments) /\ loose \subseteq VisitIds
    /\ visitJob \in [VisitJobs ->
          [step : {"idle", "appoint", "link", "save", "findAppointment", "saveAppointment",
                   "remove", "removeAppointment"},
           visit : 0 .. MaxVisits, copy : Visit, asked : VisitStatuses \union {Keep},
           appt : 0 .. MaxAppointments, agenda : Appointment]]

\* Whatever overlaps, no two visits have one appointment, and a visit that is there
\* names an appointment that is there.
OneVisitEach ==
    /\ \A v, w \in VisitIds : visits[v].appt = visits[w].appt /\ v # w => visits[v].appt = 0
    /\ \A v \in HereVisits : visits[v].appt \in {0} \union HereAppointments

\* When no request is at work on it, a visit whose requests never overlapped, died or met
\* an edit in the agenda has its appointment, in the visit's status.
InStep ==
    \A v \in HereVisits \ loose :
        OnVisit(v) = {} =>
            /\ visits[v].appt \in HereAppointments
            /\ appointments[visits[v].appt].status = AppointmentStatus[visits[v].status]

\* An appointment has its visit, unless that visit's requests overlapped or died.
NoneLeft ==
    \A a \in HereAppointments :
        \/ \E v \in HereVisits : visits[v].appt = a
        \/ owner[a] \in loose
        \/ OnVisit(owner[a]) # {}

\* The visits and their appointments keep in step (the properties above).
VisitsInStep == OneVisitEach /\ InStep /\ NoneLeft

----------------------------------------------------------------------------
(* The inductive invariant: what the requests at work know *)

\* An appointment a visit names is there, and was made for that visit.
NamesItsOwn ==
    \A v \in VisitIds : visits[v].appt # 0 =>
        visits[v].appt \in HereAppointments /\ owner[visits[v].appt] = v

\* A request knows its visit, and of an appointment only that visit's.
Knows(job) ==
    /\ job.copy.here
    /\ job.step \notin {"idle", "saveAppointment"} => job.visit \in VisitIds
    /\ job.step \in {"link", "findAppointment", "saveAppointment", "removeAppointment"} =>
          job.appt \in AppointmentIds
    /\ job.step \in {"link", "findAppointment", "removeAppointment"} => owner[job.appt] = job.visit
    /\ job.step = "saveAppointment" =>
          IF job.visit = 0 THEN owner[job.appt] \in loose
          ELSE job.visit \in VisitIds /\ owner[job.appt] = job.visit
    /\ job.step \in {"save", "remove"} /\ job.copy.appt # 0 =>
          job.copy.appt \in AppointmentIds /\ owner[job.copy.appt] = job.visit
    /\ job.step = "remove" => job.appt = job.copy.appt

\* Two requests about one visit overlapped.
Overlaps ==
    \A i, j \in VisitJobs :
        i # j /\ visitJob[i].step # "idle" /\ visitJob[j].step # "idle"
              /\ visitJob[i].visit = visitJob[j].visit /\ visitJob[i].visit # 0
        => visitJob[i].visit \in loose

Made(v) == {a \in HereAppointments : owner[a] = v}   \* the appointments of v

\* a visit nobody is at work on has its appointment, a removed one has none
AtRest(v) ==
    IF visits[v].here
    THEN /\ visits[v].appt # 0 /\ Made(v) = {visits[v].appt}
         /\ appointments[visits[v].appt].status = AppointmentStatus[visits[v].status]
    ELSE Made(v) = {}
\* and what it has while the one request about it is at work
AtWork(v, job) ==
    /\ job.step = "appoint" =>
          /\ visits[v] = job.copy /\ visits[v].appt = 0 /\ Made(v) = {}
    /\ job.step = "link" =>
          /\ visits[v] = job.copy /\ Made(v) = {job.appt}
          /\ appointments[job.appt].status = AppointmentStatus[job.copy.status]
    /\ job.step \in {"save", "remove"} => visits[v] = job.copy /\ AtRest(v)
    /\ job.step \in {"findAppointment", "saveAppointment"} =>
          /\ visits[v] = job.copy /\ job.appt = job.copy.appt /\ Made(v) = {job.appt}
          /\ IF job.asked = Keep
             THEN appointments[job.appt].status = AppointmentStatus[job.copy.status]
             ELSE job.copy.status = job.asked
    /\ job.step = "saveAppointment" => job.agenda = appointments[job.appt]
    /\ job.step = "removeAppointment" => ~visits[v].here /\ Made(v) = {job.appt}

\* A visit that is not loose is in step, but for what its request has still to do.
Follows(v) ==
    /\ OnVisit(v) = {} => AtRest(v)
    /\ \A j \in OnVisit(v) : AtWork(v, visitJob[j])

\* with which VisitsInStep is inductive
VisitsInv ==
    /\ VisitsTypeOK
    /\ NamesItsOwn
    /\ \A j \in VisitJobs : Knows(visitJob[j])
    /\ Overlaps
    /\ \A v \in VisitIds \ loose : Follows(v)
=============================================================================
