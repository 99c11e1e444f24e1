----------------------- MODULE ChangeRequestsInvariant -----------------------
(***************************************************************************)
(* The inductive invariant of the change requests: what a job's place in   *)
(* approve, reject or resubmit says of what it carries.                    *)
(***************************************************************************)
EXTENDS ChangeRequests

(* A review carries a pending request as it was read, a resubmission a     *)
(* rejected one; after the save, the decision.                             *)
Reviewing == {"findVoter", "saveVoter", "removeVoter", "saveApproved", "saveRejected"}

JobCarries(j) ==
    /\ job[j].at \in Reviewing =>
          /\ job[j].r \in Requests /\ job[j].v = VoterOf[job[j].r]
          /\ job[j].copy \in Request /\ job[j].copy.status = "PENDENTE"
    /\ job[j].at = "saveVoter" =>
          job[j].copy.changes # None /\ job[j].found \in Voter
    /\ job[j].at = "removeVoter" => job[j].copy.changes = None
    /\ job[j].at = "saveResubmitted" =>
          /\ job[j].r \in Requests
          /\ job[j].copy \in Request /\ job[j].copy.status = "REJEITADA"
    /\ job[j].at \in {"log", "notify"} =>
          job[j].r \in Requests /\ job[j].copy \in Request
    /\ job[j].at = "announce" => job[j].r \in Requests
    /\ job[j].at = "edit" => job[j].v \in Voters

Carried == \A j \in Jobs : JobCarries(j)

(* An approval about to be saved, or logged, has been applied, and one     *)
(* about to be saved is in force.                                          *)
JobApplied(j) ==
    /\ At(j, "saveApproved") =>
          /\ <<job[j].r, job[j].copy.changes>> \in applied
          /\ InForce(VoterOf[job[j].r], job[j].copy.changes)
    /\ At(j, "log") /\ job[j].copy.status = "APROVADA" =>
          <<job[j].r, job[j].copy.changes>> \in applied

Applied == \A j \in Jobs : JobApplied(j)

IInv ==
    /\ TypeOK
    /\ Carried
    /\ Applied
    /\ ApprovedInForce
    /\ AppliedIsApproved
    /\ AuditIsComplete
    /\ PendingIsAnnounced
=============================================================================
