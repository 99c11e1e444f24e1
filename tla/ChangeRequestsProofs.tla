------------------------ MODULE ChangeRequestsProofs ------------------------
(***************************************************************************)
(* Theorems about ChangeRequests.tla: its type invariant and its four      *)
(* safety properties, for every number of requests, voters, changes, jobs  *)
(* and faults.                                                             *)
(***************************************************************************)
EXTENDS ChangeRequestsInvariant, TLAPS

(* What an action does to the jobs: the others are left alone. *)
Others(j) == \A k \in Jobs \ {j} : job'[k] = job[k]

Ended(j) == Others(j) /\ job'[j].at = "idle"

Moved(j, step) ==
    /\ Others(j)
    /\ job'[j].at = step
    /\ job'[j].r = job[j].r /\ job'[j].v = job[j].v /\ job'[j].copy = job[j].copy

LEMMA IdleIsJob == Idle \in Job
BY DEF Idle, Job, Step

LEMMA FinishEffect ==
    ASSUME TypeOK, NEW j \in Jobs, Finish(j)
    PROVE  job' \in [Jobs -> Job] /\ Ended(j)
BY IdleIsJob DEF Finish, TypeOK, Ended, Others, Idle

LEMMA GotoEffect ==
    ASSUME TypeOK, NEW j \in Jobs, NEW step \in Step, Goto(j, step)
    PROVE  job' \in [Jobs -> Job] /\ Moved(j, step)
<1>1. job[j] \in Job
  BY DEF TypeOK
<1>2. [job[j] EXCEPT !.at = step] \in Job
  BY <1>1 DEF Job
<1>3. job' = [job EXCEPT ![j] = [job[j] EXCEPT !.at = step]]
  BY DEF Goto
<1>4. job'[j] = [job[j] EXCEPT !.at = step] /\ Others(j)
  BY <1>3 DEF TypeOK, Others
<1>5. job' \in [Jobs -> Job]
  BY <1>2, <1>3 DEF TypeOK
<1> QED
  BY <1>1, <1>4, <1>5 DEF Moved, Job

LEMMA StartEffect ==
    ASSUME TypeOK, NEW j \in Jobs, NEW step \in Step, NEW r \in Requests \cup {None},
           NEW v \in Voters \cup {None}, NEW copy \in Request \cup {None},
           NEW next \in Changes \cup {None}, NEW found \in Voter \cup {None},
           Start(j, step, r, v, copy, next, found)
    PROVE  /\ job' \in [Jobs -> Job] /\ Others(j)
           /\ job'[j].at = step /\ job'[j].r = r /\ job'[j].v = v
           /\ job'[j].copy = copy
<1> DEFINE new == [at |-> step, r |-> r, v |-> v, copy |-> copy, next |-> next,
                   found |-> found]
<1>1. new \in Job
  BY DEF Job
<1>2. job' = [job EXCEPT ![j] = new]
  BY DEF Start
<1> HIDE DEF new
<1>3. job' \in [Jobs -> Job] /\ Others(j) /\ job'[j] = new
  BY <1>1, <1>2 DEF TypeOK, Others
<1> QED
  BY <1>3 DEF new

LEMMA CreateEffect ==
    ASSUME TypeOK, NEW j \in Jobs, NEW r \in Requests, Create(j, r)
    PROVE  /\ job' \in [Jobs -> Job] /\ Others(j)
           /\ job[j].at = "idle" /\ job'[j].at = "announce" /\ job'[j].r = r
<1>1. Start(j, "announce", r, None, None, None, None) /\ job[j].at = "idle"
  BY DEF Create, At
<1>2. "announce" \in Step
  BY DEF Step
<1> QED
  BY <1>1, <1>2, StartEffect

LEMMA ReviewEffect ==
    ASSUME TypeOK, NEW j \in Jobs, NEW r \in Requests, Review(j, r)
    PROVE  /\ job' \in [Jobs -> Job] /\ Others(j) /\ job[j].at = "idle"
           /\ job'[j].at \in {"findVoter", "saveRejected"}
           /\ job'[j].r = r /\ job'[j].v = VoterOf[r] /\ job'[j].copy = request[r]
           /\ request[r] \in Request /\ request[r].status = "PENDENTE"
<1>1. request[r] \in Request /\ request[r].status = "PENDENTE" /\ job[j].at = "idle"
  BY DEF Review, Is, At, TypeOK
<1>2. VoterOf[r] \in Voters
  BY ChangeRequestsAssumption
<1>3. PICK step \in {"findVoter", "saveRejected"} :
         Start(j, step, r, VoterOf[r], request[r], None, None)
  BY DEF Review
<1>4. step \in Step
  BY DEF Step
<1> QED
  BY <1>1, <1>2, <1>3, <1>4, StartEffect

LEMMA ResubmitEffect ==
    ASSUME TypeOK, NEW j \in Jobs, NEW r \in Requests, Resubmit(j, r)
    PROVE  /\ job' \in [Jobs -> Job] /\ Others(j) /\ job[j].at = "idle"
           /\ job'[j].at = "saveResubmitted"
           /\ job'[j].r = r /\ job'[j].copy = request[r]
           /\ request[r] \in Request /\ request[r].status = "REJEITADA"
<1>1. request[r] \in Request /\ request[r].status = "REJEITADA" /\ job[j].at = "idle"
  BY DEF Resubmit, Is, At, TypeOK
<1>2. PICK c \in Changes \cup {None} :
         Start(j, "saveResubmitted", r, None, request[r], c, None)
  BY DEF Resubmit
<1>3. "saveResubmitted" \in Step
  BY DEF Step
<1> QED
  BY <1>1, <1>2, <1>3, StartEffect

LEMMA EditEffect ==
    ASSUME TypeOK, NEW j \in Jobs, NEW v \in Voters, FindForEdit(j, v)
    PROVE  /\ job' \in [Jobs -> Job] /\ Others(j) /\ job[j].at = "idle"
           /\ job'[j].at = "edit" /\ job'[j].v = v
<1>1. voter[v] \in Voter \cup {None} /\ job[j].at = "idle" /\ "edit" \in Step
  BY DEF FindForEdit, At, TypeOK, Step
<1> QED
  BY <1>1, StartEffect DEF FindForEdit

LEMMA FindVoterEffect ==
    ASSUME TypeOK, NEW j \in Jobs, JobCarries(j), FindVoter(j)
    PROVE  /\ job' \in [Jobs -> Job] /\ job[j].at = "findVoter"
           /\ \/ Ended(j)
              \/ \E step \in {"saveVoter", "removeVoter"} :
                    /\ Moved(j, step)
                    /\ step = "removeVoter" <=> job[j].copy.changes = None
                    /\ job'[j].found \in Voter
<1>1. job[j] \in Job /\ job[j].at = "findVoter" /\ job[j].v \in Voters
  BY ChangeRequestsAssumption DEF TypeOK, FindVoter, At, JobCarries, Reviewing
<1>2. CASE voter[job[j].v] = None
  BY <1>1, <1>2, FinishEffect DEF FindVoter
<1>3. CASE voter[job[j].v] # None
  <2> DEFINE step == IF job[j].copy.changes = None THEN "removeVoter" ELSE "saveVoter"
             new == [job[j] EXCEPT !.at = step, !.found = voter[job[j].v]]
  <2>1. job' = [job EXCEPT ![j] = new]
    BY <1>3 DEF FindVoter
  <2>2. voter[job[j].v] \in Voter
    BY <1>1, <1>3 DEF TypeOK
  <2>3. new \in Job /\ new.at = step /\ new.found \in Voter
        /\ new.r = job[j].r /\ new.v = job[j].v /\ new.copy = job[j].copy
    BY <1>1, <2>2 DEF Job, Step
  <2>4. job' \in [Jobs -> Job] /\ Others(j) /\ job'[j] = new
    BY <2>1, <2>3 DEF TypeOK, Others
  <2> HIDE DEF new
  <2> QED
    BY <1>1, <2>3, <2>4 DEF Moved
<1> QED
  BY <1>2, <1>3

(* The two saves of a review. *)
LEMMA DecisionEffect ==
    ASSUME TypeOK, NEW j \in Jobs, JobCarries(j),
           NEW step \in {"saveApproved", "saveRejected"},
           NEW decision \in {"APROVADA", "REJEITADA"}, SaveDecision(j, step, decision)
    PROVE  /\ job' \in [Jobs -> Job] /\ Others(j)
           /\ job[j].at = step /\ job'[j].at = "log"
           /\ job'[j].r = job[j].r /\ job[j].r \in Requests
           /\ job'[j].copy \in Request /\ job'[j].copy.status = decision
           /\ job'[j].copy.changes = job[j].copy.changes
           /\ request' = [request EXCEPT ![job[j].r] = job'[j].copy]
           /\ job'[j].copy = [status |-> decision, changes |-> job[j].copy.changes]
<1> DEFINE saved == [job[j].copy EXCEPT !.status = decision]
           new == [job[j] EXCEPT !.at = "log", !.copy = saved]
<1>1. job[j] \in Job /\ job[j].at = step
      /\ job[j].r \in Requests /\ job[j].copy \in Request
  BY DEF TypeOK, SaveDecision, At, JobCarries, Reviewing
<1>2. saved = [status |-> decision, changes |-> job[j].copy.changes]
  BY <1>1 DEF Request
<1>3. saved \in Request
  BY <1>1, <1>2 DEF Request, Status
<1>4. job' = [job EXCEPT ![j] = new] /\ request' = [request EXCEPT ![job[j].r] = saved]
  BY DEF SaveDecision
<1> HIDE DEF saved
<1>5. new \in Job /\ new.at = "log" /\ new.r = job[j].r /\ new.copy = saved
  BY <1>1, <1>3 DEF Job, Step
<1>6. job' \in [Jobs -> Job] /\ Others(j) /\ job'[j] = new
  BY <1>4, <1>5 DEF TypeOK, Others
<1> QED
  BY <1>1, <1>2, <1>3, <1>4, <1>5, <1>6


(* The save of a resubmission. *)
LEMMA ResubmittedEffect ==
    ASSUME TypeOK, NEW j \in Jobs, JobCarries(j), SaveResubmitted(j)
    PROVE  /\ job' \in [Jobs -> Job] /\ Moved(j, "announce")
           /\ job[j].at = "saveResubmitted" /\ job[j].r \in Requests
           /\ job[j].copy.status = "REJEITADA"
           /\ \E new \in Request :
                 new.status = "PENDENTE" /\ request' = [request EXCEPT ![job[j].r] = new]
<1>1. job[j] \in Job /\ job[j].at = "saveResubmitted"
      /\ job[j].r \in Requests /\ job[j].copy.status = "REJEITADA"
  BY DEF TypeOK, SaveResubmitted, At, JobCarries
<1>2. job' \in [Jobs -> Job] /\ Moved(j, "announce")
  BY GotoEffect DEF SaveResubmitted, Step
<1>3. [status |-> "PENDENTE", changes |-> job[j].next] \in Request
  BY <1>1 DEF Job, Request, Status
<1>4. request' = [request EXCEPT ![job[j].r] = [status |-> "PENDENTE", changes |-> job[j].next]]
  BY DEF SaveResubmitted
<1> QED
  BY <1>1, <1>2, <1>3, <1>4

-----------------------------------------------------------------------------
(* Types. *)
LEMMA TypeStep == TypeOK /\ Carried /\ [Next]_vars => TypeOK'
<1> SUFFICES ASSUME TypeOK, Carried, [Next]_vars PROVE TypeOK'
  OBVIOUS
<1>0. ASSUME NEW j \in Jobs PROVE JobCarries(j) /\ job[j] \in Job
  BY DEF Carried, TypeOK
<1>1. ASSUME NEW j \in Jobs, NEW r \in Requests, Create(j, r) PROVE TypeOK'
  <2>1. PICK c \in Changes \cup {None} :
           request' = [request EXCEPT ![r] = [status |-> "PENDENTE", changes |-> c]]
    BY <1>1 DEF Create
  <2>2. [status |-> "PENDENTE", changes |-> c] \in Request
    BY DEF Request, Status
  <2>3. request' \in [Requests -> Request \cup {None}]
    BY <2>1, <2>2 DEF TypeOK
  <2> QED
    BY <1>1, <2>3, CreateEffect DEF Create, TypeOK, records, history
<1>2. ASSUME NEW j \in Jobs, NEW r \in Requests, Review(j, r) PROVE TypeOK'
  BY <1>2, ReviewEffect DEF Review, TypeOK, records, history
<1>3. ASSUME NEW j \in Jobs, NEW r \in Requests, Resubmit(j, r) PROVE TypeOK'
  BY <1>3, ResubmitEffect DEF Resubmit, TypeOK, records, history
<1>4. ASSUME NEW j \in Jobs, NEW v \in Voters, FindForEdit(j, v) PROVE TypeOK'
  BY <1>4, EditEffect DEF FindForEdit, TypeOK, records, history
<1>5. ASSUME NEW j \in Jobs, FindVoter(j) PROVE TypeOK'
  BY <1>0, <1>5, FindVoterEffect DEF FindVoter, TypeOK, records, history
<1>6. ASSUME NEW j \in Jobs, SaveVoter(j) PROVE TypeOK'
  <2>1. /\ job[j].r \in Requests /\ job[j].v \in Voters /\ job[j].found \in Voter
        /\ job[j].copy.changes \in Changes
    BY <1>0, <1>6, ChangeRequestsAssumption
    DEF SaveVoter, At, JobCarries, Reviewing, Request
  <2>2. [has |-> job[j].found.has \cup {job[j].copy.changes}] \in Voter
    BY <2>1 DEF Voter
  <2>3. voter' \in [Voters -> Voter \cup {None}]
    BY <1>6, <2>2 DEF SaveVoter, TypeOK
  <2>4. job' \in [Jobs -> Job]
    BY <1>6, GotoEffect DEF SaveVoter, Step
  <2>5. disturbed' \in SUBSET Voters /\ applied' \in SUBSET (Requests \X (Changes \cup {None}))
    BY <1>6, <2>1 DEF SaveVoter, Disturb, Apply, TypeOK
  <2> QED
    BY <1>6, <2>3, <2>4, <2>5 DEF SaveVoter, TypeOK, records
<1>7. ASSUME NEW j \in Jobs, RemoveVoter(j) PROVE TypeOK'
  <2>1. job[j].r \in Requests /\ job[j].copy.changes = None
    BY <1>0, <1>7 DEF RemoveVoter, At, JobCarries, Reviewing
  <2>2. job' \in [Jobs -> Job]
    BY <1>7, GotoEffect DEF RemoveVoter, Step
  <2>3. applied' \in SUBSET (Requests \X (Changes \cup {None}))
    BY <1>7, <2>1 DEF RemoveVoter, Apply, TypeOK
  <2>4. voter' \in [Voters -> Voter \cup {None}]
    BY <1>7 DEF RemoveVoter, TypeOK
  <2> QED
    BY <1>7, <2>2, <2>3, <2>4 DEF RemoveVoter, TypeOK, records
<1>8. ASSUME NEW j \in Jobs, NEW step \in {"saveApproved", "saveRejected"},
             NEW decision \in {"APROVADA", "REJEITADA"}, SaveDecision(j, step, decision)
      PROVE  TypeOK'
  <2>1. job' \in [Jobs -> Job] /\ request' \in [Requests -> Request \cup {None}]
    BY <1>0, <1>8, DecisionEffect DEF TypeOK
  <2>2. job[j].r \in Requests
    BY <1>0, <1>8, DecisionEffect
  <2>3. crossed' \in SUBSET Requests
    BY <1>8, <2>2 DEF SaveDecision, Cross, TypeOK
  <2> QED
    BY <1>8, <2>1, <2>3 DEF SaveDecision, TypeOK, records
<1>9. ASSUME NEW j \in Jobs, SaveResubmitted(j) PROVE TypeOK'
  <2>1. job' \in [Jobs -> Job] /\ request' \in [Requests -> Request \cup {None}]
    BY <1>0, <1>9, ResubmittedEffect DEF TypeOK
  <2>2. job[j].r \in Requests
    BY <1>0, <1>9, ResubmittedEffect
  <2>3. crossed' \in SUBSET Requests /\ announced' \in SUBSET Requests
    BY <1>9, <2>2 DEF SaveResubmitted, Cross, TypeOK
  <2> QED
    BY <1>9, <2>1, <2>3 DEF SaveResubmitted, TypeOK
<1>10. ASSUME NEW j \in Jobs, Log(j) \/ NotifyRequester(j) \/ NotifyApprovers(j)
       PROVE  TypeOK'
  <2>1. job' \in [Jobs -> Job]
    BY <1>10, GotoEffect, FinishEffect DEF Log, NotifyRequester, NotifyApprovers, Step
  <2>2. announced' \in SUBSET Requests
    BY <1>0, <1>10 DEF Log, NotifyRequester, NotifyApprovers, At, JobCarries, TypeOK
  <2>3. job[j].at \in {"log", "notify"} =>
           Entry(j) \in Requests \X Status \X (Changes \cup {None})
    BY <1>0 DEF JobCarries, Entry, Request
  <2>4. /\ audit' \in SUBSET (Requests \X Status \X (Changes \cup {None}))
        /\ told' \in SUBSET (Requests \X Status \X (Changes \cup {None}))
    BY <1>10, <2>3 DEF Log, NotifyRequester, NotifyApprovers, At, TypeOK
  <2> QED
    BY <1>10, <2>1, <2>2, <2>4
    DEF Log, NotifyRequester, NotifyApprovers, TypeOK, history
<1>11. ASSUME NEW j \in Jobs, SaveEdit(j) PROVE TypeOK'
  <2>1. job' \in [Jobs -> Job]
    BY <1>11, FinishEffect DEF SaveEdit
  <2>2. job[j].v \in Voters
    BY <1>0, <1>11 DEF SaveEdit, At, JobCarries
  <2>3. disturbed' \in SUBSET Voters
    BY <1>11, <2>2 DEF SaveEdit, Disturb, TypeOK
  <2>4. voter' \in [Voters -> Voter \cup {None}]
    BY <1>11 DEF SaveEdit, TypeOK
  <2> QED
    BY <1>11, <2>1, <2>3, <2>4 DEF SaveEdit, TypeOK, records
<1>12. ASSUME NEW j \in Jobs, JobFails(j) PROVE TypeOK'
  <2>1. job' \in [Jobs -> Job] /\ faults' \in 0..MaxFaults
    BY <1>12, FinishEffect, ChangeRequestsAssumption DEF JobFails, TypeOK
  <2>2. lost' \in SUBSET ((Requests \cup {None}) \X Step)
    BY <1>0, <1>12 DEF JobFails, TypeOK, Job
  <2> QED
    BY <1>12, <2>1, <2>2 DEF JobFails, TypeOK, records
<1>13. ASSUME NEW v \in Voters, RemoveDirectly(v) PROVE TypeOK'
  BY <1>13 DEF RemoveDirectly, TypeOK, records, history
<1>14. CASE UNCHANGED vars
  BY <1>14 DEF vars, TypeOK, records, history
<1> QED
  BY <1>1, <1>2, <1>3, <1>4, <1>5, <1>6, <1>7, <1>8, <1>9, <1>10, <1>11, <1>12,
     <1>13, <1>14 DEF Next, JobStep

-----------------------------------------------------------------------------
(* What a job carries. *)
LEMMA CarriedFrame ==
    ASSUME Carried, NEW j \in Jobs, Others(j), JobCarries(j)'
    PROVE  Carried'
BY DEF Carried, Others, JobCarries

LEMMA CarriedStep == TypeOK /\ Carried /\ [Next]_vars => Carried'
<1> SUFFICES ASSUME TypeOK, Carried, [Next]_vars PROVE Carried'
  OBVIOUS
<1>0. ASSUME NEW j \in Jobs PROVE JobCarries(j)
  BY DEF Carried
<1>1. ASSUME NEW j \in Jobs, Ended(j) PROVE Carried'
  BY <1>1, CarriedFrame DEF Ended, JobCarries, Reviewing
<1>2. ASSUME NEW j \in Jobs, NEW r \in Requests, Create(j, r) PROVE Carried'
  BY <1>2, CreateEffect, CarriedFrame DEF JobCarries, Reviewing
<1>3. ASSUME NEW j \in Jobs, NEW r \in Requests, Review(j, r) PROVE Carried'
  BY <1>3, ReviewEffect, CarriedFrame DEF JobCarries, Reviewing
<1>4. ASSUME NEW j \in Jobs, NEW r \in Requests, Resubmit(j, r) PROVE Carried'
  BY <1>4, ResubmitEffect, CarriedFrame DEF JobCarries, Reviewing
<1>5. ASSUME NEW j \in Jobs, NEW v \in Voters, FindForEdit(j, v) PROVE Carried'
  BY <1>5, EditEffect, CarriedFrame DEF JobCarries, Reviewing
<1>6. ASSUME NEW j \in Jobs, FindVoter(j) PROVE Carried'
  <2>1. CASE Ended(j)
    BY <1>1, <2>1
  <2>2. ASSUME NEW step \in {"saveVoter", "removeVoter"}, Moved(j, step),
               step = "removeVoter" <=> job[j].copy.changes = None,
               job'[j].found \in Voter
        PROVE  Carried'
    BY <1>0, <1>6, <2>2, FindVoterEffect, CarriedFrame DEF Moved, JobCarries, Reviewing
  <2> QED
    BY <1>0, <1>6, <2>1, <2>2, FindVoterEffect
<1>7. ASSUME NEW j \in Jobs, SaveVoter(j) \/ RemoveVoter(j) PROVE Carried'
  <2>1. Moved(j, "saveApproved") /\ job[j].at \in {"saveVoter", "removeVoter"}
    BY <1>7, GotoEffect DEF SaveVoter, RemoveVoter, At, Step
  <2>2. JobCarries(j)'
    BY <1>0, <2>1 DEF Moved, JobCarries, Reviewing
  <2> QED
    BY <2>1, <2>2, CarriedFrame DEF Moved
<1>8. ASSUME NEW j \in Jobs, NEW step \in {"saveApproved", "saveRejected"},
             NEW decision \in {"APROVADA", "REJEITADA"}, SaveDecision(j, step, decision)
      PROVE  Carried'
  BY <1>0, <1>8, DecisionEffect, CarriedFrame DEF JobCarries, Reviewing
<1>9. ASSUME NEW j \in Jobs, SaveResubmitted(j) PROVE Carried'
  BY <1>0, <1>9, ResubmittedEffect, CarriedFrame DEF Moved, JobCarries, Reviewing
<1>10. ASSUME NEW j \in Jobs, Log(j) PROVE Carried'
  <2>1. Moved(j, "notify") /\ job[j].at = "log"
    BY <1>10, GotoEffect DEF Log, At, Step
  <2> QED
    BY <1>0, <2>1, CarriedFrame DEF Moved, JobCarries, Reviewing
<1>11. ASSUME NEW j \in Jobs,
              NotifyRequester(j) \/ NotifyApprovers(j) \/ SaveEdit(j) \/ JobFails(j)
       PROVE  Carried'
  BY <1>1, <1>11, FinishEffect DEF NotifyRequester, NotifyApprovers, SaveEdit, JobFails
<1>12. CASE UNCHANGED job
  BY <1>12 DEF Carried, JobCarries
<1> QED
  BY <1>2, <1>3, <1>4, <1>5, <1>6, <1>7, <1>8, <1>9, <1>10, <1>11, <1>12
  DEF Next, JobStep, RemoveDirectly, vars

-----------------------------------------------------------------------------
(* What is in force stays in force: a save that takes it away disturbs the *)
(* voter.                                                                  *)
LEMMA InForceKept ==
    ASSUME TypeOK, Carried, [Next]_vars, NEW v \in Voters, NEW c, InForce(v, c)
    PROVE  InForce(v, c)'
<1>1. CASE UNCHANGED <<voter, disturbed>>
  BY <1>1 DEF InForce
<1>2. ASSUME NEW j \in Jobs, SaveVoter(j) PROVE InForce(v, c)'
  <2>1. /\ voter' = [voter EXCEPT ![job[j].v] =
                        [has |-> job[j].found.has \cup {job[j].copy.changes}]]
        /\ disturbed \subseteq disturbed'
        /\ voter[job[j].v] # job[j].found => job[j].v \in disturbed'
    BY <1>2 DEF SaveVoter, Disturb
  <2>2. job[j].found \in Voter
    BY <1>2 DEF SaveVoter, At, Carried, JobCarries
  <2>3. CASE job[j].v = v /\ voter[v] = job[j].found
    <3>1. voter[v] # None
      BY <2>2, <2>3, RowsAssumption
    <3>2. voter'[v].has = voter[v].has \cup {job[j].copy.changes}
      BY <2>1, <2>3 DEF TypeOK
    <3> QED
      BY <2>1, <3>1, <3>2 DEF InForce
  <2>4. CASE job[j].v = v /\ voter[v] # job[j].found
    BY <2>1, <2>4 DEF InForce
  <2>5. CASE job[j].v # v
    BY <2>1, <2>5 DEF InForce, TypeOK
  <2> QED
    BY <2>3, <2>4, <2>5
<1>3. ASSUME NEW w \in Voters, voter' = [voter EXCEPT ![w] = None], UNCHANGED disturbed
      PROVE  InForce(v, c)'
  BY <1>3 DEF InForce, TypeOK
<1>4. ASSUME NEW j \in Jobs, RemoveVoter(j) PROVE InForce(v, c)'
  <2>1. job[j].v \in Voters
    BY <1>4, ChangeRequestsAssumption DEF RemoveVoter, At, Carried, JobCarries, Reviewing
  <2> QED
    BY <1>3, <1>4, <2>1 DEF RemoveVoter
<1>5. ASSUME NEW j \in Jobs, SaveEdit(j) PROVE InForce(v, c)'
  <2>1. /\ \E new \in Voter : voter' = [voter EXCEPT ![job[j].v] = new]
        /\ disturbed \subseteq disturbed' /\ job[j].v \in disturbed'
    BY <1>5 DEF SaveEdit, Disturb
  <2> QED
    BY <2>1 DEF InForce, TypeOK
<1>6. ASSUME NEW w \in Voters, RemoveDirectly(w) PROVE InForce(v, c)'
  BY <1>3, <1>6 DEF RemoveDirectly, history
<1> QED
  BY <1>1, <1>2, <1>4, <1>5, <1>6
  DEF Next, JobStep, vars, history, Create, Review, Resubmit, FindForEdit, FindVoter,
      SaveDecision, SaveResubmitted, Log, NotifyRequester, NotifyApprovers, JobFails

(* An action on a voter applies the request of its job. *)
LEMMA ApplyEffect ==
    ASSUME TypeOK, Carried, NEW j \in Jobs, SaveVoter(j) \/ RemoveVoter(j)
    PROVE  /\ Moved(j, "saveApproved") /\ job[j].r \in Requests
           /\ job[j].copy.changes \in Changes \cup {None}
           /\ applied' = applied \cup {<<job[j].r, job[j].copy.changes>>}
           /\ \A v, c : v = VoterOf[job[j].r] /\ c = job[j].copy.changes => InForce(v, c)'
           /\ UNCHANGED <<request, records, crossed, lost>>
<1>1. Moved(j, "saveApproved") /\ job[j].at \in {"saveVoter", "removeVoter"}
  BY GotoEffect DEF SaveVoter, RemoveVoter, At, Step
<1>2. /\ job[j].r \in Requests /\ job[j].v = VoterOf[job[j].r] /\ job[j].v \in Voters
      /\ job[j].copy \in Request
  BY <1>1, ChangeRequestsAssumption DEF Carried, JobCarries, Reviewing
<1>3. applied' = applied \cup {<<job[j].r, job[j].copy.changes>>}
      /\ UNCHANGED <<request, records, crossed, lost>>
  BY DEF SaveVoter, RemoveVoter, Apply
<1>4. CASE SaveVoter(j)
  <2>1. job[j].copy.changes # None
    BY <1>4 DEF SaveVoter, At, Carried, JobCarries
  <2>2. voter'[job[j].v].has = job[j].found.has \cup {job[j].copy.changes}
    BY <1>2, <1>4 DEF SaveVoter, TypeOK
  <2> QED
    BY <1>1, <1>2, <1>3, <2>1, <2>2 DEF InForce, Request
<1>5. CASE RemoveVoter(j)
  <2>1. voter'[job[j].v] = None
    BY <1>2, <1>5 DEF RemoveVoter, TypeOK
  <2> QED
    BY <1>1, <1>2, <1>3, <2>1 DEF InForce, Request
<1> QED
  BY <1>4, <1>5

LEMMA AppliedGrows ==
    ASSUME [Next]_vars
    PROVE  applied \subseteq applied'
BY DEF Next, JobStep, vars, history, Create, Review, Resubmit, FindForEdit, FindVoter,
       SaveVoter, RemoveVoter, Apply, SaveDecision, SaveResubmitted, Log, NotifyRequester,
       NotifyApprovers, SaveEdit, JobFails, RemoveDirectly

LEMMA AppliedFrame ==
    ASSUME TypeOK, Carried, Applied, [Next]_vars, NEW j \in Jobs, job'[j] = job[j]
    PROVE  JobApplied(j)'
<1>1. At(j, "saveApproved") => VoterOf[job[j].r] \in Voters
  BY ChangeRequestsAssumption DEF Carried, JobCarries, Reviewing, At
<1>2. At(j, "saveApproved") => InForce(VoterOf[job[j].r], job[j].copy.changes)'
  BY <1>1, InForceKept DEF Applied, JobApplied
<1> QED
  BY <1>2, AppliedGrows DEF Applied, JobApplied, At, InForce

LEMMA AppliedStep ==
    ASSUME TypeOK, Carried, Applied, [Next]_vars
    PROVE  Applied'
<1>1. ASSUME NEW j \in Jobs, Others(j), JobApplied(j)' PROVE Applied'
  BY <1>1, AppliedFrame DEF Applied, Others
<1>2. ASSUME NEW j \in Jobs, Others(j), job'[j].at \notin {"saveApproved", "log"}
      PROVE  Applied'
  BY <1>1, <1>2 DEF JobApplied, At
<1>3. ASSUME NEW j \in Jobs, SaveVoter(j) \/ RemoveVoter(j) PROVE Applied'
  <2>1. Moved(j, "saveApproved") /\ <<job[j].r, job[j].copy.changes>> \in applied'
        /\ \A v, c : v = VoterOf[job[j].r] /\ c = job[j].copy.changes => InForce(v, c)'
    BY <1>3, ApplyEffect
  <2>2. JobApplied(j)'
    BY <2>1 DEF JobApplied, Moved, At, InForce
  <2> QED
    BY <1>1, <2>1, <2>2 DEF Moved
<1>4. ASSUME NEW j \in Jobs, SaveDecision(j, "saveApproved", "APROVADA") PROVE Applied'
  <2>1. /\ Others(j) /\ job[j].at = "saveApproved" /\ job'[j].at = "log"
        /\ job'[j].r = job[j].r /\ job'[j].copy.changes = job[j].copy.changes
    BY <1>4, DecisionEffect DEF Carried
  <2>2. <<job[j].r, job[j].copy.changes>> \in applied'
    BY <2>1, AppliedGrows DEF Applied, JobApplied, At
  <2>3. JobApplied(j)'
    BY <2>1, <2>2 DEF JobApplied, At
  <2> QED
    BY <1>1, <2>1, <2>3
<1>5. ASSUME NEW j \in Jobs, SaveDecision(j, "saveRejected", "REJEITADA") PROVE Applied'
  <2>1. Others(j) /\ job'[j].at = "log" /\ job'[j].copy.status = "REJEITADA"
    BY <1>5, DecisionEffect DEF Carried
  <2> QED
    BY <1>1, <2>1 DEF JobApplied, At
<1>6. ASSUME NEW j \in Jobs, FindVoter(j) PROVE Applied'
  <2>1. Others(j) /\ job'[j].at \in {"idle", "saveVoter", "removeVoter"}
    BY <1>6, FindVoterEffect DEF Carried, Ended, Moved
  <2> QED
    BY <1>2, <2>1
<1>7. ASSUME NEW j \in Jobs, NEW r \in Requests, Create(j, r) \/ Review(j, r) \/ Resubmit(j, r)
      PROVE  Applied'
  BY <1>2, <1>7, CreateEffect, ReviewEffect, ResubmitEffect
<1>8. ASSUME NEW j \in Jobs, NEW v \in Voters, FindForEdit(j, v) PROVE Applied'
  BY <1>2, <1>8, EditEffect
<1>9. ASSUME NEW j \in Jobs, Log(j) \/ SaveResubmitted(j) PROVE Applied'
  <2>1. Others(j) /\ job'[j].at \in {"notify", "announce"}
    BY <1>9, GotoEffect DEF Log, SaveResubmitted, Step, Moved
  <2> QED
    BY <1>2, <2>1
<1>10. ASSUME NEW j \in Jobs,
              NotifyRequester(j) \/ NotifyApprovers(j) \/ SaveEdit(j) \/ JobFails(j)
       PROVE  Applied'
  <2>1. Ended(j)
    BY <1>10, FinishEffect DEF NotifyRequester, NotifyApprovers, SaveEdit, JobFails
  <2> QED
    BY <1>2, <2>1 DEF Ended
<1>11. CASE UNCHANGED job
  BY <1>11, AppliedFrame DEF Applied
<1> QED
  BY <1>3, <1>4, <1>5, <1>6, <1>7, <1>8, <1>9, <1>10, <1>11
  DEF Next, JobStep, RemoveDirectly, vars

-----------------------------------------------------------------------------
(* A save of a request either decides the pending request it read, or      *)
(* crosses another.                                                        *)
LEMMA RequestStep ==
    ASSUME TypeOK, Carried, [Next]_vars, NEW r \in Requests, request'[r] # request[r]
    PROVE  \/ request[r] = None /\ \E j \in Jobs : Create(j, r)
           \/ \E j \in Jobs :
                 /\ job[j].r = r /\ job[j].copy.status # "APROVADA"
                 /\ crossed' = crossed \cup
                       (IF request[r] = job[j].copy THEN {} ELSE {r})
                 /\ \/ SaveResubmitted(j) /\ request'[r].status = "PENDENTE"
                    \/ /\ SaveDecision(j, "saveRejected", "REJEITADA")
                       /\ request'[r].status = "REJEITADA"
                    \/ /\ SaveDecision(j, "saveApproved", "APROVADA")
                       /\ request'[r].status = "APROVADA"
                       /\ request'[r].changes = job[j].copy.changes
<1>0. ASSUME NEW j \in Jobs PROVE JobCarries(j)
  BY DEF Carried
<1>1. ASSUME NEW j \in Jobs, NEW x \in Requests, Create(j, x)
      PROVE  request[r] = None /\ x = r
  BY <1>1 DEF Create, TypeOK
<1>2. ASSUME NEW j \in Jobs, SaveResubmitted(j)
      PROVE  /\ job[j].r = r /\ job[j].copy.status # "APROVADA"
             /\ crossed' = crossed \cup (IF request[r] = job[j].copy THEN {} ELSE {r})
             /\ request'[r].status = "PENDENTE"
  <2>1. PICK new \in Request :
           new.status = "PENDENTE" /\ request' = [request EXCEPT ![job[j].r] = new]
    BY <1>0, <1>2, ResubmittedEffect
  <2>2. job[j].r = r
    BY <2>1 DEF TypeOK
  <2>3. request'[r].status = "PENDENTE" /\ job[j].copy.status = "REJEITADA"
    BY <1>0, <1>2, <2>1, <2>2, ResubmittedEffect DEF TypeOK
  <2> QED
    BY <1>2, <2>2, <2>3 DEF SaveResubmitted, Cross
<1>3. ASSUME NEW j \in Jobs, NEW step \in {"saveApproved", "saveRejected"},
             NEW decision \in {"APROVADA", "REJEITADA"}, SaveDecision(j, step, decision)
      PROVE  /\ job[j].r = r /\ job[j].copy.status # "APROVADA"
             /\ crossed' = crossed \cup (IF request[r] = job[j].copy THEN {} ELSE {r})
             /\ request'[r] = [status |-> decision, changes |-> job[j].copy.changes]
  <2>1. /\ request' = [request EXCEPT ![job[j].r] = job'[j].copy]
        /\ job'[j].copy = [status |-> decision, changes |-> job[j].copy.changes]
    BY <1>0, <1>3, DecisionEffect
  <2>2. job[j].r = r
    BY <2>1 DEF TypeOK
  <2>3. request'[r] = [status |-> decision, changes |-> job[j].copy.changes]
    BY <2>1, <2>2 DEF TypeOK
  <2>4. job[j].copy.status = "PENDENTE"
    BY <1>0, <1>3 DEF SaveDecision, At, JobCarries, Reviewing
  <2> QED
    BY <1>3, <2>2, <2>3, <2>4 DEF SaveDecision, Cross
<1>4. ASSUME NEW j \in Jobs, SaveDecision(j, "saveRejected", "REJEITADA")
      PROVE  request'[r].status = "REJEITADA"
  <2>1. request'[r] = [status |-> "REJEITADA", changes |-> job[j].copy.changes]
    BY <1>3, <1>4
  <2> QED
    BY <2>1
<1>5. ASSUME NEW j \in Jobs,
             \/ \E x \in Requests : Review(j, x) \/ Resubmit(j, x)
             \/ \E v \in Voters : FindForEdit(j, v)
             \/ FindVoter(j) \/ SaveVoter(j) \/ RemoveVoter(j) \/ Log(j)
             \/ NotifyRequester(j) \/ NotifyApprovers(j) \/ SaveEdit(j) \/ JobFails(j)
      PROVE  FALSE
  BY <1>5
  DEF Review, Resubmit, FindForEdit, FindVoter, SaveVoter, RemoveVoter, Log,
      NotifyRequester, NotifyApprovers, SaveEdit, JobFails
<1>6. ~UNCHANGED vars /\ \A v \in Voters : ~RemoveDirectly(v)
  BY DEF vars, RemoveDirectly
<1>7. \/ \E j \in Jobs, x \in Requests : Create(j, x)
      \/ \E j \in Jobs :
            \/ SaveResubmitted(j)
            \/ SaveDecision(j, "saveApproved", "APROVADA")
            \/ SaveDecision(j, "saveRejected", "REJEITADA")
  BY <1>5, <1>6 DEF Next, JobStep
<1>8. CASE \E j \in Jobs, x \in Requests : Create(j, x)
  BY <1>1, <1>8
<1>9. CASE \E j \in Jobs : SaveResubmitted(j)
  BY <1>2, <1>9
<1>10. CASE \E j \in Jobs : SaveDecision(j, "saveApproved", "APROVADA")
  <2>1. PICK j \in Jobs : SaveDecision(j, "saveApproved", "APROVADA")
    BY <1>10
  <2>2. request'[r] = [status |-> "APROVADA", changes |-> job[j].copy.changes]
    BY <1>3, <2>1
  <2>3. request'[r].status = "APROVADA" /\ request'[r].changes = job[j].copy.changes
    BY <2>2
  <2> QED
    BY <1>3, <2>1, <2>3
<1>11. CASE \E j \in Jobs : SaveDecision(j, "saveRejected", "REJEITADA")
  BY <1>3, <1>4, <1>11
<1> QED
  BY <1>7, <1>8, <1>9, <1>10, <1>11

LEMMA InForceStep ==
    ASSUME TypeOK, Carried, Applied, ApprovedInForce, [Next]_vars
    PROVE  ApprovedInForce'
<1> SUFFICES ASSUME NEW r \in Requests, Is(r, "APROVADA")'
             PROVE  InForce(VoterOf[r], request[r].changes)'
  BY DEF ApprovedInForce
<1>0. VoterOf[r] \in Voters
  BY ChangeRequestsAssumption
<1>1. CASE request'[r] = request[r]
  <2>1. InForce(VoterOf[r], request[r].changes)
    BY <1>1 DEF ApprovedInForce, Is
  <2>2. PICK v \in Voters : v = VoterOf[r]
    BY <1>0
  <2>3. PICK c : c = request[r].changes
    OBVIOUS
  <2>4. InForce(v, c)'
    BY <2>1, <2>2, <2>3, InForceKept
  <2> QED
    BY <1>1, <2>2, <2>3, <2>4 DEF InForce
<1>2. CASE request'[r] # request[r]
  <2>0. ~(\E j \in Jobs : Create(j, r))
    BY DEF Create, Is, TypeOK
  <2>1. PICK j \in Jobs :
           /\ job[j].r = r
           /\ SaveDecision(j, "saveApproved", "APROVADA")
           /\ request'[r].changes = job[j].copy.changes
    BY <1>2, <2>0, RequestStep DEF Is
  <2>2. InForce(VoterOf[r], job[j].copy.changes)
    BY <2>1 DEF Applied, JobApplied, SaveDecision
  <2>3. PICK v \in Voters : v = VoterOf[r]
    BY <1>0
  <2>4. PICK c : c = job[j].copy.changes
    OBVIOUS
  <2>5. InForce(v, c)'
    BY <2>2, <2>3, <2>4, InForceKept
  <2> QED
    BY <2>1, <2>3, <2>4, <2>5 DEF InForce
<1> QED
  BY <1>1, <1>2

-----------------------------------------------------------------------------
(* A job that is at work only moves by its own step, or by failing.        *)
LEMMA OwnStep ==
    ASSUME TypeOK, [Next]_vars, NEW j \in Jobs, ~At(j, "idle"), job'[j] # job[j]
    PROVE  JobStep(j) \/ JobFails(j)
<1>1. ASSUME NEW k \in Jobs, k # j,
             \/ \E r \in Requests : Create(k, r) \/ Review(k, r) \/ Resubmit(k, r)
             \/ \E v \in Voters : FindForEdit(k, v)
             \/ JobStep(k) \/ JobFails(k)
      PROVE  FALSE
  BY <1>1
  DEF JobStep, Create, Review, Resubmit, FindForEdit, FindVoter, SaveVoter, RemoveVoter,
      SaveDecision, SaveResubmitted, Log, NotifyRequester, NotifyApprovers, SaveEdit,
      JobFails, Start, Goto, Finish, TypeOK
<1>2. ~(\E r \in Requests : Create(j, r) \/ Review(j, r) \/ Resubmit(j, r))
      /\ ~(\E v \in Voters : FindForEdit(j, v))
  BY DEF Create, Review, Resubmit, FindForEdit
<1> QED
  BY <1>1, <1>2 DEF Next, RemoveDirectly, vars

(* An approval at its save goes on to the log, or stops and is lost. *)
LEMMA SavingStep ==
    ASSUME TypeOK, Carried, [Next]_vars, NEW j \in Jobs, At(j, "saveApproved")
    PROVE  \/ job'[j] = job[j]
           \/ SaveDecision(j, "saveApproved", "APROVADA")
           \/ <<job[j].r, "saveApproved">> \in lost'
<1>1. CASE JobFails(j)
  BY <1>1 DEF JobFails, At
<1>2. CASE JobStep(j)
  BY <1>2
  DEF JobStep, FindVoter, SaveVoter, RemoveVoter, SaveDecision, SaveResubmitted, Log,
      NotifyRequester, NotifyApprovers, SaveEdit, At
<1> QED
  BY <1>1, <1>2, OwnStep DEF At

LEMMA LoggingStep ==
    ASSUME TypeOK, Carried, [Next]_vars, NEW j \in Jobs, At(j, "log")
    PROVE  job'[j] = job[j] \/ Log(j) \/ <<job[j].r, "log">> \in lost'
<1>1. CASE JobFails(j)
  BY <1>1 DEF JobFails, At
<1>2. CASE JobStep(j)
  BY <1>2
  DEF JobStep, FindVoter, SaveVoter, RemoveVoter, SaveDecision, SaveResubmitted,
      NotifyRequester, NotifyApprovers, SaveEdit, At
<1> QED
  BY <1>1, <1>2, OwnStep DEF At

LEMMA AnnouncingStep ==
    ASSUME TypeOK, Carried, [Next]_vars, NEW j \in Jobs, At(j, "announce")
    PROVE  job'[j] = job[j] \/ NotifyApprovers(j) \/ <<job[j].r, "announce">> \in lost'
<1>1. CASE JobFails(j)
  BY <1>1 DEF JobFails, At
<1>2. CASE JobStep(j)
  BY <1>2
  DEF JobStep, FindVoter, SaveVoter, RemoveVoter, SaveDecision, SaveResubmitted, Log,
      NotifyRequester, SaveEdit, At
<1> QED
  BY <1>1, <1>2, OwnStep DEF At

LEMMA HistoryGrows ==
    ASSUME [Next]_vars
    PROVE  crossed \subseteq crossed' /\ lost \subseteq lost' /\ audit \subseteq audit'
BY DEF Next, JobStep, vars, history, records, Create, Review, Resubmit, FindForEdit,
       FindVoter, SaveVoter, RemoveVoter, SaveDecision, Cross, SaveResubmitted, Log,
       NotifyRequester, NotifyApprovers, SaveEdit, JobFails, RemoveDirectly

(* What is applied is new, by an approval that goes on to its save. *)
LEMMA NewlyApplied ==
    ASSUME TypeOK, Carried, [Next]_vars, NEW r, NEW c,
           <<r, c>> \in applied', <<r, c>> \notin applied
    PROVE  \E j \in Jobs :
              job'[j].at = "saveApproved" /\ job'[j].r = r /\ job'[j].copy.changes = c
<1>1. PICK j \in Jobs : SaveVoter(j) \/ RemoveVoter(j)
  BY DEF Next, JobStep, vars, history, Create, Review, Resubmit, FindForEdit, FindVoter,
         SaveDecision, SaveResubmitted, Log, NotifyRequester, NotifyApprovers, SaveEdit,
         JobFails, RemoveDirectly
<1>2. Moved(j, "saveApproved")
      /\ applied' = applied \cup {<<job[j].r, job[j].copy.changes>>}
  BY <1>1, ApplyEffect
<1> QED
  BY <1>2 DEF Moved

LEMMA ApprovedStep ==
    ASSUME TypeOK, Carried, AppliedIsApproved, [Next]_vars
    PROVE  AppliedIsApproved'
<1> SUFFICES ASSUME NEW r \in Requests, NEW c \in Changes \cup {None},
                    <<r, c>> \in applied'
             PROVE  \/ request'[r] = [status |-> "APROVADA", changes |-> c]
                    \/ r \in crossed'
                    \/ <<r, "saveApproved">> \in lost'
                    \/ \E j \in Jobs : /\ job'[j].at = "saveApproved"
                                       /\ job'[j].r = r /\ job'[j].copy.changes = c
  BY DEF AppliedIsApproved, At
<1>1. CASE <<r, c>> \notin applied
  BY <1>1, NewlyApplied
<1>2. CASE r \in crossed \/ <<r, "saveApproved">> \in lost
  BY <1>2, HistoryGrows
<1>3. CASE request[r] = [status |-> "APROVADA", changes |-> c]
  (* Whoever saves over it read a request that was not approved. *)
  <2>1. ASSUME NEW j \in Jobs, job[j].copy.status # "APROVADA",
               crossed' = crossed \cup (IF request[r] = job[j].copy THEN {} ELSE {r})
        PROVE  r \in crossed'
    BY <1>3, <2>1
  <2>2. request[r] # None
    BY <1>3, RowsAssumption DEF Request, Status
  <2>3. CASE request'[r] # request[r]
    <3>1. PICK j \in Jobs :
             /\ job[j].copy.status # "APROVADA"
             /\ crossed' = crossed \cup (IF request[r] = job[j].copy THEN {} ELSE {r})
      BY <2>2, <2>3, RequestStep
    <3> QED
      BY <2>1, <3>1
  <2> QED
    BY <1>3, <2>3
<1>4. ASSUME NEW j \in Jobs, At(j, "saveApproved"), job[j].r = r, job[j].copy.changes = c
      PROVE  \/ request'[r] = [status |-> "APROVADA", changes |-> c]
             \/ <<r, "saveApproved">> \in lost'
             \/ \E k \in Jobs : /\ job'[k].at = "saveApproved"
                                /\ job'[k].r = r /\ job'[k].copy.changes = c
  <2>1. CASE job'[j] = job[j]
    BY <1>4, <2>1 DEF At
  <2>2. CASE SaveDecision(j, "saveApproved", "APROVADA")
    <3>1. /\ request' = [request EXCEPT ![r] = job'[j].copy]
          /\ job'[j].copy = [status |-> "APROVADA", changes |-> c]
      BY <1>4, <2>2, DecisionEffect DEF Carried
    <3> QED
      BY <3>1 DEF TypeOK
  <2> QED
    BY <1>4, <2>1, <2>2, SavingStep
<1> QED
  BY <1>1, <1>2, <1>3, <1>4 DEF AppliedIsApproved

-----------------------------------------------------------------------------
LEMMA AuditStep ==
    ASSUME TypeOK, Carried, Applied, AuditIsComplete, [Next]_vars
    PROVE  AuditIsComplete'
<1> SUFFICES ASSUME NEW r \in Requests, NEW c \in Changes \cup {None}
             PROVE  /\ <<r, "APROVADA", c>> \in audit' => <<r, c>> \in applied'
                    /\ <<r, c>> \in applied' =>
                          \/ <<r, "APROVADA", c>> \in audit'
                          \/ \E step \in {"saveApproved", "log"} : <<r, step>> \in lost'
                          \/ \E j \in Jobs :
                                /\ \/ job'[j].at = "saveApproved"
                                   \/ job'[j].at = "log" /\ job'[j].copy.status = "APROVADA"
                                /\ job'[j].r = r /\ job'[j].copy.changes = c
  BY DEF AuditIsComplete, At
<1>1. ASSUME <<r, "APROVADA", c>> \in audit' PROVE <<r, c>> \in applied'
  <2>1. CASE <<r, "APROVADA", c>> \in audit
    BY <2>1, AppliedGrows DEF AuditIsComplete
  <2>2. CASE <<r, "APROVADA", c>> \notin audit
    <3>1. PICK j \in Jobs : Log(j)
      BY <1>1, <2>2
      DEF Next, JobStep, vars, records, Create, Review, Resubmit, FindForEdit, FindVoter,
          SaveVoter, RemoveVoter, SaveDecision, SaveResubmitted, NotifyRequester,
          NotifyApprovers, SaveEdit, JobFails, RemoveDirectly
    <3>2. At(j, "log") /\ Entry(j) = <<r, "APROVADA", c>>
      BY <1>1, <2>2, <3>1 DEF Log
    <3>3. <<r, c>> \in applied
      BY <3>2 DEF Applied, JobApplied, Entry
    <3> QED
      BY <3>3, AppliedGrows
  <2> QED
    BY <2>1, <2>2
<1>2. CASE <<r, c>> \in applied' /\ <<r, c>> \notin applied
  BY <1>1, <1>2, NewlyApplied
<1>3. CASE \/ <<r, "APROVADA", c>> \in audit
           \/ \E step \in {"saveApproved", "log"} : <<r, step>> \in lost
  BY <1>1, <1>3, HistoryGrows
<1>4. ASSUME NEW j \in Jobs, At(j, "saveApproved"), job[j].r = r, job[j].copy.changes = c
      PROVE  \/ <<r, "saveApproved">> \in lost'
             \/ \E k \in Jobs :
                   /\ job'[k].r = r /\ job'[k].copy.changes = c
                   /\ \/ job'[k].at = "saveApproved"
                      \/ job'[k].at = "log" /\ job'[k].copy.status = "APROVADA"
  <2>1. CASE job'[j] = job[j]
    BY <1>4, <2>1 DEF At
  <2>2. CASE SaveDecision(j, "saveApproved", "APROVADA")
    <3>1. /\ job'[j].at = "log" /\ job'[j].r = job[j].r
          /\ job'[j].copy.status = "APROVADA"
          /\ job'[j].copy.changes = job[j].copy.changes
      BY <2>2, DecisionEffect DEF Carried
    <3> QED
      BY <1>4, <3>1
  <2> QED
    BY <1>4, <2>1, <2>2, SavingStep
<1>5. ASSUME NEW j \in Jobs, At(j, "log"), job[j].r = r, job[j].copy.changes = c,
             job[j].copy.status = "APROVADA"
      PROVE  \/ <<r, "APROVADA", c>> \in audit'
             \/ <<r, "log">> \in lost'
             \/ job'[j] = job[j]
  BY <1>5, LoggingStep DEF Log, Entry
<1> QED
  BY <1>1, <1>2, <1>3, <1>4, <1>5 DEF AuditIsComplete, At

-----------------------------------------------------------------------------
LEMMA AnnouncedStep ==
    ASSUME TypeOK, Carried, PendingIsAnnounced, [Next]_vars
    PROVE  PendingIsAnnounced'
<1> SUFFICES ASSUME NEW r \in Requests, Is(r, "PENDENTE")'
             PROVE  \/ r \in announced'
                    \/ <<r, "announce">> \in lost'
                    \/ \E j \in Jobs : job'[j].at = "announce" /\ job'[j].r = r
  BY DEF PendingIsAnnounced, At
<1>1. ASSUME NEW j \in Jobs, SaveResubmitted(j), job[j].r = r
      PROVE  job'[j].at = "announce" /\ job'[j].r = r
  BY <1>1, ResubmittedEffect DEF Carried, Moved
<1>2. CASE request'[r] # request[r]
  <2>1. \/ \E j \in Jobs : Create(j, r)
        \/ \E j \in Jobs : SaveResubmitted(j) /\ job[j].r = r
    BY <1>2, RequestStep DEF Is
  <2> QED
    BY <1>1, <2>1, CreateEffect
<1>3. CASE request'[r] = request[r]
  <2>1. CASE r \in announced /\ r \notin announced'
    <3>1. PICK j \in Jobs : SaveResubmitted(j) /\ job[j].r = r
      BY <2>1
      DEF Next, JobStep, vars, records, Create, Review, Resubmit, FindForEdit, FindVoter,
          SaveVoter, RemoveVoter, SaveDecision, SaveResubmitted, Log, NotifyRequester,
          NotifyApprovers, SaveEdit, JobFails, RemoveDirectly
    <3> QED
      BY <1>1, <3>1
  <2>2. CASE <<r, "announce">> \in lost
    BY <2>2, HistoryGrows
  <2>3. ASSUME NEW j \in Jobs, At(j, "announce"), job[j].r = r
        PROVE  \/ r \in announced'
               \/ <<r, "announce">> \in lost'
               \/ job'[j].at = "announce" /\ job'[j].r = r
    BY <2>3, AnnouncingStep DEF NotifyApprovers, At
  <2> QED
    BY <1>3, <2>1, <2>2, <2>3 DEF PendingIsAnnounced, Is
<1> QED
  BY <1>2, <1>3

-----------------------------------------------------------------------------
LEMMA InitIInv == Init => IInv
<1> SUFFICES ASSUME Init PROVE IInv
  OBVIOUS
<1>1. \A v \in Voters : [has |-> {}] \in Voter
  BY DEF Voter
<1>2. TypeOK
  BY <1>1, IdleIsJob, ChangeRequestsAssumption DEF Init, TypeOK
<1>3. Carried /\ Applied
  BY DEF Init, Carried, JobCarries, Reviewing, Applied, JobApplied, At, Idle
<1>4. ApprovedInForce /\ AppliedIsApproved /\ AuditIsComplete /\ PendingIsAnnounced
  BY DEF Init, ApprovedInForce, AppliedIsApproved, AuditIsComplete, PendingIsAnnounced, Is
<1> QED
  BY <1>2, <1>3, <1>4 DEF IInv

LEMMA Invariance == Spec => []IInv
<1>1. IInv /\ [Next]_vars => IInv'
  BY TypeStep, CarriedStep, AppliedStep, InForceStep, ApprovedStep, AuditStep, AnnouncedStep
  DEF IInv
<1> QED
  BY InitIInv, <1>1, PTL DEF Spec

(* Requests, voters, logs and jobs keep their types, whatever is saved     *)
(* over what.                                                              *)
THEOREM ChangeRequestsTypeCorrect == Spec => []TypeOK
<1>1. IInv => TypeOK
  BY DEF IInv
<1> QED
  BY <1>1, Invariance, PTL

(* An approved request is in force, however reviews, resubmissions, edits  *)
(* and failures interleave (voter-change-requests.service.ts, approve).    *)
THEOREM ApprovedAlwaysInForce == Spec => []ApprovedInForce
<1>1. IInv => ApprovedInForce
  BY DEF IInv
<1> QED
  BY <1>1, Invariance, PTL

(* What was applied is shown as approved, unless a save crossed another or *)
(* the approval stopped before its save.                                   *)
THEOREM AppliedAlwaysApproved == Spec => []AppliedIsApproved
<1>1. IInv => AppliedIsApproved
  BY DEF IInv
<1> QED
  BY <1>1, Invariance, PTL

(* The audit log has what was applied, and nothing else, unless the        *)
(* approval stopped half-way.                                              *)
THEOREM AuditAlwaysComplete == Spec => []AuditIsComplete
<1>1. IInv => AuditIsComplete
  BY DEF IInv
<1> QED
  BY <1>1, Invariance, PTL

(* A pending request's approvers know of it, unless its job stopped first. *)
THEOREM PendingAlwaysAnnounced == Spec => []PendingIsAnnounced
<1>1. IInv => PendingIsAnnounced
  BY DEF IInv
<1> QED
  BY <1>1, Invariance, PTL
=============================================================================
