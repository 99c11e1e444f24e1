---------------------------- MODULE SignupProofs ----------------------------
(***************************************************************************)
(* The signup's safety, for any tokens, addresses, tenants and requests.   *)
(* First what each statement of a request does to the request and to the   *)
(* tables; then each part of IInv, one step for each action; then the      *)
(* properties of Signup.tla, which follow.                                 *)
(***************************************************************************)
EXTENDS SignupInvariant, TLAPS

USE SignupAssumption

-----------------------------------------------------------------------------
(* How a request moves, and that no other request does. *)
OthersKept(j) == \A k \in Jobs \ {j} : job'[k] = job[k]

Moved(j, to, n) ==
    /\ OthersKept(j)
    /\ job'[j].at = to /\ job'[j].t = job[j].t /\ job'[j].tenant = n

Ended(j) == OthersKept(j) /\ job'[j].at = "idle"

LEMMA GotoEffect ==
    ASSUME TypeOK, NEW j \in Jobs, NEW to \in Step, Goto(j, to)
    PROVE  job' \in [Jobs -> Job] /\ Moved(j, to, job[j].tenant)
<1>1. job' = [job EXCEPT ![j] = [job[j] EXCEPT !.at = to]]
  BY DEF Goto
<1>2. job \in [Jobs -> Job]
  BY DEF TypeOK
<1>3. [job[j] EXCEPT !.at = to] \in Job
  BY <1>2 DEF Job
<1> QED
  BY <1>1, <1>2, <1>3 DEF Job, Moved, OthersKept

LEMMA MoveEffect ==
    ASSUME TypeOK, NEW j \in Jobs, NEW to \in Step, NEW n \in Tenants \cup {None},
           job' = [job EXCEPT ![j].at = to, ![j].tenant = n]
    PROVE  job' \in [Jobs -> Job] /\ Moved(j, to, n)
<1>1. job' = [job EXCEPT ![j] = [job[j] EXCEPT !.at = to, !.tenant = n]]
  OBVIOUS
<1>2. job \in [Jobs -> Job]
  BY DEF TypeOK
<1>3. [job[j] EXCEPT !.at = to, !.tenant = n] \in Job
  BY <1>2 DEF Job
<1> QED
  BY <1>1, <1>2, <1>3 DEF Job, Moved, OthersKept

LEMMA FinishEffect ==
    ASSUME TypeOK, NEW j \in Jobs, Finish(j)
    PROVE  job' \in [Jobs -> Job] /\ Ended(j)
  BY DEF Finish, TypeOK, Idle, Job, Step, Ended, OthersKept

LEMMA ReceiveEffect ==
    ASSUME TypeOK, NEW j \in Jobs, NEW t \in Tokens,
           NEW step \in {"validate", "validateUser"}, Receive(j, t, step)
    PROVE  /\ job' \in [Jobs -> Job] /\ OthersKept(j)
           /\ job[j].at = "idle" /\ job'[j].at = step /\ job'[j].t = t
<1>1. Idle \in Job
  BY DEF Idle, Job, Step
<1>2. [Idle EXCEPT !.at = step, !.t = t] \in Job
  BY <1>1 DEF Job, Step
<1> QED
  BY <1>2 DEF Receive, At, TypeOK, OthersKept, Idle

-----------------------------------------------------------------------------
(* What each statement does. *)
LEMMA ValidateForTenantEffect ==
    ASSUME TypeOK, NEW j \in Jobs, ValidateForTenant(j)
    PROVE  /\ job' \in [Jobs -> Job]
           /\ job[j].at = "validate"
           /\ UNCHANGED <<tokens, tenancy, user, subscribers, lost, faults>>
           /\ \/ Ended(j) /\ doubled' = doubled
              \/ /\ Moved(j, "createTenant", job[j].tenant)
                 /\ token[job[j].t].tenant = None
                 /\ NoteDoubled(j)
  BY GotoEffect, FinishEffect DEF ValidateForTenant, At, Step

LEMMA CreateTenantEffect ==
    ASSUME TypeOK, NEW j \in Jobs, CreateTenant(j)
    PROVE  /\ job' \in [Jobs -> Job]
           /\ job[j].at = "createTenant"
           /\ UNCHANGED <<tokens, modules, user, subscribers, history>>
           /\ \/ Ended(j) /\ origin' = origin
              \/ \E n \in Tenants :
                    /\ Moved(j, "coreModules", n)
                    /\ origin[n] = None /\ origin'[n] = job[j].t
                    /\ \A m \in Tenants \ {n} : origin'[m] = origin[m]
<1>1. CASE Finish(j) /\ UNCHANGED origin
  BY <1>1, FinishEffect DEF CreateTenant, At
<1>2. ASSUME NEW n \in Tenants, origin[n] = None,
             origin' = [origin EXCEPT ![n] = job[j].t],
             job' = [job EXCEPT ![j].at = "coreModules", ![j].tenant = n]
      PROVE  /\ job' \in [Jobs -> Job] /\ Moved(j, "coreModules", n)
             /\ origin'[n] = job[j].t
             /\ \A m \in Tenants \ {n} : origin'[m] = origin[m]
  BY <1>2, MoveEffect DEF TypeOK, Step
<1> QED
  BY <1>1, <1>2 DEF CreateTenant, At

LEMMA ActivateModulesEffect ==
    ASSUME TypeOK, Built, NEW j \in Jobs, ActivateModules(j)
    PROVE  /\ job' \in [Jobs -> Job]
           /\ UNCHANGED <<tokens, origin, user, subscribers, history>>
           /\ job[j].tenant \in Tenants
           /\ \A n \in Tenants \ {job[j].tenant} : modules'[n] = modules[n]
           /\ \/ /\ job[j].at = "coreModules"
                 /\ Moved(j, "planModules", job[j].tenant)
                 /\ modules'[job[j].tenant] = "core"
              \/ /\ job[j].at = "planModules"
                 /\ Moved(j, "markTenant", job[j].tenant)
                 /\ modules'[job[j].tenant] = "plan"
<1>1. modules \in [Tenants -> {"none", "core", "plan"}]
  BY DEF TypeOK
<1>2. job[j].tenant \in Tenants
  BY DEF Built, JobBuilds, Building, ActivateModules, At
<1> QED
  BY <1>1, <1>2, GotoEffect DEF ActivateModules, At, Step

LEMMA MarkTenantEffect ==
    ASSUME TypeOK, Built, NEW j \in Jobs, MarkTenant(j)
    PROVE  /\ job' \in [Jobs -> Job] /\ Ended(j)
           /\ job[j].at = "markTenant"
           /\ UNCHANGED <<used, expired, tenancy, user, subscribers, history>>
           /\ job[j].t \in Tokens
           /\ token'[job[j].t].tenant = job[j].tenant
           /\ \A t \in Tokens \ {job[j].t} : token'[t] = token[t]
<1>1. job[j].t \in Tokens
  BY DEF Built, JobBuilds, MarkTenant, At
<1> QED
  BY <1>1, FinishEffect DEF MarkTenant, At, TypeOK

LEMMA ValidateForUserEffect ==
    ASSUME TypeOK, Built, NEW j \in Jobs, ValidateForUser(j)
    PROVE  /\ job' \in [Jobs -> Job]
           /\ job[j].at = "validateUser"
           /\ UNCHANGED <<tokens, tenancy, user, subscribers, history>>
           /\ \/ Ended(j)
              \/ /\ Moved(j, "createUser", token[job[j].t].tenant)
                 /\ token[job[j].t].tenant # None
<1>1. job[j].t \in Tokens
  BY DEF Built, JobBuilds, ValidateForUser, At
<1>2. token[job[j].t].tenant \in Tenants \cup {None}
  BY <1>1 DEF TypeOK
<1> QED
  BY <1>2, MoveEffect, FinishEffect DEF ValidateForUser, At, Step

LEMMA CreateUserEffect ==
    ASSUME TypeOK, Built, NEW j \in Jobs, CreateUser(j)
    PROVE  /\ job' \in [Jobs -> Job]
           /\ job[j].at = "createUser"
           /\ UNCHANGED <<tokens, tenancy, subscribers, history>>
           /\ \/ Ended(j) /\ user' = user
              \/ /\ Moved(j, "link", job[j].tenant)
                 /\ user[EmailOf[job[j].t]] = None
                 /\ user'[EmailOf[job[j].t]] =
                       [tenant |-> job[j].tenant, by |-> job[j].t]
                 /\ \A e \in Emails \ {EmailOf[job[j].t]} : user'[e] = user[e]
<1>1. job[j].t \in Tokens
  BY DEF Built, JobBuilds, CreateUser, At
<1>2. CASE user[EmailOf[job[j].t]] = None
  BY <1>1, <1>2, GotoEffect DEF CreateUser, At, Step, TypeOK
<1>3. CASE user[EmailOf[job[j].t]] # None
  BY <1>3, FinishEffect DEF CreateUser, At
<1> QED
  BY <1>2, <1>3

LEMMA LinkSubscriberEffect ==
    ASSUME TypeOK, Built, NEW j \in Jobs, LinkSubscriber(j)
    PROVE  /\ job' \in [Jobs -> Job]
           /\ job[j].at = "link"
           /\ UNCHANGED <<tokens, tenancy, user, saver, doubled, faults>>
           /\ \/ UNCHANGED <<subscriber, crossed>>
              \/ /\ subscriber[job[j].t] = "unlinked" /\ NoteCrossed(job[j].t)
                 /\ subscriber' = [subscriber EXCEPT ![job[j].t] = EmailOf[job[j].t]]
           /\ \/ /\ Moved(j, "complete", job[j].tenant) /\ lost' = lost
                 /\ subscriber'[job[j].t] # "unlinked"
              \/ Ended(j) /\ lost' = lost \cup {job[j].t}
<1>1. job[j].t \in Tokens
  BY DEF Built, JobBuilds, LinkSubscriber, At
<1>2. EmailOf[job[j].t] # "unlinked"
  BY <1>1
<1> QED
  BY <1>1, <1>2, GotoEffect, FinishEffect DEF LinkSubscriber, At, Step, TypeOK
LEMMA CompleteTokenEffect ==
    ASSUME TypeOK, Built, NEW j \in Jobs, CompleteToken(j)
    PROVE  /\ job' \in [Jobs -> Job] /\ Ended(j)
           /\ job[j].at = "complete"
           /\ UNCHANGED <<expired, tenancy, user, subscribers, history>>
           /\ used' = used \cup {job[j].t}
           /\ \A t \in Tokens : token'[t].tenant = token[t].tenant
<1>1. job[j].t \in Tokens
  BY DEF Built, JobBuilds, CompleteToken, At
<1>2. token' = [token EXCEPT ![job[j].t] = [token[job[j].t] EXCEPT !.step = "COMPLETED"]]
  BY DEF CompleteToken
<1>3. token \in [Tokens -> [step : SignupStep, tenant : Tenants \cup {None}]]
  BY DEF TypeOK
<1>4. \A t \in Tokens : token'[t].tenant = token[t].tenant
  BY <1>1, <1>2, <1>3
<1> QED
  BY <1>4, FinishEffect DEF CompleteToken, At

LEMMA JobFailsEffect ==
    ASSUME TypeOK, Built, NEW j \in Jobs, JobFails(j)
    PROVE  /\ job' \in [Jobs -> Job] /\ Ended(j)
           /\ job[j].t \in Tokens
           /\ lost' = lost \cup {job[j].t}
           /\ faults' \in 0..MaxFaults
           /\ UNCHANGED <<tokens, tenancy, user, subscribers, doubled>>
<1>1. job[j].t \in Tokens
  BY DEF Built, JobBuilds, JobFails, At
<1> QED
  BY <1>1, FinishEffect DEF JobFails, TypeOK

-----------------------------------------------------------------------------
(* What others do to a subscriber touches nothing else. *)
OnSubscribers ==
    \/ \E t \in Tokens :
          \/ AdminLinks(t) \/ EnsureSubscriber(t)
          \/ \E v \in Savers : FindToSave(v, t)
    \/ \E v \in Savers : SaveSubscriber(v) \/ DropCopy(v)

LEMMA OnSubscribersEffect ==
    ASSUME OnSubscribers
    PROVE  /\ UNCHANGED <<token, used, expired, origin, modules, user, job>>
           /\ UNCHANGED <<lost, doubled, faults>>
  BY DEF OnSubscribers, AdminLinks, EnsureSubscriber, FindToSave, SaveSubscriber,
         DropCopy, tokens, tenancy, history

(* A copy is of a subscriber that has one. *)
LEMMA CopyFields ==
    ASSUME TypeOK, NEW v \in Savers, saver[v] # None
    PROVE  saver[v].t \in Tokens /\ saver[v].link \in {"unlinked"} \cup Emails
  BY DEF TypeOK, Copy

LEMMA OnSubscribersTypes ==
    ASSUME TypeOK, OnSubscribers
    PROVE  /\ subscriber' \in [Tokens -> {"missing", "unlinked"} \cup Emails]
           /\ saver' \in [Savers -> Copy \cup {None}]
           /\ crossed' \in SUBSET Tokens
<1>0. /\ subscriber \in [Tokens -> {"missing", "unlinked"} \cup Emails]
      /\ saver \in [Savers -> Copy \cup {None}]
      /\ crossed \in SUBSET Tokens
  BY DEF TypeOK
<1>1. ASSUME NEW t \in Tokens, AdminLinks(t) \/ EnsureSubscriber(t)
      PROVE  /\ subscriber' \in [Tokens -> {"missing", "unlinked"} \cup Emails]
             /\ saver' = saver
             /\ crossed' \in SUBSET Tokens
  BY <1>0, <1>1 DEF AdminLinks, EnsureSubscriber, NoteCrossed
<1>2. ASSUME NEW v \in Savers, NEW t \in Tokens, FindToSave(v, t)
      PROVE  /\ UNCHANGED <<subscriber, crossed>>
             /\ saver' \in [Savers -> Copy \cup {None}]
  <2>1. [t |-> t, link |-> subscriber[t]] \in Copy
    BY <1>0, <1>2 DEF FindToSave, Copy
  <2> QED
    BY <1>0, <1>2, <2>1 DEF FindToSave
<1>3. ASSUME NEW v \in Savers, SaveSubscriber(v)
      PROVE  /\ subscriber' \in [Tokens -> {"missing", "unlinked"} \cup Emails]
             /\ saver' \in [Savers -> Copy \cup {None}]
             /\ crossed' = crossed
  BY <1>0, <1>3, CopyFields DEF SaveSubscriber
<1>4. ASSUME NEW v \in Savers, DropCopy(v)
      PROVE  /\ UNCHANGED <<subscriber, crossed>>
             /\ saver' \in [Savers -> Copy \cup {None}]
  BY <1>0, <1>4 DEF DropCopy
<1> QED
  BY <1>0, <1>1, <1>2, <1>3, <1>4 DEF OnSubscribers

(* Every table and every request keeps its type. *)
LEMMA TypeStep == TypeOK /\ Built /\ [Next]_vars => TypeOK'
<1> SUFFICES ASSUME TypeOK, Built, [Next]_vars PROVE TypeOK'
  OBVIOUS
<1>0. ASSUME NEW j \in Jobs, ~At(j, "idle") PROVE job[j].t \in Tokens
  BY <1>0 DEF Built, JobBuilds
<1>1. ASSUME NEW j \in Jobs, ValidateForTenant(j) PROVE TypeOK'
  BY <1>0, <1>1, ValidateForTenantEffect
  DEF ValidateForTenant, TypeOK, At, tokens, tenancy, subscribers, history, NoteDoubled
<1>2. ASSUME NEW j \in Jobs, CreateTenant(j) PROVE TypeOK'
  <2>1. origin' \in [Tenants -> Tokens \cup {None}]
    BY <1>0, <1>2 DEF CreateTenant, At, TypeOK
  <2> QED
    BY <1>2, <2>1, CreateTenantEffect DEF TypeOK, tokens, subscribers, history
<1>3. ASSUME NEW j \in Jobs, ActivateModules(j) PROVE TypeOK'
  BY <1>0, <1>3, ActivateModulesEffect
  DEF ActivateModules, TypeOK, At, tokens, tenancy, subscribers, history
<1>4. ASSUME NEW j \in Jobs, MarkTenant(j) PROVE TypeOK'
  BY <1>0, <1>4, MarkTenantEffect
  DEF MarkTenant, TypeOK, At, tokens, tenancy, subscribers, history, SignupStep,
      Built, JobBuilds, Building
<1>5. ASSUME NEW j \in Jobs, ValidateForUser(j) PROVE TypeOK'
  BY <1>0, <1>5, ValidateForUserEffect
  DEF ValidateForUser, TypeOK, At, tokens, tenancy, subscribers, history
<1>6. ASSUME NEW j \in Jobs, CreateUser(j) PROVE TypeOK'
  <2>1. job[j].t \in Tokens /\ job[j].tenant \in Tenants
    BY <1>6, CreateUserEffect DEF Built, JobBuilds, At, Building
  <2>2. [tenant |-> job[j].tenant, by |-> job[j].t] \in User
    BY <2>1 DEF User
  <2>3. user' \in [Emails -> User \cup {None}]
    BY <1>6, <2>1, <2>2 DEF CreateUser, TypeOK
  <2> QED
    BY <1>6, <2>3, CreateUserEffect DEF TypeOK, tokens, tenancy, subscribers, history
<1>7. ASSUME NEW j \in Jobs, LinkSubscriber(j) PROVE TypeOK'
  <2>1. job[j].t \in Tokens
    BY <1>0, <1>7 DEF LinkSubscriber, At
  <2>2. /\ \/ subscriber' = subscriber
           \/ subscriber' = [subscriber EXCEPT ![job[j].t] = EmailOf[job[j].t]]
        /\ crossed' \in SUBSET Tokens
    BY <1>7, <2>1 DEF LinkSubscriber, NoteCrossed, TypeOK
  <2>3. lost' \in SUBSET Tokens
    BY <1>7, <2>1 DEF LinkSubscriber, TypeOK
  <2>4. UNCHANGED <<faults, tokens, tenancy, user, saver, doubled>> /\ job' \in [Jobs -> Job]
    BY <1>7, LinkSubscriberEffect
  <2> QED
    BY <2>1, <2>2, <2>3, <2>4, SignupAssumption DEF TypeOK, tokens, tenancy
<1>8. ASSUME NEW j \in Jobs, CompleteToken(j) PROVE TypeOK'
  <2>1. job[j].t \in Tokens
    BY <1>0, <1>8 DEF CompleteToken, At
  <2>2. [token[job[j].t] EXCEPT !.step = "COMPLETED"]
           \in [step : SignupStep, tenant : Tenants \cup {None}]
    BY <2>1 DEF TypeOK, SignupStep
  <2>3. token' = [token EXCEPT ![job[j].t] = [token[job[j].t] EXCEPT !.step = "COMPLETED"]]
    BY <1>8 DEF CompleteToken
  <2>4. token' \in [Tokens -> [step : SignupStep, tenant : Tenants \cup {None}]]
    BY <2>2, <2>3 DEF TypeOK
  <2> QED
    BY <1>8, <2>1, <2>4, CompleteTokenEffect DEF TypeOK, tenancy, subscribers, history
<1>9. ASSUME NEW j \in Jobs, NEW t \in Tokens, NEW step \in {"validate", "validateUser"},
             Receive(j, t, step)
      PROVE  TypeOK'
  BY <1>9, ReceiveEffect DEF Receive, TypeOK, tokens, tenancy, subscribers, history
<1>10. ASSUME NEW j \in Jobs, JobFails(j) PROVE TypeOK'
  BY <1>10, JobFailsEffect DEF TypeOK, tokens, tenancy, subscribers
<1>11. ASSUME NEW t \in Tokens, Expire(t) PROVE TypeOK'
  BY <1>11 DEF Expire, TypeOK, tenancy, subscribers, history
<1>12. CASE OnSubscribers
  BY <1>12, OnSubscribersEffect, OnSubscribersTypes DEF TypeOK
<1>13. ASSUME NEW e \in Emails, CreateUserElsewhere(e) PROVE TypeOK'
  BY <1>13 DEF CreateUserElsewhere, User, TypeOK, tokens, tenancy, subscribers, history
<1>14. CASE UNCHANGED vars
  BY <1>14 DEF vars, TypeOK
<1> QED
  BY <1>1, <1>2, <1>3, <1>4, <1>5, <1>6, <1>7, <1>8, <1>9, <1>10, <1>11, <1>12,
     <1>13, <1>14
  DEF Next, JobStep, OnSubscribers
-----------------------------------------------------------------------------
(* No two requests build the same tenant: each took a fresh one. *)
LEMMA BuiltFrame ==
    ASSUME TypeOK, Built, NEW j \in Jobs, OthersKept(j), JobBuilds(j)',
           \A n \in Tenants : origin[n] # None => origin'[n] = origin[n],
           \A n \in Tenants : modules'[n] # modules[n] =>
              job[j].at \in Building /\ job[j].tenant = n /\ modules[n] # "plan",
           \A n \in Tenants : origin'[n] = None => modules'[n] = "none",
           job'[j].at \in Building =>
              \/ job[j].at \in Building /\ job'[j].tenant = job[j].tenant
              \/ origin[job'[j].tenant] = None
    PROVE  Built'
<1>1. ASSUME NEW k \in Jobs \ {j} PROVE JobBuilds(k)'
  <2>1. JobBuilds(k) /\ job'[k] = job[k]
    BY DEF Built, OthersKept
  <2>2. CASE job[k].at \in Building \cup {"createUser"}
    <3>1. origin'[job[k].tenant] = origin[job[k].tenant]
      BY <2>1, <2>2 DEF JobBuilds, At, Building
    <3>2. modules'[job[k].tenant] = modules[job[k].tenant]
      BY <2>1, <2>2 DEF JobBuilds, At, Building, Built
    <3> QED
      BY <2>1, <3>1, <3>2 DEF JobBuilds, At, Building
  <2>3. CASE job[k].at \notin Building \cup {"createUser"}
    BY <2>1, <2>3 DEF JobBuilds, At, Building
  <2> QED
    BY <2>2, <2>3
<1>2. ASSUME NEW k \in Jobs \ {j}, job'[k].at \in Building, job'[j].at \in Building
      PROVE  job'[k].tenant # job'[j].tenant
  <2>1. job'[k] = job[k] /\ job[k].at \in Building
    BY <1>2 DEF OthersKept
  <2>2. origin[job[k].tenant] # None
    BY <2>1 DEF Built, JobBuilds, At, Building
  <2> QED
    BY <2>1, <2>2, <1>2 DEF Built
<1>3. ASSUME NEW k \in Jobs, NEW l \in Jobs, k # l,
             job'[k].at \in Building, job'[l].at \in Building
      PROVE  job'[k].tenant # job'[l].tenant
  <2>1. CASE k # j /\ l # j
    BY <1>3, <2>1 DEF Built, OthersKept
  <2> QED
    BY <1>2, <1>3, <2>1
<1> QED
  BY <1>1, <1>3 DEF Built

LEMMA BuiltStep == TypeOK /\ Built /\ Equipped /\ [Next]_vars => Built'
<1> SUFFICES ASSUME TypeOK, Built, Equipped, [Next]_vars PROVE Built'
  OBVIOUS
<1>0. \A j \in Jobs : JobBuilds(j)
  BY DEF Built
<1>1. ASSUME NEW j \in Jobs, ValidateForTenant(j) PROVE Built'
  BY <1>0, <1>1, ValidateForTenantEffect, BuiltFrame
  DEF Moved, Ended, tenancy, JobBuilds, Building, At, Built
<1>2. ASSUME NEW j \in Jobs, CreateTenant(j) PROVE Built'
  <2>1. CASE Ended(j) /\ origin' = origin
    BY <1>0, <1>2, <2>1, CreateTenantEffect, BuiltFrame
    DEF Ended, JobBuilds, Building, At, Built
  <2>2. ASSUME NEW n \in Tenants, Moved(j, "coreModules", n),
               origin[n] = None, origin'[n] = job[j].t,
               \A m \in Tenants \ {n} : origin'[m] = origin[m]
        PROVE  Built'
    BY <1>0, <1>2, <2>2, CreateTenantEffect, BuiltFrame
    DEF Moved, JobBuilds, Building, At, Built
  <2> QED
    BY <1>2, <2>1, <2>2, CreateTenantEffect
<1>3. ASSUME NEW j \in Jobs, ActivateModules(j) PROVE Built'
  BY <1>0, <1>3, ActivateModulesEffect, BuiltFrame
  DEF Moved, Ended, tenancy, JobBuilds, Building, At, Built
<1>4. ASSUME NEW j \in Jobs, MarkTenant(j) PROVE Built'
  BY <1>0, <1>4, MarkTenantEffect, BuiltFrame
  DEF Moved, Ended, tenancy, JobBuilds, Building, At, Built
<1>5. ASSUME NEW j \in Jobs, ValidateForUser(j) PROVE Built'
  <2>1. job[j].t \in Tokens
    BY <1>0, <1>5, ValidateForUserEffect DEF JobBuilds, At
  <2>2. token[job[j].t].tenant \in Tenants \cup {None}
    BY <2>1 DEF TypeOK
  <2> QED
    BY <1>0, <1>5, <2>1, <2>2, ValidateForUserEffect, BuiltFrame
    DEF Moved, Ended, tenancy, JobBuilds, Building, At, Built, Equipped
<1>6. ASSUME NEW j \in Jobs, CreateUser(j) PROVE Built'
  <2>1. /\ Ended(j) \/ Moved(j, "link", job[j].tenant)
        /\ job[j].at = "createUser" /\ UNCHANGED tenancy
    BY <1>6, CreateUserEffect
  <2>2. JobBuilds(j)'
    BY <1>0, <2>1 DEF Ended, Moved, JobBuilds, Building, At
  <2> QED
    BY <2>1, <2>2, BuiltFrame DEF Ended, Moved, Building, tenancy, Built
<1>7. ASSUME NEW j \in Jobs, LinkSubscriber(j) PROVE Built'
  BY <1>0, <1>7, LinkSubscriberEffect, BuiltFrame
  DEF Moved, Ended, tenancy, JobBuilds, Building, At, Built
<1>8. ASSUME NEW j \in Jobs, CompleteToken(j) PROVE Built'
  BY <1>0, <1>8, CompleteTokenEffect, BuiltFrame
  DEF Moved, Ended, tenancy, JobBuilds, Building, At, Built
<1>9. ASSUME NEW j \in Jobs, NEW t \in Tokens, NEW step \in {"validate", "validateUser"},
             Receive(j, t, step)
      PROVE  Built'
  <2>1. /\ OthersKept(j) /\ job'[j].at \in {"validate", "validateUser"}
        /\ job'[j].t \in Tokens
    BY <1>9, ReceiveEffect
  <2>2. UNCHANGED tenancy
    BY <1>9 DEF Receive
  <2>3. JobBuilds(j)'
    BY <2>1 DEF JobBuilds, Building, At
  <2> QED
    BY <2>1, <2>2, <2>3, BuiltFrame DEF Building, tenancy, Built
<1>10. ASSUME NEW j \in Jobs, JobFails(j) PROVE Built'
  BY <1>10, JobFailsEffect, BuiltFrame
  DEF Ended, tenancy, JobBuilds, Building, At, Built
<1>11. ASSUME NEW t \in Tokens, Expire(t) PROVE Built'
  BY <1>11 DEF Expire, tenancy, JobBuilds, At, Built
<1>12. CASE OnSubscribers
  BY <1>12, OnSubscribersEffect DEF JobBuilds, At, Built
<1>13. ASSUME NEW e \in Emails, CreateUserElsewhere(e) PROVE Built'
  BY <1>13 DEF CreateUserElsewhere, tenancy, JobBuilds, At, Built
<1>14. CASE UNCHANGED vars
  BY <1>14 DEF vars, JobBuilds, At, Built
<1> QED
  BY <1>1, <1>2, <1>3, <1>4, <1>5, <1>6, <1>7, <1>8, <1>9, <1>10, <1>11, <1>12,
     <1>13, <1>14
  DEF Next, JobStep, OnSubscribers
-----------------------------------------------------------------------------
(* A tenant keeps its token and its plan's modules once it has them. *)
LEMMA EquippedFrame ==
    ASSUME TypeOK, Equipped,
           \A n \in Tenants : origin[n] # None => origin'[n] = origin[n],
           \A n \in Tenants : modules[n] = "plan" => modules'[n] = "plan",
           \A t \in Tokens : token'[t].tenant = token[t].tenant,
           user' = user
    PROVE  Equipped'
<1>1. \A t \in Tokens : token[t].tenant \in Tenants \cup {None}
  BY DEF TypeOK
<1>2. \A t \in Tokens : HasUser(t) => user[EmailOf[t]].tenant \in Tenants
  BY DEF Equipped, EquippedBeforeUse, HasUser, TypeOK, User
<1> QED
  BY <1>1, <1>2 DEF Equipped, EquippedBeforeUse, HasUser

LEMMA EquippedStep == TypeOK /\ Built /\ Equipped /\ [Next]_vars => Equipped'
<1> SUFFICES ASSUME TypeOK, Built, Equipped, [Next]_vars PROVE Equipped'
  OBVIOUS
<1>0. \A j \in Jobs : JobBuilds(j)
  BY DEF Built
<1>1. ASSUME NEW j \in Jobs, ValidateForTenant(j) PROVE Equipped'
  BY <1>1, ValidateForTenantEffect, EquippedFrame DEF tokens, tenancy
<1>2. ASSUME NEW j \in Jobs, CreateTenant(j) PROVE Equipped'
  BY <1>2, CreateTenantEffect, EquippedFrame DEF tokens, tenancy
<1>3. ASSUME NEW j \in Jobs, ActivateModules(j) PROVE Equipped'
  BY <1>0, <1>3, ActivateModulesEffect, EquippedFrame
  DEF tokens, JobBuilds, At
<1>4. ASSUME NEW j \in Jobs, MarkTenant(j) PROVE Equipped'
  <2>1. /\ job[j].tenant \in Tenants /\ origin[job[j].tenant] = job[j].t
        /\ modules[job[j].tenant] = "plan"
    BY <1>0, <1>4, MarkTenantEffect DEF JobBuilds, At, Building
  <2> QED
    BY <1>4, <2>1, MarkTenantEffect
    DEF Equipped, EquippedBeforeUse, HasUser, tenancy
<1>5. ASSUME NEW j \in Jobs, ValidateForUser(j) PROVE Equipped'
  BY <1>5, ValidateForUserEffect, EquippedFrame DEF tokens, tenancy
<1>6. ASSUME NEW j \in Jobs, CreateUser(j) PROVE Equipped'
  <2>1. /\ job[j].tenant \in Tenants /\ origin[job[j].tenant] = job[j].t
        /\ modules[job[j].tenant] = "plan"
    BY <1>0, <1>6, CreateUserEffect DEF JobBuilds, At, Building
  <2>2. CASE user' = user
    BY <1>6, <2>2, CreateUserEffect, EquippedFrame DEF tokens, tenancy
  <2>3. CASE Moved(j, "link", job[j].tenant)
    <3>1. user'[EmailOf[job[j].t]] = [tenant |-> job[j].tenant, by |-> job[j].t]
          /\ \A e \in Emails \ {EmailOf[job[j].t]} : user'[e] = user[e]
      BY <1>6, <2>3, CreateUserEffect DEF Moved, Ended
    <3> QED
      BY <1>6, <2>1, <3>1, CreateUserEffect
      DEF Equipped, EquippedBeforeUse, HasUser, tokens, tenancy
  <2> QED
    BY <1>6, <2>2, <2>3, CreateUserEffect
<1>7. ASSUME NEW j \in Jobs, LinkSubscriber(j) PROVE Equipped'
  BY <1>7, LinkSubscriberEffect, EquippedFrame DEF tokens, tenancy
<1>8. ASSUME NEW j \in Jobs, CompleteToken(j) PROVE Equipped'
  BY <1>8, CompleteTokenEffect, EquippedFrame DEF tokens, tenancy
<1>9. ASSUME NEW j \in Jobs, NEW t \in Tokens, NEW step \in {"validate", "validateUser"},
             Receive(j, t, step)
      PROVE  Equipped'
  BY <1>9, EquippedFrame DEF Receive, tokens, tenancy
<1>10. ASSUME NEW j \in Jobs, JobFails(j) PROVE Equipped'
  BY <1>10, JobFailsEffect, EquippedFrame DEF tokens, tenancy
<1>11. ASSUME NEW t \in Tokens, Expire(t) PROVE Equipped'
  BY <1>11 DEF Expire, tenancy, subscribers, history,
      Equipped, EquippedBeforeUse, HasUser
<1>12. CASE OnSubscribers
  BY <1>12, OnSubscribersEffect DEF Equipped, EquippedBeforeUse, HasUser
<1>13. ASSUME NEW e \in Emails, CreateUserElsewhere(e) PROVE Equipped'
  BY <1>13 DEF CreateUserElsewhere, tokens, tenancy, subscribers, history,
      Equipped, EquippedBeforeUse, HasUser
<1>14. CASE UNCHANGED vars
  BY <1>14 DEF vars, Equipped, EquippedBeforeUse, HasUser
<1> QED
  BY <1>1, <1>2, <1>3, <1>4, <1>5, <1>6, <1>7, <1>8, <1>9, <1>10, <1>11, <1>12,
     <1>13, <1>14
  DEF Next, JobStep, OnSubscribers
-----------------------------------------------------------------------------
(* What others do to a subscriber unlinks it only where they crossed its   *)
(* link, or where it did not exist and the signup looks for it still.      *)
LEMMA OnSubscribersLinked ==
    ASSUME TypeOK, CopiesAgree, OnSubscribers, NEW t \in Tokens, LinkedOrCrossed(t),
           t \in used \/ \E j \in Jobs : job[j].t = t /\ At(j, "complete")
    PROVE  LinkedOrCrossed(t)'
<1>0. subscriber \in [Tokens -> {"missing", "unlinked"} \cup Emails]
  BY DEF TypeOK
<1>1. ASSUME NEW x \in Tokens, AdminLinks(x) PROVE LinkedOrCrossed(t)'
  BY <1>0, <1>1 DEF AdminLinks, NoteCrossed, LinkedOrCrossed
<1>2. ASSUME NEW x \in Tokens, EnsureSubscriber(x) PROVE LinkedOrCrossed(t)'
  BY <1>0, <1>2 DEF EnsureSubscriber, LinkedOrCrossed
<1>3. ASSUME NEW v \in Savers, SaveSubscriber(v) PROVE LinkedOrCrossed(t)'
  BY <1>0, <1>3, CopyFields
  DEF SaveSubscriber, LinkedOrCrossed, CopiesAgree, CopyAgrees
<1>4. CASE UNCHANGED <<subscriber, crossed>>
  BY <1>4 DEF LinkedOrCrossed
<1> QED
  BY <1>1, <1>2, <1>3, <1>4 DEF OnSubscribers, FindToSave, DropCopy

(* A link moves a subscriber that nobody holds a copy of, or is crossed.   *)
LEMMA LinkedCopies ==
    ASSUME TypeOK, CopiesAgree, NEW t \in Tokens, NEW e \in Emails,
           subscriber[t] # "missing", NoteCrossed(t), saver' = saver,
           subscriber' = [subscriber EXCEPT ![t] = e]
    PROVE  CopiesAgree'
<1>0. subscriber \in [Tokens -> {"missing", "unlinked"} \cup Emails]
  BY DEF TypeOK
<1>1. e # "missing" /\ e # "unlinked"
  OBVIOUS
<1>2. subscriber'[t] = e /\ \A x \in Tokens \ {t} : subscriber'[x] = subscriber[x]
  BY <1>0
<1>3. crossed \subseteq crossed'
  BY DEF NoteCrossed
<1>4. ASSUME NEW v \in Savers, saver[v] # None PROVE CopyAgrees(v)'
  <2>1. saver[v] \in Copy /\ CopyAgrees(v)
    BY <1>4 DEF TypeOK, CopiesAgree
  <2>2. CASE saver[v].t # t
    BY <1>2, <1>3, <2>1, <2>2 DEF CopyAgrees, Copy
  <2>3. CASE saver[v].t = t /\ saver[v].link = "unlinked"
    <3>1. saver[v] = [t |-> t, link |-> "unlinked"]
      BY <2>1, <2>3 DEF Copy
    <3>2. t \in crossed'
      BY <3>1 DEF NoteCrossed, Holds
    <3> QED
      BY <1>1, <1>2, <2>3, <3>2 DEF CopyAgrees
  <2>4. CASE saver[v].t = t /\ saver[v].link # "unlinked"
    BY <1>1, <1>2, <2>4 DEF CopyAgrees
  <2> QED
    BY <2>2, <2>3, <2>4
<1>5. ASSUME NEW v \in Savers, saver[v] = None PROVE CopyAgrees(v)'
  BY <1>5 DEF CopyAgrees
<1> QED
  BY <1>4, <1>5 DEF CopiesAgree

LEMMA CopiesStep == TypeOK /\ Built /\ CopiesAgree /\ [Next]_vars => CopiesAgree'
<1> SUFFICES ASSUME TypeOK, Built, CopiesAgree, [Next]_vars PROVE CopiesAgree'
  OBVIOUS
<1>0. /\ subscriber \in [Tokens -> {"missing", "unlinked"} \cup Emails]
      /\ saver \in [Savers -> Copy \cup {None}]
  BY DEF TypeOK
<1>1. CASE UNCHANGED <<subscriber, saver, crossed>>
  BY <1>1 DEF CopiesAgree, CopyAgrees
<1>2. ASSUME NEW j \in Jobs, LinkSubscriber(j) PROVE CopiesAgree'
  <2>1. job[j].t \in Tokens /\ EmailOf[job[j].t] \in Emails
    BY <1>2 DEF Built, JobBuilds, LinkSubscriber, At
  <2>2. saver' = saver
    BY <1>2, LinkSubscriberEffect
  <2>3. CASE UNCHANGED <<subscriber, crossed>>
    BY <1>1, <2>2, <2>3
  <2>4. CASE /\ subscriber[job[j].t] = "unlinked" /\ NoteCrossed(job[j].t)
             /\ subscriber' = [subscriber EXCEPT ![job[j].t] = EmailOf[job[j].t]]
    BY <2>1, <2>2, <2>4, LinkedCopies
  <2> QED
    BY <1>2, <2>3, <2>4, LinkSubscriberEffect
<1>3. ASSUME NEW t \in Tokens, AdminLinks(t) PROVE CopiesAgree'
  <2>1. PICK e \in Emails : subscriber' = [subscriber EXCEPT ![t] = e]
    BY <1>3 DEF AdminLinks
  <2> QED
    BY <1>3, <2>1, LinkedCopies DEF AdminLinks
<1>4. ASSUME NEW t \in Tokens, EnsureSubscriber(t) PROVE CopiesAgree'
  <2>1. \A v \in Savers : saver[v] # None => saver[v].t # t
    BY <1>4 DEF CopiesAgree, CopyAgrees, EnsureSubscriber
  <2>2. crossed \subseteq crossed' /\ saver' = saver
    BY <1>4 DEF EnsureSubscriber
  <2>3. \A x \in Tokens \ {t} : subscriber'[x] = subscriber[x]
    BY <1>0, <1>4 DEF EnsureSubscriber
  <2> QED
    BY <2>1, <2>2, <2>3, CopyFields DEF CopiesAgree, CopyAgrees
<1>5. ASSUME NEW v \in Savers, NEW t \in Tokens, FindToSave(v, t) PROVE CopiesAgree'
  <2>1. /\ UNCHANGED <<subscriber, crossed>> /\ subscriber[t] # "missing"
        /\ saver'[v] = [t |-> t, link |-> subscriber[t]]
        /\ \A w \in Savers \ {v} : saver'[w] = saver[w]
    BY <1>0, <1>5 DEF FindToSave
  <2>2. saver'[v].t = t /\ saver'[v].link = subscriber[t]
    BY <2>1
  <2> QED
    BY <2>1, <2>2 DEF CopiesAgree, CopyAgrees
<1>6. ASSUME NEW v \in Savers, SaveSubscriber(v) PROVE CopiesAgree'
  <2>1. saver[v].t \in Tokens /\ saver[v].link \in {"unlinked"} \cup Emails
    BY <1>6, CopyFields DEF SaveSubscriber
  <2>2. /\ crossed' = crossed
        /\ saver'[v] = None /\ \A w \in Savers \ {v} : saver'[w] = saver[w]
    BY <1>0, <1>6 DEF SaveSubscriber
  <2>3. /\ subscriber'[saver[v].t] = saver[v].link
        /\ \A x \in Tokens \ {saver[v].t} : subscriber'[x] = subscriber[x]
    BY <1>0, <1>6, <2>1 DEF SaveSubscriber
  <2>4. CopyAgrees(v) /\ saver[v] # None
    BY <1>6 DEF CopiesAgree, SaveSubscriber
  <2>5. saver[v].link # "missing"
    BY <2>1
  <2>6. ASSUME NEW w \in Savers \ {v}, saver[w] # None PROVE CopyAgrees(w)'
    <3>1. CopyAgrees(w) /\ saver'[w] = saver[w] /\ saver[w].t \in Tokens
      BY <2>2, <2>6, CopyFields DEF CopiesAgree
    <3>2. CASE saver[w].t # saver[v].t
      BY <2>2, <2>3, <2>6, <3>1, <3>2 DEF CopyAgrees
    <3>3. CASE saver[w].t = saver[v].t
      BY <2>2, <2>3, <2>4, <2>5, <2>6, <3>1, <3>3 DEF CopyAgrees
    <3> QED
      BY <3>2, <3>3
  <2> QED
    BY <2>2, <2>6 DEF CopiesAgree, CopyAgrees
<1>7. ASSUME NEW v \in Savers, DropCopy(v) PROVE CopiesAgree'
  <2>1. /\ UNCHANGED <<subscriber, crossed>> /\ saver'[v] = None
        /\ \A w \in Savers \ {v} : saver'[w] = saver[w]
    BY <1>0, <1>7 DEF DropCopy
  <2> QED
    BY <2>1 DEF CopiesAgree, CopyAgrees
<1> QED
  BY <1>1, <1>2, <1>3, <1>4, <1>5, <1>6, <1>7
  DEF Next, JobStep, vars, subscribers, ValidateForTenant, CreateTenant, ActivateModules,
      MarkTenant, ValidateForUser, CreateUser, CompleteToken, Receive, Expire,
      CreateUserElsewhere, JobFails

-----------------------------------------------------------------------------
(* A request that created the user goes on to link and complete. *)
LEMMA CompletesFrame ==
    ASSUME TypeOK, Completes, NEW j \in Jobs, OthersKept(j), JobCompletes(j)',
           \A t \in Tokens : HasUser(t) => HasUser(t)',
           \A t \in Tokens : HasUser(t)' /\ ~HasUser(t) =>
              job'[j].t = t /\ job'[j].at = "link",
           \A t \in Tokens : LinkedOrCrossed(t) => LinkedOrCrossed(t)',
           used \subseteq used', lost \subseteq lost',
           \A t \in used' \ used : HasUser(t)' /\ LinkedOrCrossed(t)',
           job[j].at \in {"link", "complete"} =>
              \/ job'[j].t = job[j].t /\ job'[j].at \in {"link", "complete"}
              \/ job[j].t \in used' \cup lost',
           \A k \in Jobs : JobBuilds(k)
    PROVE  Completes'
<1>1. ASSUME NEW k \in Jobs \ {j} PROVE JobCompletes(k)'
  <2>1. job'[k] = job[k] /\ JobCompletes(k) /\ JobBuilds(k)
    BY DEF OthersKept, Completes
  <2>2. job[k].at \in {"link", "complete"} => job[k].t \in Tokens
    BY <2>1 DEF JobBuilds, At
  <2> QED
    BY <2>1, <2>2 DEF JobCompletes, At
<1>2. CompletedGivesAccess'
  BY DEF Completes, CompletedGivesAccess, TypeOK
<1>3. ASSUME NEW t \in Tokens \ used', HasUser(t)'
      PROVE  \/ t \in lost'
             \/ \E k \in Jobs : job'[k].t = t /\ job'[k].at \in {"link", "complete"}
  <2>1. CASE ~HasUser(t)
    BY <1>3, <2>1
  <2>2. CASE HasUser(t)
    <3>1. \/ t \in lost
          \/ \E k \in Jobs : job[k].t = t /\ job[k].at \in {"link", "complete"}
      BY <1>3, <2>2 DEF Completes, StuckHasCause
    <3> QED
      BY <1>3, <3>1 DEF OthersKept
  <2> QED
    BY <2>1, <2>2
<1>4. StuckHasCause'
  BY <1>3 DEF StuckHasCause
<1> QED
  BY <1>1, <1>2, <1>4 DEF Completes

LEMMA CompletesStep == TypeOK /\ Built /\ CopiesAgree /\ Completes /\ [Next]_vars => Completes'
<1> SUFFICES ASSUME TypeOK, Built, CopiesAgree, Completes, [Next]_vars PROVE Completes'
  OBVIOUS
<1>0. \A j \in Jobs : JobBuilds(j) /\ JobCompletes(j)
  BY DEF Built, Completes
<1>1. ASSUME NEW j \in Jobs, ValidateForTenant(j) PROVE Completes'
  BY <1>0, <1>1, ValidateForTenantEffect, CompletesFrame
  DEF Moved, Ended, JobCompletes, At, HasUser, LinkedOrCrossed, tokens, subscribers, history
<1>2. ASSUME NEW j \in Jobs, CreateTenant(j) PROVE Completes'
  BY <1>0, <1>2, CreateTenantEffect, CompletesFrame
  DEF Moved, Ended, JobCompletes, At, HasUser, LinkedOrCrossed, tokens, subscribers, history
<1>3. ASSUME NEW j \in Jobs, ActivateModules(j) PROVE Completes'
  BY <1>0, <1>3, ActivateModulesEffect, CompletesFrame
  DEF Moved, Ended, JobCompletes, At, HasUser, LinkedOrCrossed, tokens, subscribers, history
<1>4. ASSUME NEW j \in Jobs, MarkTenant(j) PROVE Completes'
  BY <1>0, <1>4, MarkTenantEffect, CompletesFrame
  DEF Moved, Ended, JobCompletes, At, HasUser, LinkedOrCrossed, tokens, subscribers, history
<1>5. ASSUME NEW j \in Jobs, ValidateForUser(j) PROVE Completes'
  BY <1>0, <1>5, ValidateForUserEffect, CompletesFrame
  DEF Moved, Ended, JobCompletes, At, HasUser, LinkedOrCrossed, tokens, subscribers, history
<1>6. ASSUME NEW j \in Jobs, CreateUser(j) PROVE Completes'
  <2>1. job[j].t \in Tokens
    BY <1>0, <1>6, CreateUserEffect DEF JobBuilds, At
  <2>2. CASE Ended(j) /\ user' = user
    BY <1>0, <1>6, <2>2, CreateUserEffect, CompletesFrame
    DEF Ended, JobCompletes, At, HasUser, LinkedOrCrossed, tokens, subscribers, history
  <2>3. CASE Moved(j, "link", job[j].tenant) /\ user[EmailOf[job[j].t]] = None
    <3>1. user'[EmailOf[job[j].t]] = [tenant |-> job[j].tenant, by |-> job[j].t]
          /\ \A e \in Emails \ {EmailOf[job[j].t]} : user'[e] = user[e]
      BY <1>6, <2>3, CreateUserEffect DEF Moved, Ended
    <3>2. HasUser(job[j].t)' /\ \A t \in Tokens : HasUser(t) => HasUser(t)'
      <4>1. [tenant |-> job[j].tenant, by |-> job[j].t] \in User
        BY <1>0, <1>6, <2>1, CreateUserEffect DEF JobBuilds, At, User
      <4>2. [tenant |-> job[j].tenant, by |-> job[j].t] # None
        BY <4>1 DEF User
      <4> QED
        BY <2>1, <2>3, <3>1, <4>2 DEF HasUser, Moved
    <3>3. \A t \in Tokens \ {job[j].t} : HasUser(t)' => HasUser(t)
      BY <2>1, <3>1 DEF HasUser
    <3> QED
      BY <1>0, <1>6, <2>1, <2>3, <3>2, <3>3, CreateUserEffect, CompletesFrame
      DEF Moved, JobCompletes, At, LinkedOrCrossed, tokens, subscribers, history
  <2> QED
    BY <1>6, <2>2, <2>3, CreateUserEffect
<1>7. ASSUME NEW j \in Jobs, LinkSubscriber(j) PROVE Completes'
  <2>1. job[j].t \in Tokens /\ HasUser(job[j].t)
    BY <1>0, <1>7, LinkSubscriberEffect DEF JobBuilds, JobCompletes, At
  <2>2. \A t \in Tokens : LinkedOrCrossed(t) => LinkedOrCrossed(t)'
    BY <1>7, <2>1, LinkSubscriberEffect DEF LinkedOrCrossed, NoteCrossed, TypeOK
  <2> QED
    BY <1>0, <1>7, <2>1, <2>2, LinkSubscriberEffect, CompletesFrame
    DEF Moved, Ended, JobCompletes, At, HasUser, LinkedOrCrossed, tokens
<1>8. ASSUME NEW j \in Jobs, CompleteToken(j) PROVE Completes'
  <2>1. job[j].t \in Tokens /\ HasUser(job[j].t) /\ LinkedOrCrossed(job[j].t)
    BY <1>0, <1>8, CompleteTokenEffect DEF JobBuilds, JobCompletes, At
  <2> QED
    BY <1>0, <1>8, <2>1, CompleteTokenEffect, CompletesFrame
    DEF Ended, JobCompletes, At, HasUser, LinkedOrCrossed, subscribers, history
<1>9. ASSUME NEW j \in Jobs, NEW t \in Tokens, NEW step \in {"validate", "validateUser"},
             Receive(j, t, step)
      PROVE  Completes'
  BY <1>0, <1>9, ReceiveEffect, CompletesFrame
  DEF Receive, JobCompletes, At, HasUser, LinkedOrCrossed, tokens, subscribers, history
<1>10. ASSUME NEW j \in Jobs, JobFails(j) PROVE Completes'
  BY <1>0, <1>10, JobFailsEffect, CompletesFrame
  DEF Ended, JobCompletes, At, HasUser, LinkedOrCrossed, tokens, subscribers
<1>11. ASSUME NEW t \in Tokens, Expire(t) PROVE Completes'
  BY <1>11 DEF Expire, tenancy, subscribers, history,
      Completes, JobCompletes, CompletedGivesAccess,
      LinkedOrCrossed, StuckHasCause, HasUser, At
<1>12. CASE OnSubscribers
  <2>1. UNCHANGED <<used, user, job, lost>>
    BY <1>12, OnSubscribersEffect
  <2>2. \A j \in Jobs : At(j, "complete") => job[j].t \in Tokens
    BY <1>0 DEF JobBuilds, At
  <2>3. ASSUME NEW t \in Tokens, LinkedOrCrossed(t),
               t \in used \/ \E j \in Jobs : job[j].t = t /\ At(j, "complete")
        PROVE  LinkedOrCrossed(t)'
    BY <1>12, <2>3, OnSubscribersLinked
  <2> QED
    BY <2>1, <2>2, <2>3
    DEF Completes, JobCompletes, CompletedGivesAccess, StuckHasCause, HasUser, At, TypeOK
<1>13. ASSUME NEW e \in Emails, CreateUserElsewhere(e) PROVE Completes'
  BY <1>13 DEF CreateUserElsewhere, tokens, tenancy, subscribers, history,
      Completes, JobCompletes, CompletedGivesAccess,
      LinkedOrCrossed, StuckHasCause, HasUser, At
<1>14. CASE UNCHANGED vars
  BY <1>14 DEF vars, Completes, JobCompletes, CompletedGivesAccess,
      LinkedOrCrossed, StuckHasCause, HasUser, At
<1> QED
  BY <1>1, <1>2, <1>3, <1>4, <1>5, <1>6, <1>7, <1>8, <1>9, <1>10, <1>11, <1>12,
     <1>13, <1>14
  DEF Next, JobStep, OnSubscribers
-----------------------------------------------------------------------------
(* While a token is not doubled its requests create tenants in turn. *)
LEMMA SingleFrame ==
    ASSUME Single, NEW j \in Jobs, OthersKept(j), doubled \subseteq doubled',
           \A t \in Tokens : token'[t].tenant = token[t].tenant,
           job'[j].at \in TenantSteps =>
              job[j].at \in TenantSteps /\ job'[j].t = job[j].t,
           \A t \in Tokens \ doubled : job'[j].t = t /\ job'[j].at = "createUser" =>
              token[t].tenant = job'[j].tenant,
           \A t \in Tokens \ doubled : HasUser(t)' =>
              token[t].tenant = user'[EmailOf[t]].tenant
    PROVE  Single'
<1> SUFFICES ASSUME NEW t \in Tokens \ doubled'
             PROVE  /\ \A k, l \in Jobs :
                          /\ job'[k].t = t /\ job'[k].at \in TenantSteps
                          /\ job'[l].t = t /\ job'[l].at \in TenantSteps
                          => k = l
                    /\ \A k \in Jobs : job'[k].t = t /\ job'[k].at \in TenantSteps =>
                          token[t].tenant = None
                    /\ \A k \in Jobs : job'[k].t = t /\ job'[k].at = "createUser" =>
                          token[t].tenant = job'[k].tenant
                    /\ HasUser(t)' => token[t].tenant = user'[EmailOf[t]].tenant
  BY DEF Single, At, TenantSteps
<1>1. t \in Tokens \ doubled
  OBVIOUS
<1>2. \A k \in Jobs : job'[k].t = t /\ job'[k].at \in TenantSteps =>
          job[k].t = t /\ job[k].at \in TenantSteps
  BY DEF OthersKept
<1>3. \A k \in Jobs : job'[k].t = t /\ job'[k].at = "createUser" =>
          token[t].tenant = job'[k].tenant
  BY <1>1 DEF OthersKept, Single, At
<1> QED
  BY <1>1, <1>2, <1>3 DEF Single

LEMMA SingleStep == TypeOK /\ Built /\ Equipped /\ Single /\ [Next]_vars => Single'
<1> SUFFICES ASSUME TypeOK, Built, Equipped, Single, [Next]_vars PROVE Single'
  OBVIOUS
<1>0. \A j \in Jobs : JobBuilds(j)
  BY DEF Built
<1>1. ASSUME NEW j \in Jobs, ValidateForTenant(j) PROVE Single'
  <2>1. CASE Ended(j) /\ doubled' = doubled
    BY <1>1, <2>1, ValidateForTenantEffect, SingleFrame
    DEF Ended, TenantSteps, Single, HasUser, tokens
  <2>2. CASE Moved(j, "createTenant", job[j].tenant) /\ NoteDoubled(j)
    <3>1. doubled \subseteq doubled'
      BY <2>2 DEF NoteDoubled
    <3>2. \A k \in Jobs : job[k].t = job[j].t /\ job[k].at \in TenantSteps =>
              job[j].t \in doubled'
      BY <2>2 DEF NoteDoubled
    <3>3. token' = token /\ user' = user /\ token[job[j].t].tenant = None
      BY <1>1, <2>2, ValidateForTenantEffect DEF Moved, Ended, tokens
    <3> QED
      BY <2>2, <3>1, <3>2, <3>3
      DEF Single, Moved, OthersKept, HasUser, At, TenantSteps
  <2> QED
    BY <1>1, <2>1, <2>2, ValidateForTenantEffect
<1>2. ASSUME NEW j \in Jobs, CreateTenant(j) PROVE Single'
  <2>1. /\ UNCHANGED <<token, user, doubled>> /\ job[j].at = "createTenant"
        /\ \/ Ended(j)
           \/ OthersKept(j) /\ job'[j].at = "coreModules" /\ job'[j].t = job[j].t
    BY <1>2, CreateTenantEffect DEF Moved, tokens, subscribers, history
  <2> QED
    BY <2>1, SingleFrame DEF Ended, TenantSteps, Single, HasUser
<1>3. ASSUME NEW j \in Jobs, ActivateModules(j) PROVE Single'
  BY <1>3, ActivateModulesEffect, SingleFrame
  DEF Moved, Ended, TenantSteps, Single, HasUser, tokens, subscribers, history
<1>4. ASSUME NEW j \in Jobs, MarkTenant(j) PROVE Single'
  <2>1. /\ job[j].t \in Tokens /\ job[j].at = "markTenant"
        /\ Ended(j) /\ doubled' = doubled /\ user' = user
        /\ \A t \in Tokens \ {job[j].t} : token'[t] = token[t]
    BY <1>4, MarkTenantEffect DEF history
  <2>2. ASSUME job[j].t \notin doubled
        PROVE  /\ \A k \in Jobs \ {j} : job[k].t = job[j].t => job[k].at \notin TenantSteps
               /\ \A k \in Jobs : job[k].t = job[j].t => job[k].at # "createUser"
               /\ ~HasUser(job[j].t)
    <3>1. token[job[j].t].tenant = None
      BY <2>1, <2>2 DEF Single, TenantSteps
    <3>2. \A k \in Jobs : job[k].at = "createUser" => job[k].tenant # None
      BY <1>0 DEF JobBuilds, Building
    <3>3. HasUser(job[j].t) => user[EmailOf[job[j].t]].tenant # None
      BY <2>1 DEF Equipped, EquippedBeforeUse
    <3> QED
      BY <2>1, <2>2, <3>1, <3>2, <3>3 DEF Single, TenantSteps, At
  <2> QED
    BY <2>1, <2>2 DEF Single, Ended, OthersKept, HasUser, At, TenantSteps
<1>5. ASSUME NEW j \in Jobs, ValidateForUser(j) PROVE Single'
  BY <1>5, ValidateForUserEffect, SingleFrame
  DEF Moved, Ended, TenantSteps, Single, HasUser, tokens, subscribers, history
<1>6. ASSUME NEW j \in Jobs, CreateUser(j) PROVE Single'
  <2>1. job[j].t \in Tokens /\ job[j].at = "createUser"
    BY <1>0, <1>6, CreateUserEffect DEF JobBuilds, At
  <2>2. CASE Ended(j) /\ user' = user
    BY <1>6, <2>2, CreateUserEffect, SingleFrame
    DEF Ended, TenantSteps, Single, HasUser, tokens, subscribers, history
  <2>3. CASE Moved(j, "link", job[j].tenant)
    <3>1. user'[EmailOf[job[j].t]] = [tenant |-> job[j].tenant, by |-> job[j].t]
          /\ \A e \in Emails \ {EmailOf[job[j].t]} : user'[e] = user[e]
      BY <1>6, <2>3, CreateUserEffect DEF Moved, Ended
    <3>2. \A t \in Tokens \ doubled : HasUser(t)' =>
              token[t].tenant = user'[EmailOf[t]].tenant
      BY <2>1, <3>1 DEF Single, HasUser, At
    <3> QED
      BY <1>6, <2>3, <3>2, CreateUserEffect, SingleFrame
      DEF Moved, TenantSteps, tokens, subscribers, history
  <2> QED
    BY <1>6, <2>2, <2>3, CreateUserEffect
<1>7. ASSUME NEW j \in Jobs, LinkSubscriber(j) PROVE Single'
  BY <1>7, LinkSubscriberEffect, SingleFrame
  DEF Moved, Ended, TenantSteps, Single, HasUser, tokens, subscribers, history
<1>8. ASSUME NEW j \in Jobs, CompleteToken(j) PROVE Single'
  BY <1>8, CompleteTokenEffect, SingleFrame
  DEF Moved, Ended, TenantSteps, Single, HasUser, tokens, subscribers, history
<1>9. ASSUME NEW j \in Jobs, NEW t \in Tokens, NEW step \in {"validate", "validateUser"},
             Receive(j, t, step)
      PROVE  Single'
  <2>1. /\ OthersKept(j) /\ job'[j].at \in {"validate", "validateUser"}
        /\ UNCHANGED <<token, user, doubled>>
    BY <1>9, ReceiveEffect DEF Receive, tokens, subscribers, history
  <2> QED
    BY <2>1, SingleFrame DEF TenantSteps, Single, HasUser
<1>10. ASSUME NEW j \in Jobs, JobFails(j) PROVE Single'
  BY <1>10, JobFailsEffect, SingleFrame
  DEF Ended, TenantSteps, Single, HasUser, tokens
<1>11. ASSUME NEW t \in Tokens, Expire(t) PROVE Single'
  BY <1>11 DEF Expire, tenancy, subscribers, history, Single, HasUser, At
<1>12. CASE OnSubscribers
  BY <1>12, OnSubscribersEffect DEF Single, HasUser, At
<1>13. ASSUME NEW e \in Emails, CreateUserElsewhere(e) PROVE Single'
  <2>1. \A t \in Tokens : HasUser(t)' => HasUser(t) /\ user'[EmailOf[t]] = user[EmailOf[t]]
    BY <1>13 DEF CreateUserElsewhere, HasUser, TypeOK
  <2> QED
    BY <1>13, <2>1 DEF CreateUserElsewhere, tokens, subscribers, history, Single, At
<1>14. CASE UNCHANGED vars
  BY <1>14 DEF vars, Single, HasUser, At
<1> QED
  BY <1>1, <1>2, <1>3, <1>4, <1>5, <1>6, <1>7, <1>8, <1>9, <1>10, <1>11, <1>12,
     <1>13, <1>14
  DEF Next, JobStep, OnSubscribers
-----------------------------------------------------------------------------
(* A tenant of an undisturbed token is named by it or being built. *)
LEMMA AccountedFrame ==
    ASSUME Accounted, NEW j \in Jobs, OthersKept(j), origin' = origin,
           lost \subseteq lost', doubled \subseteq doubled',
           \A t \in Tokens : token'[t].tenant = token[t].tenant,
           job[j].at \in Building =>
              \/ job[j].t \in lost'
              \/ /\ job'[j].at \in Building
                 /\ job'[j].t = job[j].t /\ job'[j].tenant = job[j].tenant
    PROVE  Accounted'
<1> SUFFICES ASSUME NEW t \in Tokens \ (lost' \cup doubled'),
                    NEW n \in Tenants, origin[n] = t
             PROVE  \/ token[t].tenant = n
                    \/ \E k \in Jobs :
                         job'[k].t = t /\ job'[k].at \in Building /\ job'[k].tenant = n
  BY DEF Accounted
<1>1. \/ token[t].tenant = n
      \/ \E k \in Jobs : job[k].t = t /\ job[k].at \in Building /\ job[k].tenant = n
  BY DEF Accounted
<1> QED
  BY <1>1 DEF OthersKept

LEMMA AccountedStep ==
    TypeOK /\ Built /\ Single /\ Accounted /\ [Next]_vars => Accounted'
<1> SUFFICES ASSUME TypeOK, Built, Single, Accounted, [Next]_vars PROVE Accounted'
  OBVIOUS
<1>1. ASSUME NEW j \in Jobs, ValidateForTenant(j) PROVE Accounted'
  <2>1. doubled \subseteq doubled'
    BY <1>1, ValidateForTenantEffect DEF NoteDoubled
  <2> QED
    BY <1>1, <2>1, ValidateForTenantEffect, AccountedFrame
    DEF Moved, Ended, Building, tokens, tenancy
<1>2. ASSUME NEW j \in Jobs, CreateTenant(j) PROVE Accounted'
  <2>1. CASE Ended(j) /\ origin' = origin
    BY <1>2, <2>1, CreateTenantEffect, AccountedFrame
    DEF Ended, Building, tokens, subscribers, history
  <2>2. ASSUME NEW n \in Tenants, Moved(j, "coreModules", n), origin'[n] = job[j].t,
               \A m \in Tenants \ {n} : origin'[m] = origin[m]
        PROVE  Accounted'
    <3>1. token' = token /\ lost' = lost /\ doubled' = doubled
          /\ job[j].at = "createTenant"
      BY <1>2, CreateTenantEffect DEF tokens, subscribers, history
    <3> QED
      BY <2>2, <3>1 DEF Accounted, Moved, OthersKept, Building
  <2> QED
    BY <1>2, <2>1, <2>2, CreateTenantEffect
<1>3. ASSUME NEW j \in Jobs, ActivateModules(j) PROVE Accounted'
  BY <1>3, ActivateModulesEffect, AccountedFrame
  DEF Moved, Ended, Building, tokens, tenancy, subscribers, history
<1>4. ASSUME NEW j \in Jobs, MarkTenant(j) PROVE Accounted'
  <2>1. /\ job[j].t \in Tokens /\ job[j].at = "markTenant" /\ Ended(j)
        /\ UNCHANGED <<origin, lost, doubled>>
        /\ token'[job[j].t].tenant = job[j].tenant
        /\ \A t \in Tokens \ {job[j].t} : token'[t] = token[t]
    BY <1>4, MarkTenantEffect DEF tenancy, subscribers, history
  <2>2. ASSUME NEW n \in Tenants, origin[n] = job[j].t, job[j].t \notin lost \cup doubled
        PROVE  n = job[j].tenant
    <3>1. token[job[j].t].tenant = None
      BY <2>1, <2>2 DEF Single, TenantSteps
    <3>2. PICK k \in Jobs :
              job[k].t = job[j].t /\ job[k].at \in Building /\ job[k].tenant = n
      BY <2>1, <2>2, <3>1 DEF Accounted
    <3> QED
      BY <2>1, <2>2, <3>2 DEF Single, TenantSteps, Building
  <2> QED
    BY <2>1, <2>2 DEF Accounted, Ended, OthersKept
<1>5. ASSUME NEW j \in Jobs, ValidateForUser(j) PROVE Accounted'
  BY <1>5, ValidateForUserEffect, AccountedFrame
  DEF Moved, Ended, Building, tokens, tenancy, subscribers, history
<1>6. ASSUME NEW j \in Jobs, CreateUser(j) PROVE Accounted'
  BY <1>6, CreateUserEffect, AccountedFrame
  DEF Moved, Ended, Building, tokens, tenancy, subscribers, history
<1>7. ASSUME NEW j \in Jobs, LinkSubscriber(j) PROVE Accounted'
  BY <1>7, LinkSubscriberEffect, AccountedFrame
  DEF Moved, Ended, Building, tokens, tenancy, subscribers, history
<1>8. ASSUME NEW j \in Jobs, CompleteToken(j) PROVE Accounted'
  BY <1>8, CompleteTokenEffect, AccountedFrame
  DEF Moved, Ended, Building, tokens, tenancy, subscribers, history
<1>9. ASSUME NEW j \in Jobs, NEW t \in Tokens, NEW step \in {"validate", "validateUser"},
             Receive(j, t, step)
      PROVE  Accounted'
  BY <1>9, ReceiveEffect, AccountedFrame
  DEF Receive, Building, tokens, tenancy, subscribers, history
<1>10. ASSUME NEW j \in Jobs, JobFails(j) PROVE Accounted'
  BY <1>10, JobFailsEffect, AccountedFrame
  DEF Ended, Building, tokens, tenancy
<1>11. ASSUME NEW t \in Tokens, Expire(t) PROVE Accounted'
  BY <1>11 DEF Expire, tenancy, subscribers, history, Accounted
<1>12. CASE OnSubscribers
  BY <1>12, OnSubscribersEffect DEF Accounted
<1>13. ASSUME NEW e \in Emails, CreateUserElsewhere(e) PROVE Accounted'
  BY <1>13 DEF CreateUserElsewhere, tokens, tenancy, subscribers, history, Accounted
<1>14. CASE UNCHANGED vars
  BY <1>14 DEF vars, Accounted
<1> QED
  BY <1>1, <1>2, <1>3, <1>4, <1>5, <1>6, <1>7, <1>8, <1>9, <1>10, <1>11, <1>12,
     <1>13, <1>14
  DEF Next, JobStep, OnSubscribers
-----------------------------------------------------------------------------
LEMMA InitIInv == Init => IInv
<1> SUFFICES ASSUME Init PROVE IInv
  OBVIOUS
<1>1. TypeOK
  BY DEF Init, TypeOK, SignupStep, Job, Idle, Step
<1>2. Built
  BY DEF Init, Built, JobBuilds, Building, At, Idle
<1>3. Equipped
  BY DEF Init, Equipped, EquippedBeforeUse, HasUser
<1>4. Completes
  BY DEF Init, Completes, JobCompletes, CompletedGivesAccess, StuckHasCause,
         HasUser, At, Idle
<1>5. CopiesAgree
  BY DEF Init, CopiesAgree, CopyAgrees
<1>6. Single /\ Accounted
  BY DEF Init, Single, Accounted, TenantSteps, HasUser, At, Idle
<1> QED
  BY <1>1, <1>2, <1>3, <1>4, <1>5, <1>6 DEF IInv

LEMMA InvariantHolds == Spec => []IInv
<1>1. IInv /\ [Next]_vars => IInv'
  BY TypeStep, BuiltStep, EquippedStep, CopiesStep, CompletesStep, SingleStep, AccountedStep
  DEF IInv
<1> QED
  BY InitIInv, <1>1, PTL DEF Spec

(* Every table and every request of the signup keeps its type. *)
THEOREM SignupTypeCorrect == Spec => []TypeOK
<1>1. IInv => TypeOK
  BY DEF IInv
<1> QED
  BY InvariantHolds, <1>1, PTL

(* The administrator a signup creates finds the plan's modules active. *)
THEOREM AlwaysEquipped == Spec => []EquippedBeforeUse
<1>1. IInv => EquippedBeforeUse
  BY DEF IInv, Equipped
<1> QED
  BY InvariantHolds, <1>1, PTL

(* A completed signup has its user, and its subscriber is linked, unless    *)
(* somebody's write crossed the link.                                      *)
THEOREM CompletedAlwaysAccess == Spec => []CompletedGivesAccess
<1>1. IInv => CompletedGivesAccess
  BY DEF IInv, Completes
<1> QED
  BY InvariantHolds, <1>1, PTL

(* A signup stays half done only where a request stopped half-way. *)
THEOREM StuckAlwaysCaused == Spec => []StuckHasCause
<1>1. IInv => StuckHasCause
  BY DEF IInv, Completes
<1> QED
  BY InvariantHolds, <1>1, PTL

(* Without a fault and without two requests at once, one tenant a token. *)
THEOREM OrphanAlwaysCaused == Spec => []OrphanHasCause
<1>1. ASSUME IInv, NEW t \in Tokens \ (lost \cup doubled),
             NEW m \in Tenants, NEW n \in Tenants, origin[m] = t, origin[n] = t
      PROVE  m = n
  <2>1. Single /\ Accounted /\ Building \subseteq TenantSteps
    BY <1>1 DEF IInv, Building, TenantSteps
  <2>2. CASE token[t].tenant = None
    <3>1. PICK j \in Jobs :
              job[j].t = t /\ job[j].at \in Building /\ job[j].tenant = m
      BY <1>1, <2>1, <2>2 DEF Accounted
    <3>2. PICK k \in Jobs :
              job[k].t = t /\ job[k].at \in Building /\ job[k].tenant = n
      BY <1>1, <2>1, <2>2 DEF Accounted
    <3> QED
      BY <1>1, <2>1, <3>1, <3>2 DEF Single
  <2>3. CASE token[t].tenant # None
    BY <1>1, <2>1, <2>3 DEF Accounted, Single
  <2> QED
    BY <2>2, <2>3
<1>2. IInv => OrphanHasCause
  BY <1>1 DEF OrphanHasCause
<1> QED
  BY InvariantHolds, <1>2, PTL

(* The token names the tenant its user administers, if it was not doubled. *)
THEOREM AlwaysNamesUsedTenant == Spec => []NamesUsedTenant
<1>1. IInv => NamesUsedTenant
  BY DEF IInv, Single, NamesUsedTenant
<1> QED
  BY InvariantHolds, <1>1, PTL
=============================================================================
