------------------------------- MODULE Signup -------------------------------
(***************************************************************************)
(* The signup that follows a paid checkout: whoever holds the link of a    *)
(* signup token first creates the tenant, then its administrator.  Each    *)
(* step is a chain of separate statements with no transaction around them, *)
(* so requests of the same link interleave and any of them may stop after  *)
(* any statement.  A job is one such request, a job step one round trip to *)
(* the database.                                                           *)
(*                                                                         *)
(* The subscriber is also saved whole by others: a charge that extends it, *)
(* a cancellation and the hourly sweep find the row and save it later,     *)
(* with the user it had when it was found.                                 *)
(*                                                                         *)
(* Left out: describe, which only reads; the removal of a tenant, a lead,  *)
(* a session or a subscriber, and an administrator who unlinks one.        *)
(***************************************************************************)
EXTENDS Naturals

CONSTANTS
    Tokens,       \* signup tokens, one for each paid checkout session
    Emails,       \* addresses of leads and users
    EmailOf,      \* the address of the lead each token was mailed to
    Tenants,      \* the tenants that can be created
    Jobs,         \* the requests that can be in flight at once
    Savers,       \* the charges and sweeps that hold a subscriber at once
    MaxFaults,    \* bound: how many requests stop half-way
    None,
    Elsewhere     \* the origin of a user that no signup created

(* A subscriber as somebody found it: the user it was linked to then. *)
Copy == [t : Tokens, link : {"unlinked"} \cup Emails]

ASSUME SignupAssumption ==
    /\ EmailOf \in [Tokens -> Emails]
    /\ MaxFaults \in Nat
    /\ None \notin Tokens \cup Tenants \cup Emails
    /\ Elsewhere \notin Tokens
    /\ None \notin Copy
    /\ None \notin [tenant : Tenants \cup {None}, by : Tokens \cup {Elsewhere}]
    /\ {"missing", "unlinked"} \cap Emails = {}

VARIABLES
    token,        \* the signup_tokens table: currentStep and tenantId
    used,         \* the tokens whose usedAt is set
    expired,      \* the tokens past their expiresAt
    origin,       \* the tenants table: the token that created each tenant
    modules,      \* the modules each tenant has
    user,         \* the users table, by address: tenant, and who created it
    subscriber,   \* what each session's subscriber row is linked to
    job,          \* the requests in flight
    saver,        \* the copies of subscribers that are about to be saved
    lost,         \* history: the tokens a request of which stopped half-way
    doubled,      \* history: the tokens two requests created a tenant for at once
    crossed,      \* history: the tokens whose link others wrote across
    faults        \* how many requests stopped half-way

tokens == <<token, used, expired>>
tenancy == <<origin, modules>>
subscribers == <<subscriber, saver, crossed>>
history == <<lost, doubled, faults>>
vars == <<token, used, expired, origin, modules, user, subscriber, job, saver,
          lost, doubled, crossed, faults>>

SignupStep == {"TENANT", "USER", "COMPLETED"}

(* The statement a request executes next. *)
Step == {"idle",
         "validate", "createTenant", "coreModules", "planModules", "markTenant",
         "validateUser", "createUser", "link", "complete"}

TenantSteps == {"createTenant", "coreModules", "planModules", "markTenant"}

User == [tenant : Tenants \cup {None}, by : Tokens \cup {Elsewhere}]

Job == [at : Step, t : Tokens \cup {None}, tenant : Tenants \cup {None}]

Idle == [at |-> "idle", t |-> None, tenant |-> None]

TypeOK ==
    /\ token \in [Tokens -> [step : SignupStep, tenant : Tenants \cup {None}]]
    /\ used \in SUBSET Tokens
    /\ expired \in SUBSET Tokens
    /\ origin \in [Tenants -> Tokens \cup {None}]
    /\ modules \in [Tenants -> {"none", "core", "plan"}]
    /\ user \in [Emails -> User \cup {None}]
    /\ subscriber \in [Tokens -> {"missing", "unlinked"} \cup Emails]
    /\ job \in [Jobs -> Job]
    /\ saver \in [Savers -> Copy \cup {None}]
    /\ lost \in SUBSET Tokens
    /\ doubled \in SUBSET Tokens
    /\ crossed \in SUBSET Tokens
    /\ faults \in 0..MaxFaults

(* ensureSubscriber may have failed: the token exists all the same. *)
Init ==
    /\ token = [t \in Tokens |-> [step |-> "TENANT", tenant |-> None]]
    /\ used = {}
    /\ expired = {}
    /\ origin = [n \in Tenants |-> None]
    /\ modules = [n \in Tenants |-> "none"]
    /\ user = [e \in Emails |-> None]
    /\ subscriber \in [Tokens -> {"missing", "unlinked"}]
    /\ job = [j \in Jobs |-> Idle]
    /\ saver = [v \in Savers |-> None]
    /\ lost = {}
    /\ doubled = {}
    /\ crossed = {}
    /\ faults = 0

At(j, step) == job[j].at = step
Goto(j, step) == job' = [job EXCEPT ![j].at = step]
Finish(j) == job' = [job EXCEPT ![j] = Idle]

Receive(j, t, step) ==
    /\ At(j, "idle")
    /\ job' = [job EXCEPT ![j] = [Idle EXCEPT !.at = step, !.t = t]]
    /\ UNCHANGED <<tokens, tenancy, user, subscribers, history>>

Expire(t) ==
    /\ expired' = expired \cup {t}
    /\ UNCHANGED <<token, used, tenancy, user, subscribers, job, history>>

-----------------------------------------------------------------------------
(* createTenantStep *)

Valid(t) == t \notin used /\ t \notin expired

(* Two requests of one link that both found no tenant, at work together. *)
NoteDoubled(j) ==
    doubled' = IF \E k \in Jobs : job[k].t = job[j].t /\ job[k].at \in TenantSteps
               THEN doubled \cup {job[j].t}
               ELSE doubled

(* Mutant: the tenant the token names is not looked at. *)
ValidateForNewTenant(j) ==
    /\ At(j, "validate")
    /\ IF Valid(job[j].t)
       THEN Goto(j, "createTenant") /\ NoteDoubled(j)
       ELSE Finish(j) /\ UNCHANGED doubled
    /\ UNCHANGED <<tokens, tenancy, user, subscribers, lost, faults>>

(* A token that names its tenant is answered with that tenant.  Its        *)
(* currentStep is USER then, so nothing is written.                        *)
ValidateForTenant(j) ==
    LET t == job[j].t IN
    /\ At(j, "validate")
    /\ IF Valid(t) /\ token[t].tenant = None
       THEN Goto(j, "createTenant") /\ NoteDoubled(j)
       ELSE Finish(j) /\ UNCHANGED doubled
    /\ UNCHANGED <<tokens, tenancy, user, subscribers, lost, faults>>

(* The name may yield no slug, or only slugs that are taken. *)
CreateTenant(j) ==
    /\ At(j, "createTenant")
    /\ \/ Finish(j) /\ UNCHANGED origin
       \/ \E n \in Tenants :
             /\ origin[n] = None
             /\ origin' = [origin EXCEPT ![n] = job[j].t]
             /\ job' = [job EXCEPT ![j].at = "coreModules", ![j].tenant = n]
    /\ UNCHANGED <<tokens, modules, user, subscribers, history>>

(* Mutant: the tenant is handed over before its plan's modules. *)
ActivateCoreOnly(j) ==
    /\ At(j, "coreModules")
    /\ modules' = [modules EXCEPT ![job[j].tenant] = "core"]
    /\ Goto(j, "markTenant")
    /\ UNCHANGED <<tokens, origin, user, subscribers, history>>

ActivateModules(j) ==
    /\ \/ /\ At(j, "coreModules")
          /\ modules' = [modules EXCEPT ![job[j].tenant] = "core"]
          /\ Goto(j, "planModules")
       \/ /\ At(j, "planModules")
          /\ modules' = [modules EXCEPT ![job[j].tenant] = "plan"]
          /\ Goto(j, "markTenant")
    /\ UNCHANGED <<tokens, origin, user, subscribers, history>>

(* Mutant: markStep is given the token's id twice. *)
MarkOwnId(j) ==
    /\ At(j, "markTenant")
    /\ token' = [token EXCEPT ![job[j].t] =
                    [step |-> "USER", tenant |-> job[j].t]]
    /\ Finish(j)
    /\ UNCHANGED <<used, expired, tenancy, user, subscribers, history>>

(* Mutant: markStep without the tenant's id. *)
MarkStepOnly(j) ==
    /\ At(j, "markTenant")
    /\ token' = [token EXCEPT ![job[j].t].step = "USER"]
    /\ Finish(j)
    /\ UNCHANGED <<used, expired, tenancy, user, subscribers, history>>

(* An UPDATE with no condition: the last of two requests wins. *)
MarkTenant(j) ==
    /\ At(j, "markTenant")
    /\ token' = [token EXCEPT ![job[j].t] =
                    [step |-> "USER", tenant |-> job[j].tenant]]
    /\ Finish(j)
    /\ UNCHANGED <<used, expired, tenancy, user, subscribers, history>>

-----------------------------------------------------------------------------
(* createUserStep *)

ValidateForUser(j) ==
    LET t == job[j].t IN
    /\ At(j, "validateUser")
    /\ IF Valid(t) /\ token[t].step = "USER" /\ token[t].tenant # None
       THEN job' = [job EXCEPT ![j].at = "createUser", ![j].tenant = token[t].tenant]
       ELSE Finish(j)
    /\ UNCHANGED <<tokens, tenancy, user, subscribers, history>>

(* Mutant: the subscriber is not linked. *)
CreateUserOnly(j) ==
    LET t == job[j].t IN
    /\ At(j, "createUser")
    /\ IF user[EmailOf[t]] = None
       THEN /\ user' = [user EXCEPT ![EmailOf[t]] =
                           [tenant |-> job[j].tenant, by |-> t]]
            /\ Goto(j, "complete")
       ELSE Finish(j) /\ UNCHANGED user
    /\ UNCHANGED <<tokens, tenancy, subscribers, history>>

(* usersService.create refuses an address that has a user. *)
CreateUser(j) ==
    LET t == job[j].t IN
    /\ At(j, "createUser")
    /\ IF user[EmailOf[t]] = None
       THEN /\ user' = [user EXCEPT ![EmailOf[t]] =
                           [tenant |-> job[j].tenant, by |-> t]]
            /\ Goto(j, "link")
       ELSE Finish(j) /\ UNCHANGED user
    /\ UNCHANGED <<tokens, tenancy, subscribers, history>>

(* Whoever found t unlinked and has not saved it yet is crossed by a link. *)
Holds(v, t, link) == saver[v] = [t |-> t, link |-> link]

NoteCrossed(t) ==
    crossed' = IF \E v \in Savers : Holds(v, t, "unlinked")
               THEN crossed \cup {t}
               ELSE crossed

(* Mutant: a user that a subscriber has already ends the request quietly. *)
LinkOrStop(j) ==
    LET t == job[j].t IN
    /\ At(j, "link")
    /\ IF \E x \in Tokens : subscriber[x] = EmailOf[t]
       THEN Finish(j) /\ UNCHANGED subscriber
       ELSE /\ subscriber' = [subscriber EXCEPT ![t] = EmailOf[t]]
            /\ Goto(j, "complete")
    /\ NoteCrossed(t)
    /\ UNCHANGED <<tokens, tenancy, user, saver, history>>

(* UPDATE subscribers ... WHERE checkoutSessionId = :id AND userId IS NULL. *)
(* userId is unique: when an administrator has linked the new user to       *)
(* another subscriber already, the UPDATE throws.                           *)
LinkSubscriber(j) ==
    LET t == job[j].t
        taken == \E x \in Tokens : subscriber[x] = EmailOf[t]
    IN  /\ At(j, "link")
        /\ \/ /\ subscriber[t] # "unlinked"
              /\ Goto(j, "complete")
              /\ UNCHANGED <<subscriber, crossed, lost>>
           \/ /\ subscriber[t] = "unlinked" /\ ~taken
              /\ subscriber' = [subscriber EXCEPT ![t] = EmailOf[t]]
              /\ NoteCrossed(t)
              /\ Goto(j, "complete")
              /\ UNCHANGED lost
           \/ /\ subscriber[t] = "unlinked" /\ taken
              /\ lost' = lost \cup {t}
              /\ Finish(j)
              /\ UNCHANGED <<subscriber, crossed>>
        /\ UNCHANGED <<tokens, tenancy, user, saver, doubled, faults>>

CompleteToken(j) ==
    LET t == job[j].t IN
    /\ At(j, "complete")
    /\ token' = [token EXCEPT ![t].step = "COMPLETED"]
    /\ used' = used \cup {t}
    /\ Finish(j)
    /\ UNCHANGED <<expired, tenancy, user, subscribers, history>>

-----------------------------------------------------------------------------
(* What others do meanwhile: users are created outside any signup, and     *)
(* subscribersService.update links a subscriber to a user.                  *)

CreateUserElsewhere(e) ==
    /\ user[e] = None
    /\ \E n \in {None} \cup {m \in Tenants : origin[m] # None} :
          user' = [user EXCEPT ![e] = [tenant |-> n, by |-> Elsewhere]]
    /\ UNCHANGED <<tokens, tenancy, subscribers, job, history>>

AdminLinks(t) ==
    /\ subscriber[t] # "missing"
    /\ \E e \in Emails :
          /\ user[e] # None
          /\ \A x \in Tokens : subscriber[x] # e
          /\ subscriber' = [subscriber EXCEPT ![t] = e]
    /\ NoteCrossed(t)
    /\ UNCHANGED <<tokens, tenancy, user, job, saver, history>>

(* ensureSubscriber of a later notification, when the first one failed to   *)
(* create the row: nobody links it if the signup is past that already.     *)
EnsureSubscriber(t) ==
    /\ subscriber[t] = "missing"
    /\ subscriber' = [subscriber EXCEPT ![t] = "unlinked"]
    /\ crossed' = IF t \in used \/ \E j \in Jobs : job[j].t = t /\ At(j, "complete")
                  THEN crossed \cup {t}
                  ELSE crossed
    /\ UNCHANGED <<tokens, tenancy, user, job, saver, history>>

(* extendSubscriberAccess finds the subscriber, deactivateExpired those    *)
(* that have expired, cancelByContext the caller's.                        *)
FindToSave(v, t) ==
    /\ saver[v] = None
    /\ subscriber[t] # "missing"
    /\ saver' = [saver EXCEPT ![v] = [t |-> t, link |-> subscriber[t]]]
    /\ UNCHANGED <<tokens, tenancy, user, subscriber, job, crossed, history>>

(* The save writes every column that differs from the row, userId too: the *)
(* link as it was found comes back.  It throws when another subscriber has *)
(* taken that user meanwhile.                                              *)
SaveSubscriber(v) ==
    /\ saver[v] # None
    /\ \A x \in Tokens \ {saver[v].t} :
          saver[v].link = "unlinked" \/ subscriber[x] # saver[v].link
    /\ subscriber' = [subscriber EXCEPT ![saver[v].t] = saver[v].link]
    /\ saver' = [saver EXCEPT ![v] = None]
    /\ UNCHANGED <<tokens, tenancy, user, job, crossed, history>>

(* The save throws, or the process stops before it. *)
DropCopy(v) ==
    /\ saver[v] # None
    /\ saver' = [saver EXCEPT ![v] = None]
    /\ UNCHANGED <<tokens, tenancy, user, subscriber, job, crossed, history>>

(* A statement throws, or the process stops: nothing is undone. *)
JobFails(j) ==
    /\ ~At(j, "idle")
    /\ faults < MaxFaults
    /\ faults' = faults + 1
    /\ lost' = lost \cup {job[j].t}
    /\ Finish(j)
    /\ UNCHANGED <<tokens, tenancy, user, subscribers, doubled>>

-----------------------------------------------------------------------------
JobStep(j) ==
    \/ ValidateForTenant(j) \/ CreateTenant(j) \/ ActivateModules(j) \/ MarkTenant(j)
    \/ ValidateForUser(j) \/ CreateUser(j) \/ LinkSubscriber(j) \/ CompleteToken(j)

Next ==
    \/ \E t \in Tokens :
          \/ Expire(t) \/ AdminLinks(t) \/ EnsureSubscriber(t)
          \/ \E v \in Savers : FindToSave(v, t)
          \/ \E j \in Jobs : \E step \in {"validate", "validateUser"} :
                Receive(j, t, step)
    \/ \E j \in Jobs : JobStep(j) \/ JobFails(j)
    \/ \E e \in Emails : CreateUserElsewhere(e)
    \/ \E v \in Savers : SaveSubscriber(v) \/ DropCopy(v)

Spec == Init /\ [][Next]_vars

Fairness == \A j \in Jobs : WF_vars(JobStep(j))

FairSpec == Spec /\ Fairness

-----------------------------------------------------------------------------
(* The user that the signup of token t created. *)
HasUser(t) == user[EmailOf[t]] # None /\ user[EmailOf[t]].by = t

LinkedOrCrossed(t) == subscriber[t] = "unlinked" => t \in crossed

(***************************************************************************)
(* An administrator created by a signup administers a tenant made for that *)
(* signup, with the plan's modules already active: no order of requests    *)
(* and no fault lets the second page overtake the first one's statements.  *)
(***************************************************************************)
EquippedBeforeUse ==
    \A t \in Tokens : HasUser(t) =>
        LET n == user[EmailOf[t]].tenant IN
        n # None /\ origin[n] = t /\ modules[n] = "plan"

(***************************************************************************)
(* A signup that says it is completed created its user, and left no        *)
(* unlinked subscriber behind: without the link the access gate finds no   *)
(* subscription for the tenant.  Two orders break it, and only they: the   *)
(* subscriber was linked while a charge or the sweep, having found it      *)
(* unlinked, was about to save it, or it was created after the signup had  *)
(* looked for it.                                                          *)
(***************************************************************************)
CompletedGivesAccess == \A t \in used : HasUser(t) /\ LinkedOrCrossed(t)

(***************************************************************************)
(* A signup that created its user and is not completed is still at work,   *)
(* or one of its requests stopped half-way.  Only then is the customer     *)
(* stuck: every retry is told that the address is taken.                   *)
(***************************************************************************)
StuckHasCause ==
    \A t \in Tokens \ used : HasUser(t) =>
        \/ t \in lost
        \/ \E j \in Jobs : job[j].t = t /\ job[j].at \in {"link", "complete"}

(***************************************************************************)
(* A second tenant for one paid session takes two requests at once, or one *)
(* that stopped half-way; repeating the request creates nothing.           *)
(***************************************************************************)
OrphanHasCause ==
    \A t \in Tokens \ (lost \cup doubled) :
        \A m, n \in Tenants : origin[m] = t /\ origin[n] = t => m = n

(***************************************************************************)
(* The tenant the token names, which the signup page shows, is the one its *)
(* user administers, unless two requests created tenants at once: then the *)
(* token may name the tenant that nobody uses.                             *)
(***************************************************************************)
NamesUsedTenant ==
    \A t \in Tokens \ doubled :
        HasUser(t) => token[t].tenant = user[EmailOf[t]].tenant

(***************************************************************************)
(* Once the user exists the signup is completed, unless a request stopped  *)
(* half-way.                                                               *)
(***************************************************************************)
UserLeadsToCompleted ==
    \A t \in Tokens : HasUser(t) ~> (t \in used \/ t \in lost)
=============================================================================
