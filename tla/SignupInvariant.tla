--------------------------- MODULE SignupInvariant ---------------------------
(***************************************************************************)
(* The inductive invariant of the signup, in named parts: what is true of  *)
(* the tables while a request stands between two of its statements.        *)
(***************************************************************************)
EXTENDS Signup

(* The steps at which a request has created its tenant. *)
Building == {"coreModules", "planModules", "markTenant"}

(* A request works for a token; the tenant it creates is that token's, and *)
(* its modules are those activated so far.                                 *)
JobBuilds(j) ==
    /\ ~At(j, "idle") => job[j].t \in Tokens
    /\ job[j].at \in Building \cup {"createUser"} =>
          job[j].tenant \in Tenants /\ origin[job[j].tenant] = job[j].t
    /\ At(j, "coreModules") => modules[job[j].tenant] = "none"
    /\ At(j, "planModules") => modules[job[j].tenant] = "core"
    /\ job[j].at \in {"markTenant", "createUser"} => modules[job[j].tenant] = "plan"

(* No two requests build the same tenant, and nobody builds for None. *)
Built ==
    /\ \A j \in Jobs : JobBuilds(j)
    /\ \A j, k \in Jobs :
          /\ job[j].at \in Building /\ job[k].at \in Building /\ j # k
          => job[j].tenant # job[k].tenant
    /\ \A n \in Tenants : origin[n] = None => modules[n] = "none"

(* A tenant is named by its token, and used, once it has its modules. *)
Equipped ==
    /\ \A t \in Tokens : token[t].tenant # None =>
          origin[token[t].tenant] = t /\ modules[token[t].tenant] = "plan"
    /\ EquippedBeforeUse

-----------------------------------------------------------------------------
(* The copy of a subscriber is of one that exists, and, while nothing has  *)
(* crossed its link, as linked or unlinked as the row is.                  *)
CopyAgrees(v) ==
    LET t == saver[v].t IN
    saver[v] # None =>
        /\ subscriber[t] # "missing"
        /\ t \notin crossed =>
              (saver[v].link = "unlinked" <=> subscriber[t] = "unlinked")

CopiesAgree == \A v \in Savers : CopyAgrees(v)

-----------------------------------------------------------------------------
(* What the second page's statements rely on. *)
JobCompletes(j) ==
    /\ job[j].at \in {"link", "complete"} => HasUser(job[j].t)
    /\ At(j, "complete") => LinkedOrCrossed(job[j].t)

Completes ==
    /\ \A j \in Jobs : JobCompletes(j)
    /\ CompletedGivesAccess
    /\ StuckHasCause

-----------------------------------------------------------------------------
(* Requests of one token that are not doubled create tenants in turn, and  *)
(* only as long as the token names none.                                   *)
Single ==
    \A t \in Tokens \ doubled :
        /\ \A j, k \in Jobs :
              /\ job[j].t = t /\ job[j].at \in TenantSteps
              /\ job[k].t = t /\ job[k].at \in TenantSteps
              => j = k
        /\ \A j \in Jobs : job[j].t = t /\ job[j].at \in TenantSteps =>
              token[t].tenant = None
        /\ \A j \in Jobs : job[j].t = t /\ At(j, "createUser") =>
              token[t].tenant = job[j].tenant
        /\ HasUser(t) => token[t].tenant = user[EmailOf[t]].tenant

(* Every tenant of an undisturbed token is named by it or being built. *)
Accounted ==
    \A t \in Tokens \ (lost \cup doubled) : \A n \in Tenants :
        origin[n] = t =>
            \/ token[t].tenant = n
            \/ \E j \in Jobs :
                  job[j].t = t /\ job[j].at \in Building /\ job[j].tenant = n

IInv == TypeOK /\ Built /\ Equipped /\ CopiesAgree /\ Completes /\ Single /\ Accounted
=============================================================================
