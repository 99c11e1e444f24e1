---------------------------- MODULE Subscription ----------------------------
(***************************************************************************)
(* The life of a subscriber row: the checkout or an administrator creates  *)
(* it, the signup links its user, each approved charge extends it, the     *)
(* customer may cancel it, an administrator may patch or remove it, and an *)
(* hourly cron deactivates what has expired.  Two ways of writing meet     *)
(* there.  The signup and the administrator UPDATE named columns.  The     *)
(* charge, the cancellation and the cron find the entity and save it       *)
(* later: save writes every column that differs from the row, and inserts  *)
(* the row again if it is gone.                                            *)
(*                                                                         *)
(* Left out: lead and plan, which are data here (so which plan may be      *)
(* cancelled when is a free choice), the removal of users, and Mercado     *)
(* Pago's part of a charge, which Checkout.tla has.                        *)
(***************************************************************************)
EXTENDS Integers

CONSTANTS
    Bought,       \* subscribers of a checkout session
    Given,        \* subscribers an administrator creates, without a session
    Users,        \* users
    Jobs,         \* the charges and cancellations in flight at once
    Period,       \* how long a charge extends a subscription
    MaxTime,      \* bound: when the clock stops
    MaxFaults,    \* bound: how many jobs and sweeps stop half-way
    MaxPatches,   \* bound: how many times an administrator writes to a row
    None

Subscribers == Bought \cup Given

(* endDate NULL never expires: it is later than any time. *)
Forever == MaxTime + Period + 1

Row == [active : BOOLEAN, end : 0..Forever, user : Users \cup {None}]

ASSUME SubscriptionAssumption ==
    /\ Period \in Nat \ {0}
    /\ MaxTime \in Nat
    /\ MaxFaults \in Nat
    /\ MaxPatches \in Nat
    /\ Bought \cap Given = {}
    /\ None \notin Subscribers \cup Users \cup Row

VARIABLES
    now,          \* the clock
    row,          \* the subscribers table; None: no row
    removed,      \* the subscribers an administrator removed
    sweep,        \* what the running sweep has found and not yet saved
    job,          \* the charges and cancellations in flight
    faults,       \* how many jobs and sweeps stopped half-way
    patches,      \* how many times an administrator wrote to a row
    paidUntil,    \* history: what the last charge recorded of each paid for
    touched       \* history: what else is due, or was done to it since

vars == <<now, row, removed, sweep, job, faults, patches, paidUntil, touched>>

(* "charged": a charge is recorded and its extension not written.          *)
(* "repeated", "delayed": the last extension was of a charge that had been *)
(* recorded before, or was written some time after its charge.             *)
Touch == {"cancelled", "patched", "overwritten", "charged", "repeated", "delayed"}

Job == [at : {"idle", "extend", "extendAgain", "calls", "cancel"},
        s : Subscribers \cup {None}, copy : Row \cup {None}, since : 0..MaxTime]

Extending == {"extend", "extendAgain"}

Idle == [at |-> "idle", s |-> None, copy |-> None, since |-> 0]

NoSweep == [s \in Subscribers |-> None]

Init ==
    /\ now = 0
    /\ row = [s \in Subscribers |-> None]
    /\ removed = {}
    /\ sweep = NoSweep
    /\ job = [j \in Jobs |-> Idle]
    /\ faults = 0
    /\ patches = 0
    /\ paidUntil = [s \in Subscribers |-> 0]
    /\ touched = [s \in Subscribers |-> {}]

Tick ==
    /\ now < MaxTime
    /\ now' = now + 1
    /\ UNCHANGED <<row, removed, sweep, job, faults, paidUntil, touched, patches>>

Exists(s) == row[s] # None

(* The unique index on userId, for a row of s that names u. *)
UserFree(s, u) ==
    u = None \/ \A x \in Subscribers \ {s} : Exists(x) => row[x].user # u

Touched(s, how) == touched' = [touched EXCEPT ![s] = @ \cup {how}]

(* A save of an entity found earlier also undoes what was written since. *)
Ended(s, copy, how) ==
    touched' = [touched EXCEPT ![s] =
                   @ \cup how \cup (IF copy = row[s] THEN {} ELSE {"overwritten"})]

-----------------------------------------------------------------------------
(* ensureSubscriber creates the row of a paid session.                     *)
EnsureSubscriber(s) ==
    /\ ~Exists(s) /\ s \in Bought \ removed
    /\ row' = [row EXCEPT ![s] = [active |-> TRUE, end |-> now + Period, user |-> None]]
    /\ paidUntil' = [paidUntil EXCEPT ![s] = now + Period]
    /\ UNCHANGED <<now, removed, sweep, job, faults, touched, patches>>

(* subscribersService.create: any end, or none; active or not; any user    *)
(* that no other row names.                                                *)
Create(s) ==
    /\ ~Exists(s) /\ s \in Given \ removed
    /\ \E new \in [active : BOOLEAN, end : {now, now + Period, Forever},
                   user : Users \cup {None}] :
          /\ UserFree(s, new.user)
          /\ row' = [row EXCEPT ![s] = new]
    /\ Touched(s, "patched")
    /\ UNCHANGED <<now, removed, sweep, job, faults, paidUntil, patches>>

(* createUserStep: UPDATE ... WHERE userId IS NULL, for the session's row. *)
LinkUser(s, u) ==
    /\ Exists(s) /\ s \in Bought
    /\ row[s].user = None /\ UserFree(s, u)
    /\ row' = [row EXCEPT ![s].user = u]
    /\ UNCHANGED <<now, removed, sweep, job, faults, paidUntil, touched, patches>>

(* subscribersService.update: the columns the administrator named.         *)
Patch(s) ==
    /\ Exists(s)
    /\ patches < MaxPatches
    /\ patches' = patches + 1
    /\ \/ \E active \in BOOLEAN : row' = [row EXCEPT ![s].active = active]
       \/ \E end \in {now, now + Period, Forever} : row' = [row EXCEPT ![s].end = end]
       \/ \E u \in Users \cup {None} :
             UserFree(s, u) /\ row' = [row EXCEPT ![s].user = u]
    /\ Touched(s, "patched")
    /\ UNCHANGED <<now, removed, sweep, job, faults, paidUntil>>

Remove(s) ==
    /\ Exists(s)
    /\ row' = [row EXCEPT ![s] = None]
    /\ removed' = removed \cup {s}
    /\ UNCHANGED <<now, sweep, job, faults, paidUntil, touched, patches>>

-----------------------------------------------------------------------------
(* A notification of an approved charge: recordSubscriptionPayment inserts  *)
(* it, and swallows the unique index's refusal of one that is recorded, so  *)
(* that every notification of a charge, late or repeated, goes on to        *)
(* extendSubscriberAccess: find, then save with one more period from now.   *)

Found(j, s, at) ==
    /\ job[j].at = "idle"
    /\ Exists(s) /\ s \in Bought
    /\ job' = [job EXCEPT ![j] = [at |-> at, s |-> s, copy |-> row[s], since |-> now]]
    /\ UNCHANGED <<now, row, removed, sweep, faults, patches>>

FindForCharge(j, s) ==
    /\ Found(j, s, "extend")
    /\ paidUntil' = [paidUntil EXCEPT ![s] = now + Period]
    /\ Touched(s, "charged")

FindForRecorded(j, s) ==
    /\ Found(j, s, "extendAgain")
    /\ UNCHANGED <<paidUntil, touched>>

(* What the history keeps of an extension: it answers what was due. *)
Extended(j) ==
    touched' = [touched EXCEPT ![job[j].s] =
                   CASE job[j].at = "extendAgain" -> {"repeated"}
                     [] job[j].at = "extend" /\ job[j].since < now -> {"delayed"}
                     [] OTHER -> {}]

(* Mutant: the period is added to the end the subscriber had. *)
ExtendFromEnd(j) ==
    LET s == job[j].s IN
    /\ job[j].at \in Extending
    /\ UserFree(s, job[j].copy.user)
    /\ row' = [row EXCEPT ![s] =
                  [job[j].copy EXCEPT !.active = TRUE, !.end = @ + Period]]
    /\ Extended(j)
    /\ job' = [job EXCEPT ![j] = Idle]
    /\ UNCHANGED <<now, removed, sweep, faults, paidUntil, patches>>

Extend(j) ==
    LET s == job[j].s IN
    /\ job[j].at \in Extending
    /\ UserFree(s, job[j].copy.user)
    /\ row' = [row EXCEPT ![s] =
                  [job[j].copy EXCEPT !.active = TRUE, !.end = now + Period]]
    /\ Extended(j)
    /\ job' = [job EXCEPT ![j] = Idle]
    /\ UNCHANGED <<now, removed, sweep, faults, paidUntil, patches>>

-----------------------------------------------------------------------------
(* cancelByContext: an active subscriber with a user is ended at the time  *)
(* the request came in, after the calls to Mercado Pago.  Without a        *)
(* session there is no trial and no preapproval: the request is refused.   *)
BeginCancel(j, s) ==
    /\ job[j].at = "idle"
    /\ Exists(s) /\ s \in Bought
    /\ row[s].active /\ row[s].user # None
    /\ job' = [job EXCEPT ![j] =
                  [at |-> "calls", s |-> s, copy |-> row[s], since |-> now]]
    /\ UNCHANGED <<now, row, removed, sweep, faults, paidUntil, touched, patches>>

CallMercadoPago(j) ==
    /\ job[j].at = "calls"
    /\ job' = [job EXCEPT ![j].at = "cancel"]
    /\ UNCHANGED <<now, row, removed, sweep, faults, paidUntil, touched, patches>>

(* Mutant: only the end is written, and the cron is left to deactivate.    *)
CancelEndOnly(j) ==
    LET s == job[j].s IN
    /\ job[j].at = "cancel"
    /\ UserFree(s, job[j].copy.user)
    /\ row' = [row EXCEPT ![s] = [job[j].copy EXCEPT !.end = job[j].since]]
    /\ Ended(s, job[j].copy, {"cancelled"})
    /\ job' = [job EXCEPT ![j] = Idle]
    /\ UNCHANGED <<now, removed, sweep, faults, paidUntil, patches>>

Cancel(j) ==
    LET s == job[j].s IN
    /\ job[j].at = "cancel"
    /\ UserFree(s, job[j].copy.user)
    /\ row' = [row EXCEPT ![s] =
                  [job[j].copy EXCEPT !.active = FALSE, !.end = job[j].since]]
    /\ Ended(s, job[j].copy, {"cancelled"})
    /\ job' = [job EXCEPT ![j] = Idle]
    /\ UNCHANGED <<now, removed, sweep, faults, paidUntil, patches>>

(* A call throws (the save too, when another row took the user), or the    *)
(* process stops: the charge is lost, or the customer sees an error.       *)
JobFails(j) ==
    /\ job[j].at # "idle"
    /\ \/ UNCHANGED faults /\ ~UserFree(job[j].s, job[j].copy.user)
       \/ faults < MaxFaults /\ faults' = faults + 1
    /\ job' = [job EXCEPT ![j] = Idle]
    /\ UNCHANGED <<now, row, removed, sweep, paidUntil, touched, patches>>

-----------------------------------------------------------------------------
(* deactivateExpired: one find of everything expired, then a save of each. *)
Sweeping == \E s \in Subscribers : sweep[s] # None

(* Mutant: what ends today has ended. *)
ExpiredToday(s) == Exists(s) /\ row[s].active /\ row[s].end <= now

Expired(s) == Exists(s) /\ row[s].active /\ row[s].end < now

(* Mutant: only the subscribers somebody uses are looked for. *)
BeginSweepOfUsers ==
    /\ ~Sweeping
    /\ \E s \in Subscribers : Expired(s)
    /\ sweep' = [s \in Subscribers |->
                    IF Expired(s) /\ row[s].user # None THEN row[s] ELSE None]
    /\ UNCHANGED <<now, row, removed, job, faults, paidUntil, touched, patches>>

BeginSweep ==
    /\ ~Sweeping
    /\ \E s \in Subscribers : Expired(s)
    /\ sweep' = [s \in Subscribers |-> IF Expired(s) THEN row[s] ELSE None]
    /\ UNCHANGED <<now, row, removed, job, faults, paidUntil, touched, patches>>

Deactivate(s) ==
    /\ sweep[s] # None
    /\ UserFree(s, sweep[s].user)
    /\ row' = [row EXCEPT ![s] = [sweep[s] EXCEPT !.active = FALSE]]
    /\ Ended(s, sweep[s], {})
    /\ sweep' = [sweep EXCEPT ![s] = None]
    /\ UNCHANGED <<now, removed, job, faults, paidUntil, patches>>

(* A save that throws ends the sweep; the next hour begins another.        *)
SaveRefused ==
    /\ \E s \in Subscribers : sweep[s] # None /\ ~UserFree(s, sweep[s].user)
    /\ sweep' = NoSweep
    /\ UNCHANGED <<now, row, removed, job, faults, paidUntil, touched, patches>>

SweepFails ==
    /\ Sweeping
    /\ faults < MaxFaults
    /\ faults' = faults + 1
    /\ sweep' = NoSweep
    /\ UNCHANGED <<now, row, removed, job, paidUntil, touched, patches>>

-----------------------------------------------------------------------------
Next ==
    \/ Tick \/ BeginSweep \/ SaveRefused \/ SweepFails
    \/ \E s \in Subscribers :
          \/ EnsureSubscriber(s) \/ Create(s) \/ Patch(s) \/ Remove(s)
          \/ Deactivate(s)
          \/ \E u \in Users : LinkUser(s, u)
          \/ \E j \in Jobs :
                FindForCharge(j, s) \/ FindForRecorded(j, s) \/ BeginCancel(j, s)
    \/ \E j \in Jobs : Extend(j) \/ CallMercadoPago(j) \/ Cancel(j) \/ JobFails(j)

Spec == Init /\ [][Next]_vars

(* The cron comes round, and a sweep that runs goes on, or stops.          *)
Fairness ==
    /\ WF_vars(BeginSweep)
    /\ WF_vars(SaveRefused \/ \E s \in Subscribers : Deactivate(s))

FairSpec == Spec /\ Fairness

-----------------------------------------------------------------------------
(* Type correctness: a sweep's and a job's copies are rows.                *)
TypeOK ==
    /\ now \in 0..MaxTime
    /\ row \in [Subscribers -> Row \cup {None}]
    /\ removed \in SUBSET Subscribers
    /\ sweep \in [Subscribers -> Row \cup {None}]
    /\ job \in [Jobs -> Job]
    /\ faults \in 0..MaxFaults
    /\ patches \in 0..MaxPatches
    /\ paidUntil \in [Subscribers -> 0..Forever]
    /\ touched \in [Subscribers -> SUBSET Touch]

(* A subscriber that has paid for today is active, unless since its last   *)
(* extension it was cancelled, an administrator wrote to it, or a save of  *)
(* an older copy (the cron's, a cancellation's) went over what the charge  *)
(* wrote, or a charge is recorded whose extension is under way or was      *)
(* lost.  The cron's own find and save never end a paid access.            *)
PaidKeepsAccess ==
    \A s \in Bought :
        /\ Exists(s) /\ now <= paidUntil[s]
        /\ touched[s] \subseteq {"repeated", "delayed"}
        => row[s].active

(* An active subscriber's access ends no later than the period of its last *)
(* recorded charge does, and neither a sweep nor a cancellation, whatever  *)
(* copies they save, brings one back.  Only an administrator gives more,   *)
(* and the extension itself: it counts from the time it is written, and a  *)
(* notification of a charge that is recorded already extends once more,    *)
(* a cancelled subscriber too.                                             *)
ActiveMeansPaid ==
    \A s \in Bought :
        /\ Exists(s) /\ row[s].active
        /\ touched[s] \cap {"patched", "repeated", "delayed"} = {}
        => row[s].end <= paidUntil[s]

(* What has expired is deactivated, extended, patched or removed in the    *)
(* end, however sweeps, charges and failures interleave.                   *)
ExpiredIsDeactivated == \A s \in Subscribers : Expired(s) ~> ~Expired(s)
=============================================================================
