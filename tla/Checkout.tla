------------------------------ MODULE Checkout ------------------------------
(***************************************************************************)
(* The checkout: a session is created at Mercado Pago and saved; Mercado   *)
(* Pago then notifies the API of payments and preapprovals, in any order,  *)
(* any number of times or never.  Each notification is an asynchronous job *)
(* (the controller answers 200 and does not wait for it), and every await  *)
(* of a job is a point where other jobs run.  A job step below is one      *)
(* round trip to the database or to Mercado Pago.                          *)
(*                                                                         *)
(* repository.save(entity) writes every column whose value in the entity   *)
(* differs from the row, so saving an entity that was read before other    *)
(* writes puts the old values back.  A query builder's UPDATE writes the   *)
(* named columns only.                                                     *)
(*                                                                         *)
(* Time is not modelled here: whether the 7-day trial still runs is a      *)
(* choice.  mpStatus, mpPaymentId, failedChargesCount and the timestamps   *)
(* of a session are left out: the code writes them and reads them only for *)
(* display.  The removal of a subscriber or a session is left out.         *)
(***************************************************************************)
EXTENDS Integers

CONSTANTS
    Sessions,     \* checkout sessions
    Payments,     \* payments at Mercado Pago
    SessionOf,    \* the session each payment belongs to
    Jobs,         \* the jobs that can be in flight at once
    MaxFaults,    \* bound: how many calls fail or restarts happen
    None

ASSUME CheckoutAssumption ==
    /\ SessionOf \in [Payments -> Sessions]
    /\ MaxFaults \in Nat
    /\ None \notin Sessions \cup Payments
    /\ None \notin [status : {"PENDING", "PAID", "FAILED", "CANCELLED"},
                    adjusted : BOOLEAN]

VARIABLES
    creating,     \* sessions created at Mercado Pago and not yet saved
    row,          \* the checkout_sessions table
    oneTime,      \* the sessions of type PREFERENCE; the others are PREAPPROVAL
    resource,     \* the status of each session's resource at Mercado Pago
    price,        \* the amount each preapproval charges: first charge or plan
    payment,      \* the status of each payment at Mercado Pago
    ledger,       \* the subscription_payments table: the status recorded
    subscriber,   \* the subscribers table, by checkout session
    token,        \* the signup_tokens table, by checkout session
    mails,        \* how many signup invitations each session was mailed
    job,          \* the jobs in flight
    lost,         \* history: the sessions a job of which met a fault
    faults        \* how many faults there were

opening == <<creating, oneTime>>
mp == <<resource, price, payment>>
tables == <<row, ledger, subscriber, token>>
history == <<lost, faults>>
vars == <<creating, oneTime, row, resource, price, payment, ledger, subscriber,
          token, mails, job, lost, faults>>

CheckoutStatus == {"PENDING", "PAID", "FAILED", "CANCELLED"}

Row == [status : CheckoutStatus, adjusted : BOOLEAN]

(* The code treats "paused" and "cancelled" preapprovals alike: "ended".   *)
ResourceStatus == {"none", "pending", "authorized", "ended"}

(* The code treats "rejected" and "cancelled" payments alike: "refused".   *)
PaymentStatus == {"none", "pending", "approved", "refused", "refunded"}

(* Where a job is: the call it makes next. *)
Step ==
    {"idle",
     "getPayment", "findByReference", "casPaid", "casFailed",
     "recordWon", "recordLate",
     "getPreapproval", "findByPreapproval", "save",
     "getAuthorized", "findByAuthorized", "recordCharge",
     "casFirstCharge", "rejectFirst", "findSubscriber", "extend", "reactivate",
     "ensure", "createSubscriber", "findToken", "generate", "mail",
     "adjust", "markAdjusted",
     "cancelPreapproval", "refund", "deactivate", "saveCancelled"}

Job == [at : Step, s : Sessions \cup {None}, p : Payments \cup {None},
        seen : PaymentStatus \cup ResourceStatus, snap : Row \cup {None}]

Idle == [at |-> "idle", s |-> None, p |-> None, seen |-> "none", snap |-> None]

TypeOK ==
    /\ creating \in SUBSET Sessions
    /\ oneTime \in SUBSET Sessions
    /\ row \in [Sessions -> Row \cup {None}]
    /\ resource \in [Sessions -> ResourceStatus]
    /\ price \in [Sessions -> {"first", "plan"}]
    /\ payment \in [Payments -> PaymentStatus]
    /\ ledger \in [Payments -> PaymentStatus]
    /\ subscriber \in [Sessions -> {"none", "active", "inactive"}]
    /\ token \in SUBSET Sessions
    /\ mails \in [Sessions -> Nat]
    /\ job \in [Jobs -> Job]
    /\ lost \in SUBSET Sessions
    /\ faults \in 0..MaxFaults

Init ==
    /\ creating = {}
    /\ oneTime = {}
    /\ row = [s \in Sessions |-> None]
    /\ resource = [s \in Sessions |-> "none"]
    /\ price = [s \in Sessions |-> "first"]
    /\ payment = [p \in Payments |-> "none"]
    /\ ledger = [p \in Payments |-> "none"]
    /\ subscriber = [s \in Sessions |-> "none"]
    /\ token = {}
    /\ mails = [s \in Sessions |-> 0]
    /\ job = [j \in Jobs |-> Idle]
    /\ lost = {}
    /\ faults = 0

At(j, step) == job[j].at = step
Goto(j, step) == job' = [job EXCEPT ![j].at = step]
Finish(j) == job' = [job EXCEPT ![j] = Idle]

-----------------------------------------------------------------------------
(* createSession and the admin's payment link: the resource is created at  *)
(* Mercado Pago first, and the session row is inserted after it.           *)

CreateResource(s) ==
    /\ resource[s] = "none"
    /\ resource' = [resource EXCEPT ![s] = "pending"]
    /\ creating' = creating \cup {s}
    /\ oneTime' \in {oneTime, oneTime \cup {s}}
    /\ UNCHANGED <<price, payment, tables, mails, job, history>>

SaveSession(s) ==
    /\ s \in creating
    /\ creating' = creating \ {s}
    /\ row' = [row EXCEPT ![s] = [status |-> "PENDING", adjusted |-> FALSE]]
    /\ UNCHANGED <<mp, oneTime, ledger, subscriber, token, mails, job, history>>

-----------------------------------------------------------------------------
(* The customer and Mercado Pago.  The payment page's address reaches the  *)
(* customer in the answer to createSession, so after the row is saved.     *)

StartPayment(p) ==
    LET s == SessionOf[p] IN
    /\ payment[p] = "none"
    /\ row[s] # None
    /\ s \in oneTime \/ resource[s] = "authorized"
    /\ payment' = [payment EXCEPT ![p] = "pending"]
    /\ UNCHANGED <<resource, price, opening, tables, mails, job, history>>

SettlePayment(p) ==
    /\ payment[p] = "pending"
    /\ \E st \in {"approved", "refused"} :
           payment' = [payment EXCEPT ![p] = st]
    /\ UNCHANGED <<resource, price, opening, tables, mails, job, history>>

MovePreapproval(s) ==
    /\ s \notin oneTime
    /\ resource[s] # "none" /\ row[s] # None
    /\ \E st \in {"authorized", "ended"} \ {resource[s]} :
           resource' = [resource EXCEPT ![s] = st]
    /\ UNCHANGED <<price, payment, opening, tables, mails, job, history>>

-----------------------------------------------------------------------------
(* handle: a notification names a payment, a merchant order, a preapproval *)
(* or a preapproval's charge; its handler asks Mercado Pago for the state. *)

Receive(j, step, s, p) ==
    /\ At(j, "idle")
    /\ job' = [job EXCEPT ![j] = [Idle EXCEPT !.at = step, !.s = s, !.p = p]]
    /\ UNCHANGED <<mp, opening, tables, mails, history>>

(* A merchant order stands for its approved payment, else for its last one. *)
OrderTargets(s) ==
    LET made == {p \in Payments : SessionOf[p] = s /\ payment[p] # "none"}
        approved == {p \in made : payment[p] = "approved"}
    IN  IF approved # {} THEN approved ELSE made

ReceiveNotification(j) ==
    \/ \E p \in Payments :
           /\ payment[p] # "none"
           /\ \/ Receive(j, "getPayment", SessionOf[p], p)
              \/ SessionOf[p] \notin oneTime
                 /\ Receive(j, "getAuthorized", SessionOf[p], p)
    \/ \E s \in oneTime : \E p \in OrderTargets(s) :
           Receive(j, "getPayment", s, p)
    \/ \E s \in Sessions \ oneTime :
           /\ resource[s] # "none"
           /\ Receive(j, "getPreapproval", s, None)

(* getPayment, getPreapproval, getAuthorizedPayment. *)
Look(j, from, to, status) ==
    /\ At(j, from)
    /\ job' = [job EXCEPT ![j].at = to, ![j].seen = status]
    /\ UNCHANGED <<mp, opening, tables, mails, history>>

AskMercadoPago(j) ==
    \/ Look(j, "getPayment", "findByReference", payment[job[j].p])
    \/ Look(j, "getAuthorized", "findByAuthorized", payment[job[j].p])
    \/ Look(j, "getPreapproval", "findByPreapproval", resource[job[j].s])

(* sessionsRepo.findOne: the job keeps its own copy of the row. *)
Read(j, to) ==
    job' = [job EXCEPT ![j].at = to, ![j].snap = row[job[j].s]]

(* The job goes on with its session and this copy of the row only. *)
Proceed(j, to, snap) ==
    job' = [job EXCEPT ![j] = [Idle EXCEPT !.at = to, !.s = job[j].s, !.snap = snap]]

HandlePayment(j) ==
    LET s == job[j].s
        seen == job[j].seen
    IN  /\ At(j, "findByReference")
        /\ IF row[s] = None \/ s \notin oneTime
           THEN Finish(j)
           ELSE \/ seen = "approved" /\ Goto(j, "casPaid")
                \/ seen = "refused" /\ Proceed(j, "casFailed", None)
                \/ seen \notin {"approved", "refused"} /\ Proceed(j, "save", row[s])
        /\ UNCHANGED <<mp, opening, tables, mails, history>>

(* Mutant: the UPDATE without its status = PENDING. *)
AnyTo(s, status) == row' = [row EXCEPT ![s].status = status]

(* UPDATE ... WHERE id = :id AND status = PENDING. *)
PendingTo(s, status) ==
    row' = IF row[s].status = "PENDING"
           THEN [row EXCEPT ![s].status = status]
           ELSE row

(* Mutant: the test of result.affected is inverted. *)
MarkPaidLoserServes(j) ==
    LET s == job[j].s IN
    /\ At(j, "casPaid")
    /\ PendingTo(s, "PAID")
    /\ Goto(j, IF row[s].status = "PENDING" THEN "recordLate" ELSE "recordWon")
    /\ UNCHANGED <<mp, opening, ledger, subscriber, token, mails, history>>

(* Mutant: the winner serves the session and records nothing. *)
MarkPaidUnrecorded(j) ==
    LET s == job[j].s IN
    /\ At(j, "casPaid")
    /\ PendingTo(s, "PAID")
    /\ IF row[s].status = "PENDING" THEN Proceed(j, "ensure", None) ELSE Finish(j)
    /\ UNCHANGED <<mp, opening, ledger, subscriber, token, mails, history>>

MarkPreferencePaid(j) ==
    LET s == job[j].s IN
    /\ At(j, "casPaid")
    /\ PendingTo(s, "PAID")
    /\ Goto(j, IF row[s].status = "PENDING" THEN "recordWon" ELSE "recordLate")
    /\ UNCHANGED <<mp, opening, ledger, subscriber, token, mails, history>>

(* subscription_payments has one row per payment: the first status stays.  *)
Record(p, status) ==
    ledger' = IF ledger[p] = "none" THEN [ledger EXCEPT ![p] = status]
                                    ELSE ledger

RecordPreferencePayment(j) ==
    /\ job[j].at \in {"recordWon", "recordLate"}
    /\ Record(job[j].p, job[j].seen)
    /\ IF At(j, "recordWon") THEN Proceed(j, "ensure", None) ELSE Finish(j)
    /\ UNCHANGED <<mp, opening, row, subscriber, token, mails, history>>

MarkFailed(j) ==
    /\ job[j].at \in {"casFailed", "rejectFirst"}
    /\ PendingTo(job[j].s, "FAILED")
    /\ Finish(j)
    /\ UNCHANGED <<mp, opening, ledger, subscriber, token, mails, history>>

(* Mutant: Mercado Pago's status goes to session.status. *)
HandlePreapprovalAsIs(j) ==
    LET s == job[j].s IN
    /\ At(j, "findByPreapproval")
    /\ IF row[s] = None
       THEN Finish(j)
       ELSE Proceed(j, "save", [row[s] EXCEPT !.status = job[j].seen])
    /\ UNCHANGED <<mp, opening, tables, mails, history>>

HandlePreapproval(j) ==
    LET s == job[j].s
        ended == /\ job[j].seen = "ended"
                 /\ row[s].status \notin {"CANCELLED", "FAILED"}
    IN  /\ At(j, "findByPreapproval")
        /\ IF row[s] = None
           THEN Finish(j)
           ELSE Proceed(j, "save", IF ended
                                   THEN [row[s] EXCEPT !.status = "CANCELLED"]
                                   ELSE row[s])
        /\ UNCHANGED <<mp, opening, tables, mails, history>>

(* sessionsRepo.save(session): the whole entity, as it was read. *)
SaveEntity(j) ==
    /\ At(j, "save")
    /\ row' = [row EXCEPT ![job[j].s] = job[j].snap]
    /\ Finish(j)
    /\ UNCHANGED <<mp, opening, ledger, subscriber, token, mails, history>>

-----------------------------------------------------------------------------
(* A charge of a preapproval. *)

HandleAuthorized(j) ==
    /\ At(j, "findByAuthorized")
    /\ IF row[job[j].s] = None THEN Finish(j) ELSE Read(j, "recordCharge")
    /\ UNCHANGED <<mp, opening, tables, mails, history>>

RecordCharge(j) ==
    LET seen == job[j].seen
        was == job[j].snap.status
    IN  /\ At(j, "recordCharge")
        /\ Record(job[j].p, seen)
        /\ IF was = "PENDING"
           THEN \/ seen = "approved" /\ Proceed(j, "casFirstCharge", None)
                \/ seen = "refused" /\ Proceed(j, "rejectFirst", None)
                \/ seen \notin {"approved", "refused"} /\ Finish(j)
           ELSE IF seen = "approved" THEN Proceed(j, "findSubscriber", job[j].snap)
                                     ELSE Finish(j)
        /\ UNCHANGED <<mp, opening, row, subscriber, token, mails, history>>

FirstCharge(j) ==
    LET s == job[j].s IN
    /\ At(j, "casFirstCharge")
    /\ PendingTo(s, "PAID")
    /\ IF row[s].status = "PENDING" THEN Proceed(j, "ensure", None) ELSE Finish(j)
    /\ UNCHANGED <<mp, opening, ledger, subscriber, token, mails, history>>

(* A charge of a session that is not PENDING, whatever its status, extends *)
(* the subscriber's access, and retries the price if the row read said so. *)
AfterExtend(j) ==
    IF job[j].snap.adjusted THEN Finish(j) ELSE Proceed(j, "adjust", None)

FindSubscriber(j) ==
    /\ At(j, "findSubscriber")
    /\ IF subscriber[job[j].s] = "none" THEN AfterExtend(j)
                                        ELSE Goto(j, "extend")
    /\ UNCHANGED <<mp, opening, tables, mails, history>>

(* The user found with the subscriber may be inactive. *)
Extend(j) ==
    /\ At(j, "extend")
    /\ subscriber' = [subscriber EXCEPT ![job[j].s] = "active"]
    /\ AfterExtend(j) \/ Goto(j, "reactivate")
    /\ UNCHANGED <<mp, opening, row, ledger, token, mails, history>>

(* The whole user, active again: Sessions.tla has what that save writes.   *)
Reactivate(j) ==
    /\ At(j, "reactivate")
    /\ AfterExtend(j)
    /\ UNCHANGED <<mp, opening, tables, mails, history>>

-----------------------------------------------------------------------------
(* What the winner of PENDING -> PAID does: the subscriber, the signup     *)
(* token, the invitation, and the plan's price on a preapproval.           *)

EnsureSubscriber(j) ==
    /\ At(j, "ensure")
    /\ Goto(j, IF subscriber[job[j].s] = "none" THEN "createSubscriber"
                                                ELSE "findToken")
    /\ UNCHANGED <<mp, opening, tables, mails, history>>

(* checkoutSessionId is unique in subscribers: a second insert is ignored. *)
CreateSubscriber(j) ==
    LET s == job[j].s IN
    /\ At(j, "createSubscriber")
    /\ subscriber' = IF subscriber[s] = "none"
                     THEN [subscriber EXCEPT ![s] = "active"]
                     ELSE subscriber
    /\ Goto(j, "findToken")
    /\ UNCHANGED <<mp, opening, row, ledger, token, mails, history>>

AfterInvite(j) ==
    IF job[j].s \in oneTime THEN Finish(j) ELSE Goto(j, "adjust")

(* Mutant: the test for an existing token is inverted. *)
FindNoToken(j) ==
    /\ At(j, "findToken")
    /\ IF job[j].s \in token THEN Goto(j, "generate") ELSE AfterInvite(j)
    /\ UNCHANGED <<mp, opening, tables, mails, history>>

FindToken(j) ==
    /\ At(j, "findToken")
    /\ IF job[j].s \in token THEN AfterInvite(j) ELSE Goto(j, "generate")
    /\ UNCHANGED <<mp, opening, tables, mails, history>>

(* Mutant: signup_tokens without its unique index. *)
GenerateAnotherToken(j) ==
    LET s == job[j].s IN
    /\ At(j, "generate")
    /\ token' = token \cup {s}
    /\ Goto(j, "mail")
    /\ UNCHANGED <<mp, opening, row, ledger, subscriber, mails, history>>

(* checkoutSessionId is unique in signup_tokens: a second insert throws,   *)
(* and handle logs it.                                                     *)
GenerateToken(j) ==
    LET s == job[j].s IN
    /\ At(j, "generate")
    /\ token' = token \cup {s}
    /\ IF s \in token THEN Finish(j) ELSE Goto(j, "mail")
    /\ UNCHANGED <<mp, opening, row, ledger, subscriber, mails, history>>

(* sendHtml retries, and gives up without throwing: see JobFails. *)
SendInvitation(j) ==
    /\ At(j, "mail")
    /\ mails' = [mails EXCEPT ![job[j].s] = @ + 1]
    /\ AfterInvite(j)
    /\ UNCHANGED <<mp, opening, tables, history>>

(* Mutant: the flag is set although the call failed. *)
AdjustPriceAtBest(j) ==
    /\ At(j, "adjust")
    /\ price' \in {price, [price EXCEPT ![job[j].s] = "plan"]}
    /\ Goto(j, "markAdjusted")
    /\ UNCHANGED <<resource, payment, opening, tables, mails, history>>

AdjustPrice(j) ==
    /\ At(j, "adjust")
    /\ price' = [price EXCEPT ![job[j].s] = "plan"]
    /\ Goto(j, "markAdjusted")
    /\ UNCHANGED <<resource, payment, opening, tables, mails, history>>

MarkAdjusted(j) ==
    /\ At(j, "markAdjusted")
    /\ row' = [row EXCEPT ![job[j].s].adjusted = TRUE]
    /\ Finish(j)
    /\ UNCHANGED <<mp, opening, ledger, subscriber, token, mails, history>>

-----------------------------------------------------------------------------
(* cancelByContext: the customer cancels the subscription. *)

(* The subscriber is the caller's, linked at signup or by an admin.  The   *)
(* plan's cycle decides, and an admin's link may pair any plan with        *)
(* either type: a MONTHLY plan cancels the preapproval first, a YEARLY one *)
(* is cancelled in its trial only and goes to the refunds.                 *)
BeginCancel(j, s) ==
    /\ At(j, "idle")
    /\ subscriber[s] = "active"
    /\ \E step \in {"cancelPreapproval", "refund"} :
           job' = [job EXCEPT ![j] =
                      [Idle EXCEPT !.at = step, !.s = s, !.snap = row[s]]]
    /\ UNCHANGED <<mp, opening, tables, mails, history>>

(* Mercado Pago knows no preapproval by a preference's id: the call throws. *)
CancelPreapproval(j) ==
    LET s == job[j].s IN
    /\ At(j, "cancelPreapproval")
    /\ IF s \in oneTime
       THEN Finish(j) /\ UNCHANGED resource
       ELSE /\ resource' = [resource EXCEPT ![s] = "ended"]
            /\ \E next \in {"refund", "deactivate"} : Goto(j, next)
    /\ UNCHANGED <<price, payment, opening, tables, mails, history>>

(* In the trial, the payments recorded as approved; a failure is skipped.  *)
Refund(j) ==
    LET paid == {p \in Payments : SessionOf[p] = job[j].s /\ ledger[p] = "approved"}
    IN  /\ At(j, "refund")
        /\ \E R \in SUBSET paid :
              payment' = [p \in Payments |-> IF p \in R THEN "refunded"
                                                        ELSE payment[p]]
        /\ Goto(j, "deactivate")
        /\ UNCHANGED <<resource, price, opening, tables, mails, history>>

Deactivate(j) ==
    /\ At(j, "deactivate")
    /\ subscriber' = [subscriber EXCEPT ![job[j].s] = "inactive"]
    /\ IF job[j].snap.status = "CANCELLED" THEN Finish(j)
                                           ELSE Goto(j, "saveCancelled")
    /\ UNCHANGED <<mp, opening, row, ledger, token, mails, history>>

SaveCancelled(j) ==
    /\ At(j, "saveCancelled")
    /\ row' = [row EXCEPT ![job[j].s] = [job[j].snap EXCEPT !.status = "CANCELLED"]]
    /\ Finish(j)
    /\ UNCHANGED <<mp, opening, ledger, subscriber, token, mails, history>>

-----------------------------------------------------------------------------
(* Faults.  A call that throws ends the job: handle catches and logs it,   *)
(* Mercado Pago was already answered 200.  Two helpers catch for           *)
(* themselves: ensureSubscriber goes on without a subscriber, and          *)
(* adjustPreapprovalAmount tries three times, then gives up.  At "ensure"  *)
(* the call that throws may be the findOne before it, which nobody catches. *)

Fault(S) ==
    /\ faults < MaxFaults
    /\ faults' = faults + 1
    /\ lost' = lost \cup S
    /\ UNCHANGED <<mp, oneTime, tables, mails>>

JobFails(j) ==
    /\ ~At(j, "idle")
    /\ \/ job[j].at \in {"ensure", "createSubscriber"} /\ Goto(j, "findToken")
       \/ At(j, "mail") /\ AfterInvite(j)
       \/ At(j, "markAdjusted") /\ Goto(j, "adjust")
       \/ job[j].at \notin {"createSubscriber", "mail"} /\ Finish(j)
    /\ Fault({job[j].s})
    /\ UNCHANGED creating

CreationFails(s) ==
    /\ s \in creating
    /\ creating' = creating \ {s}
    /\ Fault({s})
    /\ UNCHANGED job

Restart ==
    /\ Fault(creating \cup {job[j].s : j \in {k \in Jobs : ~At(k, "idle")}})
    /\ creating' = {}
    /\ job' = [j \in Jobs |-> Idle]

-----------------------------------------------------------------------------
JobStep(j) ==
    \/ AskMercadoPago(j)
    \/ HandlePayment(j) \/ MarkPreferencePaid(j) \/ RecordPreferencePayment(j)
    \/ MarkFailed(j) \/ HandlePreapproval(j) \/ SaveEntity(j)
    \/ HandleAuthorized(j) \/ RecordCharge(j) \/ FirstCharge(j)
    \/ FindSubscriber(j) \/ Extend(j) \/ Reactivate(j)
    \/ EnsureSubscriber(j) \/ CreateSubscriber(j)
    \/ FindToken(j) \/ GenerateToken(j) \/ SendInvitation(j)
    \/ AdjustPrice(j) \/ MarkAdjusted(j)
    \/ CancelPreapproval(j) \/ Refund(j) \/ Deactivate(j) \/ SaveCancelled(j)

Next ==
    \/ \E s \in Sessions :
           CreateResource(s) \/ SaveSession(s) \/ MovePreapproval(s)
           \/ CreationFails(s)
    \/ \E p \in Payments : StartPayment(p) \/ SettlePayment(p)
    \/ \E j \in Jobs :
           \/ ReceiveNotification(j) \/ JobStep(j) \/ JobFails(j)
           \/ \E s \in Sessions : BeginCancel(j, s)
    \/ Restart

Spec == Init /\ [][Next]_vars

-----------------------------------------------------------------------------
Fairness == \A j \in Jobs : WF_vars(JobStep(j))

FairSpec == Spec /\ Fairness

-----------------------------------------------------------------------------
Charged(s) ==
    \E p \in Payments : SessionOf[p] = s /\ payment[p] \in {"approved", "refunded"}

Is(s, status) == row[s] # None /\ row[s].status = status

(* The steps between PENDING -> PAID and the insert of the subscriber. *)
Serving == {"recordWon", "ensure", "createSubscriber"}

(***************************************************************************)
(* A paid session has its subscriber, or the job that won PENDING -> PAID  *)
(* is on its way to create it, or a fault hit a job of that session: the   *)
(* two writes are not one transaction, and a redelivered notification does *)
(* not make up for the second one.                                         *)
(***************************************************************************)
PaidIsServed ==
    \A s \in Sessions :
        Is(s, "PAID") =>
            \/ subscriber[s] # "none"
            \/ s \in lost
            \/ \E j \in Jobs : job[j].s = s /\ job[j].at \in Serving

(***************************************************************************)
(* No subscriber and no signup token without a charge of that session in   *)
(* subscription_payments: the cancellation's refund finds its payments     *)
(* there and nowhere else.                                                 *)
(***************************************************************************)
RecordedBeforeAccess ==
    \A s \in Sessions :
        subscriber[s] # "none" \/ s \in token =>
            \E p \in Payments : SessionOf[p] = s /\ ledger[p] # "none"

(***************************************************************************)
(* adhesionAdjusted says that Mercado Pago charges the plan's price from   *)
(* now on, whatever entities are saved over the flag.                      *)
(***************************************************************************)
AdjustedMeansPlanPrice ==
    \A s \in Sessions : row[s] # None /\ row[s].adjusted => price[s] = "plan"

(***************************************************************************)
(* Once a session left PENDING, two racing notifications never overwrite   *)
(* each other's outcome: only a job that saves a whole entity (and so the  *)
(* status it read earlier, or CANCELLED) changes the status again.         *)
(***************************************************************************)
SettledChangesByEntityOnly ==
    [][\A s \in Sessions :
          row[s] # None /\ ~Is(s, "PENDING") /\ row'[s].status # row[s].status =>
              \E j \in Jobs :
                  /\ job[j].s = s
                  /\ job[j].at \in {"save", "saveCancelled"}
                  /\ row'[s].status \in {job[j].snap.status, "CANCELLED"}]_vars

(***************************************************************************)
(* At most one subscriber and one invitation for a session, and none       *)
(* before a payment of it was approved.                                    *)
(***************************************************************************)
Promise == INSTANCE Provisioning WITH
    charged <- {s \in Sessions : Charged(s)},
    provisioned <- {s \in Sessions : subscriber[s] # "none"},
    invites <- mails

ProvisionsOnce == Promise!Spec

(***************************************************************************)
(* A paid session gets its subscriber and its invitation when no call      *)
(* fails, although the entities other jobs save may turn it back meanwhile. *)
(***************************************************************************)
PaidLeadsToAccess ==
    \A s \in Sessions : Is(s, "PAID") ~> (subscriber[s] # "none" /\ mails[s] = 1)
=============================================================================
