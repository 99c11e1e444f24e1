-------------------------- MODULE CheckoutInvariant --------------------------
(***************************************************************************)
(* The inductive invariant of the checkout, in named parts.  Each part     *)
(* says of a job what its control point implies, because the properties of *)
(* Checkout.tla speak of the tables only and a job writes there what it    *)
(* read and checked several steps earlier.                                 *)
(***************************************************************************)
EXTENDS Checkout

(* The steps at which a job works for a payment of its session. *)
PaymentSteps ==
    {"getPayment", "findByReference", "casPaid", "recordWon", "recordLate",
     "getAuthorized", "findByAuthorized", "recordCharge"}

(* The steps before the job has found its session. *)
Asking ==
    {"idle", "getPayment", "findByReference", "getPreapproval",
     "findByPreapproval", "getAuthorized", "findByAuthorized"}

(* The steps at which the job holds a copy of the row. *)
Copying ==
    {"save", "recordCharge", "findSubscriber", "extend", "reactivate",
     "cancelPreapproval", "refund", "deactivate", "saveCancelled"}

(* A job works on one session, and past findOne that session is a row. *)
JobKnows(j) ==
    /\ ~At(j, "idle") => job[j].s \in Sessions
    /\ job[j].at \in PaymentSteps =>
          /\ job[j].p \in Payments
          /\ SessionOf[job[j].p] = job[j].s
          /\ job[j].seen \in PaymentStatus
    /\ job[j].at \notin Asking => row[job[j].s] # None
    /\ job[j].at \in Copying => job[j].snap \in Row

Known ==
    /\ \A j \in Jobs : JobKnows(j)
    /\ \A s \in Sessions : subscriber[s] # "none" => row[s] # None

(* A session's row is inserted once, and after its resource is created. *)
Fresh ==
    \A s \in Sessions :
        /\ s \in creating => row[s] = None
        /\ resource[s] = "none" => row[s] = None /\ s \notin creating

-----------------------------------------------------------------------------
(* The copies that jobs will save over the row say nothing untrue of the   *)
(* price, nor does a job that is about to set the flag.                    *)
JobPriced(j) ==
    \/ At(j, "markAdjusted")
    \/ job[j].at \in Copying /\ job[j].snap.adjusted
    => price[job[j].s] = "plan"

Priced ==
    /\ \A s \in Sessions : row[s] # None /\ row[s].adjusted => price[s] = "plan"
    /\ \A j \in Jobs : JobPriced(j)

-----------------------------------------------------------------------------
Taken == {"approved", "refunded"}

Recorded(s) == \E p \in Payments : SessionOf[p] = s /\ ledger[p] # "none"

(* The steps that give access, after a payment is approved and recorded. *)
Granting ==
    {"casFirstCharge", "ensure", "createSubscriber", "findToken", "generate", "mail"}

(* The steps of a job that found a subscriber. *)
Serviced == {"extend", "cancelPreapproval", "refund", "deactivate", "saveCancelled"}

JobPaid(j) ==
    /\ job[j].at \in PaymentSteps /\ job[j].seen = "approved" =>
          payment[job[j].p] \in Taken
    /\ job[j].at \in {"casPaid", "recordWon", "recordLate"} =>
          job[j].seen = "approved"
    /\ job[j].at \in Granting => Charged(job[j].s) /\ Recorded(job[j].s)
    /\ job[j].at \in Serviced => subscriber[job[j].s] # "none"

Paid ==
    /\ \A j \in Jobs : JobPaid(j)
    /\ \A p \in Payments : ledger[p] = "approved" => payment[p] \in Taken
    /\ \A s \in Sessions : subscriber[s] # "none" \/ s \in token =>
          Charged(s) /\ Recorded(s)

-----------------------------------------------------------------------------
(* The insert of the token has one winner, and only it sends the mail. *)
Invited ==
    /\ \A s \in Sessions : mails[s] # 0 => mails[s] = 1 /\ s \in token
    /\ \A j \in Jobs : At(j, "mail") => job[j].s \in token /\ mails[job[j].s] = 0
    /\ \A j, k \in Jobs : At(j, "mail") /\ At(k, "mail") /\ j # k =>
          job[j].s # job[k].s

-----------------------------------------------------------------------------
Served(s) ==
    \/ subscriber[s] # "none"
    \/ s \in lost
    \/ \E j \in Jobs : job[j].s = s /\ job[j].at \in Serving

(* A copy that says PAID, to be saved over the row, is of a served session. *)
Serves ==
    /\ \A s \in Sessions : row[s] # None /\ row[s].status = "PAID" => Served(s)
    /\ \A j \in Jobs : job[j].at \in Copying /\ job[j].snap.status = "PAID" =>
          Served(job[j].s)

IInv == TypeOK /\ Known /\ Fresh /\ Priced /\ Paid /\ Invited /\ Serves
=============================================================================
