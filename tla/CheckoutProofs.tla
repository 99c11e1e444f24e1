--------------------------- MODULE CheckoutProofs ---------------------------
(***************************************************************************)
(* The checkout: what each way of moving a job does to it, and the proof   *)
(* that every table and every job keeps its type, inductive only with      *)
(* Known (a write to row[s] is typed because a job past findOne has its    *)
(* row, and one to ledger[p] because a job at a payment step has its p);   *)
(* then the parts of IInv one after the other, each with one step for each *)
(* action, the properties that follow from it, and the refinement of       *)
(* Provisioning.                                                           *)
(***************************************************************************)
EXTENDS CheckoutInvariant, TLAPS

USE CheckoutAssumption

-----------------------------------------------------------------------------
(* Records and rows. *)
LEMMA IdleType == Idle \in Job
  BY DEF Idle, Job, Step, PaymentStatus

LEMMA NoneIsNoRow == None \notin Row
  BY DEF Row, CheckoutStatus

LEMMA RowUpdate ==
    ASSUME NEW r \in Row
    PROVE  /\ \A status \in CheckoutStatus :
                 /\ [r EXCEPT !.status = status] \in Row
                 /\ [r EXCEPT !.status = status].status = status
                 /\ [r EXCEPT !.status = status].adjusted = r.adjusted
           /\ [r EXCEPT !.adjusted = TRUE] \in Row
           /\ [r EXCEPT !.adjusted = TRUE].status = r.status
  BY DEF Row

-----------------------------------------------------------------------------
(* How a job moves: its own fields after the step, and nobody else's job. *)
LEMMA GotoType ==
    ASSUME job \in [Jobs -> Job], NEW j \in Jobs, NEW to \in Step, Goto(j, to)
    PROVE  job' \in [Jobs -> Job]
<1>1. job' = [job EXCEPT ![j] = [job[j] EXCEPT !.at = to]]
  BY DEF Goto
<1>2. [job[j] EXCEPT !.at = to] \in Job
  BY DEF Job
<1> QED
  BY <1>1, <1>2

LEMMA GotoEffect ==
    ASSUME job \in [Jobs -> Job], NEW j \in Jobs, NEW to, Goto(j, to)
    PROVE  /\ \A k \in Jobs \ {j} : job'[k] = job[k]
           /\ job'[j].at = to
           /\ job'[j].s = job[j].s
           /\ job'[j].p = job[j].p
           /\ job'[j].seen = job[j].seen
           /\ job'[j].snap = job[j].snap
<1>1. job' = [job EXCEPT ![j] = [job[j] EXCEPT !.at = to]]
  BY DEF Goto
<1> QED
  BY <1>1 DEF Job

LEMMA FinishEffect ==
    ASSUME job \in [Jobs -> Job], NEW j \in Jobs, Finish(j)
    PROVE  /\ job' \in [Jobs -> Job]
           /\ \A k \in Jobs \ {j} : job'[k] = job[k]
           /\ job'[j] = Idle
           /\ job'[j].at = "idle"
           /\ job'[j].snap = None
  BY IdleType DEF Finish, Idle

LEMMA ProceedType ==
    ASSUME job \in [Jobs -> Job], NEW j \in Jobs, NEW to \in Step,
           NEW snap \in Row \cup {None}, Proceed(j, to, snap)
    PROVE  job' \in [Jobs -> Job]
<1>1. [Idle EXCEPT !.at = to, !.s = job[j].s, !.snap = snap] \in Job
  BY IdleType DEF Job
<1> QED
  BY <1>1 DEF Proceed

LEMMA ProceedEffect ==
    ASSUME job \in [Jobs -> Job], NEW j \in Jobs, NEW to, NEW snap,
           Proceed(j, to, snap)
    PROVE  /\ \A k \in Jobs \ {j} : job'[k] = job[k]
           /\ job'[j].at = to
           /\ job'[j].s = job[j].s
           /\ job'[j].snap = snap
           /\ job'[j].seen = "none"
  BY DEF Proceed, Idle

LEMMA ReceiveEffect ==
    ASSUME job \in [Jobs -> Job], NEW j \in Jobs, NEW step \in Step,
           NEW s \in Sessions, NEW p \in Payments \cup {None}, Receive(j, step, s, p)
    PROVE  /\ job' \in [Jobs -> Job]
           /\ \A k \in Jobs \ {j} : job'[k] = job[k]
           /\ job'[j].at = step
           /\ job'[j].s = s
           /\ job'[j].p = p
           /\ job'[j].seen = "none"
           /\ job'[j].snap = None
<1>1. [Idle EXCEPT !.at = step, !.s = s, !.p = p] \in Job
  BY IdleType DEF Job
<1> QED
  BY <1>1 DEF Receive, Idle

-----------------------------------------------------------------------------
(* How the tables move. *)

(* The guarded UPDATE moves a PENDING row and leaves any other alone. *)
LEMMA PendingEffect ==
    ASSUME row \in [Sessions -> Row \cup {None}],
           NEW s \in Sessions, row[s] # None,
           NEW status \in CheckoutStatus, PendingTo(s, status)
    PROVE  /\ row' \in [Sessions -> Row \cup {None}]
           /\ \A r \in Sessions \ {s} : row'[r] = row[r]
           /\ row'[s] \in Row
           /\ row'[s].adjusted = row[s].adjusted
           /\ row[s].status = "PENDING" => row'[s].status = status
           /\ row[s].status # "PENDING" => row'[s] = row[s]
           /\ \A r \in Sessions : row[r] # None => row'[r] # None
<1>1. row[s] \in Row
  OBVIOUS
<1>2. CASE row[s].status = "PENDING"
  <2>1. row' = [row EXCEPT ![s] = [row[s] EXCEPT !.status = status]]
    BY <1>2 DEF PendingTo
  <2>2. /\ [row[s] EXCEPT !.status = status] \in Row
        /\ [row[s] EXCEPT !.status = status].status = status
        /\ [row[s] EXCEPT !.status = status].adjusted = row[s].adjusted
    BY <1>1, RowUpdate
  <2> QED
    BY <1>2, <2>1, <2>2, NoneIsNoRow
<1>3. CASE row[s].status # "PENDING"
  BY <1>1, <1>3, NoneIsNoRow DEF PendingTo
<1> QED
  BY <1>2, <1>3

(* A save of a whole entity leaves a row where it finds one. *)
LEMMA SaveEffect ==
    ASSUME row \in [Sessions -> Row \cup {None}],
           NEW s \in Sessions, NEW r \in Row, row' = [row EXCEPT ![s] = r]
    PROVE  /\ row' \in [Sessions -> Row \cup {None}]
           /\ row'[s] = r
           /\ \A q \in Sessions \ {s} : row'[q] = row[q]
           /\ \A q \in Sessions : row[q] # None => row'[q] # None
  BY NoneIsNoRow

-----------------------------------------------------------------------------
(* The handlers whose effect on their job is more than one of those. *)
LEMMA ReadEffect ==
    ASSUME job \in [Jobs -> Job], NEW j \in Jobs, NEW to, Read(j, to)
    PROVE  /\ \A k \in Jobs \ {j} : job'[k] = job[k]
           /\ job'[j].at = to
           /\ job'[j].s = job[j].s
           /\ job'[j].p = job[j].p
           /\ job'[j].seen = job[j].seen
           /\ job'[j].snap = row[job[j].s]
  BY DEF Read, Job

LEMMA NotificationEffect ==
    ASSUME job \in [Jobs -> Job], NEW j \in Jobs, ReceiveNotification(j)
    PROVE  /\ job' \in [Jobs -> Job]
           /\ \A k \in Jobs \ {j} : job'[k] = job[k]
           /\ At(j, "idle")
           /\ job'[j].at \in {"getPayment", "getAuthorized", "getPreapproval"}
           /\ job'[j].s \in Sessions
           /\ job'[j].at # "getPreapproval" =>
                 job'[j].p \in Payments /\ SessionOf[job'[j].p] = job'[j].s
           /\ job'[j].seen = "none"
           /\ UNCHANGED <<mp, opening, tables, mails, history>>
<1>1. PICK step \in {"getPayment", "getAuthorized", "getPreapproval"},
           s \in Sessions, p \in Payments \cup {None} :
        /\ Receive(j, step, s, p)
        /\ step # "getPreapproval" => p \in Payments /\ SessionOf[p] = s
  <2>1. CASE \E p \in Payments :
               \/ Receive(j, "getPayment", SessionOf[p], p)
               \/ Receive(j, "getAuthorized", SessionOf[p], p)
    BY <2>1
  <2>2. CASE \E s \in oneTime : \E p \in OrderTargets(s) : Receive(j, "getPayment", s, p)
    BY <2>2 DEF OrderTargets
  <2>3. CASE \E s \in Sessions : Receive(j, "getPreapproval", s, None)
    BY <2>3
  <2> QED
    BY <2>1, <2>2, <2>3 DEF ReceiveNotification
<1>2. step \in Step
  BY DEF Step
<1>3. At(j, "idle") /\ UNCHANGED <<mp, opening, tables, mails, history>>
  BY <1>1 DEF Receive
<1> QED
  BY <1>1, <1>2, <1>3, ReceiveEffect

LEMMA AskEffect ==
    ASSUME TypeOK, NEW j \in Jobs, JobKnows(j), AskMercadoPago(j)
    PROVE  /\ job' \in [Jobs -> Job]
           /\ \A k \in Jobs \ {j} : job'[k] = job[k]
           /\ job'[j].s = job[j].s
           /\ job'[j].p = job[j].p
           /\ job'[j].snap = job[j].snap
           /\ \/ /\ At(j, "getPayment") /\ job'[j].at = "findByReference"
                 /\ job'[j].seen = payment[job[j].p]
              \/ /\ At(j, "getAuthorized") /\ job'[j].at = "findByAuthorized"
                 /\ job'[j].seen = payment[job[j].p]
              \/ /\ At(j, "getPreapproval") /\ job'[j].at = "findByPreapproval"
                 /\ job'[j].seen = resource[job[j].s]
           /\ UNCHANGED <<mp, opening, tables, mails, history>>
<1>1. job \in [Jobs -> Job]
  BY DEF TypeOK
<1>2. PICK to \in {"findByReference", "findByAuthorized", "findByPreapproval"},
           seen \in PaymentStatus \cup ResourceStatus :
        /\ job' = [job EXCEPT ![j] = [job[j] EXCEPT !.at = to, !.seen = seen]]
        /\ UNCHANGED <<mp, opening, tables, mails, history>>
        /\ \/ At(j, "getPayment") /\ to = "findByReference" /\ seen = payment[job[j].p]
           \/ At(j, "getAuthorized") /\ to = "findByAuthorized" /\ seen = payment[job[j].p]
           \/ At(j, "getPreapproval") /\ to = "findByPreapproval" /\ seen = resource[job[j].s]
  BY DEF AskMercadoPago, Look, At, JobKnows, PaymentSteps, TypeOK
<1>3. [job[j] EXCEPT !.at = to, !.seen = seen] \in Job
  <2>1. job[j] \in Job /\ to \in Step
    BY <1>1 DEF Step
  <2> QED
    BY <2>1 DEF Job
<1> QED
  BY <1>1, <1>2, <1>3 DEF Job

LEMMA PreapprovalEffect ==
    ASSUME row \in [Sessions -> Row \cup {None}], NEW j \in Jobs, job[j].s \in Sessions,
           HandlePreapproval(j)
    PROVE  \/ Finish(j)
           \/ /\ row[job[j].s] # None
              /\ \E copy \in Row :
                    /\ Proceed(j, "save", copy)
                    /\ copy.adjusted = row[job[j].s].adjusted
                    /\ copy.status \in {row[job[j].s].status, "CANCELLED"}
<1>1. CASE row[job[j].s] = None
  BY <1>1 DEF HandlePreapproval
<1>2. CASE row[job[j].s] # None
  <2>1. row[job[j].s] \in Row
    BY <1>2
  <2>2. /\ [row[job[j].s] EXCEPT !.status = "CANCELLED"] \in Row
        /\ [row[job[j].s] EXCEPT !.status = "CANCELLED"].status = "CANCELLED"
        /\ [row[job[j].s] EXCEPT !.status = "CANCELLED"].adjusted = row[job[j].s].adjusted
    BY <2>1, RowUpdate DEF CheckoutStatus
  <2> QED
    BY <1>2, <2>1, <2>2 DEF HandlePreapproval
<1> QED
  BY <1>1, <1>2

(* The ledger keeps the first status of a payment. *)
LEMMA RecordEffect ==
    ASSUME ledger \in [Payments -> PaymentStatus], NEW p \in Payments,
           NEW status \in PaymentStatus, Record(p, status)
    PROVE  /\ ledger' \in [Payments -> PaymentStatus]
           /\ \A q \in Payments : ledger[q] # "none" => ledger'[q] = ledger[q]
           /\ status # "none" => ledger'[p] # "none"
           /\ \A q \in Payments : ledger'[q] = "approved" =>
                 ledger[q] = "approved" \/ (q = p /\ status = "approved")
  BY DEF Record

LEMMA CancelEffect ==
    ASSUME TypeOK, Known, NEW j \in Jobs, NEW s \in Sessions, BeginCancel(j, s)
    PROVE  /\ job' \in [Jobs -> Job]
           /\ \A k \in Jobs \ {j} : job'[k] = job[k]
           /\ row[s] # None
           /\ At(j, "idle")
           /\ job'[j].at \in {"cancelPreapproval", "refund"}
           /\ job'[j].s = s
           /\ job'[j].snap = row[s]
           /\ UNCHANGED <<mp, opening, tables, mails, history>>
<1>1. /\ job \in [Jobs -> Job] /\ row[s] # None /\ row[s] \in Row
      /\ At(j, "idle")
      /\ UNCHANGED <<mp, opening, tables, mails, history>>
  BY DEF TypeOK, Known, BeginCancel
<1>2. PICK step \in {"cancelPreapproval", "refund"} :
        job' = [job EXCEPT ![j] = [Idle EXCEPT !.at = step, !.s = s, !.snap = row[s]]]
  BY DEF BeginCancel
<1>3. [Idle EXCEPT !.at = step, !.s = s, !.snap = row[s]] \in Job
  BY <1>1, IdleType DEF Job, Step
<1> QED
  BY <1>1, <1>2, <1>3 DEF Idle

-----------------------------------------------------------------------------
(* A step of one job disturbs what the others know in the tables only. *)
LEMMA KnownFrame ==
    ASSUME Known, NEW j \in Jobs,
           \A k \in Jobs \ {j} : job'[k] = job[k],
           \A k \in Jobs \ {j} : job[k].at \notin Asking => job[k].s \in Sessions,
           \A s \in Sessions : row[s] # None => row'[s] # None,
           \A s \in Sessions : subscriber'[s] # "none" => row'[s] # None,
           JobKnows(j)'
    PROVE  Known'
<1>1. ASSUME NEW k \in Jobs \ {j} PROVE JobKnows(k)'
  <2>1. JobKnows(k) /\ job'[k] = job[k]
    BY DEF Known
  <2> QED
    BY <2>1 DEF JobKnows, At
<1> QED
  BY <1>1 DEF Known

(* Types and Known together, one step for each action. *)
LEMMA KnownStep == TypeOK /\ Known /\ [Next]_vars => TypeOK' /\ Known'
<1> SUFFICES ASSUME TypeOK, Known, [Next]_vars PROVE TypeOK' /\ Known'
  OBVIOUS
<1>1. ASSUME NEW s \in Sessions, CreateResource(s) PROVE TypeOK' /\ Known'
  BY <1>1, NoneIsNoRow
  DEF TypeOK, Known, JobKnows, At, CreateResource, tables, history,
      ResourceStatus
<1>2. ASSUME NEW s \in Sessions, SaveSession(s) PROVE TypeOK' /\ Known'
  <2>1. row \in [Sessions -> Row \cup {None}]
    BY DEF TypeOK
  <2>2. [status |-> "PENDING", adjusted |-> FALSE] \in Row
    BY DEF Row, CheckoutStatus
  <2>3. /\ row' \in [Sessions -> Row \cup {None}]
        /\ \A r \in Sessions : row[r] # None => row'[r] # None
    BY <1>2, <2>1, <2>2, SaveEffect DEF SaveSession
  <2>4. TypeOK'
    BY <1>2, <2>3 DEF TypeOK, SaveSession, mp, history
  <2>5. ASSUME NEW j \in Jobs PROVE JobKnows(j)'
    <3>1. JobKnows(j) /\ job' = job
      BY <1>2 DEF Known, SaveSession
    <3> QED
      BY <2>3, <3>1 DEF JobKnows, At, Asking
  <2> QED
    BY <1>2, <2>3, <2>4, <2>5 DEF Known, SaveSession
<1>3. ASSUME NEW s \in Sessions, MovePreapproval(s) PROVE TypeOK' /\ Known'
  BY <1>3, NoneIsNoRow
  DEF TypeOK, Known, JobKnows, At, MovePreapproval, opening, tables, history,
      ResourceStatus
<1>4. ASSUME NEW p \in Payments, StartPayment(p) PROVE TypeOK' /\ Known'
  BY <1>4, NoneIsNoRow
  DEF TypeOK, Known, JobKnows, At, StartPayment, opening, tables, history,
      PaymentStatus
<1>5. ASSUME NEW p \in Payments, SettlePayment(p) PROVE TypeOK' /\ Known'
  BY <1>5, NoneIsNoRow
  DEF TypeOK, Known, JobKnows, At, SettlePayment, opening, tables, history,
      PaymentStatus
<1>6. ASSUME NEW j \in Jobs, ReceiveNotification(j) PROVE TypeOK' /\ Known'
  <2>1. job \in [Jobs -> Job]
    BY DEF TypeOK
  <2>2. /\ job' \in [Jobs -> Job]
        /\ \A k \in Jobs \ {j} : job'[k] = job[k]
        /\ JobKnows(j)'
    BY <1>6, <2>1, NotificationEffect
    DEF JobKnows, At, PaymentSteps, Copying, Asking, PaymentStatus, tables
  <2>3. TypeOK' /\ row' = row /\ subscriber' = subscriber
    BY <1>6, <2>1, <2>2, NotificationEffect
    DEF TypeOK, mp, opening, tables, history
  <2> QED
    BY <2>2, <2>3, KnownFrame DEF Known, JobKnows, At, Asking
<1>7. ASSUME NEW j \in Jobs, AskMercadoPago(j) PROVE TypeOK' /\ Known'
  <2>1. JobKnows(j)
    BY DEF Known
  <2>2. /\ job' \in [Jobs -> Job]
        /\ \A k \in Jobs \ {j} : job'[k] = job[k]
    BY <1>7, <2>1, AskEffect
  <2>3. TypeOK' /\ row' = row /\ subscriber' = subscriber
    BY <1>7, <2>2
    DEF TypeOK, AskMercadoPago, Look, mp, opening, tables, history
  <2>4. JobKnows(j)'
    BY <1>7, <2>1, <2>3, AskEffect
    DEF TypeOK, JobKnows, At, PaymentSteps, Copying, Asking
  <2> QED
    BY <2>2, <2>3, <2>4, KnownFrame DEF Known, JobKnows, At, Asking
<1>8. ASSUME NEW j \in Jobs, HandlePayment(j) PROVE TypeOK' /\ Known'
  <2>1. job \in [Jobs -> Job] /\ row \in [Sessions -> Row \cup {None}] /\ JobKnows(j)
    BY DEF TypeOK, Known
  <2>2. job' \in [Jobs -> Job]
    BY <1>8, <2>1, GotoType, FinishEffect, ProceedType
    DEF JobKnows, At, HandlePayment, mp, opening, tables, history, Step,
        PaymentSteps, Copying, Asking
  <2>3. /\ \A k \in Jobs \ {j} : job'[k] = job[k]
        /\ JobKnows(j)'
    BY <1>8, <2>1, GotoEffect, FinishEffect, ProceedEffect
    DEF JobKnows, At, HandlePayment, mp, opening, tables, history,
        PaymentSteps, Copying, Asking
  <2>4. TypeOK'
    BY <1>8, <2>1, <2>2
    DEF TypeOK, JobKnows, At, HandlePayment, mp, opening, tables, history,
        PaymentSteps, Copying, Asking
  <2> QED
    BY <1>8, <2>1, <2>3, <2>4, KnownFrame
    DEF Known, TypeOK, JobKnows, At, HandlePayment, mp, opening, tables,
        history, Asking, Copying
<1>9. ASSUME NEW j \in Jobs, MarkPreferencePaid(j) PROVE TypeOK' /\ Known'
  <2>1. job \in [Jobs -> Job] /\ row \in [Sessions -> Row \cup {None}] /\ JobKnows(j)
    BY DEF TypeOK, Known
  <2>2. job[j].s \in Sessions /\ row[job[j].s] # None
    BY <1>9, <2>1 DEF JobKnows, At, MarkPreferencePaid, Asking
  <2>3. /\ row' \in [Sessions -> Row \cup {None}]
        /\ \A r \in Sessions : row[r] # None => row'[r] # None
    BY <1>9, <2>1, <2>2, PendingEffect DEF MarkPreferencePaid, CheckoutStatus
  <2>4. job' \in [Jobs -> Job]
    BY <1>9, <2>1, GotoType DEF MarkPreferencePaid, Step
  <2>5. /\ \A k \in Jobs \ {j} : job'[k] = job[k]
        /\ JobKnows(j)'
    BY <1>9, <2>1, <2>2, <2>3, GotoEffect
    DEF MarkPreferencePaid, JobKnows, At, PaymentSteps, Copying, Asking
  <2>6. TypeOK'
    BY <1>9, <2>3, <2>4 DEF TypeOK, MarkPreferencePaid, mp, opening, history
  <2> QED
    BY <1>9, <2>1, <2>3, <2>5, <2>6, KnownFrame
    DEF Known, JobKnows, At, MarkPreferencePaid, Asking
<1>10. ASSUME NEW j \in Jobs, RecordPreferencePayment(j) PROVE TypeOK' /\ Known'
  <2>1. job \in [Jobs -> Job] /\ row \in [Sessions -> Row \cup {None}] /\ JobKnows(j)
    BY DEF TypeOK, Known
  <2>2. job' \in [Jobs -> Job]
    BY <1>10, <2>1, FinishEffect, ProceedType
    DEF JobKnows, At, RecordPreferencePayment, Record, mp, opening, history,
        Step, PaymentSteps, Copying, Asking
  <2>3. /\ \A k \in Jobs \ {j} : job'[k] = job[k]
        /\ JobKnows(j)'
    BY <1>10, <2>1, FinishEffect, ProceedEffect
    DEF JobKnows, At, RecordPreferencePayment, Record, mp, opening, history,
        PaymentSteps, Copying, Asking
  <2>4. TypeOK'
    BY <1>10, <2>1, <2>2
    DEF TypeOK, JobKnows, At, RecordPreferencePayment, Record, mp, opening,
        history, PaymentSteps, Copying, Asking
  <2> QED
    BY <1>10, <2>1, <2>3, <2>4, KnownFrame
    DEF Known, TypeOK, JobKnows, At, RecordPreferencePayment, Record, mp,
        opening, history, Asking, Copying
<1>11. ASSUME NEW j \in Jobs, MarkFailed(j) PROVE TypeOK' /\ Known'
  <2>1. job \in [Jobs -> Job] /\ row \in [Sessions -> Row \cup {None}] /\ JobKnows(j)
    BY DEF TypeOK, Known
  <2>2. job[j].s \in Sessions /\ row[job[j].s] # None
    BY <1>11, <2>1 DEF JobKnows, At, MarkFailed, Asking
  <2>3. /\ row' \in [Sessions -> Row \cup {None}]
        /\ \A r \in Sessions : row[r] # None => row'[r] # None
    BY <1>11, <2>1, <2>2, PendingEffect DEF MarkFailed, CheckoutStatus
  <2>4. job' \in [Jobs -> Job]
    BY <1>11, <2>1, FinishEffect DEF MarkFailed, Step
  <2>5. /\ \A k \in Jobs \ {j} : job'[k] = job[k]
        /\ JobKnows(j)'
    BY <1>11, <2>1, <2>2, <2>3, FinishEffect
    DEF MarkFailed, JobKnows, At, PaymentSteps, Copying, Asking
  <2>6. TypeOK'
    BY <1>11, <2>3, <2>4 DEF TypeOK, MarkFailed, mp, opening, history
  <2> QED
    BY <1>11, <2>1, <2>3, <2>5, <2>6, KnownFrame
    DEF Known, JobKnows, At, MarkFailed, Asking
<1>12. ASSUME NEW j \in Jobs, HandlePreapproval(j) PROVE TypeOK' /\ Known'
  <2>1. job \in [Jobs -> Job] /\ row \in [Sessions -> Row \cup {None}] /\ JobKnows(j)
    BY DEF TypeOK, Known
  <2>2. job[j].s \in Sessions /\ job[j].at = "findByPreapproval"
    BY <1>12, <2>1 DEF JobKnows, At, HandlePreapproval
  <2>3. \/ Finish(j)
        \/ /\ row[job[j].s] # None
           /\ \E copy \in Row : Proceed(j, "save", copy)
    BY <1>12, <2>1, <2>2, PreapprovalEffect
  <2>4. row' = row /\ subscriber' = subscriber
    BY <1>12 DEF HandlePreapproval, tables
  <2>5. job' \in [Jobs -> Job]
    BY <2>1, <2>3, FinishEffect, ProceedType DEF Step
  <2>6. /\ \A k \in Jobs \ {j} : job'[k] = job[k]
        /\ JobKnows(j)'
    BY <2>1, <2>2, <2>3, <2>4, FinishEffect, ProceedEffect
    DEF JobKnows, At, PaymentSteps, Copying, Asking
  <2>7. TypeOK'
    BY <1>12, <2>5 DEF TypeOK, HandlePreapproval, mp, opening, tables, history
  <2> QED
    BY <2>4, <2>6, <2>7, KnownFrame DEF Known, JobKnows, At, Asking
<1>13. ASSUME NEW j \in Jobs, SaveEntity(j) PROVE TypeOK' /\ Known'
  <2>1. job \in [Jobs -> Job] /\ row \in [Sessions -> Row \cup {None}] /\ JobKnows(j)
    BY DEF TypeOK, Known
  <2>2. job[j].s \in Sessions /\ row[job[j].s] # None /\ job[j].snap \in Row
    BY <1>13, <2>1 DEF JobKnows, At, SaveEntity, Asking, Copying
  <2>3. /\ row' \in [Sessions -> Row \cup {None}]
        /\ \A r \in Sessions : row[r] # None => row'[r] # None
    BY <1>13, <2>1, <2>2, SaveEffect DEF SaveEntity
  <2>4. job' \in [Jobs -> Job]
    BY <1>13, <2>1, FinishEffect DEF SaveEntity
  <2>5. /\ \A k \in Jobs \ {j} : job'[k] = job[k]
        /\ JobKnows(j)'
    BY <1>13, <2>1, FinishEffect
    DEF SaveEntity, JobKnows, At, PaymentSteps, Copying, Asking
  <2>6. TypeOK'
    BY <1>13, <2>3, <2>4 DEF TypeOK, SaveEntity, mp, opening, history
  <2> QED
    BY <1>13, <2>1, <2>3, <2>5, <2>6, KnownFrame
    DEF Known, JobKnows, At, SaveEntity, Asking
<1>14. ASSUME NEW j \in Jobs, HandleAuthorized(j) PROVE TypeOK' /\ Known'
  <2>1. job \in [Jobs -> Job] /\ row \in [Sessions -> Row \cup {None}] /\ JobKnows(j)
    BY DEF TypeOK, Known
  <2>2. job' \in [Jobs -> Job]
    BY <1>14, <2>1, FinishEffect, ReadEffect
    DEF JobKnows, At, HandleAuthorized, mp, opening, tables, history, Read,
        Step, PaymentSteps, Copying, Asking, Job, Idle
  <2>3. /\ \A k \in Jobs \ {j} : job'[k] = job[k]
        /\ JobKnows(j)'
    BY <1>14, <2>1, FinishEffect, ReadEffect
    DEF JobKnows, At, HandleAuthorized, mp, opening, tables, history, Read,
        PaymentSteps, Copying, Asking, Job, Idle
  <2>4. TypeOK'
    BY <1>14, <2>1, <2>2
    DEF TypeOK, JobKnows, At, HandleAuthorized, mp, opening, tables, history,
        Read, PaymentSteps, Copying, Asking
  <2> QED
    BY <1>14, <2>1, <2>3, <2>4, KnownFrame
    DEF Known, TypeOK, JobKnows, At, HandleAuthorized, mp, opening, tables,
        history, Read, Asking, Copying
<1>15. ASSUME NEW j \in Jobs, RecordCharge(j) PROVE TypeOK' /\ Known'
  <2>1. job \in [Jobs -> Job] /\ row \in [Sessions -> Row \cup {None}] /\ JobKnows(j)
    BY DEF TypeOK, Known
  <2>2. job' \in [Jobs -> Job]
    BY <1>15, <2>1, FinishEffect, ProceedType
    DEF JobKnows, At, RecordCharge, Record, mp, opening, history, Step,
        PaymentSteps, Copying, Asking
  <2>3. /\ \A k \in Jobs \ {j} : job'[k] = job[k]
        /\ JobKnows(j)'
    BY <1>15, <2>1, FinishEffect, ProceedEffect
    DEF JobKnows, At, RecordCharge, Record, mp, opening, history, PaymentSteps,
        Copying, Asking
  <2>4. TypeOK'
    BY <1>15, <2>1, <2>2
    DEF TypeOK, JobKnows, At, RecordCharge, Record, mp, opening, history,
        PaymentSteps, Copying, Asking
  <2> QED
    BY <1>15, <2>1, <2>3, <2>4, KnownFrame
    DEF Known, TypeOK, JobKnows, At, RecordCharge, Record, mp, opening,
        history, Asking, Copying
<1>16. ASSUME NEW j \in Jobs, FirstCharge(j) PROVE TypeOK' /\ Known'
  <2>1. job \in [Jobs -> Job] /\ row \in [Sessions -> Row \cup {None}] /\ JobKnows(j)
    BY DEF TypeOK, Known
  <2>2. job[j].s \in Sessions /\ row[job[j].s] # None
    BY <1>16, <2>1 DEF JobKnows, At, FirstCharge, Asking
  <2>3. /\ row' \in [Sessions -> Row \cup {None}]
        /\ \A r \in Sessions : row[r] # None => row'[r] # None
    BY <1>16, <2>1, <2>2, PendingEffect DEF FirstCharge, CheckoutStatus
  <2>4. job' \in [Jobs -> Job]
    BY <1>16, <2>1, FinishEffect, ProceedType DEF FirstCharge, Step
  <2>5. /\ \A k \in Jobs \ {j} : job'[k] = job[k]
        /\ JobKnows(j)'
    BY <1>16, <2>1, <2>2, <2>3, FinishEffect, ProceedEffect
    DEF FirstCharge, JobKnows, At, PaymentSteps, Copying, Asking
  <2>6. TypeOK'
    BY <1>16, <2>3, <2>4 DEF TypeOK, FirstCharge, mp, opening, history
  <2> QED
    BY <1>16, <2>1, <2>3, <2>5, <2>6, KnownFrame
    DEF Known, JobKnows, At, FirstCharge, Asking
<1>17. ASSUME NEW j \in Jobs, FindSubscriber(j) PROVE TypeOK' /\ Known'
  <2>1. job \in [Jobs -> Job] /\ row \in [Sessions -> Row \cup {None}] /\ JobKnows(j)
    BY DEF TypeOK, Known
  <2>2. job' \in [Jobs -> Job]
    BY <1>17, <2>1, GotoType, FinishEffect, ProceedType
    DEF JobKnows, At, FindSubscriber, AfterExtend, mp, opening, tables,
        history, Step, PaymentSteps, Copying, Asking
  <2>3. /\ \A k \in Jobs \ {j} : job'[k] = job[k]
        /\ JobKnows(j)'
    BY <1>17, <2>1, GotoEffect, FinishEffect, ProceedEffect
    DEF JobKnows, At, FindSubscriber, AfterExtend, mp, opening, tables,
        history, PaymentSteps, Copying, Asking
  <2>4. TypeOK'
    BY <1>17, <2>1, <2>2
    DEF TypeOK, JobKnows, At, FindSubscriber, AfterExtend, mp, opening, tables,
        history, PaymentSteps, Copying, Asking
  <2> QED
    BY <1>17, <2>1, <2>3, <2>4, KnownFrame
    DEF Known, TypeOK, JobKnows, At, FindSubscriber, AfterExtend, mp, opening,
        tables, history, Asking, Copying
<1>18. ASSUME NEW j \in Jobs, Extend(j) PROVE TypeOK' /\ Known'
  <2>1. job \in [Jobs -> Job] /\ row \in [Sessions -> Row \cup {None}] /\ JobKnows(j)
    BY DEF TypeOK, Known
  <2>2. job' \in [Jobs -> Job]
    BY <1>18, <2>1, GotoType, FinishEffect, ProceedType
    DEF JobKnows, At, Extend, AfterExtend, mp, opening, history, Step,
        PaymentSteps, Copying, Asking
  <2>3. /\ \A k \in Jobs \ {j} : job'[k] = job[k]
        /\ JobKnows(j)'
    BY <1>18, <2>1, GotoEffect, FinishEffect, ProceedEffect
    DEF JobKnows, At, Extend, AfterExtend, mp, opening, history, PaymentSteps,
        Copying, Asking
  <2>4. TypeOK'
    BY <1>18, <2>1, <2>2
    DEF TypeOK, JobKnows, At, Extend, AfterExtend, mp, opening, history,
        PaymentSteps, Copying, Asking
  <2> QED
    BY <1>18, <2>1, <2>3, <2>4, KnownFrame
    DEF Known, TypeOK, JobKnows, At, Extend, AfterExtend, mp, opening, history,
        Asking, Copying
<1>19. ASSUME NEW j \in Jobs, EnsureSubscriber(j) PROVE TypeOK' /\ Known'
  <2>1. job \in [Jobs -> Job] /\ row \in [Sessions -> Row \cup {None}] /\ JobKnows(j)
    BY DEF TypeOK, Known
  <2>2. job' \in [Jobs -> Job]
    BY <1>19, <2>1, GotoType
    DEF JobKnows, At, EnsureSubscriber, mp, opening, tables, history, Step,
        PaymentSteps, Copying, Asking
  <2>3. /\ \A k \in Jobs \ {j} : job'[k] = job[k]
        /\ JobKnows(j)'
    BY <1>19, <2>1, GotoEffect
    DEF JobKnows, At, EnsureSubscriber, mp, opening, tables, history,
        PaymentSteps, Copying, Asking
  <2>4. TypeOK'
    BY <1>19, <2>1, <2>2
    DEF TypeOK, JobKnows, At, EnsureSubscriber, mp, opening, tables, history,
        PaymentSteps, Copying, Asking
  <2> QED
    BY <1>19, <2>1, <2>3, <2>4, KnownFrame
    DEF Known, TypeOK, JobKnows, At, EnsureSubscriber, mp, opening, tables,
        history, Asking, Copying
<1>20. ASSUME NEW j \in Jobs, CreateSubscriber(j) PROVE TypeOK' /\ Known'
  <2>1. job \in [Jobs -> Job] /\ row \in [Sessions -> Row \cup {None}] /\ JobKnows(j)
    BY DEF TypeOK, Known
  <2>2. job' \in [Jobs -> Job]
    BY <1>20, <2>1, GotoType
    DEF JobKnows, At, CreateSubscriber, mp, opening, history, Step,
        PaymentSteps, Copying, Asking
  <2>3. /\ \A k \in Jobs \ {j} : job'[k] = job[k]
        /\ JobKnows(j)'
    BY <1>20, <2>1, GotoEffect
    DEF JobKnows, At, CreateSubscriber, mp, opening, history, PaymentSteps,
        Copying, Asking
  <2>4. TypeOK'
    BY <1>20, <2>1, <2>2
    DEF TypeOK, JobKnows, At, CreateSubscriber, mp, opening, history,
        PaymentSteps, Copying, Asking
  <2> QED
    BY <1>20, <2>1, <2>3, <2>4, KnownFrame
    DEF Known, TypeOK, JobKnows, At, CreateSubscriber, mp, opening, history,
        Asking, Copying
<1>21. ASSUME NEW j \in Jobs, FindToken(j) PROVE TypeOK' /\ Known'
  <2>1. job \in [Jobs -> Job] /\ row \in [Sessions -> Row \cup {None}] /\ JobKnows(j)
    BY DEF TypeOK, Known
  <2>2. job' \in [Jobs -> Job]
    BY <1>21, <2>1, GotoType, FinishEffect
    DEF JobKnows, At, FindToken, AfterInvite, mp, opening, tables, history,
        Step, PaymentSteps, Copying, Asking
  <2>3. /\ \A k \in Jobs \ {j} : job'[k] = job[k]
        /\ JobKnows(j)'
    BY <1>21, <2>1, GotoEffect, FinishEffect
    DEF JobKnows, At, FindToken, AfterInvite, mp, opening, tables, history,
        PaymentSteps, Copying, Asking
  <2>4. TypeOK'
    BY <1>21, <2>1, <2>2
    DEF TypeOK, JobKnows, At, FindToken, AfterInvite, mp, opening, tables,
        history, PaymentSteps, Copying, Asking
  <2> QED
    BY <1>21, <2>1, <2>3, <2>4, KnownFrame
    DEF Known, TypeOK, JobKnows, At, FindToken, AfterInvite, mp, opening,
        tables, history, Asking, Copying
<1>22. ASSUME NEW j \in Jobs, GenerateToken(j) PROVE TypeOK' /\ Known'
  <2>1. job \in [Jobs -> Job] /\ row \in [Sessions -> Row \cup {None}] /\ JobKnows(j)
    BY DEF TypeOK, Known
  <2>2. job' \in [Jobs -> Job]
    BY <1>22, <2>1, GotoType, FinishEffect
    DEF JobKnows, At, GenerateToken, mp, opening, history, Step, PaymentSteps,
        Copying, Asking
  <2>3. /\ \A k \in Jobs \ {j} : job'[k] = job[k]
        /\ JobKnows(j)'
    BY <1>22, <2>1, GotoEffect, FinishEffect
    DEF JobKnows, At, GenerateToken, mp, opening, history, PaymentSteps,
        Copying, Asking
  <2>4. TypeOK'
    BY <1>22, <2>1, <2>2
    DEF TypeOK, JobKnows, At, GenerateToken, mp, opening, history,
        PaymentSteps, Copying, Asking
  <2> QED
    BY <1>22, <2>1, <2>3, <2>4, KnownFrame
    DEF Known, TypeOK, JobKnows, At, GenerateToken, mp, opening, history,
        Asking, Copying
<1>23. ASSUME NEW j \in Jobs, SendInvitation(j) PROVE TypeOK' /\ Known'
  <2>1. job \in [Jobs -> Job] /\ row \in [Sessions -> Row \cup {None}] /\ JobKnows(j)
    BY DEF TypeOK, Known
  <2>2. job' \in [Jobs -> Job]
    BY <1>23, <2>1, GotoType, FinishEffect
    DEF JobKnows, At, SendInvitation, AfterInvite, mp, opening, tables,
        history, Step, PaymentSteps, Copying, Asking
  <2>3. /\ \A k \in Jobs \ {j} : job'[k] = job[k]
        /\ JobKnows(j)'
    BY <1>23, <2>1, GotoEffect, FinishEffect
    DEF JobKnows, At, SendInvitation, AfterInvite, mp, opening, tables,
        history, PaymentSteps, Copying, Asking
  <2>4. TypeOK'
    BY <1>23, <2>1, <2>2
    DEF TypeOK, JobKnows, At, SendInvitation, AfterInvite, mp, opening, tables,
        history, PaymentSteps, Copying, Asking
  <2> QED
    BY <1>23, <2>1, <2>3, <2>4, KnownFrame
    DEF Known, TypeOK, JobKnows, At, SendInvitation, AfterInvite, mp, opening,
        tables, history, Asking, Copying
<1>24. ASSUME NEW j \in Jobs, AdjustPrice(j) PROVE TypeOK' /\ Known'
  <2>1. job \in [Jobs -> Job] /\ row \in [Sessions -> Row \cup {None}] /\ JobKnows(j)
    BY DEF TypeOK, Known
  <2>2. job' \in [Jobs -> Job]
    BY <1>24, <2>1, GotoType
    DEF JobKnows, At, AdjustPrice, opening, tables, history, Step,
        PaymentSteps, Copying, Asking
  <2>3. /\ \A k \in Jobs \ {j} : job'[k] = job[k]
        /\ JobKnows(j)'
    BY <1>24, <2>1, GotoEffect
    DEF JobKnows, At, AdjustPrice, opening, tables, history, PaymentSteps,
        Copying, Asking
  <2>4. TypeOK'
    BY <1>24, <2>1, <2>2
    DEF TypeOK, JobKnows, At, AdjustPrice, opening, tables, history,
        PaymentSteps, Copying, Asking
  <2> QED
    BY <1>24, <2>1, <2>3, <2>4, KnownFrame
    DEF Known, TypeOK, JobKnows, At, AdjustPrice, opening, tables, history,
        Asking, Copying
<1>25. ASSUME NEW j \in Jobs, MarkAdjusted(j) PROVE TypeOK' /\ Known'
  <2>1. job \in [Jobs -> Job] /\ row \in [Sessions -> Row \cup {None}] /\ JobKnows(j)
    BY DEF TypeOK, Known
  <2>2. job' \in [Jobs -> Job]
    BY <1>25, <2>1, FinishEffect, RowUpdate, NoneIsNoRow
    DEF JobKnows, At, MarkAdjusted, mp, opening, history, Step, PaymentSteps,
        Copying, Asking
  <2>3. /\ \A k \in Jobs \ {j} : job'[k] = job[k]
        /\ JobKnows(j)'
    BY <1>25, <2>1, FinishEffect, RowUpdate, NoneIsNoRow
    DEF JobKnows, At, MarkAdjusted, mp, opening, history, PaymentSteps,
        Copying, Asking
  <2>4. TypeOK'
    BY <1>25, <2>1, <2>2, RowUpdate, NoneIsNoRow
    DEF TypeOK, JobKnows, At, MarkAdjusted, mp, opening, history, PaymentSteps,
        Copying, Asking
  <2> QED
    BY <1>25, <2>1, <2>3, <2>4, KnownFrame, RowUpdate, NoneIsNoRow
    DEF Known, TypeOK, JobKnows, At, MarkAdjusted, mp, opening, history,
        Asking, Copying
<1>26. ASSUME NEW j \in Jobs, CancelPreapproval(j) PROVE TypeOK' /\ Known'
  <2>1. job \in [Jobs -> Job] /\ row \in [Sessions -> Row \cup {None}] /\ JobKnows(j)
    BY DEF TypeOK, Known
  <2>2. job' \in [Jobs -> Job]
    BY <1>26, <2>1, FinishEffect, GotoType
    DEF JobKnows, At, CancelPreapproval, opening, tables, history,
        ResourceStatus, Step, PaymentSteps, Copying, Asking
  <2>3. /\ \A k \in Jobs \ {j} : job'[k] = job[k]
        /\ JobKnows(j)'
    BY <1>26, <2>1, FinishEffect, GotoEffect
    DEF JobKnows, At, CancelPreapproval, opening, tables, history,
        ResourceStatus, PaymentSteps, Copying, Asking
  <2>4. TypeOK'
    BY <1>26, <2>1, <2>2
    DEF TypeOK, JobKnows, At, CancelPreapproval, opening, tables, history,
        ResourceStatus, PaymentSteps, Copying, Asking
  <2> QED
    BY <1>26, <2>1, <2>3, <2>4, KnownFrame
    DEF Known, TypeOK, JobKnows, At, CancelPreapproval, opening, tables,
        history, Asking, Copying
<1>27. ASSUME NEW j \in Jobs, Refund(j) PROVE TypeOK' /\ Known'
  <2>1. job \in [Jobs -> Job] /\ row \in [Sessions -> Row \cup {None}] /\ JobKnows(j)
    BY DEF TypeOK, Known
  <2>2. job' \in [Jobs -> Job]
    BY <1>27, <2>1, GotoType
    DEF JobKnows, At, Refund, opening, tables, history, PaymentStatus, Step,
        PaymentSteps, Copying, Asking
  <2>3. /\ \A k \in Jobs \ {j} : job'[k] = job[k]
        /\ JobKnows(j)'
    BY <1>27, <2>1, GotoEffect
    DEF JobKnows, At, Refund, opening, tables, history, PaymentStatus,
        PaymentSteps, Copying, Asking
  <2>4. TypeOK'
    BY <1>27, <2>1, <2>2
    DEF TypeOK, JobKnows, At, Refund, opening, tables, history, PaymentStatus,
        PaymentSteps, Copying, Asking
  <2> QED
    BY <1>27, <2>1, <2>3, <2>4, KnownFrame
    DEF Known, TypeOK, JobKnows, At, Refund, opening, tables, history, Asking,
        Copying
<1>28. ASSUME NEW j \in Jobs, Deactivate(j) PROVE TypeOK' /\ Known'
  <2>1. job \in [Jobs -> Job] /\ row \in [Sessions -> Row \cup {None}] /\ JobKnows(j)
    BY DEF TypeOK, Known
  <2>2. job' \in [Jobs -> Job]
    BY <1>28, <2>1, FinishEffect, GotoType
    DEF JobKnows, At, Deactivate, mp, opening, history, Step, PaymentSteps,
        Copying, Asking
  <2>3. /\ \A k \in Jobs \ {j} : job'[k] = job[k]
        /\ JobKnows(j)'
    BY <1>28, <2>1, FinishEffect, GotoEffect
    DEF JobKnows, At, Deactivate, mp, opening, history, PaymentSteps, Copying,
        Asking
  <2>4. TypeOK'
    BY <1>28, <2>1, <2>2
    DEF TypeOK, JobKnows, At, Deactivate, mp, opening, history, PaymentSteps,
        Copying, Asking
  <2> QED
    BY <1>28, <2>1, <2>3, <2>4, KnownFrame
    DEF Known, TypeOK, JobKnows, At, Deactivate, mp, opening, history, Asking,
        Copying
<1>29. ASSUME NEW j \in Jobs, SaveCancelled(j) PROVE TypeOK' /\ Known'
  <2>1. job \in [Jobs -> Job] /\ row \in [Sessions -> Row \cup {None}] /\ JobKnows(j)
    BY DEF TypeOK, Known
  <2>2. job[j].s \in Sessions /\ row[job[j].s] # None /\ job[j].snap \in Row
    BY <1>29, <2>1 DEF JobKnows, At, SaveCancelled, Asking, Copying
  <2>8. [job[j].snap EXCEPT !.status = "CANCELLED"] \in Row
    BY <2>2, RowUpdate DEF CheckoutStatus
  <2>3. /\ row' \in [Sessions -> Row \cup {None}]
        /\ \A r \in Sessions : row[r] # None => row'[r] # None
    BY <1>29, <2>1, <2>2, <2>8, SaveEffect DEF SaveCancelled
  <2>4. job' \in [Jobs -> Job]
    BY <1>29, <2>1, FinishEffect DEF SaveCancelled
  <2>5. /\ \A k \in Jobs \ {j} : job'[k] = job[k]
        /\ JobKnows(j)'
    BY <1>29, <2>1, FinishEffect
    DEF SaveCancelled, JobKnows, At, PaymentSteps, Copying, Asking
  <2>6. TypeOK'
    BY <1>29, <2>3, <2>4 DEF TypeOK, SaveCancelled, mp, opening, history
  <2> QED
    BY <1>29, <2>1, <2>3, <2>5, <2>6, KnownFrame
    DEF Known, JobKnows, At, SaveCancelled, Asking
<1>30. ASSUME NEW j \in Jobs, JobFails(j) PROVE TypeOK' /\ Known'
  <2>1. job \in [Jobs -> Job] /\ row \in [Sessions -> Row \cup {None}] /\ JobKnows(j)
    BY DEF TypeOK, Known
  <2>2. job' \in [Jobs -> Job]
    BY <1>30, <2>1, GotoType, FinishEffect
    DEF JobKnows, At, JobFails, Fault, AfterInvite, mp, tables, Step,
        PaymentSteps, Copying, Asking
  <2>3. /\ \A k \in Jobs \ {j} : job'[k] = job[k]
        /\ JobKnows(j)'
    BY <1>30, <2>1, GotoEffect, FinishEffect
    DEF JobKnows, At, JobFails, Fault, AfterInvite, mp, tables, PaymentSteps,
        Copying, Asking
  <2>4. TypeOK'
    BY <1>30, <2>1, <2>2
    DEF TypeOK, JobKnows, At, JobFails, Fault, AfterInvite, mp, tables,
        PaymentSteps, Copying, Asking
  <2> QED
    BY <1>30, <2>1, <2>3, <2>4, KnownFrame
    DEF Known, TypeOK, JobKnows, At, JobFails, Fault, AfterInvite, mp, tables,
        Asking, Copying
<1>31. ASSUME NEW s \in Sessions, CreationFails(s) PROVE TypeOK' /\ Known'
  BY <1>31, NoneIsNoRow
  DEF TypeOK, Known, JobKnows, At, CreationFails, Fault, mp, tables
<1>32. ASSUME NEW j \in Jobs, NEW s \in Sessions, BeginCancel(j, s)
      PROVE  TypeOK' /\ Known'
  <2>1. /\ job' \in [Jobs -> Job]
        /\ \A k \in Jobs \ {j} : job'[k] = job[k]
        /\ row[s] # None /\ row[s] \in Row
        /\ job'[j].at \in {"cancelPreapproval", "refund"}
        /\ job'[j].s = s /\ job'[j].snap = row[s]
    BY <1>32, CancelEffect DEF TypeOK
  <2>2. row' = row /\ subscriber' = subscriber
    BY <1>32 DEF BeginCancel, tables
  <2>3. JobKnows(j)'
    BY <2>1, <2>2 DEF JobKnows, At, PaymentSteps, Copying, Asking
  <2>4. TypeOK'
    BY <1>32, <2>1 DEF TypeOK, BeginCancel, mp, opening, tables, history
  <2> QED
    BY <2>1, <2>2, <2>3, <2>4, KnownFrame DEF Known, JobKnows, At, Asking
<1>33. CASE Restart
  <2>1. \A j \in Jobs : job'[j] = Idle
    BY <1>33 DEF Restart
  <2>2. \A j \in Jobs : JobKnows(j)'
    BY <2>1 DEF JobKnows, At, Idle, PaymentSteps, Copying, Asking
  <2>3. {job[j].s : j \in {k \in Jobs : ~At(k, "idle")}} \subseteq Sessions
    BY DEF Known, JobKnows
  <2>4. TypeOK'
    BY <1>33, <2>3, IdleType DEF TypeOK, Restart, Fault, mp, tables
  <2> QED
    BY <1>33, <2>2, <2>4 DEF Known, Restart, Fault, tables
<1>34. CASE UNCHANGED vars
  BY <1>34 DEF TypeOK, Known, JobKnows, At, vars
<1>35. ASSUME NEW j \in Jobs, Reactivate(j) PROVE TypeOK' /\ Known'
  <2>1. job \in [Jobs -> Job] /\ row \in [Sessions -> Row \cup {None}] /\ JobKnows(j)
    BY DEF TypeOK, Known
  <2>2. job' \in [Jobs -> Job]
    BY <1>35, <2>1, FinishEffect, ProceedType
    DEF JobKnows, At, Reactivate, AfterExtend, mp, opening, tables,
        history, Step, PaymentSteps, Copying, Asking
  <2>3. /\ \A k \in Jobs \ {j} : job'[k] = job[k]
        /\ JobKnows(j)'
    BY <1>35, <2>1, FinishEffect, ProceedEffect
    DEF JobKnows, At, Reactivate, AfterExtend, mp, opening, tables,
        history, PaymentSteps, Copying, Asking
  <2>4. TypeOK'
    BY <1>35, <2>1, <2>2
    DEF TypeOK, JobKnows, At, Reactivate, AfterExtend, mp, opening, tables,
        history, PaymentSteps, Copying, Asking
  <2> QED
    BY <1>35, <2>1, <2>3, <2>4, KnownFrame
    DEF Known, TypeOK, JobKnows, At, Reactivate, AfterExtend, mp, opening,
        tables, history, Asking, Copying
<1> QED
  BY <1>1, <1>2, <1>3, <1>4, <1>5, <1>6, <1>7, <1>8, <1>9, <1>10, <1>11, <1>12,
     <1>13, <1>14, <1>15, <1>16, <1>17, <1>18, <1>19, <1>20, <1>21, <1>22,
     <1>23, <1>24, <1>25, <1>26, <1>27, <1>28, <1>29, <1>30, <1>31, <1>32,
     <1>33, <1>34, <1>35
  DEF Next, JobStep
LEMMA KnownInit == Init => TypeOK /\ Known
  BY IdleType DEF Init, TypeOK, PaymentStatus, ResourceStatus, Known, JobKnows,
                  At, Idle, PaymentSteps, Asking, Copying

(***************************************************************************)
(* Type correctness: every table and every job keeps its type, for any     *)
(* number of sessions, payments, jobs and faults.                          *)
(***************************************************************************)
THEOREM TypeCorrect == Spec => []TypeOK
  BY KnownInit, KnownStep, PTL DEF Spec

-----------------------------------------------------------------------------
(* A row is inserted once, after its resource. *)
LEMMA FreshStep == TypeOK /\ Known /\ Fresh /\ [Next]_vars => Fresh'
<1> SUFFICES ASSUME TypeOK, Known, Fresh, [Next]_vars PROVE Fresh'
  OBVIOUS
<1>0. /\ job \in [Jobs -> Job] /\ row \in [Sessions -> Row \cup {None}]
      /\ price \in [Sessions -> {"first", "plan"}]
      /\ \A j \in Jobs : JobKnows(j)
  BY DEF TypeOK, Known
<1>1. ASSUME NEW s \in Sessions, CreateResource(s) PROVE Fresh'
  BY <1>1 DEF CreateResource, tables, Fresh, TypeOK
<1>2. ASSUME NEW s \in Sessions, SaveSession(s) PROVE Fresh'
  BY <1>2 DEF SaveSession, mp, Fresh
<1>3. ASSUME NEW s \in Sessions, MovePreapproval(s) PROVE Fresh'
  BY <1>3 DEF MovePreapproval, opening, tables, Fresh
<1>4. ASSUME NEW p \in Payments, StartPayment(p) PROVE Fresh'
  BY <1>4 DEF StartPayment, opening, tables, Fresh
<1>5. ASSUME NEW p \in Payments, SettlePayment(p) PROVE Fresh'
  BY <1>5 DEF SettlePayment, opening, tables, Fresh
<1>6. ASSUME NEW j \in Jobs, ReceiveNotification(j) PROVE Fresh'
  BY <1>0, <1>6, NotificationEffect DEF mp, opening, tables, Fresh
<1>7. ASSUME NEW j \in Jobs, AskMercadoPago(j) PROVE Fresh'
  BY <1>0, <1>7, AskEffect DEF mp, opening, tables, Fresh
<1>8. ASSUME NEW j \in Jobs, HandlePayment(j) PROVE Fresh'
  BY <1>8 DEF HandlePayment, mp, opening, tables, Fresh
<1>9. ASSUME NEW j \in Jobs, MarkPreferencePaid(j) PROVE Fresh'
  BY <1>0, <1>9, PendingEffect
  DEF MarkPreferencePaid, mp, opening, JobKnows, At, Asking, CheckoutStatus,
      Fresh
<1>10. ASSUME NEW j \in Jobs, RecordPreferencePayment(j) PROVE Fresh'
  BY <1>10 DEF RecordPreferencePayment, mp, opening, Fresh
<1>11. ASSUME NEW j \in Jobs, MarkFailed(j) PROVE Fresh'
  BY <1>0, <1>11, PendingEffect
  DEF MarkFailed, mp, opening, JobKnows, At, Asking, CheckoutStatus, Fresh
<1>12. ASSUME NEW j \in Jobs, HandlePreapproval(j) PROVE Fresh'
  BY <1>12 DEF HandlePreapproval, mp, opening, tables, Fresh
<1>13. ASSUME NEW j \in Jobs, SaveEntity(j) PROVE Fresh'
  BY <1>0, <1>13 DEF SaveEntity, mp, opening, At, JobKnows, Fresh, Asking
<1>14. ASSUME NEW j \in Jobs, HandleAuthorized(j) PROVE Fresh'
  BY <1>14 DEF HandleAuthorized, mp, opening, tables, Fresh
<1>15. ASSUME NEW j \in Jobs, RecordCharge(j) PROVE Fresh'
  BY <1>15 DEF RecordCharge, mp, opening, Fresh
<1>16. ASSUME NEW j \in Jobs, FirstCharge(j) PROVE Fresh'
  BY <1>0, <1>16, PendingEffect
  DEF FirstCharge, mp, opening, JobKnows, At, Asking, CheckoutStatus, Fresh
<1>17. ASSUME NEW j \in Jobs, FindSubscriber(j) PROVE Fresh'
  BY <1>17 DEF FindSubscriber, mp, opening, tables, Fresh
<1>18. ASSUME NEW j \in Jobs, Extend(j) PROVE Fresh'
  BY <1>18 DEF Extend, mp, opening, Fresh
<1>19. ASSUME NEW j \in Jobs, EnsureSubscriber(j) PROVE Fresh'
  BY <1>19 DEF EnsureSubscriber, mp, opening, tables, Fresh
<1>20. ASSUME NEW j \in Jobs, CreateSubscriber(j) PROVE Fresh'
  BY <1>20 DEF CreateSubscriber, mp, opening, Fresh
<1>21. ASSUME NEW j \in Jobs, FindToken(j) PROVE Fresh'
  BY <1>21 DEF FindToken, mp, opening, tables, Fresh
<1>22. ASSUME NEW j \in Jobs, GenerateToken(j) PROVE Fresh'
  BY <1>22 DEF GenerateToken, mp, opening, Fresh
<1>23. ASSUME NEW j \in Jobs, SendInvitation(j) PROVE Fresh'
  BY <1>23 DEF SendInvitation, mp, opening, tables, Fresh
<1>24. ASSUME NEW j \in Jobs, AdjustPrice(j) PROVE Fresh'
  BY <1>24 DEF AdjustPrice, opening, tables, Fresh
<1>25. ASSUME NEW j \in Jobs, MarkAdjusted(j) PROVE Fresh'
  BY <1>0, <1>25 DEF MarkAdjusted, mp, opening, At, JobKnows, Fresh, Asking
<1>26. ASSUME NEW j \in Jobs, CancelPreapproval(j) PROVE Fresh'
  <2>1. /\ row' = row /\ creating' = creating
        /\ \A s \in Sessions : resource'[s] \in {resource[s], "ended"}
    BY <1>26 DEF CancelPreapproval, TypeOK, tables, opening
  <2> QED
    BY <2>1 DEF Fresh
<1>27. ASSUME NEW j \in Jobs, Refund(j) PROVE Fresh'
  BY <1>27 DEF Refund, opening, tables, Fresh
<1>28. ASSUME NEW j \in Jobs, Deactivate(j) PROVE Fresh'
  BY <1>28 DEF Deactivate, mp, opening, Fresh
<1>29. ASSUME NEW j \in Jobs, SaveCancelled(j) PROVE Fresh'
  BY <1>0, <1>29 DEF SaveCancelled, mp, opening, At, JobKnows, Fresh, Asking
<1>30. ASSUME NEW j \in Jobs, JobFails(j) PROVE Fresh'
  BY <1>30 DEF JobFails, Fault, mp, tables, Fresh
<1>31. ASSUME NEW s \in Sessions, CreationFails(s) PROVE Fresh'
  BY <1>31 DEF CreationFails, Fault, mp, tables, Fresh
<1>32. ASSUME NEW j \in Jobs, NEW s \in Sessions, BeginCancel(j, s) PROVE Fresh'
  BY <1>32 DEF BeginCancel, mp, opening, tables, Fresh
<1>33. CASE Restart
  BY <1>33 DEF Restart, Fault, mp, tables, Fresh
<1>34. CASE UNCHANGED vars
  BY <1>34 DEF vars, Fresh
<1>35. ASSUME NEW j \in Jobs, Reactivate(j) PROVE Fresh'
  BY <1>35 DEF Reactivate, mp, opening, tables, Fresh
<1> QED
  BY <1>1, <1>2, <1>3, <1>4, <1>5, <1>6, <1>7, <1>8, <1>9, <1>10, <1>11, <1>12,
     <1>13, <1>14, <1>15, <1>16, <1>17, <1>18, <1>19, <1>20, <1>21, <1>22,
     <1>23, <1>24, <1>25, <1>26, <1>27, <1>28, <1>29, <1>30, <1>31, <1>32,
     <1>33, <1>34, <1>35
  DEF Next, JobStep
-----------------------------------------------------------------------------
(* The price is raised before anything says so. *)
LEMMA PricedFrame ==
    ASSUME Priced, NEW j \in Jobs,
           \A k \in Jobs : JobKnows(k),
           \A k \in Jobs \ {j} : job'[k] = job[k],
           \A s \in Sessions : price[s] = "plan" => price'[s] = "plan",
           \A s \in Sessions : row'[s] # None /\ row'[s].adjusted => price'[s] = "plan",
           JobPriced(j)'
    PROVE  Priced'
<1>1. ASSUME NEW k \in Jobs \ {j} PROVE JobPriced(k)'
  <2>1. JobPriced(k) /\ JobKnows(k) /\ job'[k] = job[k]
    BY DEF Priced
  <2> QED
    BY <2>1 DEF JobPriced, JobKnows, At, Copying
<1> QED
  BY <1>1 DEF Priced

LEMMA PricedStep == TypeOK /\ Known /\ Priced /\ [Next]_vars => Priced'
<1> SUFFICES ASSUME TypeOK, Known, Priced, [Next]_vars PROVE Priced'
  OBVIOUS
<1>0. /\ job \in [Jobs -> Job] /\ row \in [Sessions -> Row \cup {None}]
      /\ price \in [Sessions -> {"first", "plan"}]
      /\ \A j \in Jobs : JobKnows(j) /\ JobPriced(j)
  BY DEF TypeOK, Known, Priced
<1>1. ASSUME NEW s \in Sessions, CreateResource(s) PROVE Priced'
  BY <1>1 DEF CreateResource, tables, At, JobPriced, Priced
<1>2. ASSUME NEW s \in Sessions, SaveSession(s) PROVE Priced'
  BY <1>2 DEF SaveSession, mp, At, JobPriced, Priced
<1>3. ASSUME NEW s \in Sessions, MovePreapproval(s) PROVE Priced'
  BY <1>3 DEF MovePreapproval, tables, At, JobPriced, Priced
<1>4. ASSUME NEW p \in Payments, StartPayment(p) PROVE Priced'
  BY <1>4 DEF StartPayment, tables, At, JobPriced, Priced
<1>5. ASSUME NEW p \in Payments, SettlePayment(p) PROVE Priced'
  BY <1>5 DEF SettlePayment, tables, At, JobPriced, Priced
<1>6. ASSUME NEW j \in Jobs, ReceiveNotification(j) PROVE Priced'
  BY <1>0, <1>6, NotificationEffect
  DEF mp, tables, At, JobPriced, Priced, Copying
<1>7. ASSUME NEW j \in Jobs, AskMercadoPago(j) PROVE Priced'
  BY <1>0, <1>7, AskEffect DEF mp, tables, At, JobPriced, Priced, Copying
<1>8. ASSUME NEW j \in Jobs, HandlePayment(j) PROVE Priced'
  BY <1>0, <1>8, GotoEffect, FinishEffect, ProceedEffect
  DEF HandlePayment, mp, tables, At, JobKnows, JobPriced, Priced, Copying
<1>9. ASSUME NEW j \in Jobs, MarkPreferencePaid(j) PROVE Priced'
  BY <1>0, <1>9, GotoEffect
  DEF MarkPreferencePaid, PendingTo, mp, At, JobKnows, JobPriced, Priced,
      Copying, Asking
<1>10. ASSUME NEW j \in Jobs, RecordPreferencePayment(j) PROVE Priced'
  BY <1>0, <1>10, FinishEffect, ProceedEffect
  DEF RecordPreferencePayment, mp, At, JobPriced, Priced, Copying
<1>11. ASSUME NEW j \in Jobs, MarkFailed(j) PROVE Priced'
  BY <1>0, <1>11, FinishEffect
  DEF MarkFailed, PendingTo, mp, At, JobKnows, JobPriced, Priced, Copying,
      Asking
<1>12. ASSUME NEW j \in Jobs, HandlePreapproval(j) PROVE Priced'
  BY <1>0, <1>12, FinishEffect, ProceedEffect, PreapprovalEffect
  DEF HandlePreapproval, mp, tables, At, JobKnows, JobPriced, Priced, Copying
<1>13. ASSUME NEW j \in Jobs, SaveEntity(j) PROVE Priced'
  BY <1>0, <1>13, FinishEffect
  DEF SaveEntity, mp, At, JobPriced, Priced, Copying
<1>14. ASSUME NEW j \in Jobs, HandleAuthorized(j) PROVE Priced'
  BY <1>0, <1>14, FinishEffect, ReadEffect
  DEF HandleAuthorized, mp, tables, At, JobKnows, JobPriced, Priced, Copying
<1>15. ASSUME NEW j \in Jobs, RecordCharge(j) PROVE Priced'
  BY <1>0, <1>15, FinishEffect, ProceedEffect
  DEF RecordCharge, mp, At, JobPriced, Priced, Copying
<1>16. ASSUME NEW j \in Jobs, FirstCharge(j) PROVE Priced'
  BY <1>0, <1>16, FinishEffect, ProceedEffect
  DEF FirstCharge, PendingTo, mp, At, JobKnows, JobPriced, Priced, Copying,
      Asking
<1>17. ASSUME NEW j \in Jobs, FindSubscriber(j) PROVE Priced'
  BY <1>0, <1>17, GotoEffect, FinishEffect, ProceedEffect
  DEF FindSubscriber, AfterExtend, mp, tables, At, JobPriced, Priced, Copying
<1>18. ASSUME NEW j \in Jobs, Extend(j) PROVE Priced'
  BY <1>0, <1>18, GotoEffect, FinishEffect, ProceedEffect
  DEF Extend, AfterExtend, mp, At, JobPriced, Priced, Copying
<1>19. ASSUME NEW j \in Jobs, EnsureSubscriber(j) PROVE Priced'
  BY <1>0, <1>19, GotoEffect
  DEF EnsureSubscriber, mp, tables, At, JobPriced, Priced, Copying
<1>20. ASSUME NEW j \in Jobs, CreateSubscriber(j) PROVE Priced'
  BY <1>0, <1>20, GotoEffect
  DEF CreateSubscriber, mp, At, JobPriced, Priced, Copying
<1>21. ASSUME NEW j \in Jobs, FindToken(j) PROVE Priced'
  BY <1>0, <1>21, GotoEffect, FinishEffect
  DEF FindToken, AfterInvite, mp, tables, At, JobPriced, Priced, Copying
<1>22. ASSUME NEW j \in Jobs, GenerateToken(j) PROVE Priced'
  BY <1>0, <1>22, GotoEffect, FinishEffect
  DEF GenerateToken, mp, At, JobPriced, Priced, Copying
<1>23. ASSUME NEW j \in Jobs, SendInvitation(j) PROVE Priced'
  BY <1>0, <1>23, GotoEffect, FinishEffect
  DEF SendInvitation, AfterInvite, mp, tables, At, JobPriced, Priced, Copying
<1>24. ASSUME NEW j \in Jobs, AdjustPrice(j) PROVE Priced'
  BY <1>0, <1>24, GotoEffect
  DEF AdjustPrice, tables, At, JobKnows, JobPriced, Priced
<1>25. ASSUME NEW j \in Jobs, MarkAdjusted(j) PROVE Priced'
  BY <1>0, <1>25, FinishEffect
  DEF MarkAdjusted, mp, At, JobPriced, Priced, Copying
<1>26. ASSUME NEW j \in Jobs, CancelPreapproval(j) PROVE Priced'
  BY <1>0, <1>26, FinishEffect, GotoEffect
  DEF CancelPreapproval, tables, At, JobPriced, Priced, Copying
<1>27. ASSUME NEW j \in Jobs, Refund(j) PROVE Priced'
  BY <1>0, <1>27, GotoEffect DEF Refund, tables, At, JobPriced, Priced, Copying
<1>28. ASSUME NEW j \in Jobs, Deactivate(j) PROVE Priced'
  BY <1>0, <1>28, FinishEffect, GotoEffect
  DEF Deactivate, mp, At, JobPriced, Priced, Copying
<1>29. ASSUME NEW j \in Jobs, SaveCancelled(j) PROVE Priced'
  BY <1>0, <1>29, FinishEffect
  DEF SaveCancelled, mp, At, JobPriced, Priced, Copying
<1>30. ASSUME NEW j \in Jobs, JobFails(j) PROVE Priced'
  BY <1>0, <1>30, GotoEffect, FinishEffect
  DEF JobFails, Fault, AfterInvite, mp, tables, At, JobPriced, Priced, Copying
<1>31. ASSUME NEW s \in Sessions, CreationFails(s) PROVE Priced'
  BY <1>31 DEF CreationFails, Fault, mp, tables, At, JobPriced, Priced
<1>32. ASSUME NEW j \in Jobs, NEW s \in Sessions, BeginCancel(j, s) PROVE Priced'
  BY <1>32, CancelEffect DEF mp, tables, At, JobPriced, Priced
<1>33. CASE Restart
  BY <1>33 DEF Restart, Fault, mp, tables, Idle, At, JobPriced, Priced, Copying
<1>34. CASE UNCHANGED vars
  BY <1>34 DEF vars, At, JobPriced, Priced
<1>35. ASSUME NEW j \in Jobs, Reactivate(j) PROVE Priced'
  BY <1>0, <1>35, FinishEffect, ProceedEffect
  DEF Reactivate, AfterExtend, mp, tables, At, JobPriced, Priced, Copying
<1> QED
  BY <1>1, <1>2, <1>3, <1>4, <1>5, <1>6, <1>7, <1>8, <1>9, <1>10, <1>11, <1>12,
     <1>13, <1>14, <1>15, <1>16, <1>17, <1>18, <1>19, <1>20, <1>21, <1>22,
     <1>23, <1>24, <1>25, <1>26, <1>27, <1>28, <1>29, <1>30, <1>31, <1>32,
     <1>33, <1>34, <1>35
  DEF Next, JobStep
-----------------------------------------------------------------------------
(* No access without an approved and recorded payment. *)
LEMMA PaidFrame ==
    ASSUME Paid, NEW j \in Jobs,
           \A k \in Jobs : JobKnows(k),
           \A k \in Jobs \ {j} : job'[k] = job[k],
           \A p \in Payments : payment[p] \in Taken => payment'[p] \in Taken,
           \A p \in Payments : ledger[p] # "none" => ledger'[p] # "none",
           \A p \in Payments : ledger'[p] = "approved" => payment'[p] \in Taken,
           \A s \in Sessions : subscriber[s] # "none" => subscriber'[s] # "none",
           \A s \in Sessions :
              \/ subscriber'[s] # "none" /\ subscriber[s] = "none"
              \/ s \in token' \ token
              => Charged(s)' /\ Recorded(s)',
           JobPaid(j)'
    PROVE  Paid'
<1>1. ASSUME NEW s PROVE (Charged(s) => Charged(s)') /\ (Recorded(s) => Recorded(s)')
  BY DEF Charged, Recorded, Taken
<1>2. ASSUME NEW k \in Jobs \ {j} PROVE JobPaid(k)'
  <2>1. JobPaid(k) /\ JobKnows(k) /\ job'[k] = job[k]
    BY DEF Paid
  <2> QED
    BY <1>1, <2>1 DEF JobPaid, JobKnows, At, Serviced
<1> QED
  BY <1>1, <1>2 DEF Paid

LEMMA PaidStep == TypeOK /\ Known /\ Paid /\ [Next]_vars => Paid'
<1> SUFFICES ASSUME TypeOK, Known, Paid, [Next]_vars PROVE Paid'
  OBVIOUS
<1>0. /\ job \in [Jobs -> Job] /\ row \in [Sessions -> Row \cup {None}]
      /\ price \in [Sessions -> {"first", "plan"}]
      /\ \A j \in Jobs : JobKnows(j) /\ JobPaid(j)
  BY DEF TypeOK, Known, Paid
<1>1. ASSUME NEW s \in Sessions, CreateResource(s) PROVE Paid'
  BY <1>1 DEF CreateResource, tables, JobPaid, Paid, Charged, Recorded
<1>2. ASSUME NEW s \in Sessions, SaveSession(s) PROVE Paid'
  BY <1>2 DEF SaveSession, mp, JobPaid, Paid, Charged, Recorded
<1>3. ASSUME NEW s \in Sessions, MovePreapproval(s) PROVE Paid'
  BY <1>3 DEF MovePreapproval, tables, JobPaid, Paid, Charged, Recorded
<1>4. ASSUME NEW p \in Payments, StartPayment(p) PROVE Paid'
  BY <1>4 DEF StartPayment, tables, JobPaid, Paid, Taken, Charged, Recorded
<1>5. ASSUME NEW p \in Payments, SettlePayment(p) PROVE Paid'
  BY <1>5 DEF SettlePayment, tables, JobPaid, Paid, Taken, Charged, Recorded
<1>6. ASSUME NEW j \in Jobs, ReceiveNotification(j) PROVE Paid'
  BY <1>0, <1>6, NotificationEffect
  DEF mp, tables, JobPaid, Paid, Serviced, Granting, Charged, Recorded
<1>7. ASSUME NEW j \in Jobs, AskMercadoPago(j) PROVE Paid'
  BY <1>0, <1>7, AskEffect
  DEF mp, tables, JobPaid, Paid, Serviced, Granting, PaymentSteps, Taken,
      Charged, Recorded
<1>8. ASSUME NEW j \in Jobs, HandlePayment(j) PROVE Paid'
  BY <1>0, <1>8, GotoEffect, FinishEffect, ProceedEffect, PaidFrame
  DEF HandlePayment, mp, tables, At, JobPaid, Paid, Serviced, Granting,
      PaymentSteps
<1>9. ASSUME NEW j \in Jobs, MarkPreferencePaid(j) PROVE Paid'
  BY <1>0, <1>9, GotoEffect, PaidFrame
  DEF MarkPreferencePaid, mp, At, JobPaid, Paid, Serviced, Granting,
      PaymentSteps
<1>10. ASSUME NEW j \in Jobs, RecordPreferencePayment(j) PROVE Paid'
  <2>1. /\ job[j].p \in Payments /\ SessionOf[job[j].p] = job[j].s
        /\ job[j].seen \in PaymentStatus
        /\ job[j].seen = "approved" => payment[job[j].p] \in Taken
        /\ ledger \in [Payments -> PaymentStatus]
    BY <1>0, <1>10
    DEF TypeOK, JobKnows, JobPaid, RecordPreferencePayment, PaymentSteps
  <2>2. /\ \A q \in Payments : ledger[q] # "none" => ledger'[q] # "none"
        /\ job[j].seen = "approved" => ledger'[job[j].p] # "none"
        /\ \A q \in Payments : ledger'[q] = "approved" =>
              ledger[q] = "approved" \/ (q = job[j].p /\ job[j].seen = "approved")
    BY <1>10, <2>1, RecordEffect DEF RecordPreferencePayment
  <2>3. UNCHANGED <<payment, subscriber, token>>
    BY <1>10 DEF RecordPreferencePayment, mp
  <2>4. \A s : s = job[j].s /\ job[j].seen = "approved" => Charged(s)' /\ Recorded(s)'
    BY <2>1, <2>2, <2>3 DEF Charged, Recorded, Taken
  <2>5. /\ \A k \in Jobs \ {j} : job'[k] = job[k]
        /\ JobPaid(j)'
    BY <1>0, <1>10, <2>4, FinishEffect, ProceedEffect
    DEF RecordPreferencePayment, JobPaid, PaymentSteps, Serviced, Granting
  <2> QED
    BY <1>0, <2>1, <2>2, <2>3, <2>5, PaidFrame DEF Paid
<1>11. ASSUME NEW j \in Jobs, MarkFailed(j) PROVE Paid'
  BY <1>0, <1>11, FinishEffect, PaidFrame
  DEF MarkFailed, mp, JobPaid, Paid, Serviced, Granting, PaymentSteps
<1>12. ASSUME NEW j \in Jobs, HandlePreapproval(j) PROVE Paid'
  BY <1>0, <1>12, FinishEffect, ProceedEffect
  DEF HandlePreapproval, mp, tables, JobPaid, Paid, Serviced, Granting,
      PaymentSteps, Charged, Recorded
<1>13. ASSUME NEW j \in Jobs, SaveEntity(j) PROVE Paid'
  BY <1>0, <1>13, FinishEffect
  DEF SaveEntity, mp, JobPaid, Paid, Serviced, Granting, PaymentSteps, Charged,
      Recorded
<1>14. ASSUME NEW j \in Jobs, HandleAuthorized(j) PROVE Paid'
  BY <1>0, <1>14, FinishEffect, ReadEffect
  DEF HandleAuthorized, mp, tables, At, JobPaid, Paid, Serviced, Granting,
      PaymentSteps, Charged, Recorded
<1>15. ASSUME NEW j \in Jobs, RecordCharge(j) PROVE Paid'
  <2>1. /\ job[j].p \in Payments /\ SessionOf[job[j].p] = job[j].s
        /\ job[j].seen \in PaymentStatus
        /\ job[j].seen = "approved" => payment[job[j].p] \in Taken
        /\ ledger \in [Payments -> PaymentStatus]
    BY <1>0, <1>15
    DEF TypeOK, JobKnows, JobPaid, RecordCharge, At, PaymentSteps
  <2>2. /\ \A q \in Payments : ledger[q] # "none" => ledger'[q] # "none"
        /\ job[j].seen = "approved" => ledger'[job[j].p] # "none"
        /\ \A q \in Payments : ledger'[q] = "approved" =>
              ledger[q] = "approved" \/ (q = job[j].p /\ job[j].seen = "approved")
    BY <1>15, <2>1, RecordEffect DEF RecordCharge
  <2>3. UNCHANGED <<payment, subscriber, token>>
    BY <1>15 DEF RecordCharge, mp
  <2>4. \A s : s = job[j].s /\ job[j].seen = "approved" => Charged(s)' /\ Recorded(s)'
    BY <2>1, <2>2, <2>3 DEF Charged, Recorded, Taken
  <2>5. /\ \A k \in Jobs \ {j} : job'[k] = job[k]
        /\ JobPaid(j)'
    BY <1>0, <1>15, <2>4, FinishEffect, ProceedEffect
    DEF RecordCharge, JobPaid, PaymentSteps, Serviced, Granting
  <2> QED
    BY <1>0, <2>1, <2>2, <2>3, <2>5, PaidFrame DEF Paid
<1>16. ASSUME NEW j \in Jobs, FirstCharge(j) PROVE Paid'
  BY <1>0, <1>16, FinishEffect, ProceedEffect
  DEF FirstCharge, mp, At, JobPaid, Paid, Serviced, Granting, PaymentSteps,
      Charged, Recorded
<1>17. ASSUME NEW j \in Jobs, FindSubscriber(j) PROVE Paid'
  BY <1>0, <1>17, GotoEffect, FinishEffect, ProceedEffect
  DEF FindSubscriber, AfterExtend, mp, tables, JobPaid, Paid, Serviced,
      Granting, PaymentSteps, Charged, Recorded
<1>18. ASSUME NEW j \in Jobs, Extend(j) PROVE Paid'
  BY <1>0, <1>18, GotoEffect, FinishEffect, ProceedEffect
  DEF Extend, AfterExtend, mp, At, JobPaid, Paid, Serviced, Granting,
      PaymentSteps, Charged, Recorded
<1>19. ASSUME NEW j \in Jobs, EnsureSubscriber(j) PROVE Paid'
  BY <1>0, <1>19, GotoEffect
  DEF EnsureSubscriber, mp, tables, At, JobPaid, Paid, Serviced, Granting,
      PaymentSteps, Charged, Recorded
<1>20. ASSUME NEW j \in Jobs, CreateSubscriber(j) PROVE Paid'
  BY <1>0, <1>20, GotoEffect
  DEF CreateSubscriber, mp, At, JobPaid, Paid, Serviced, Granting,
      PaymentSteps, Charged, Recorded
<1>21. ASSUME NEW j \in Jobs, FindToken(j) PROVE Paid'
  BY <1>0, <1>21, GotoEffect, FinishEffect
  DEF FindToken, AfterInvite, mp, tables, At, JobPaid, Paid, Serviced,
      Granting, PaymentSteps, Charged, Recorded
<1>22. ASSUME NEW j \in Jobs, GenerateToken(j) PROVE Paid'
  BY <1>0, <1>22, GotoEffect, FinishEffect
  DEF GenerateToken, mp, At, JobPaid, Paid, Serviced, Granting, PaymentSteps,
      Charged, Recorded
<1>23. ASSUME NEW j \in Jobs, SendInvitation(j) PROVE Paid'
  BY <1>0, <1>23, GotoEffect, FinishEffect, PaidFrame
  DEF SendInvitation, AfterInvite, mp, tables, JobPaid, Paid, Serviced,
      Granting, PaymentSteps
<1>24. ASSUME NEW j \in Jobs, AdjustPrice(j) PROVE Paid'
  BY <1>0, <1>24, GotoEffect
  DEF AdjustPrice, tables, JobPaid, Paid, Serviced, Granting, PaymentSteps,
      Charged, Recorded
<1>25. ASSUME NEW j \in Jobs, MarkAdjusted(j) PROVE Paid'
  BY <1>0, <1>25, FinishEffect
  DEF MarkAdjusted, mp, JobPaid, Paid, Serviced, Granting, PaymentSteps,
      Charged, Recorded
<1>26. ASSUME NEW j \in Jobs, CancelPreapproval(j) PROVE Paid'
  BY <1>0, <1>26, FinishEffect, GotoEffect, PaidFrame
  DEF CancelPreapproval, tables, At, JobPaid, Paid, Serviced, Granting,
      PaymentSteps
<1>27. ASSUME NEW j \in Jobs, Refund(j) PROVE Paid'
  BY <1>0, <1>27, GotoEffect
  DEF Refund, tables, At, JobKnows, JobPaid, Paid, Serviced, PaymentSteps,
      Taken, Charged, Recorded
<1>28. ASSUME NEW j \in Jobs, Deactivate(j) PROVE Paid'
  BY <1>0, <1>28, FinishEffect, GotoEffect, PaidFrame
  DEF Deactivate, mp, At, JobPaid, Paid, Serviced, Granting, PaymentSteps
<1>29. ASSUME NEW j \in Jobs, SaveCancelled(j) PROVE Paid'
  BY <1>0, <1>29, FinishEffect
  DEF SaveCancelled, mp, JobPaid, Paid, Serviced, Granting, PaymentSteps,
      Charged, Recorded
<1>30. ASSUME NEW j \in Jobs, JobFails(j) PROVE Paid'
  BY <1>0, <1>30, GotoEffect, FinishEffect
  DEF JobFails, Fault, AfterInvite, mp, tables, JobPaid, Paid, Serviced,
      Granting, PaymentSteps, Charged, Recorded
<1>31. ASSUME NEW s \in Sessions, CreationFails(s) PROVE Paid'
  BY <1>31
  DEF CreationFails, Fault, mp, tables, JobPaid, Paid, Charged, Recorded
<1>32. ASSUME NEW j \in Jobs, NEW s \in Sessions, BeginCancel(j, s) PROVE Paid'
  <2>1. /\ \A k \in Jobs \ {j} : job'[k] = job[k]
        /\ UNCHANGED <<payment, ledger, subscriber, token>>
        /\ job'[j].at \in {"cancelPreapproval", "refund"} /\ job'[j].s = s
    BY <1>32, CancelEffect DEF mp, tables
  <2>2. subscriber[s] # "none"
    BY <1>32 DEF BeginCancel
  <2>3. JobPaid(j)'
    BY <2>1, <2>2 DEF JobPaid, PaymentSteps, Granting
  <2> QED
    BY <1>0, <2>1, <2>3, PaidFrame DEF Paid
<1>33. CASE Restart
  BY <1>33
  DEF Restart, Fault, mp, tables, Idle, JobPaid, Paid, Serviced, Granting,
      Charged, Recorded
<1>34. CASE UNCHANGED vars
  BY <1>34 DEF vars, JobPaid, Paid, Charged, Recorded
<1>35. ASSUME NEW j \in Jobs, Reactivate(j) PROVE Paid'
  BY <1>0, <1>35, FinishEffect, ProceedEffect
  DEF Reactivate, AfterExtend, mp, tables, JobPaid, Paid, Serviced,
      Granting, PaymentSteps, Charged, Recorded
<1> QED
  BY <1>1, <1>2, <1>3, <1>4, <1>5, <1>6, <1>7, <1>8, <1>9, <1>10, <1>11, <1>12,
     <1>13, <1>14, <1>15, <1>16, <1>17, <1>18, <1>19, <1>20, <1>21, <1>22,
     <1>23, <1>24, <1>25, <1>26, <1>27, <1>28, <1>29, <1>30, <1>31, <1>32,
     <1>33, <1>34, <1>35
  DEF Next, JobStep
-----------------------------------------------------------------------------
(* The insert of the token has one winner. *)
LEMMA InvitedFrame ==
    ASSUME Invited, NEW j \in Jobs,
           \A k \in Jobs \ {j} : job'[k] = job[k],
           job'[j].at # "mail",
           mails' = mails,
           token \subseteq token'
    PROVE  Invited'
<1>1. \A k \in Jobs : At(k, "mail")' => k # j /\ At(k, "mail") /\ job'[k].s = job[k].s
  BY DEF At
<1> QED
  BY <1>1 DEF Invited

LEMMA InvitedStep == TypeOK /\ Known /\ Invited /\ [Next]_vars => Invited'
<1> SUFFICES ASSUME TypeOK, Known, Invited, [Next]_vars PROVE Invited'
  OBVIOUS
<1>0. /\ job \in [Jobs -> Job] /\ row \in [Sessions -> Row \cup {None}]
      /\ price \in [Sessions -> {"first", "plan"}]
      /\ \A j \in Jobs : JobKnows(j)
  BY DEF TypeOK, Known
<1>1. ASSUME NEW s \in Sessions, CreateResource(s) PROVE Invited'
  BY <1>1 DEF CreateResource, tables, At, Invited
<1>2. ASSUME NEW s \in Sessions, SaveSession(s) PROVE Invited'
  BY <1>2 DEF SaveSession, At, Invited
<1>3. ASSUME NEW s \in Sessions, MovePreapproval(s) PROVE Invited'
  BY <1>3 DEF MovePreapproval, tables, At, Invited
<1>4. ASSUME NEW p \in Payments, StartPayment(p) PROVE Invited'
  BY <1>4 DEF StartPayment, tables, At, Invited
<1>5. ASSUME NEW p \in Payments, SettlePayment(p) PROVE Invited'
  BY <1>5 DEF SettlePayment, tables, At, Invited
<1>6. ASSUME NEW j \in Jobs, ReceiveNotification(j) PROVE Invited'
  BY <1>0, <1>6, NotificationEffect, InvitedFrame DEF tables
<1>7. ASSUME NEW j \in Jobs, AskMercadoPago(j) PROVE Invited'
  BY <1>0, <1>7, AskEffect, InvitedFrame DEF tables
<1>8. ASSUME NEW j \in Jobs, HandlePayment(j) PROVE Invited'
  BY <1>0, <1>8, GotoEffect, FinishEffect, ProceedEffect
  DEF HandlePayment, tables, At, Invited
<1>9. ASSUME NEW j \in Jobs, MarkPreferencePaid(j) PROVE Invited'
  BY <1>0, <1>9, GotoEffect DEF MarkPreferencePaid, At, Invited
<1>10. ASSUME NEW j \in Jobs, RecordPreferencePayment(j) PROVE Invited'
  BY <1>0, <1>10, FinishEffect, ProceedEffect, InvitedFrame
  DEF RecordPreferencePayment
<1>11. ASSUME NEW j \in Jobs, MarkFailed(j) PROVE Invited'
  BY <1>0, <1>11, FinishEffect DEF MarkFailed, At, Invited
<1>12. ASSUME NEW j \in Jobs, HandlePreapproval(j) PROVE Invited'
  BY <1>0, <1>12, FinishEffect, ProceedEffect
  DEF HandlePreapproval, tables, At, Invited
<1>13. ASSUME NEW j \in Jobs, SaveEntity(j) PROVE Invited'
  BY <1>0, <1>13, FinishEffect, InvitedFrame DEF SaveEntity
<1>14. ASSUME NEW j \in Jobs, HandleAuthorized(j) PROVE Invited'
  BY <1>0, <1>14, FinishEffect, ReadEffect, InvitedFrame
  DEF HandleAuthorized, tables
<1>15. ASSUME NEW j \in Jobs, RecordCharge(j) PROVE Invited'
  BY <1>0, <1>15, FinishEffect, ProceedEffect, InvitedFrame DEF RecordCharge
<1>16. ASSUME NEW j \in Jobs, FirstCharge(j) PROVE Invited'
  BY <1>0, <1>16, FinishEffect, ProceedEffect, InvitedFrame DEF FirstCharge
<1>17. ASSUME NEW j \in Jobs, FindSubscriber(j) PROVE Invited'
  BY <1>0, <1>17, GotoEffect, FinishEffect, ProceedEffect, InvitedFrame
  DEF FindSubscriber, AfterExtend, tables
<1>18. ASSUME NEW j \in Jobs, Extend(j) PROVE Invited'
  BY <1>0, <1>18, GotoEffect, FinishEffect, ProceedEffect, InvitedFrame
  DEF Extend, AfterExtend
<1>19. ASSUME NEW j \in Jobs, EnsureSubscriber(j) PROVE Invited'
  BY <1>0, <1>19, GotoEffect DEF EnsureSubscriber, tables, At, Invited
<1>20. ASSUME NEW j \in Jobs, CreateSubscriber(j) PROVE Invited'
  BY <1>0, <1>20, GotoEffect, InvitedFrame DEF CreateSubscriber
<1>21. ASSUME NEW j \in Jobs, FindToken(j) PROVE Invited'
  BY <1>0, <1>21, GotoEffect, FinishEffect
  DEF FindToken, AfterInvite, tables, At, Invited
<1>22. ASSUME NEW j \in Jobs, GenerateToken(j) PROVE Invited'
  <2>1. CASE job[j].s \in token
    BY <1>0, <1>22, <2>1, FinishEffect, InvitedFrame DEF GenerateToken
  <2>2. CASE job[j].s \notin token
    <3>1. /\ \A k \in Jobs \ {j} : job'[k] = job[k]
          /\ job'[j].s = job[j].s
      BY <1>0, <1>22, <2>2, GotoEffect DEF GenerateToken
    <3>2. mails' = mails /\ token' = token \cup {job[j].s} /\ job[j].s \in Sessions
      BY <1>0, <1>22 DEF GenerateToken, JobKnows, At
    <3>3. \A k \in Jobs \ {j} : At(k, "mail") => job[k].s # job[j].s
      BY <2>2 DEF Invited
    <3>4. mails[job[j].s] = 0
      BY <2>2, <3>2 DEF Invited
    <3> QED
      BY <3>1, <3>2, <3>3, <3>4 DEF Invited, At
  <2> QED
    BY <2>1, <2>2
<1>23. ASSUME NEW j \in Jobs, SendInvitation(j) PROVE Invited'
  <2>1. /\ \A k \in Jobs \ {j} : job'[k] = job[k]
        /\ job'[j].at # "mail"
    BY <1>0, <1>23, GotoEffect, FinishEffect DEF SendInvitation, AfterInvite
  <2>2. /\ job[j].s \in token /\ mails[job[j].s] = 0
        /\ \A k \in Jobs \ {j} : At(k, "mail") => job[k].s # job[j].s
    BY <1>23 DEF SendInvitation, Invited
  <2>3. /\ mails \in [Sessions -> Nat] /\ token' = token
        /\ mails' = [mails EXCEPT ![job[j].s] = @ + 1]
        /\ \A k \in Jobs : At(k, "mail") => job[k].s \in Sessions
    BY <1>0, <1>23 DEF SendInvitation, TypeOK, tables, JobKnows, At
  <2>4. \A s \in Sessions : mails'[s] # 0 => mails'[s] = 1 /\ s \in token'
    BY <2>2, <2>3 DEF Invited
  <2>5. \A k \in Jobs : At(k, "mail")' =>
           /\ k # j /\ At(k, "mail") /\ job'[k].s = job[k].s
           /\ job[k].s \in token' /\ mails'[job[k].s] = 0
    BY <2>1, <2>2, <2>3 DEF Invited, At
  <2> QED
    BY <2>4, <2>5 DEF Invited
<1>24. ASSUME NEW j \in Jobs, AdjustPrice(j) PROVE Invited'
  BY <1>0, <1>24, GotoEffect, InvitedFrame DEF AdjustPrice, tables
<1>25. ASSUME NEW j \in Jobs, MarkAdjusted(j) PROVE Invited'
  BY <1>0, <1>25, FinishEffect, InvitedFrame DEF MarkAdjusted
<1>26. ASSUME NEW j \in Jobs, CancelPreapproval(j) PROVE Invited'
  BY <1>0, <1>26, FinishEffect, GotoEffect
  DEF CancelPreapproval, tables, At, Invited
<1>27. ASSUME NEW j \in Jobs, Refund(j) PROVE Invited'
  BY <1>0, <1>27, GotoEffect, InvitedFrame DEF Refund, tables
<1>28. ASSUME NEW j \in Jobs, Deactivate(j) PROVE Invited'
  BY <1>0, <1>28, FinishEffect, GotoEffect DEF Deactivate, At, Invited
<1>29. ASSUME NEW j \in Jobs, SaveCancelled(j) PROVE Invited'
  BY <1>0, <1>29, FinishEffect, InvitedFrame DEF SaveCancelled
<1>30. ASSUME NEW j \in Jobs, JobFails(j) PROVE Invited'
  BY <1>0, <1>30, GotoEffect, FinishEffect, InvitedFrame
  DEF JobFails, Fault, AfterInvite, tables
<1>31. ASSUME NEW s \in Sessions, CreationFails(s) PROVE Invited'
  BY <1>31 DEF CreationFails, Fault, tables, At, Invited
<1>32. ASSUME NEW j \in Jobs, NEW s \in Sessions, BeginCancel(j, s) PROVE Invited'
  <2>1. /\ \A k \in Jobs \ {j} : job'[k] = job[k]
        /\ UNCHANGED <<mails, token>>
        /\ job'[j].at # "mail"
    BY <1>32, CancelEffect DEF tables
  <2> QED
    BY <2>1, InvitedFrame
<1>33. CASE Restart
  BY <1>33 DEF Restart, Fault, tables, Idle, At, Invited
<1>34. CASE UNCHANGED vars
  BY <1>34 DEF vars, At, Invited
<1>35. ASSUME NEW j \in Jobs, Reactivate(j) PROVE Invited'
  BY <1>0, <1>35, FinishEffect, ProceedEffect, InvitedFrame
  DEF Reactivate, AfterExtend, tables
<1> QED
  BY <1>1, <1>2, <1>3, <1>4, <1>5, <1>6, <1>7, <1>8, <1>9, <1>10, <1>11, <1>12,
     <1>13, <1>14, <1>15, <1>16, <1>17, <1>18, <1>19, <1>20, <1>21, <1>22,
     <1>23, <1>24, <1>25, <1>26, <1>27, <1>28, <1>29, <1>30, <1>31, <1>32,
     <1>33, <1>34, <1>35
  DEF Next, JobStep
-----------------------------------------------------------------------------
(* Who made a session PAID serves it. *)
LEMMA ServesFrame ==
    ASSUME Serves, NEW j \in Jobs,
           \A k \in Jobs : JobKnows(k),
           \A k \in Jobs \ {j} : job'[k] = job[k],
           \A s \in Sessions : subscriber[s] # "none" => subscriber'[s] # "none",
           lost \subseteq lost',
           job[j].at \in Serving =>
              \/ subscriber'[job[j].s] # "none"
              \/ job[j].s \in lost'
              \/ job'[j].s = job[j].s /\ job'[j].at \in Serving,
           \A s \in Sessions : row'[s] # None /\ row'[s].status = "PAID" =>
              \/ row[s] # None /\ row[s].status = "PAID"
              \/ job[j].at \in Copying /\ job[j].s = s /\ job[j].snap.status = "PAID"
              \/ job'[j].s = s /\ job'[j].at \in Serving,
           job'[j].at \in Copying /\ job'[j].snap.status = "PAID" =>
              /\ job'[j].s \in Sessions
              /\ \/ job[j].at \in Copying /\ job[j].s = job'[j].s
                    /\ job[j].snap.status = "PAID"
                 \/ row[job'[j].s] # None /\ row[job'[j].s].status = "PAID"
    PROVE  Serves'
<1>1. ASSUME NEW s \in Sessions, Served(s) PROVE Served(s)'
  BY <1>1 DEF Served
<1>2. ASSUME NEW s \in Sessions, row'[s] # None, row'[s].status = "PAID"
      PROVE  Served(s)'
  BY <1>2 DEF Serves, Served
<1>3. ASSUME NEW k \in Jobs, job'[k].at \in Copying, job'[k].snap.status = "PAID"
      PROVE  Served(job[k].s)'
  <2>1. CASE k = j
    BY <1>1, <1>3, <2>1 DEF Serves
  <2>2. CASE k # j
    BY <1>1, <1>3 DEF Serves, JobKnows, At, Copying
  <2> QED
    BY <2>1, <2>2
<1> QED
  BY <1>2, <1>3 DEF Serves

LEMMA ServesStep == TypeOK /\ Known /\ Serves /\ [Next]_vars => Serves'
<1> SUFFICES ASSUME TypeOK, Known, Serves, [Next]_vars PROVE Serves'
  OBVIOUS
<1>0. /\ job \in [Jobs -> Job] /\ row \in [Sessions -> Row \cup {None}]
      /\ price \in [Sessions -> {"first", "plan"}]
      /\ \A j \in Jobs : JobKnows(j)
  BY DEF TypeOK, Known
<1>1. ASSUME NEW s \in Sessions, CreateResource(s) PROVE Serves'
  BY <1>1 DEF CreateResource, tables, history, Serves, Served
<1>2. ASSUME NEW s \in Sessions, SaveSession(s) PROVE Serves'
  BY <1>2 DEF SaveSession, history, Serves, Served
<1>3. ASSUME NEW s \in Sessions, MovePreapproval(s) PROVE Serves'
  BY <1>3 DEF MovePreapproval, tables, history, Serves, Served
<1>4. ASSUME NEW p \in Payments, StartPayment(p) PROVE Serves'
  BY <1>4 DEF StartPayment, tables, history, Serves, Served
<1>5. ASSUME NEW p \in Payments, SettlePayment(p) PROVE Serves'
  BY <1>5 DEF SettlePayment, tables, history, Serves, Served
<1>6. ASSUME NEW j \in Jobs, ReceiveNotification(j) PROVE Serves'
  BY <1>0, <1>6, NotificationEffect, ServesFrame
  DEF tables, history, At, Serving, Copying
<1>7. ASSUME NEW j \in Jobs, AskMercadoPago(j) PROVE Serves'
  BY <1>0, <1>7, AskEffect, ServesFrame
  DEF tables, history, At, Serving, Copying
<1>8. ASSUME NEW j \in Jobs, HandlePayment(j) PROVE Serves'
  BY <1>0, <1>8, GotoEffect, FinishEffect, ProceedEffect
  DEF HandlePayment, tables, history, At, JobKnows, Serves, Served, Serving,
      Copying
<1>9. ASSUME NEW j \in Jobs, MarkPreferencePaid(j) PROVE Serves'
  BY <1>0, <1>9, GotoEffect
  DEF MarkPreferencePaid, PendingTo, history, At, Serves, Served, Serving,
      Copying
<1>10. ASSUME NEW j \in Jobs, RecordPreferencePayment(j) PROVE Serves'
  BY <1>0, <1>10, FinishEffect, ProceedEffect, ServesFrame
  DEF RecordPreferencePayment, history, At, Serving, Copying
<1>11. ASSUME NEW j \in Jobs, MarkFailed(j) PROVE Serves'
  BY <1>0, <1>11, FinishEffect
  DEF MarkFailed, PendingTo, history, Serves, Served, Serving, Copying
<1>12. ASSUME NEW j \in Jobs, HandlePreapproval(j) PROVE Serves'
  BY <1>0, <1>12, FinishEffect, ProceedEffect, PreapprovalEffect
  DEF HandlePreapproval, tables, history, At, JobKnows, Serves, Served,
      Serving, Copying, Asking
<1>13. ASSUME NEW j \in Jobs, SaveEntity(j) PROVE Serves'
  BY <1>0, <1>13, FinishEffect, ServesFrame
  DEF SaveEntity, history, At, Serving, Copying
<1>14. ASSUME NEW j \in Jobs, HandleAuthorized(j) PROVE Serves'
  BY <1>0, <1>14, FinishEffect, ReadEffect, ServesFrame
  DEF HandleAuthorized, tables, history, At, JobKnows, Serving, Copying
<1>15. ASSUME NEW j \in Jobs, RecordCharge(j) PROVE Serves'
  BY <1>0, <1>15, FinishEffect, ProceedEffect
  DEF RecordCharge, history, At, Serves, Served, Serving, Copying
<1>16. ASSUME NEW j \in Jobs, FirstCharge(j) PROVE Serves'
  BY <1>0, <1>16, FinishEffect, ProceedEffect, ServesFrame
  DEF FirstCharge, PendingTo, history, At, Serving, Copying
<1>17. ASSUME NEW j \in Jobs, FindSubscriber(j) PROVE Serves'
  BY <1>0, <1>17, GotoEffect, FinishEffect, ProceedEffect, ServesFrame
  DEF FindSubscriber, AfterExtend, tables, history, At, JobKnows, Serving,
      Copying
<1>18. ASSUME NEW j \in Jobs, Extend(j) PROVE Serves'
  BY <1>0, <1>18, GotoEffect, FinishEffect, ProceedEffect, ServesFrame
  DEF Extend, AfterExtend, history, At, JobKnows, Serving, Copying
<1>19. ASSUME NEW j \in Jobs, EnsureSubscriber(j) PROVE Serves'
  BY <1>0, <1>19, GotoEffect
  DEF EnsureSubscriber, tables, history, At, Serves, Served, Serving
<1>20. ASSUME NEW j \in Jobs, CreateSubscriber(j) PROVE Serves'
  <2>1. /\ \A k \in Jobs \ {j} : job'[k] = job[k]
        /\ job'[j].at = "findToken"
        /\ UNCHANGED <<row, lost>>
    BY <1>0, <1>20, GotoEffect DEF CreateSubscriber, history
  <2>2. /\ \A s \in Sessions : subscriber[s] # "none" => subscriber'[s] # "none"
        /\ subscriber'[job[j].s] # "none"
    BY <1>0, <1>20 DEF CreateSubscriber, TypeOK, JobKnows, At
  <2> QED
    BY <1>0, <2>1, <2>2, ServesFrame DEF Copying
<1>21. ASSUME NEW j \in Jobs, FindToken(j) PROVE Serves'
  BY <1>0, <1>21, GotoEffect, FinishEffect
  DEF FindToken, AfterInvite, tables, history, At, Serves, Served, Serving,
      Copying
<1>22. ASSUME NEW j \in Jobs, GenerateToken(j) PROVE Serves'
  BY <1>0, <1>22, GotoEffect, FinishEffect
  DEF GenerateToken, history, At, Serves, Served, Serving, Copying
<1>23. ASSUME NEW j \in Jobs, SendInvitation(j) PROVE Serves'
  BY <1>0, <1>23, GotoEffect, FinishEffect
  DEF SendInvitation, AfterInvite, tables, history, At, Serves, Served,
      Serving, Copying
<1>24. ASSUME NEW j \in Jobs, AdjustPrice(j) PROVE Serves'
  BY <1>0, <1>24, GotoEffect, ServesFrame
  DEF AdjustPrice, tables, history, At, Serving, Copying
<1>25. ASSUME NEW j \in Jobs, MarkAdjusted(j) PROVE Serves'
  BY <1>0, <1>25, FinishEffect, ServesFrame
  DEF MarkAdjusted, history, At, JobKnows, Serving, Copying, Asking
<1>26. ASSUME NEW j \in Jobs, CancelPreapproval(j) PROVE Serves'
  BY <1>0, <1>26, FinishEffect, GotoEffect
  DEF CancelPreapproval, tables, history, At, Serves, Served, Serving, Copying
<1>27. ASSUME NEW j \in Jobs, Refund(j) PROVE Serves'
  BY <1>0, <1>27, GotoEffect, ServesFrame
  DEF Refund, tables, history, At, JobKnows, Serving, Copying
<1>28. ASSUME NEW j \in Jobs, Deactivate(j) PROVE Serves'
  BY <1>0, <1>28, FinishEffect, GotoEffect
  DEF Deactivate, history, At, Serves, Served, Serving, Copying
<1>29. ASSUME NEW j \in Jobs, SaveCancelled(j) PROVE Serves'
  BY <1>0, <1>29, FinishEffect, ServesFrame
  DEF SaveCancelled, history, At, Serving, Copying
<1>30. ASSUME NEW j \in Jobs, JobFails(j) PROVE Serves'
  BY <1>0, <1>30, GotoEffect, FinishEffect, ServesFrame
  DEF JobFails, Fault, AfterInvite, tables, Copying
<1>31. ASSUME NEW s \in Sessions, CreationFails(s) PROVE Serves'
  BY <1>31 DEF CreationFails, Fault, tables, Serves, Served
<1>32. ASSUME NEW j \in Jobs, NEW s \in Sessions, BeginCancel(j, s) PROVE Serves'
  <2>1. /\ \A k \in Jobs \ {j} : job'[k] = job[k]
        /\ UNCHANGED <<row, subscriber, lost>>
        /\ job[j].at = "idle" /\ row[s] # None
        /\ job'[j].s = s /\ job'[j].snap = row[s]
    BY <1>32, CancelEffect DEF At, tables, history
  <2> QED
    BY <1>0, <2>1, ServesFrame DEF Serving
<1>33. CASE Restart
  BY <1>33
  DEF Restart, Fault, tables, Idle, At, Serves, Served, Serving, Copying
<1>34. CASE UNCHANGED vars
  BY <1>34 DEF vars, Serves, Served
<1>35. ASSUME NEW j \in Jobs, Reactivate(j) PROVE Serves'
  BY <1>0, <1>35, FinishEffect, ProceedEffect, ServesFrame
  DEF Reactivate, AfterExtend, tables, history, At, JobKnows, Serving,
      Copying
<1> QED
  BY <1>1, <1>2, <1>3, <1>4, <1>5, <1>6, <1>7, <1>8, <1>9, <1>10, <1>11, <1>12,
     <1>13, <1>14, <1>15, <1>16, <1>17, <1>18, <1>19, <1>20, <1>21, <1>22,
     <1>23, <1>24, <1>25, <1>26, <1>27, <1>28, <1>29, <1>30, <1>31, <1>32,
     <1>33, <1>34, <1>35
  DEF Next, JobStep
-----------------------------------------------------------------------------
(* The guarded UPDATEs leave a settled session alone. *)
LEMMA SettledStep ==
    ASSUME TypeOK, Known, Fresh, [Next]_vars, NEW s \in Sessions
    PROVE  row[s] # None /\ ~Is(s, "PENDING") /\ row'[s].status # row[s].status =>
              \E j \in Jobs :
                  /\ job[j].s = s
                  /\ job[j].at \in {"save", "saveCancelled"}
                  /\ row'[s].status \in {job[j].snap.status, "CANCELLED"}
<1> SUFFICES ASSUME row[s] # None, ~Is(s, "PENDING"), row'[s].status # row[s].status
             PROVE  \E j \in Jobs :
                       /\ job[j].s = s
                       /\ job[j].at \in {"save", "saveCancelled"}
                       /\ row'[s].status \in {job[j].snap.status, "CANCELLED"}
  OBVIOUS
<1>0. /\ job \in [Jobs -> Job] /\ row \in [Sessions -> Row \cup {None}]
      /\ \A j \in Jobs : JobKnows(j)
      /\ row' # row
  BY DEF TypeOK, Known
<1>1. ASSUME NEW x \in Sessions, CreateResource(x) PROVE FALSE
  BY <1>1 DEF CreateResource, tables
<1>2. ASSUME NEW x \in Sessions, SaveSession(x) PROVE FALSE
  BY <1>0, <1>2 DEF SaveSession, Fresh
<1>3. ASSUME NEW x \in Sessions, MovePreapproval(x) PROVE FALSE
  BY <1>0, <1>3 DEF MovePreapproval, tables
<1>4. ASSUME NEW p \in Payments, StartPayment(p) PROVE FALSE
  BY <1>4 DEF StartPayment, tables
<1>5. ASSUME NEW p \in Payments, SettlePayment(p) PROVE FALSE
  BY <1>0, <1>5 DEF SettlePayment, tables
<1>6. ASSUME NEW j \in Jobs, ReceiveNotification(j) PROVE FALSE
  BY <1>0, <1>6 DEF ReceiveNotification, tables, Receive
<1>7. ASSUME NEW j \in Jobs, AskMercadoPago(j) PROVE FALSE
  BY <1>7 DEF AskMercadoPago, tables, Look
<1>8. ASSUME NEW j \in Jobs, HandlePayment(j) PROVE FALSE
  BY <1>0, <1>8 DEF HandlePayment, tables
<1>9. ASSUME NEW j \in Jobs, MarkPreferencePaid(j) PROVE FALSE
  BY <1>0, <1>9, PendingEffect
  DEF MarkPreferencePaid, Is, JobKnows, At, Asking, CheckoutStatus
<1>10. ASSUME NEW j \in Jobs, RecordPreferencePayment(j) PROVE FALSE
  BY <1>10 DEF RecordPreferencePayment
<1>11. ASSUME NEW j \in Jobs, MarkFailed(j) PROVE FALSE
  BY <1>0, <1>11, PendingEffect
  DEF MarkFailed, Is, JobKnows, At, Asking, CheckoutStatus
<1>12. ASSUME NEW j \in Jobs, HandlePreapproval(j) PROVE FALSE
  BY <1>0, <1>12 DEF HandlePreapproval, tables
<1>13. ASSUME NEW j \in Jobs, SaveEntity(j) PROVE \E k \in Jobs :
          /\ job[k].s = s
          /\ job[k].at \in {"save", "saveCancelled"}
          /\ row'[s].status \in {job[k].snap.status, "CANCELLED"}
  <2>1. /\ row' = [row EXCEPT ![job[j].s] = job[j].snap]
        /\ job[j].at = "save"
    BY <1>13 DEF SaveEntity, At
  <2> QED
    BY <1>0, <2>1
<1>14. ASSUME NEW j \in Jobs, HandleAuthorized(j) PROVE FALSE
  BY <1>0, <1>14 DEF HandleAuthorized, tables
<1>15. ASSUME NEW j \in Jobs, RecordCharge(j) PROVE FALSE
  BY <1>15 DEF RecordCharge
<1>16. ASSUME NEW j \in Jobs, FirstCharge(j) PROVE FALSE
  BY <1>0, <1>16, PendingEffect
  DEF FirstCharge, Is, JobKnows, At, Asking, CheckoutStatus
<1>17. ASSUME NEW j \in Jobs, FindSubscriber(j) PROVE FALSE
  BY <1>0, <1>17 DEF FindSubscriber, tables
<1>18. ASSUME NEW j \in Jobs, Extend(j) PROVE FALSE
  BY <1>18 DEF Extend
<1>19. ASSUME NEW j \in Jobs, EnsureSubscriber(j) PROVE FALSE
  BY <1>0, <1>19 DEF EnsureSubscriber, tables
<1>20. ASSUME NEW j \in Jobs, CreateSubscriber(j) PROVE FALSE
  BY <1>0, <1>20 DEF CreateSubscriber
<1>21. ASSUME NEW j \in Jobs, FindToken(j) PROVE FALSE
  BY <1>21 DEF FindToken, tables
<1>22. ASSUME NEW j \in Jobs, GenerateToken(j) PROVE FALSE
  BY <1>0, <1>22 DEF GenerateToken
<1>23. ASSUME NEW j \in Jobs, SendInvitation(j) PROVE FALSE
  BY <1>0, <1>23 DEF SendInvitation, tables
<1>24. ASSUME NEW j \in Jobs, AdjustPrice(j) PROVE FALSE
  BY <1>24 DEF AdjustPrice, tables
<1>25. ASSUME NEW j \in Jobs, MarkAdjusted(j) PROVE FALSE
  BY <1>25 DEF MarkAdjusted
<1>26. ASSUME NEW j \in Jobs, CancelPreapproval(j) PROVE FALSE
  BY <1>0, <1>26 DEF CancelPreapproval, tables
<1>27. ASSUME NEW j \in Jobs, Refund(j) PROVE FALSE
  BY <1>27 DEF Refund, tables
<1>28. ASSUME NEW j \in Jobs, Deactivate(j) PROVE FALSE
  BY <1>0, <1>28 DEF Deactivate
<1>29. ASSUME NEW j \in Jobs, SaveCancelled(j) PROVE \E k \in Jobs :
          /\ job[k].s = s
          /\ job[k].at \in {"save", "saveCancelled"}
          /\ row'[s].status \in {job[k].snap.status, "CANCELLED"}
  <2>1. job[j].at = "saveCancelled" /\ job[j].snap \in Row
    BY <1>0, <1>29 DEF SaveCancelled, At, JobKnows, Copying
  <2>2. [job[j].snap EXCEPT !.status = "CANCELLED"].status = "CANCELLED"
    BY RowUpdate
  <2> QED
    BY <1>0, <1>29, <2>1, <2>2 DEF SaveCancelled
<1>30. ASSUME NEW j \in Jobs, JobFails(j) PROVE FALSE
  BY <1>0, <1>30 DEF JobFails, tables, Fault
<1>31. ASSUME NEW x \in Sessions, CreationFails(x) PROVE FALSE
  BY <1>31 DEF CreationFails, tables, Fault
<1>32. ASSUME NEW j \in Jobs, NEW r \in Sessions, BeginCancel(j, r) PROVE FALSE
  BY <1>0, <1>32 DEF BeginCancel, tables
<1>33. ~Restart /\ ~UNCHANGED vars
  BY <1>0 DEF Restart, Fault, tables, vars
<1>34. ASSUME NEW j \in Jobs, Reactivate(j) PROVE FALSE
  BY <1>0, <1>34 DEF Reactivate, tables
<1> QED
  BY <1>1, <1>2, <1>3, <1>4, <1>5, <1>6, <1>7, <1>8, <1>9, <1>10, <1>11, <1>12,
     <1>13, <1>14, <1>15, <1>16, <1>17, <1>18, <1>19, <1>20, <1>21, <1>22,
     <1>23, <1>24, <1>25, <1>26, <1>27, <1>28, <1>29, <1>30, <1>31, <1>32,
     <1>33, <1>34
  DEF Next, JobStep

-----------------------------------------------------------------------------
(***************************************************************************)
(* The refinement: every step of the checkout provisions, invites or       *)
(* charges one session that may be, or changes nothing Provisioning sees.  *)
(***************************************************************************)
LEMMA Unseen ==
    ASSUME UNCHANGED mails,
           \A p \in Payments : payment'[p] \in Taken <=> payment[p] \in Taken,
           \A s \in Sessions : subscriber'[s] # "none" <=> subscriber[s] # "none"
    PROVE  UNCHANGED Promise!vars
<1>1. \A s \in Sessions : Charged(s)' <=> Charged(s)
  BY DEF Charged, Taken
<1>2. {s \in Sessions : Charged(s)}' = {s \in Sessions : Charged(s)}
  BY <1>1
<1>3. {s \in Sessions : subscriber[s] # "none"}' = {s \in Sessions : subscriber[s] # "none"}
  OBVIOUS
<1> QED
  BY <1>2, <1>3 DEF Promise!vars

LEMMA ChargeStep ==
    ASSUME TypeOK, NEW p \in Payments, SettlePayment(p)
    PROVE  [Promise!Next]_(Promise!vars)
<1>1. /\ \A q \in Payments \ {p} : payment'[q] = payment[q]
      /\ payment[p] = "pending"
      /\ payment'[p] \in {"approved", "refused"}
      /\ UNCHANGED <<mails, subscriber>>
  BY DEF SettlePayment, TypeOK, tables
<1>2. SessionOf[p] \in Sessions
  OBVIOUS
<1>3. \A s \in Sessions : Charged(s)' <=>
         Charged(s) \/ (s = SessionOf[p] /\ payment'[p] = "approved")
  BY <1>1 DEF Charged
<1>4. CASE payment'[p] = "approved" /\ ~Charged(SessionOf[p])
  <2>1. {s \in Sessions : Charged(s)}' = {s \in Sessions : Charged(s)} \cup {SessionOf[p]}
    BY <1>2, <1>3, <1>4
  <2>2. Promise!Charge(SessionOf[p])
    BY <1>1, <1>4, <2>1 DEF Promise!Charge
  <2> QED
    BY <1>2, <2>2 DEF Promise!Next
<1>5. CASE payment'[p] = "refused" \/ Charged(SessionOf[p])
  <2>1. {s \in Sessions : Charged(s)}' = {s \in Sessions : Charged(s)}
    BY <1>1, <1>3, <1>5
  <2> QED
    BY <1>1, <2>1 DEF Promise!vars
<1> QED
  BY <1>1, <1>4, <1>5

LEMMA ProvisionStep ==
    ASSUME TypeOK, Known, Paid, NEW j \in Jobs, CreateSubscriber(j)
    PROVE  [Promise!Next]_(Promise!vars)
<1>1. job[j].s \in Sessions /\ Charged(job[j].s)
  BY DEF Known, JobKnows, Paid, JobPaid, Granting, CreateSubscriber, At
<1>2. PICK s \in Sessions : s = job[j].s /\ Charged(s)
  BY <1>1
<1>3. UNCHANGED <<payment, mails>>
  BY DEF CreateSubscriber, mp
<1>4. CASE subscriber[s] = "none"
  <2>1. \A r \in Sessions : subscriber'[r] # "none" <=> subscriber[r] # "none" \/ r = s
    BY <1>2, <1>4 DEF CreateSubscriber, TypeOK
  <2>2. {r \in Sessions : subscriber[r] # "none"}'
          = {r \in Sessions : subscriber[r] # "none"} \cup {s}
    BY <2>1
  <2>3. Promise!Provision(s)
    BY <1>2, <1>3, <1>4, <2>2 DEF Promise!Provision, Charged
  <2> QED
    BY <2>3 DEF Promise!Next
<1>5. CASE subscriber[s] # "none"
  BY <1>2, <1>3, <1>5, Unseen DEF CreateSubscriber
<1> QED
  BY <1>4, <1>5

LEMMA InviteStep ==
    ASSUME TypeOK, Known, Paid, Invited, NEW j \in Jobs, SendInvitation(j)
    PROVE  [Promise!Next]_(Promise!vars)
<1>1. job[j].s \in Sessions /\ Charged(job[j].s) /\ mails[job[j].s] = 0
  BY DEF Known, JobKnows, Paid, Invited, SendInvitation, At
<1>2. PICK s \in Sessions : s = job[j].s /\ Charged(s) /\ mails[s] = 0
  BY <1>1
<1>3. mails' = [mails EXCEPT ![s] = 1] /\ UNCHANGED <<payment, subscriber>>
  BY <1>2 DEF SendInvitation, mp, tables, TypeOK
<1>4. Promise!Invite(s)
  BY <1>2, <1>3 DEF Promise!Invite, Charged
<1> QED
  BY <1>4 DEF Promise!Next

LEMMA ImplementsStep ==
    TypeOK /\ Known /\ Paid /\ Invited /\ [Next]_vars => [Promise!Next]_(Promise!vars)
<1> SUFFICES ASSUME TypeOK, Known, Paid, Invited, [Next]_vars
             PROVE  [Promise!Next]_(Promise!vars)
  OBVIOUS
<1>0. /\ subscriber \in [Sessions -> {"none", "active", "inactive"}]
      /\ \A j \in Jobs : JobKnows(j) /\ JobPaid(j)
  BY DEF TypeOK, Known, Paid
<1>1. ASSUME NEW s \in Sessions, CreateResource(s) PROVE [Promise!Next]_(Promise!vars)
  BY <1>1, Unseen DEF CreateResource, tables
<1>2. ASSUME NEW s \in Sessions, SaveSession(s) PROVE [Promise!Next]_(Promise!vars)
  BY <1>2, Unseen DEF SaveSession, mp
<1>3. ASSUME NEW s \in Sessions, MovePreapproval(s) PROVE [Promise!Next]_(Promise!vars)
  BY <1>3, Unseen DEF MovePreapproval, tables
<1>4. ASSUME NEW p \in Payments, StartPayment(p) PROVE [Promise!Next]_(Promise!vars)
  <2>1. \A q \in Payments : payment'[q] \in Taken <=> payment[q] \in Taken
    BY <1>4 DEF StartPayment, TypeOK, Taken
  <2> QED
    BY <1>4, <2>1, Unseen DEF StartPayment, tables
<1>5. ASSUME NEW p \in Payments, SettlePayment(p) PROVE [Promise!Next]_(Promise!vars)
  BY <1>5, ChargeStep
<1>6. ASSUME NEW j \in Jobs, ReceiveNotification(j) PROVE [Promise!Next]_(Promise!vars)
  BY <1>6, Unseen DEF ReceiveNotification, Receive, mp, tables
<1>7. ASSUME NEW j \in Jobs, AskMercadoPago(j) PROVE [Promise!Next]_(Promise!vars)
  BY <1>7, Unseen DEF AskMercadoPago, Look, mp, tables
<1>8. ASSUME NEW j \in Jobs, HandlePayment(j) PROVE [Promise!Next]_(Promise!vars)
  BY <1>8, Unseen DEF HandlePayment, mp, tables
<1>9. ASSUME NEW j \in Jobs, MarkPreferencePaid(j) PROVE [Promise!Next]_(Promise!vars)
  BY <1>9, Unseen DEF MarkPreferencePaid, mp
<1>10. ASSUME NEW j \in Jobs, RecordPreferencePayment(j) PROVE [Promise!Next]_(Promise!vars)
  BY <1>10, Unseen DEF RecordPreferencePayment, mp
<1>11. ASSUME NEW j \in Jobs, MarkFailed(j) PROVE [Promise!Next]_(Promise!vars)
  BY <1>11, Unseen DEF MarkFailed, mp
<1>12. ASSUME NEW j \in Jobs, HandlePreapproval(j) PROVE [Promise!Next]_(Promise!vars)
  BY <1>12, Unseen DEF HandlePreapproval, mp, tables
<1>13. ASSUME NEW j \in Jobs, SaveEntity(j) PROVE [Promise!Next]_(Promise!vars)
  BY <1>13, Unseen DEF SaveEntity, mp
<1>14. ASSUME NEW j \in Jobs, HandleAuthorized(j) PROVE [Promise!Next]_(Promise!vars)
  BY <1>14, Unseen DEF HandleAuthorized, mp, tables
<1>15. ASSUME NEW j \in Jobs, RecordCharge(j) PROVE [Promise!Next]_(Promise!vars)
  BY <1>15, Unseen DEF RecordCharge, mp
<1>16. ASSUME NEW j \in Jobs, FirstCharge(j) PROVE [Promise!Next]_(Promise!vars)
  BY <1>16, Unseen DEF FirstCharge, mp
<1>17. ASSUME NEW j \in Jobs, FindSubscriber(j) PROVE [Promise!Next]_(Promise!vars)
  BY <1>17, Unseen DEF FindSubscriber, mp, tables
<1>18. ASSUME NEW j \in Jobs, Extend(j) PROVE [Promise!Next]_(Promise!vars)
  <2>1. \A s \in Sessions : subscriber'[s] # "none" <=> subscriber[s] # "none"
    BY <1>0, <1>18 DEF Extend, At, JobPaid, Serviced
  <2> QED
    BY <1>18, <2>1, Unseen DEF Extend, mp
<1>19. ASSUME NEW j \in Jobs, EnsureSubscriber(j) PROVE [Promise!Next]_(Promise!vars)
  BY <1>19, Unseen DEF EnsureSubscriber, mp, tables
<1>20. ASSUME NEW j \in Jobs, CreateSubscriber(j) PROVE [Promise!Next]_(Promise!vars)
  BY <1>20, ProvisionStep
<1>21. ASSUME NEW j \in Jobs, FindToken(j) PROVE [Promise!Next]_(Promise!vars)
  BY <1>21, Unseen DEF FindToken, mp, tables
<1>22. ASSUME NEW j \in Jobs, GenerateToken(j) PROVE [Promise!Next]_(Promise!vars)
  BY <1>22, Unseen DEF GenerateToken, mp
<1>23. ASSUME NEW j \in Jobs, SendInvitation(j) PROVE [Promise!Next]_(Promise!vars)
  BY <1>23, InviteStep
<1>24. ASSUME NEW j \in Jobs, AdjustPrice(j) PROVE [Promise!Next]_(Promise!vars)
  BY <1>24, Unseen DEF AdjustPrice, tables
<1>25. ASSUME NEW j \in Jobs, MarkAdjusted(j) PROVE [Promise!Next]_(Promise!vars)
  BY <1>25, Unseen DEF MarkAdjusted, mp
<1>26. ASSUME NEW j \in Jobs, CancelPreapproval(j) PROVE [Promise!Next]_(Promise!vars)
  BY <1>26, Unseen DEF CancelPreapproval, tables
<1>27. ASSUME NEW j \in Jobs, Refund(j) PROVE [Promise!Next]_(Promise!vars)
  <2>1. \A p \in Payments : payment'[p] \in Taken <=> payment[p] \in Taken
    BY <1>27 DEF Refund, Paid, Taken
  <2> QED
    BY <1>27, <2>1, Unseen DEF Refund, tables
<1>28. ASSUME NEW j \in Jobs, Deactivate(j) PROVE [Promise!Next]_(Promise!vars)
  <2>1. \A s \in Sessions : subscriber'[s] # "none" <=> subscriber[s] # "none"
    BY <1>0, <1>28 DEF Deactivate, At, JobPaid, Serviced
  <2> QED
    BY <1>28, <2>1, Unseen DEF Deactivate, mp
<1>29. ASSUME NEW j \in Jobs, SaveCancelled(j) PROVE [Promise!Next]_(Promise!vars)
  BY <1>29, Unseen DEF SaveCancelled, mp
<1>30. ASSUME NEW j \in Jobs, JobFails(j) PROVE [Promise!Next]_(Promise!vars)
  BY <1>30, Unseen DEF JobFails, mp, tables, Fault
<1>31. ASSUME NEW s \in Sessions, CreationFails(s) PROVE [Promise!Next]_(Promise!vars)
  BY <1>31, Unseen DEF CreationFails, mp, tables, Fault
<1>32. ASSUME NEW j \in Jobs, NEW s \in Sessions, BeginCancel(j, s)
      PROVE  [Promise!Next]_(Promise!vars)
  BY <1>32, Unseen DEF BeginCancel, mp, tables
<1>33. CASE Restart
  BY <1>33, Unseen DEF Restart, Fault, mp, tables
<1>34. CASE UNCHANGED vars
  BY <1>34, Unseen DEF vars
<1>35. ASSUME NEW j \in Jobs, Reactivate(j) PROVE [Promise!Next]_(Promise!vars)
  BY <1>35, Unseen DEF Reactivate, mp, tables
<1> QED
  BY <1>1, <1>2, <1>3, <1>4, <1>5, <1>6, <1>7, <1>8, <1>9, <1>10, <1>11, <1>12,
     <1>13, <1>14, <1>15, <1>16, <1>17, <1>18, <1>19, <1>20, <1>21, <1>22,
     <1>23, <1>24, <1>25, <1>26, <1>27, <1>28, <1>29, <1>30, <1>31, <1>32,
     <1>33, <1>34, <1>35
  DEF Next, JobStep

-----------------------------------------------------------------------------
(* The invariant, and what follows from it. *)
LEMMA Invariance == Spec => []IInv
<1>1. Init => IInv
  <2>1. Init => Fresh /\ Priced /\ Paid /\ Invited /\ Serves
    BY DEF Init, Fresh, Priced, JobPriced, Paid, JobPaid, Invited, Serves, At,
           Idle, Copying, Granting, Serviced
  <2> QED
    BY <2>1, KnownInit DEF IInv
<1>2. IInv /\ [Next]_vars => IInv'
  BY KnownStep, PricedStep, PaidStep, InvitedStep, ServesStep,
     FreshStep DEF IInv
<1> QED
  BY <1>1, <1>2, PTL DEF Spec

(***************************************************************************)
(* For any number of sessions, payments, jobs and faults: a paid session   *)
(* has its subscriber, a job on its way to create it, or met a fault.      *)
(***************************************************************************)
THEOREM PaidServed == Spec => []PaidIsServed
<1>1. IInv => PaidIsServed
  BY DEF IInv, Serves, Served, PaidIsServed, Is
<1> QED
  BY <1>1, Invariance, PTL

(***************************************************************************)
(* Access never precedes the record that the refund will look for.         *)
(***************************************************************************)
THEOREM AccessRecorded == Spec => []RecordedBeforeAccess
<1>1. IInv => RecordedBeforeAccess
  BY DEF IInv, Paid, Recorded, RecordedBeforeAccess
<1> QED
  BY <1>1, Invariance, PTL

(***************************************************************************)
(* adhesionAdjusted is never true of a preapproval at its first price.     *)
(***************************************************************************)
THEOREM AdjustedPriced == Spec => []AdjustedMeansPlanPrice
<1>1. IInv => AdjustedMeansPlanPrice
  BY DEF IInv, Priced, AdjustedMeansPlanPrice
<1> QED
  BY <1>1, Invariance, PTL

(***************************************************************************)
(* A settled session changes its status by a whole-entity save only.       *)
(***************************************************************************)
THEOREM SettledByEntity == Spec => SettledChangesByEntityOnly
<1>1. IInv /\ [Next]_vars =>
        [\A s \in Sessions :
            row[s] # None /\ ~Is(s, "PENDING") /\ row'[s].status # row[s].status =>
                \E j \in Jobs :
                    /\ job[j].s = s
                    /\ job[j].at \in {"save", "saveCancelled"}
                    /\ row'[s].status \in {job[j].snap.status, "CANCELLED"}]_vars
  BY SettledStep DEF IInv
<1> QED
  BY <1>1, Invariance, PTL DEF Spec, SettledChangesByEntityOnly

(***************************************************************************)
(* The checkout implements Provisioning: one subscriber and one invitation *)
(* for a session, and none before an approved payment of it.               *)
(***************************************************************************)
THEOREM ImplementsProvisioning == Spec => ProvisionsOnce
<1>1. Init => Promise!Init
  BY DEF Init, Promise!Init, Charged
<1>2. IInv /\ [Next]_vars => [Promise!Next]_(Promise!vars)
  BY ImplementsStep DEF IInv
<1> QED
  BY <1>1, <1>2, Invariance, PTL DEF Spec, ProvisionsOnce, Promise!Spec
=============================================================================
