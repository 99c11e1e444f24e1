-------------------------- MODULE SubscriptionProofs --------------------------
(***************************************************************************)
(* Theorems about Subscription.tla: its type invariant, and the two ways   *)
(* in which access follows payment, for every number of subscribers, users *)
(* and jobs, every period and every bound.                                 *)
(***************************************************************************)
EXTENDS SubscriptionInvariant, TLAPS

USE DEF Subscribers

(* A row with any of its columns replaced is a row. *)
LEMMA RowUpdates ==
    ASSUME NEW r \in Row
    PROVE  /\ \A b \in BOOLEAN : [r EXCEPT !.active = b] \in Row
           /\ \A e \in 0..Forever : [r EXCEPT !.end = e] \in Row
           /\ \A u \in Users \cup {None} : [r EXCEPT !.user = u] \in Row
           /\ \A b \in BOOLEAN, e \in 0..Forever :
                 [r EXCEPT !.active = b, !.end = e] \in Row
BY DEF Row

(* Every end the code writes is a time. *)
LEMMA Ends ==
    ASSUME now \in 0..MaxTime
    PROVE  /\ now + Period \in 0..Forever
           /\ now \in 0..Forever
           /\ Forever \in 0..Forever
           /\ 0..MaxTime \subseteq 0..Forever
BY SubscriptionAssumption DEF Forever

(* None is no row. *)
LEMMA NoneIsNoRow == None \notin Row
BY SubscriptionAssumption

LEMMA InitIInv == Init => IInv
<1> SUFFICES ASSUME Init PROVE IInv
    OBVIOUS
<1>1. TypeOK
    BY SubscriptionAssumption
    DEF Init, TypeOK, Job, Idle, NoSweep, Touch, Forever
<1>2. Held /\ Swept
    BY DEF Init, Held, Swept, Idle, NoSweep
<1>3. PaidKeepsAccess /\ ActiveMeansPaid
    BY DEF Init, PaidKeepsAccess, ActiveMeansPaid, Exists
<1>4. Charged
    BY SubscriptionAssumption DEF Init, Charged, Exists, Idle
<1> QED BY <1>1, <1>2, <1>3, <1>4 DEF IInv

-----------------------------------------------------------------------------
(* Types. *)

(* A job that holds its copy, or stands idle, is a job. *)
LEMMA JobTypes ==
    /\ Idle \in Job
    /\ \A s \in Subscribers, c \in Row, t \in 0..MaxTime, at \in Extending \cup {"calls"} :
          [at |-> at, s |-> s, copy |-> c, since |-> t] \in Job
    /\ \A x \in Job : [x EXCEPT !.at = "cancel"] \in Job
<1>1. 0 \in 0..MaxTime
    BY SubscriptionAssumption
<1>2. Idle \in Job
    BY <1>1 DEF Job, Idle
<1>3. ASSUME NEW s \in Subscribers, NEW c \in Row, NEW t \in 0..MaxTime,
             NEW at \in Extending \cup {"calls"}
      PROVE  [at |-> at, s |-> s, copy |-> c, since |-> t] \in Job
    BY DEF Job, Extending
<1>4. ASSUME NEW x \in Job PROVE [x EXCEPT !.at = "cancel"] \in Job
    BY DEF Job
<1> QED BY <1>2, <1>3, <1>4

(* The actions of the signup and of administrators. *)
LEMMA TypeTables ==
    ASSUME TypeOK, NEW s \in Subscribers,
           \/ EnsureSubscriber(s) \/ Create(s) \/ Patch(s) \/ Remove(s)
           \/ \E u \in Users : LinkUser(s, u)
    PROVE  TypeOK'
<1>1. CASE EnsureSubscriber(s)
    <2>1. [active |-> TRUE, end |-> now + Period, user |-> None] \in Row
        BY Ends DEF TypeOK, Row
    <2> QED BY <1>1, <2>1, Ends DEF EnsureSubscriber, TypeOK
<1>2. CASE Create(s)
    <2>1. PICK new \in [active : BOOLEAN, end : {now, now + Period, Forever},
                        user : Users \cup {None}] :
              row' = [row EXCEPT ![s] = new]
        BY <1>2 DEF Create
    <2>2. new \in Row
        BY Ends DEF TypeOK, Row
    <2> QED BY <1>2, <2>1, <2>2 DEF Create, TypeOK, Touched, Touch
<1>3. CASE Patch(s)
    <2>1. row[s] \in Row
        BY <1>3 DEF Patch, Exists, TypeOK
    <2>2. \E r \in Row : row' = [row EXCEPT ![s] = r]
        BY <1>3, <2>1, RowUpdates, Ends DEF Patch, TypeOK
    <2>3. patches' \in 0..MaxPatches
        BY <1>3, SubscriptionAssumption DEF Patch, TypeOK
    <2> QED BY <1>3, <2>2, <2>3 DEF Patch, TypeOK, Touched, Touch
<1>4. CASE Remove(s)
    BY <1>4 DEF Remove, TypeOK
<1>5. ASSUME NEW u \in Users, LinkUser(s, u) PROVE TypeOK'
    <2>1. row[s] \in Row
        BY <1>5 DEF LinkUser, Exists, TypeOK
    <2>2. [row[s] EXCEPT !.user = u] \in Row
        BY <2>1, RowUpdates
    <2> QED BY <1>5, <2>2 DEF LinkUser, TypeOK
<1> QED BY <1>1, <1>2, <1>3, <1>4, <1>5

(* The charges and the cancellations. *)
LEMMA TypeJobs ==
    ASSUME TypeOK, Held, NEW j \in Jobs,
           \/ \E s \in Subscribers :
                 FindForCharge(j, s) \/ FindForRecorded(j, s) \/ BeginCancel(j, s)
           \/ Extend(j) \/ CallMercadoPago(j) \/ Cancel(j) \/ JobFails(j)
    PROVE  TypeOK'
<1>1. ASSUME NEW s \in Subscribers, FindForCharge(j, s) \/ FindForRecorded(j, s)
      PROVE  TypeOK'
    <2>1. PICK at \in Extending : Found(j, s, at)
        BY <1>1 DEF FindForCharge, FindForRecorded, Extending
    <2>2. row[s] \in Row
        BY <2>1 DEF Found, Exists, TypeOK
    <2>3. job' \in [Jobs -> Job]
        BY <2>1, <2>2, JobTypes DEF Found, TypeOK
    <2>4. paidUntil' \in [Subscribers -> 0..Forever] /\ touched' \in [Subscribers -> SUBSET Touch]
        BY <1>1, Ends DEF FindForCharge, FindForRecorded, Touched, Touch, TypeOK
    <2> QED BY <2>1, <2>3, <2>4 DEF Found, TypeOK
<1>2. ASSUME NEW s \in Subscribers, BeginCancel(j, s) PROVE TypeOK'
    <2>1. row[s] \in Row
        BY <1>2 DEF BeginCancel, Exists, TypeOK
    <2> QED BY <1>2, <2>1, JobTypes DEF BeginCancel, TypeOK
<1>3. CASE Extend(j)
    <2>1. job[j].s \in Subscribers /\ job[j].copy \in Row
        BY <1>3 DEF Extend, Extending, Held
    <2>2. [job[j].copy EXCEPT !.active = TRUE, !.end = now + Period] \in Row
        BY <2>1, RowUpdates, Ends DEF TypeOK
    <2>3. touched' \in [Subscribers -> SUBSET Touch]
        BY <1>3, <2>1 DEF Extend, Extended, Touch, TypeOK
    <2> QED BY <1>3, <2>1, <2>2, <2>3, JobTypes DEF Extend, TypeOK
<1>4. CASE CallMercadoPago(j)
    BY <1>4, JobTypes DEF CallMercadoPago, TypeOK
<1>5. CASE Cancel(j)
    <2>1. job[j].s \in Subscribers /\ job[j].copy \in Row /\ job[j].since \in 0..Forever
        BY <1>5, Ends DEF Cancel, Held, TypeOK, Job
    <2>2. [job[j].copy EXCEPT !.active = FALSE, !.end = job[j].since] \in Row
        BY <2>1, RowUpdates
    <2> QED BY <1>5, <2>1, <2>2, JobTypes DEF Cancel, TypeOK, Ended, Touch
<1>6. CASE JobFails(j)
    <2>1. faults' \in 0..MaxFaults
        BY <1>6, SubscriptionAssumption DEF JobFails, TypeOK
    <2> QED BY <1>6, <2>1, JobTypes DEF JobFails, TypeOK
<1> QED BY <1>1, <1>2, <1>3, <1>4, <1>5, <1>6

(* The sweep. *)
LEMMA TypeSweep ==
    ASSUME TypeOK,
           \/ BeginSweep \/ SaveRefused \/ SweepFails
           \/ \E s \in Subscribers : Deactivate(s)
    PROVE  TypeOK'
<1>1. CASE BeginSweep
    BY <1>1 DEF BeginSweep, TypeOK
<1>2. CASE SaveRefused
    BY <1>2 DEF SaveRefused, TypeOK, NoSweep
<1>3. CASE SweepFails
    <2>1. faults' \in 0..MaxFaults
        BY <1>3, SubscriptionAssumption DEF SweepFails, TypeOK
    <2> QED BY <1>3, <2>1 DEF SweepFails, TypeOK, NoSweep
<1>4. ASSUME NEW s \in Subscribers, Deactivate(s) PROVE TypeOK'
    <2>1. sweep[s] \in Row
        BY <1>4 DEF Deactivate, TypeOK
    <2>2. [sweep[s] EXCEPT !.active = FALSE] \in Row
        BY <2>1, RowUpdates
    <2> QED BY <1>4, <2>2 DEF Deactivate, TypeOK, Ended, Touch
<1> QED BY <1>1, <1>2, <1>3, <1>4

-----------------------------------------------------------------------------
(* A job that finds a subscriber holds its row; the others let it go, or   *)
(* keep what they hold.                                                    *)
LEMMA HeldStep ==
    ASSUME TypeOK, Held, [Next]_vars
    PROVE  Held'
<1> USE DEF Held
<1>1. CASE UNCHANGED job
    BY <1>1
<1>2. ASSUME NEW j \in Jobs, NEW s \in Subscribers,
             FindForCharge(j, s) \/ FindForRecorded(j, s) \/ BeginCancel(j, s)
      PROVE  Held'
    <2>1. s \in Bought /\ row[s] \in Row
        BY <1>2 DEF FindForCharge, FindForRecorded, Found, BeginCancel, Exists, TypeOK
    <2>2. \E x \in Job : x.s = s /\ x.copy = row[s] /\ job' = [job EXCEPT ![j] = x]
        BY <1>2, <2>1, JobTypes
        DEF FindForCharge, FindForRecorded, Found, BeginCancel, Extending, TypeOK
    <2> QED BY <2>1, <2>2 DEF TypeOK
<1>3. ASSUME NEW j \in Jobs, Extend(j) \/ Cancel(j) \/ JobFails(j) PROVE Held'
    <2>1. job' = [job EXCEPT ![j] = Idle]
        BY <1>3 DEF Extend, Cancel, JobFails
    <2> QED BY <2>1 DEF TypeOK, Idle
<1>4. ASSUME NEW j \in Jobs, CallMercadoPago(j) PROVE Held'
    BY <1>4 DEF CallMercadoPago, TypeOK, Job
<1> QED
    BY <1>1, <1>2, <1>3, <1>4
    DEF Next, vars, Tick, BeginSweep, SaveRefused, SweepFails, EnsureSubscriber,
        Create, Patch, Remove, Deactivate, LinkUser

(* The sweep finds what has expired; nothing else adds to what it found,   *)
(* and the clock only goes on.                                             *)
LEMMA SweptStep ==
    ASSUME TypeOK, Swept, [Next]_vars
    PROVE  Swept'
<1> USE DEF Swept
<1>1. CASE UNCHANGED sweep /\ UNCHANGED now
    BY <1>1
<1>2. CASE Tick
    BY <1>2, NoneIsNoRow DEF Tick, TypeOK, Row
<1>3. CASE BeginSweep
    BY <1>3 DEF BeginSweep, Expired
<1>4. CASE SaveRefused \/ SweepFails
    BY <1>4 DEF SaveRefused, SweepFails, NoSweep
<1>5. ASSUME NEW s \in Subscribers, Deactivate(s) PROVE Swept'
    BY <1>5 DEF Deactivate, TypeOK
<1> QED
    BY <1>1, <1>2, <1>3, <1>4, <1>5
    DEF Next, vars, EnsureSubscriber, Create, Patch, Remove, LinkUser,
        FindForCharge, FindForRecorded, Found, BeginCancel, Extend, CallMercadoPago,
        Cancel, JobFails

-----------------------------------------------------------------------------
(* The two properties for one subscriber, and what Charged says of it. *)
Kept(s) ==
    /\ Exists(s) /\ now <= paidUntil[s]
    /\ touched[s] \subseteq {"repeated", "delayed"}
    => row[s].active

Owed(s) ==
    /\ Exists(s) /\ row[s].active
    /\ touched[s] \cap {"patched", "repeated", "delayed"} = {}
    => row[s].end <= paidUntil[s]

Covered(s) ==
    /\ Exists(s) /\ row[s].active
    /\ touched[s] \cap {"patched", "charged"} = {}
    => paidUntil[s] <= row[s].end

Entitled(s) == Kept(s) /\ Owed(s) /\ Covered(s)

(* What a step leaves alone of a subscriber keeps them. *)
LEMMA AccessFrame ==
    ASSUME TypeOK, NEW s \in Bought, Entitled(s),
           row'[s] = row[s], paidUntil'[s] = paidUntil[s],
           touched'[s] = touched[s], now' \in Nat, now <= now'
    PROVE  Entitled(s)'
BY SubscriptionAssumption DEF Entitled, Kept, Owed, Covered, Exists, TypeOK, Forever

LEMMA AccessStep ==
    ASSUME IInv, [Next]_vars, NEW s \in Bought
    PROVE  Entitled(s)'
<1> USE DEF IInv
<1>0. Entitled(s) /\ now \in Nat /\ paidUntil[s] \in Int
    BY SubscriptionAssumption
    DEF Entitled, Kept, Owed, Covered, PaidKeepsAccess, ActiveMeansPaid, Charged, TypeOK
<1>1. CASE UNCHANGED <<row, paidUntil, touched>> /\ now' \in Nat /\ now <= now'
    BY <1>0, <1>1, AccessFrame
<1>2. CASE Tick
    <2>1. now' \in Nat /\ now <= now'
        BY <1>0, <1>2 DEF Tick
    <2> QED BY <1>1, <1>2, <2>1 DEF Tick
<1>3. ASSUME NEW x \in Subscribers,
             \/ EnsureSubscriber(x) \/ Create(x) \/ Patch(x) \/ Remove(x)
             \/ Deactivate(x) \/ \E u \in Users : LinkUser(x, u)
             \/ \E j \in Jobs : FindForCharge(j, x),
             x # s
      PROVE  Entitled(s)'
    <2>1. row'[s] = row[s] /\ paidUntil'[s] = paidUntil[s] /\ touched'[s] = touched[s]
        BY <1>3 DEF EnsureSubscriber, Create, Patch, Remove, Deactivate, LinkUser,
                    FindForCharge, Found, Touched, Ended, TypeOK
    <2>2. now' = now
        BY <1>3 DEF EnsureSubscriber, Create, Patch, Remove, Deactivate, LinkUser,
                    FindForCharge, Found
    <2> QED BY <1>0, <2>1, <2>2, AccessFrame
<1>4. CASE EnsureSubscriber(s)
    BY <1>0, <1>4, SubscriptionAssumption
    DEF EnsureSubscriber, Entitled, Kept, Owed, Covered, TypeOK
<1>5. CASE Create(s)
    BY <1>5, SubscriptionAssumption DEF Create
<1>6. CASE Patch(s)
    BY <1>6 DEF Patch, Touched, Entitled, Kept, Owed, Covered, TypeOK
<1>7. CASE Remove(s)
    BY <1>7 DEF Remove, Entitled, Kept, Owed, Covered, Exists, TypeOK
<1>8. ASSUME NEW u \in Users, LinkUser(s, u) PROVE Entitled(s)'
    <2>1. row[s] \in Row
        BY <1>8 DEF LinkUser, Exists, TypeOK
    <2>2. row'[s].active = row[s].active /\ row'[s].end = row[s].end
        BY <1>8, <2>1 DEF LinkUser, TypeOK, Row
    <2> QED BY <1>0, <1>8, <2>2 DEF LinkUser, Entitled, Kept, Owed, Covered, TypeOK
<1>9. CASE Deactivate(s)
    (* A save over the very row that was found: it had expired, and, being *)
    (* active, by Charged what had been paid for was over.                 *)
    <2>1. sweep[s] \in Row /\ sweep[s].active /\ sweep[s].end < now
        BY <1>9 DEF Deactivate, Swept, TypeOK
    <2>2. row'[s].active = FALSE
        BY <1>9, <2>1 DEF Deactivate, TypeOK, Row
    <2>3. ASSUME touched'[s] \subseteq {"repeated", "delayed"} PROVE ~(now <= paidUntil[s])
        <3>1. sweep[s] = row[s] /\ touched[s] \subseteq {"repeated", "delayed"}
            BY <1>9, <2>3 DEF Deactivate, Ended, TypeOK
        <3>2. paidUntil[s] <= row[s].end
            BY <1>0, <2>1, <3>1, NoneIsNoRow DEF Entitled, Covered, Exists
        <3> QED BY <1>0, <2>1, <3>1, <3>2, SubscriptionAssumption DEF TypeOK, Forever, Row
    <2>4. Kept(s)'
        BY <1>9, <2>3 DEF Deactivate, Kept
    <2> QED BY <2>2, <2>4 DEF Entitled, Owed, Covered
<1>10. ASSUME NEW j \in Jobs, Extend(j) \/ Cancel(j), job[j].s # s
       PROVE  Entitled(s)'
    <2>1. row'[s] = row[s] /\ paidUntil'[s] = paidUntil[s] /\ touched'[s] = touched[s]
        BY <1>10 DEF Extend, Extended, Cancel, Ended, TypeOK
    <2>2. now' = now
        BY <1>10 DEF Extend, Cancel
    <2> QED BY <1>0, <2>1, <2>2, AccessFrame
<1>11. ASSUME NEW j \in Jobs, Extend(j), job[j].s = s PROVE Entitled(s)'
    <2>1. job[j].copy \in Row
        BY <1>11 DEF Extend, Extending, Held
    <2>2. row'[s].active = TRUE /\ row'[s].end = now + Period
        BY <1>11, <2>1 DEF Extend, TypeOK, Row
    <2>3. paidUntil' = paidUntil /\ paidUntil[s] <= now + Period
        BY <1>11 DEF Extend, Charged
    <2>4. touched'[s] = CASE job[j].at = "extendAgain" -> {"repeated"}
                          [] job[j].at = "extend" /\ job[j].since < now -> {"delayed"}
                          [] OTHER -> {}
        BY <1>11 DEF Extend, Extended, TypeOK
    <2>5. CASE job[j].at = "extend" /\ ~(job[j].since < now)
        <3>1. job[j].since = now
            BY <1>0, <2>5 DEF Charged, TypeOK, Job
        <3>2. now + Period <= paidUntil[s]
            BY <1>11, <2>5, <3>1 DEF Charged
        <3> QED BY <2>2, <2>3, <3>2 DEF Entitled, Kept, Owed, Covered
    <2>6. CASE touched'[s] \cap {"patched", "repeated", "delayed"} # {}
        BY <2>2, <2>3, <2>6 DEF Entitled, Kept, Owed, Covered
    <2> QED BY <1>11, <2>4, <2>5, <2>6 DEF Extend, Extending
<1>12. ASSUME NEW j \in Jobs, Cancel(j), job[j].s = s PROVE Entitled(s)'
    <2>1. job[j].copy \in Row
        BY <1>12 DEF Cancel, Held
    <2>2. row'[s].active = FALSE
        BY <1>12, <2>1 DEF Cancel, TypeOK, Row
    <2>3. "cancelled" \in touched'[s]
        BY <1>12 DEF Cancel, Ended, TypeOK
    <2> QED BY <2>2, <2>3 DEF Entitled, Kept, Owed, Covered
<1>13. ASSUME NEW j \in Jobs, FindForCharge(j, s) PROVE Entitled(s)'
    <2>1. row' = row /\ paidUntil'[s] = now + Period /\ touched'[s] = touched[s] \cup {"charged"}
        BY <1>13 DEF FindForCharge, Found, Touched, TypeOK
    <2>2. paidUntil[s] <= now + Period
        BY DEF Charged
    <2>3. \A e \in Int : e <= paidUntil[s] => e <= now + Period
        BY <1>0, <2>2, SubscriptionAssumption
    <2>4. Exists(s) => row[s].end \in Int
        BY SubscriptionAssumption DEF Exists, TypeOK, Row, Forever
    <2>5. Owed(s)'
        BY <1>0, <2>1, <2>3, <2>4 DEF Entitled, Owed, Exists
    <2> QED BY <2>1, <2>5 DEF Entitled, Kept, Covered
<1>14. CASE UNCHANGED <<row, paidUntil, touched, now>>
    BY <1>0, <1>1, <1>14
<1> QED
    BY <1>2, <1>3, <1>4, <1>5, <1>6, <1>7, <1>8, <1>9, <1>10, <1>11, <1>12, <1>13, <1>14
    DEF Next, vars, BeginSweep, SaveRefused, SweepFails, FindForRecorded, Found,
        BeginCancel, CallMercadoPago, JobFails

(* A charge pays for no more than one period from now, and its extension   *)
(* has it recorded before.                                                 *)
Recorded ==
    /\ \A s \in Subscribers : paidUntil[s] <= now + Period
    /\ \A j \in Jobs :
          /\ job[j].since <= now
          /\ job[j].at = "extend" => job[j].since + Period <= paidUntil[job[j].s]

LEMMA RecordedStep ==
    ASSUME TypeOK, Held, Recorded, [Next]_vars
    PROVE  Recorded'
<1>0. /\ now \in Nat /\ Period \in Nat
      /\ \A s \in Subscribers : paidUntil[s] \in Int
      /\ \A j \in Jobs : job[j].since \in Nat /\ job \in [Jobs -> Job]
    BY SubscriptionAssumption DEF TypeOK, Job, Forever
<1>1. CASE UNCHANGED <<job, paidUntil>> /\ now' \in Nat /\ now <= now'
    BY <1>0, <1>1 DEF Recorded, Held
<1>2. CASE Tick
    <2>1. now' \in Nat /\ now <= now'
        BY <1>0, <1>2 DEF Tick
    <2> QED BY <1>1, <1>2, <2>1 DEF Tick
<1>3. ASSUME NEW s \in Subscribers, EnsureSubscriber(s) PROVE Recorded'
    <2>1. /\ UNCHANGED <<job, now>> /\ paidUntil'[s] = now + Period
          /\ \A x \in Subscribers \ {s} : paidUntil'[x] = paidUntil[x]
        BY <1>3 DEF EnsureSubscriber, TypeOK
    <2>2. \A j \in Jobs : job[j].since + Period <= now + Period
        BY <1>0 DEF Recorded
    <2> QED BY <1>0, <2>1, <2>2 DEF Recorded, Held
<1>4. ASSUME NEW j \in Jobs, NEW s \in Subscribers, FindForCharge(j, s) PROVE Recorded'
    <2>1. /\ now' = now /\ paidUntil'[s] = now + Period
          /\ \A x \in Subscribers \ {s} : paidUntil'[x] = paidUntil[x]
          /\ job'[j] = [at |-> "extend", s |-> s, copy |-> row[s], since |-> now]
          /\ \A k \in Jobs \ {j} : job'[k] = job[k]
        BY <1>0, <1>4 DEF FindForCharge, Found, TypeOK
    <2>2. job'[j].since = now /\ job'[j].s = s
        BY <2>1
    <2>3. \A k \in Jobs : job[k].since + Period <= now + Period
        BY <1>0 DEF Recorded
    <2> QED BY <1>0, <2>1, <2>2, <2>3 DEF Recorded, Held
<1>5. ASSUME NEW j \in Jobs, NEW s \in Subscribers, FindForRecorded(j, s) \/ BeginCancel(j, s)
      PROVE  Recorded'
    <2>1. /\ UNCHANGED <<now, paidUntil>>
          /\ job'[j].since = now /\ job'[j].at # "extend"
          /\ \A k \in Jobs \ {j} : job'[k] = job[k]
        BY <1>0, <1>5 DEF FindForRecorded, Found, BeginCancel
    <2> QED BY <1>0, <2>1 DEF Recorded
<1>6. ASSUME NEW j \in Jobs, Extend(j) \/ Cancel(j) \/ JobFails(j) PROVE Recorded'
    <2>1. /\ UNCHANGED <<now, paidUntil>> /\ job'[j] = Idle
          /\ \A k \in Jobs \ {j} : job'[k] = job[k]
        BY <1>0, <1>6 DEF Extend, Cancel, JobFails
    <2> QED BY <1>0, <2>1 DEF Recorded, Idle
<1>7. ASSUME NEW j \in Jobs, CallMercadoPago(j) PROVE Recorded'
    <2>1. /\ UNCHANGED <<now, paidUntil>>
          /\ job'[j] = [job[j] EXCEPT !.at = "cancel"]
          /\ \A k \in Jobs \ {j} : job'[k] = job[k]
        BY <1>0, <1>7 DEF CallMercadoPago
    <2>2. job'[j].at = "cancel" /\ job'[j].since = job[j].since
        BY <1>0, <2>1 DEF Job
    <2> QED BY <1>0, <2>1, <2>2 DEF Recorded
<1>8. CASE UNCHANGED <<job, paidUntil, now>>
    BY <1>0, <1>1, <1>8
<1> QED
    BY <1>2, <1>3, <1>4, <1>5, <1>6, <1>7, <1>8
    DEF Next, vars, BeginSweep, SaveRefused, SweepFails, Create, Patch, Remove,
        Deactivate, LinkUser

-----------------------------------------------------------------------------
LEMMA StepIInv == IInv /\ [Next]_vars => IInv'
<1> SUFFICES ASSUME IInv, [Next]_vars PROVE IInv'
    OBVIOUS
<1>1. TypeOK'
    <2>1. CASE UNCHANGED vars
        BY <2>1 DEF vars, IInv, TypeOK
    <2>2. CASE Next
        <3>1. TypeOK /\ Held
            BY DEF IInv
        <3>2. CASE Tick
            BY <3>1, <3>2, SubscriptionAssumption DEF Tick, TypeOK
        <3> QED BY <2>2, <3>1, <3>2, TypeTables, TypeJobs, TypeSweep DEF Next
    <2> QED BY <2>1, <2>2
<1>2. Held' /\ Swept'
    BY HeldStep, SweptStep DEF IInv
<1>3. PaidKeepsAccess' /\ ActiveMeansPaid'
    BY AccessStep DEF PaidKeepsAccess, ActiveMeansPaid, Entitled, Kept, Owed
<1>4. Recorded'
    BY RecordedStep DEF IInv, Charged, Recorded
<1>5. Charged'
    BY <1>4, AccessStep DEF Charged, Recorded, Entitled, Covered
<1> QED BY <1>1, <1>2, <1>3, <1>5 DEF IInv

LEMMA Invariance == Spec => []IInv
<1> QED BY InitIInv, StepIInv, PTL DEF Spec

(* The tables, the sweep's and the jobs' copies keep their types: every    *)
(* end that is ever written is a time.                                     *)
THEOREM SubscriptionTypeCorrect == Spec => []TypeOK
<1>1. IInv => TypeOK
    BY DEF IInv
<1> QED BY <1>1, Invariance, PTL

(* A period that was paid for is cut short only by a cancellation, an      *)
(* administrator, a save over newer writes or an extension that was lost;  *)
(* the sweep's own find and save never do it                               *)
(* (subscription-expiration.service.ts).                                   *)
THEOREM PaidAlwaysKeepsAccess == Spec => []PaidKeepsAccess
<1>1. IInv => PaidKeepsAccess
    BY DEF IInv
<1> QED BY <1>1, Invariance, PTL

(* An active subscriber has no more than its last recorded charge paid     *)
(* for, unless an administrator gave it more, or its last extension came   *)
(* late or from a repeated notification.                                   *)
THEOREM ActiveAlwaysPaid == Spec => []ActiveMeansPaid
<1>1. IInv => ActiveMeansPaid
    BY DEF IInv
<1> QED BY <1>1, Invariance, PTL
=============================================================================
