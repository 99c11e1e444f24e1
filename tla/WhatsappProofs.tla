--------------------------- MODULE WhatsappProofs ---------------------------
(***************************************************************************)
(* MCWhatsapp.tla, part by part: the inductive invariant of a tenant's     *)
(* connections, and from it that a tenant has one default, that a deleted  *)
(* connection leaves nothing, and that the status is Evolution's unless    *)
(* one can name why it is not; that of the messages, and from it that      *)
(* their rows follow Evolution's webhooks; that of the media cache, and    *)
(* from it that its bytes are accounted for; that of the list of chats and *)
(* of the figures, and from it that the pages cover the list and that the  *)
(* figures add up; and all of them of the composition that TLC checks.     *)
(***************************************************************************)
EXTENDS MCWhatsapp, SequenceTheorems, FiniteSetTheorems, WellFoundedInduction, TLAPS

-----------------------------------------------------------------------------
(* Numbers, rows and their sums. *)

(* A set of naturals has a least. *)
LEMMA LeastNumber ==
    ASSUME NEW S \in SUBSET Nat, S # {}
    PROVE  \E n \in S : \A m \in S : ~(m < n)
<1>1. PICK R : R = OpToRel(<, Nat)
    BY Zenon
<1>2. IsWellFoundedOn(R, Nat)
    BY <1>1, NatLessThanWellFounded, Zenon
<1>3. PICK n \in S : \A m \in S : ~(<<m, n>> \in R)
    BY <1>2, WFMin
<1>4. \A i, k \in Nat : i < k => <<i, k>> \in R
    BY <1>1, Zenon DEF OpToRel
<1> QED BY <1>3, <1>4

(* The points under a function, by which Total counts. *)
LEMMA UnderIs ==
    ASSUME NEW f
    PROVE  /\ \A x \in DOMAIN f : \A n \in 1 .. f[x] : <<x, n>> \in Under(f)
           /\ \A p \in Under(f) : /\ p[1] \in DOMAIN f /\ p[2] \in 1 .. f[p[1]]
                                  /\ p = <<p[1], p[2]>>
BY DEF Under

(* Rows counted by what they have in common add up to the rows: the points under the   *)
(* counts and the rows correspond one to one.                                          *)
LEMMA CountsAddUp ==
    ASSUME NEW R, IsFiniteSet(R), NEW D, NEW c, NEW f,
           \A r \in R : c[r] \in D,
           f = [d \in D |-> Cardinality({r \in R : c[r] = d})]
    PROVE  Total(f) = Cardinality(R)
<1>1. PICK of : of = [d \in D |-> {r \in R : c[r] = d}]
    OBVIOUS
<1>2. \A d \in D : IsFiniteSet(of[d]) /\ f[d] = Cardinality(of[d]) /\ of[d] \in SUBSET R
    BY <1>1, FS_Subset
<1>3. PICK h : h = [d \in D |-> CHOOSE g : g \in Bijection(1 .. f[d], of[d])]
    OBVIOUS
<1>4. \A d \in D : h[d] \in Bijection(1 .. f[d], of[d])
    BY <1>2, <1>3, FS_CardinalityType DEF ExistsBijection
<1>5. PICK B : B = [p \in Under(f) |-> h[p[1]][p[2]]]
    OBVIOUS
<1>6. \A p \in Under(f) : /\ p[1] \in D /\ p[2] \in 1 .. f[p[1]] /\ p = <<p[1], p[2]>>
                          /\ B[p] \in of[p[1]] /\ B[p] = h[p[1]][p[2]]
    BY <1>4, <1>5, UnderIs DEF Bijection, Injection
<1>7. B \in Injection(Under(f), R)
  <2>1. B \in [Under(f) -> R]
    BY <1>2, <1>5, <1>6
  <2>2. ASSUME NEW p \in Under(f), NEW q \in Under(f), B[p] = B[q] PROVE p = q
    <3>1. p[1] = c[B[p]] /\ q[1] = c[B[q]]
      BY <1>1, <1>6
    <3>2. p[1] = q[1] /\ h[p[1]][p[2]] = h[p[1]][q[2]]
      BY <1>6, <2>2, <3>1, ZenonT(40)
    <3>3. h[p[1]] \in Injection(1 .. f[p[1]], of[p[1]]) /\ p[2] \in 1 .. f[p[1]]
          /\ q[2] \in 1 .. f[p[1]]
      BY <1>4, <1>6, <3>2 DEF Bijection
    <3>4. p[2] = q[2]
      BY <3>2, <3>3 DEF Injection, IsInjective
    <3> QED BY <1>6, <3>2, <3>4
  <2> QED BY <2>1, <2>2 DEF Injection, IsInjective
<1>8. B \in Surjection(Under(f), R)
  <2>1. ASSUME NEW r \in R PROVE \E p \in Under(f) : B[p] = r
    <3>1. c[r] \in D /\ r \in of[c[r]]
      BY <1>1
    <3>2. PICK n \in 1 .. f[c[r]] : h[c[r]][n] = r
      BY <1>4, <3>1 DEF Bijection, Surjection
    <3>3. <<c[r], n>> \in Under(f)
      BY <3>1, UnderIs
    <3> QED BY <1>5, <3>2, <3>3
  <2>2. B \in [Under(f) -> R]
    BY <1>7 DEF Injection
  <2> QED BY <2>1, <2>2 DEF Surjection
<1>9. IsFiniteSet(Under(f)) /\ Cardinality(Under(f)) = Cardinality(R)
    BY <1>7, <1>8, FS_Injection
<1> QED BY <1>9 DEF Total

(* The same when some of them have nothing that is counted. *)
LEMMA CountsOfSome ==
    ASSUME NEW R, IsFiniteSet(R), NEW D, NEW c, NEW f,
           f = [d \in D |-> Cardinality({r \in R : c[r] = d})]
    PROVE  /\ Total(f) = Cardinality({r \in R : c[r] \in D})
           /\ Total(f) \in Nat /\ Total(f) <= Cardinality(R)
<1>1. PICK some : some = {r \in R : c[r] \in D}
    OBVIOUS
<1>2. some \in SUBSET R /\ \A r \in some : c[r] \in D
    BY <1>1
<1>3. IsFiniteSet(some) /\ Cardinality(some) <= Cardinality(R) /\ Cardinality(some) \in Nat
    BY <1>2, FS_Subset, FS_CardinalityType
<1>4. \A d \in D : {r \in R : c[r] = d} = {r \in some : c[r] = d}
    BY <1>1
<1>5. f = [d \in D |-> Cardinality({r \in some : c[r] = d})]
    BY <1>4
<1>6. Total(f) = Cardinality(some)
    BY <1>2, <1>3, <1>5, CountsAddUp
<1> QED BY <1>1, <1>3, <1>6

(* Finitely many naturals have a sum. *)
LEMMA TotalIs ==
    ASSUME NEW f, IsFiniteSet(DOMAIN f), \A x \in DOMAIN f : f[x] \in Nat
    PROVE  IsFiniteSet(Under(f)) /\ Total(f) \in Nat
<1>1. PICK D, columns, column :
         /\ D = DOMAIN f /\ columns = {{x} \X (1 .. f[x]) : x \in DOMAIN f}
         /\ column = [x \in DOMAIN f |-> {x} \X (1 .. f[x])]
    OBVIOUS
<1>2. column \in Surjection(D, columns)
    BY <1>1 DEF Surjection
<1>3. IsFiniteSet(columns)
    BY <1>1, <1>2, FS_Surjection
<1>4. ASSUME NEW c \in columns PROVE IsFiniteSet(c)
  <2>1. PICK x \in DOMAIN f : c = {x} \X (1 .. f[x])
    BY <1>1
  <2>2. IsFiniteSet({x}) /\ IsFiniteSet(1 .. f[x])
    <3>1. PICK n \in Nat : n = f[x]
      OBVIOUS
    <3>2. IsFiniteSet({x})
      BY FS_Singleton
    <3>3. 1 \in Int /\ n \in Int
      OBVIOUS
    <3>4. IsFiniteSet(1 .. n)
      BY ONLY <3>3, FS_Interval
    <3> QED BY ONLY <3>1, <3>2, <3>4
  <2> QED BY ONLY <2>1, <2>2, FS_Product
<1>5. IsFiniteSet(UNION columns)
    BY ONLY <1>3, <1>4, FS_UNION
<1>6. Under(f) = UNION columns
    BY <1>1 DEF Under
<1> QED BY <1>5, <1>6, FS_CardinalityType DEF Total

(* Two parts of what is added up have sums that add up. *)
LEMMA TotalSplits ==
    ASSUME NEW f, IsFiniteSet(DOMAIN f), \A x \in DOMAIN f : f[x] \in Nat,
           NEW D, NEW E, D \union E = DOMAIN f, D \intersect E = {}
    PROVE  Total(f) = Total([x \in D |-> f[x]]) + Total([x \in E |-> f[x]])
<1> SUFFICES ASSUME NEW g, NEW h, g = [x \in D |-> f[x]], h = [x \in E |-> f[x]]
             PROVE  Total(f) = Total(g) + Total(h)
    OBVIOUS
<1>1. Under(f) = Under(g) \union Under(h) /\ Under(g) \intersect Under(h) = {}
    BY DEF Under
<1>2. IsFiniteSet(D) /\ IsFiniteSet(E) /\ DOMAIN g = D /\ DOMAIN h = E
    BY FS_Subset
<1>3. (\A x \in D : g[x] \in Nat) /\ (\A x \in E : h[x] \in Nat)
    OBVIOUS
<1>4. IsFiniteSet(Under(g)) /\ IsFiniteSet(Under(h)) /\ Total(g) \in Nat /\ Total(h) \in Nat
    BY ONLY <1>2, <1>3, TotalIs
<1>5. Cardinality({}) = 0
    BY FS_EmptySet
<1>6. Cardinality(Under(f)) = Cardinality(Under(g)) + Cardinality(Under(h)) - 0
    BY ONLY <1>1, <1>4, <1>5, FS_Union
<1> QED BY ONLY <1>4, <1>6 DEF Total

(* What is added up may change places. *)
LEMMA TotalMoves ==
    ASSUME NEW D, IsFiniteSet(D), NEW f \in [D -> Nat],
           NEW E, NEW to \in Bijection(E, D), NEW g, g = [e \in E |-> f[to[e]]]
    PROVE  Total(g) = Total(f)
<1>1. /\ to \in [E -> D] /\ \A d, e \in E : to[d] = to[e] => d = e
      /\ \A d \in D : \E e \in E : to[e] = d
    BY DEF Bijection, Injection, IsInjective, Surjection
<1>2. IsFiniteSet(E)
    BY FS_Injection DEF Bijection
<1>3. DOMAIN g = E /\ \A e \in E : g[e] = f[to[e]] /\ g[e] \in Nat
    BY <1>1
<1>4. IsFiniteSet(Under(g))
    BY <1>2, <1>3, TotalIs
<1>5. PICK m : m = [p \in Under(g) |-> <<to[p[1]], p[2]>>]
    OBVIOUS
<1>6. m \in [Under(g) -> Under(f)]
    BY <1>1, <1>3, <1>5, UnderIs
<1>7. ASSUME NEW p \in Under(g), NEW q \in Under(g), m[p] = m[q] PROVE p = q
  <2>1. p[1] \in E /\ q[1] \in E /\ p = <<p[1], p[2]>> /\ q = <<q[1], q[2]>>
    BY <1>3, UnderIs
  <2>2. to[p[1]] = to[q[1]] /\ p[2] = q[2]
    BY <1>5, <1>7
  <2> QED BY <1>1, <2>1, <2>2
<1>8. ASSUME NEW q \in Under(f) PROVE \E p \in Under(g) : m[p] = q
  <2>1. q[1] \in D /\ q[2] \in 1 .. f[q[1]] /\ q = <<q[1], q[2]>>
    BY UnderIs
  <2>2. PICK e \in E : to[e] = q[1]
    BY <1>1, <2>1
  <2>3. <<e, q[2]>> \in Under(g)
    BY <1>3, <2>1, <2>2, UnderIs
  <2> QED BY <1>5, <2>1, <2>2, <2>3
<1>9. m \in Bijection(Under(g), Under(f))
    BY <1>6, <1>7, <1>8 DEF Bijection, Injection, IsInjective, Surjection
<1> QED BY <1>4, <1>9, FS_Bijection DEF Total, ExistsBijection

(* WhatsappConnection.tla: rows, requests, and what a step leaves alone. *)

ConnectJob == [step : ConnectSteps, conn : Connections, open : BOOLEAN, again : BOOLEAN,
               flag : BOOLEAN, deletes : BOOLEAN, was : Status, next : Connections]
InstEntry == [status : Status \union {"none"}, qr : BOOLEAN]

LEMMA IdleConnectJob ==
    /\ IdleJob \in ConnectJob /\ IdleJob.step = "idle" /\ ~IdleJob.deletes /\ ~IdleJob.again
    /\ Deletes(IdleJob)
<1>1. (CHOOSE c \in Connections : TRUE) \in Connections
    BY WhatsappConnectionAssumption
<1>2. /\ IdleJob.step = "idle" /\ ~IdleJob.deletes /\ ~IdleJob.again
    BY DEF IdleJob
<1>3. IdleJob \in ConnectJob
    BY <1>1 DEF IdleJob, ConnectJob, ConnectSteps, Status
<1> QED BY <1>2, <1>3 DEF Deletes, Promotes

LEMMA ConnectionTypes ==
    ASSUME ConnectionTypeOK
    PROVE  /\ row \in [Connections -> ConnectionRow] /\ inst \in [Connections -> InstEntry]
           /\ remote \in [Connections -> {"absent", "connecting", "open", "shut"}]
           /\ conjob \in [ConnectJobs -> ConnectJob]
           /\ staleInst \in [Connections -> BOOLEAN] /\ staleRow \in [Connections -> BOOLEAN]
           /\ orphan \subseteq Connections /\ leaked \subseteq Connections
           /\ unruly \subseteq {"two", "none"}
           /\ NoInst \in InstEntry
  BY DEF ConnectionTypeOK, ConnectJob, InstEntry, NoInst

LEMMA RowIs ==
    ASSUME NEW r \in ConnectionRow
    PROVE  /\ r.state \in {"new", "here", "gone"} /\ r.status \in Status
           /\ r.token \in BOOLEAN /\ r.isDefault \in BOOLEAN
           /\ \A status \in Status :
                 /\ [r EXCEPT !.status = status] \in ConnectionRow
                 /\ [r EXCEPT !.status = status].state = r.state
                 /\ [r EXCEPT !.status = status].status = status
                 /\ [r EXCEPT !.status = status].token = r.token
                 /\ [r EXCEPT !.status = status].isDefault = r.isDefault
           /\ \A b \in BOOLEAN :
                 /\ [r EXCEPT !.isDefault = b] \in ConnectionRow
                 /\ [r EXCEPT !.isDefault = b].state = r.state
                 /\ [r EXCEPT !.isDefault = b].status = r.status
                 /\ [r EXCEPT !.isDefault = b].token = r.token
                 /\ [r EXCEPT !.isDefault = b].isDefault = b
  BY DEF ConnectionRow

LEMMA StepIs ==
    ASSUME NEW job \in ConnectJob, NEW step \in ConnectSteps
    PROVE  /\ [job EXCEPT !.step = step] \in ConnectJob
           /\ [job EXCEPT !.step = step].step = step
           /\ [job EXCEPT !.step = step].conn = job.conn
           /\ [job EXCEPT !.step = step].open = job.open
           /\ [job EXCEPT !.step = step].again = job.again
           /\ [job EXCEPT !.step = step].flag = job.flag
           /\ [job EXCEPT !.step = step].deletes = job.deletes
           /\ [job EXCEPT !.step = step].was = job.was
           /\ [job EXCEPT !.step = step].next = job.next
  BY DEF ConnectJob

LEMMA ConnectJobMoves ==
    ASSUME ConnectionTypeOK, NEW j \in ConnectJobs, NEW job \in ConnectJob,
           conjob' = [conjob EXCEPT ![j] = job]
    PROVE  /\ conjob' \in [ConnectJobs -> ConnectJob]
           /\ conjob'[j] = job
           /\ \A k \in ConnectJobs \ {j} : conjob'[k] = conjob[k]
  BY ConnectionTypes

(* A request's next step is its own. *)
LEMMA ToIs ==
    ASSUME ConnectionTypeOK, NEW j \in ConnectJobs, NEW step \in ConnectSteps, To(j, step)
    PROVE  /\ conjob' \in [ConnectJobs -> ConnectJob]
           /\ conjob'[j].step = step
           /\ conjob'[j].conn = conjob[j].conn /\ conjob'[j].open = conjob[j].open
           /\ conjob'[j].again = conjob[j].again /\ conjob'[j].flag = conjob[j].flag
           /\ conjob'[j].deletes = conjob[j].deletes
           /\ \A k \in ConnectJobs \ {j} : conjob'[k] = conjob[k]
<1>1. conjob \in [ConnectJobs -> ConnectJob] /\ conjob[j] \in ConnectJob
    BY ConnectionTypes
<1>2. PICK job : job = [conjob[j] EXCEPT !.step = step]
    OBVIOUS
<1>3. /\ job \in ConnectJob /\ job.step = step /\ job.conn = conjob[j].conn
      /\ job.open = conjob[j].open /\ job.again = conjob[j].again
      /\ job.flag = conjob[j].flag /\ job.deletes = conjob[j].deletes
    BY <1>1, <1>2, StepIs
<1>4. conjob' = [conjob EXCEPT ![j] = job]
    BY <1>1, <1>2 DEF To
<1> QED BY <1>3, <1>4, ConnectJobMoves

LEMMA FinishIs ==
    ASSUME ConnectionTypeOK, NEW j \in ConnectJobs, Finish(j)
    PROVE  /\ conjob' \in [ConnectJobs -> ConnectJob] /\ conjob'[j] = IdleJob
           /\ \A k \in ConnectJobs \ {j} : conjob'[k] = conjob[k]
  BY IdleConnectJob, ConnectJobMoves DEF Finish

(* What holds of a connection holds while nothing of it changes. *)
LEMMA StillHolds ==
    ASSUME NEW d, Holds(d),
           row'[d].state = row[d].state, row'[d].status = row[d].status,
           row'[d].token = row[d].token, inst'[d] = inst[d], remote'[d] = remote[d],
           \A what \in {"absent", "connecting", "open", "shut", "qr"} :
               <<d, what>> \in hooks' <=> <<d, what>> \in hooks,
           remote[d] \in {"absent", "connecting", "open", "shut"},
           staleInst'[d] = staleInst[d], staleRow'[d] = staleRow[d],
           d \in leaked => d \in leaked', d \in orphan => d \in orphan',
           JobsOn(d)' = JobsOn(d), \A j \in JobsOn(d) : conjob'[j] = conjob[j]
    PROVE  Holds(d)'
<1>1. NewIsUnknown(d)'
    BY DEF Holds, NewIsUnknown, NoInst
<1>2. TokenIsKept(d)'
    BY DEF Holds, TokenIsKept, NoInst
<1>3. DeletionIsAlone(d)'
    BY DEF Holds, DeletionIsAlone, Promotes, NoInst
<1>4. EntryHasCause(d)'
    BY DEF Holds, EntryHasCause, NoInst
<1>5. RowHasCause(d)'
    BY DEF Holds, RowHasCause, NoInst
<1> QED BY <1>1, <1>2, <1>3, <1>4, <1>5 DEF Holds

(* The requests on the other connections are as they were. *)
LEMMA OthersOn ==
    ASSUME NEW c, NEW j \in ConnectJobs,
           \A k \in ConnectJobs \ {j} : conjob'[k] = conjob[k],
           conjob[j].step = "idle" \/ conjob[j].conn = c,
           conjob'[j].step = "idle" \/ conjob'[j].conn = c
    PROVE  /\ \A d : d # c =>
                 JobsOn(d)' = JobsOn(d) /\ \A k \in JobsOn(d) : conjob'[k] = conjob[k]
           /\ \A d : d = c =>
                 /\ conjob'[j].step = "idle" => JobsOn(d)' = JobsOn(d) \ {j}
                 /\ conjob'[j].step # "idle" /\ j \in JobsOn(d) => JobsOn(d)' = JobsOn(d)
                 /\ conjob'[j].step # "idle" => JobsOn(d)' = JobsOn(d) \union {j}
  BY DEF JobsOn

(* A request that is about to give a default to the tenant. *)
Chooses(j) ==
    \/ conjob[j].step \in {"default", "promote"}
    \/ conjob[j].step = "promoteRow" /\ row[conjob[j].next].state = "here"

(* The defaults have their cause while no row comes, goes, or changes its flag. *)
LEMMA DefaultsStay ==
    ASSUME ConnectionInv,
           \A d \in Connections :
               row'[d].state = row[d].state /\ row'[d].isDefault = row[d].isDefault,
           created' = created, unruly \subseteq unruly',
           \A j \in ConnectJobs : conjob[j].step \in Unsettled =>
               conjob'[j] = conjob[j] \/ "none" \in unruly'
    PROVE  HereIsCreated' /\ DefaultsHaveCause'
<1>1. Here' = Here /\ Defaults' = Defaults
    BY DEF Here, Defaults
<1>2. HereIsCreated'
    BY <1>1 DEF ConnectionInv, HereIsCreated
<1>3. \A j \in ConnectJobs : row'[conjob[j].next].state = row[conjob[j].next].state
    BY ConnectionTypes DEF ConnectionInv, ConnectJob
<1>4. DefaultsHaveCause'
  <2>1. \A d, e \in Defaults' : d # e => "two" \in unruly'
    BY <1>1 DEF ConnectionInv, DefaultsHaveCause
  <2>2. ASSUME Here' # {}, Defaults' = {}, "none" \notin unruly'
        PROVE  \E j \in ConnectJobs : Chooses(j)'
    <3>1. PICK j \in ConnectJobs : Chooses(j)
      BY <1>1, <2>2 DEF ConnectionInv, DefaultsHaveCause, Chooses
    <3>2. conjob'[j] = conjob[j]
      BY <3>1, <2>2 DEF Chooses, Unsettled, Promotes
    <3> QED BY <3>1, <3>2, <1>3 DEF Chooses
  <2> QED BY <2>1, <2>2 DEF DefaultsHaveCause, Chooses
<1> QED BY <1>2, <1>4

(* A step of one request, on one connection. *)
LEMMA OneMoves ==
    ASSUME ConnectionInv, NEW c \in Connections, NEW j \in ConnectJobs,
           ConnectionTypeOK', HereIsCreated', DefaultsHaveCause', Holds(c)',
           \A k \in ConnectJobs \ {j} : conjob'[k] = conjob[k],
           conjob[j].step = "idle" \/ conjob[j].conn = c,
           conjob'[j].step = "idle" \/ conjob'[j].conn = c,
           Deletes(conjob[j])',
           \A d \in Connections \ {c} :
               /\ row'[d].state = row[d].state /\ row'[d].status = row[d].status
               /\ row'[d].token = row[d].token /\ inst'[d] = inst[d] /\ remote'[d] = remote[d]
               /\ staleInst'[d] = staleInst[d] /\ staleRow'[d] = staleRow[d],
           \A d \in Connections \ {c}, what \in {"absent", "connecting", "open", "shut", "qr"} :
               <<d, what>> \in hooks' <=> <<d, what>> \in hooks,
           leaked \subseteq leaked', orphan \ {c} \subseteq orphan'
    PROVE  ConnectionInv'
<1>1. \A d : d # c => JobsOn(d)' = JobsOn(d) /\ \A k \in JobsOn(d) : conjob'[k] = conjob[k]
    BY OthersOn
<1>2. ASSUME NEW d \in Connections \ {c} PROVE Holds(d)'
  <2>1. Holds(d) /\ remote[d] \in {"absent", "connecting", "open", "shut"}
    BY ConnectionTypes DEF ConnectionInv
  <2>2. JobsOn(d)' = JobsOn(d) /\ \A k \in JobsOn(d) : conjob'[k] = conjob[k]
    BY <1>1
  <2> QED BY <2>1, <2>2, StillHolds
<1>3. \A k \in ConnectJobs : Deletes(conjob[k])'
  <2>1. \A k \in ConnectJobs \ {j} : Deletes(conjob[k])'
    BY DEF ConnectionInv, Deletes, Promotes
  <2> QED BY <2>1
<1> QED BY <1>2, <1>3 DEF ConnectionInv

(* A request at work, and its connection. *)
LEMMA AtWork ==
    ASSUME ConnectionInv, NEW j \in ConnectJobs, NEW c, c = conjob[j].conn,
           conjob[j].step # "idle"
    PROVE  /\ ConnectionTypeOK /\ c \in Connections /\ j \in JobsOn(c) /\ conjob[j] \in ConnectJob
           /\ JobsOn(c) \subseteq ConnectJobs
           /\ NewIsUnknown(c) /\ TokenIsKept(c) /\ DeletionIsAlone(c) /\ EntryHasCause(c)
           /\ RowHasCause(c) /\ Deletes(conjob[j])
           /\ row[c] \in ConnectionRow /\ inst[c] \in InstEntry
           /\ remote[c] \in {"absent", "connecting", "open", "shut"}
           /\ conjob[j].step = "insert" <=> row[c].state = "new"
<1>1. conjob[j] \in ConnectJob /\ c \in Connections
    BY ConnectionTypes DEF ConnectionInv, ConnectJob
<1>2. j \in JobsOn(c) /\ JobsOn(c) \subseteq ConnectJobs
    BY DEF JobsOn
<1> QED BY <1>1, <1>2, ConnectionTypes DEF ConnectionInv, Holds, NewIsUnknown

(* A step of a request of a connection that changes the request only. *)
LEMMA OnlyMoves ==
    ASSUME ConnectionInv, NEW j \in ConnectJobs, NEW c, c = conjob[j].conn,
           conjob[j].step \notin {"idle", "insert", "drop", "default", "promote", "promoteRow",
                                  "closeRow"},
           conjob' \in [ConnectJobs -> ConnectJob],
           \A k \in ConnectJobs \ {j} : conjob'[k] = conjob[k],
           conjob'[j].step = "idle" \/ conjob'[j].conn = c,
           conjob'[j].step # "insert",
           ~conjob[j].deletes, ~conjob'[j].deletes,
           conjob'[j].step \notin {"set", "status", "delete", "promote", "promoteRow"},
           conjob[j].step = "update" /\ conjob[j].again => c \in orphan',
           conjob[j].step \in {"default", "status", "openRow"} =>
               conjob'[j].step \in {"idle", "default", "status", "openRow"},
           row' = row, created' = created, inst' = inst, remote' = remote, hooks' = hooks,
           staleInst' = staleInst, staleRow' = staleRow, unruly' = unruly,
           leaked' = leaked, orphan \subseteq orphan', orphan' \subseteq Connections,
           requests' \in 0 .. MaxRequests, remoteMoves' \in 0 .. MaxRemote,
           losses' \in 0 .. MaxLosses
    PROVE  ConnectionInv'
<1>0. /\ ConnectionTypeOK /\ c \in Connections /\ j \in JobsOn(c) /\ JobsOn(c) \subseteq ConnectJobs
      /\ NewIsUnknown(c) /\ TokenIsKept(c) /\ DeletionIsAlone(c) /\ EntryHasCause(c)
      /\ RowHasCause(c) /\ row[c].state # "new"
    BY AtWork
<1>1. /\ conjob'[j].step = "idle" => JobsOn(c)' = JobsOn(c) \ {j}
      /\ conjob'[j].step # "idle" => JobsOn(c)' = JobsOn(c)
    BY <1>0, OthersOn
<1>2. ConnectionTypeOK'
    BY <1>0 DEF ConnectionTypeOK, ConnectJob
<1>3. HereIsCreated' /\ DefaultsHaveCause'
  <2>1. \A k \in ConnectJobs : conjob[k].step \in Unsettled => conjob'[k] = conjob[k]
    BY DEF Unsettled, Promotes
  <2>2. \A d \in Connections :
           row'[d].state = row[d].state /\ row'[d].isDefault = row[d].isDefault
    OBVIOUS
  <2> QED BY <2>1, <2>2, DefaultsStay DEF Unsettled, Promotes
<1>4. NewIsUnknown(c)'
    BY <1>0, <1>1 DEF NewIsUnknown
<1>5. TokenIsKept(c)'
    BY <1>0, <1>1 DEF TokenIsKept
<1>6. DeletionIsAlone(c)'
    BY <1>0, <1>1 DEF DeletionIsAlone, Promotes
<1>7. EntryHasCause(c)'
    BY <1>0, <1>1 DEF EntryHasCause
<1>8. RowHasCause(c)'
    BY <1>0, <1>1 DEF RowHasCause
<1>9. Deletes(conjob[j])' /\ Holds(c)'
    BY <1>4, <1>5, <1>6, <1>7, <1>8 DEF Deletes, Promotes, Holds
<1> QED BY <1>0, <1>2, <1>3, <1>9, OneMoves

-----------------------------------------------------------------------------
(* connect *)

LEMMA CountersStay ==
    ASSUME ConnectionTypeOK
    PROVE  /\ requests \in 0 .. MaxRequests /\ remoteMoves \in 0 .. MaxRemote
           /\ losses \in 0 .. MaxLosses
           /\ BeginsAnother => requests + 1 \in 0 .. MaxRequests
           /\ Befalls => remoteMoves + 1 \in 0 .. MaxRemote
           /\ Loses => losses + 1 \in 0 .. MaxLosses
  BY WhatsappConnectionAssumption DEF ConnectionTypeOK, BeginsAnother, Befalls, Loses

LEMMA ConnectKeeps ==
    ASSUME ConnectionInv, NEW j \in ConnectJobs, Connect(j)
    PROVE  ConnectionInv'
<1>a. PICK c : c = conjob[j].conn
    OBVIOUS
<1>1. /\ conjob[j].step = "connect"
      /\ \/ Finish(j) \/ To(j, "state") \/ To(j, "recreate")
      /\ UNCHANGED <<row, created, inst, remote, hooks, staleInst, staleRow, unruly, orphan, leaked,
                     requests, remoteMoves, losses>>
    BY DEF Connect, history1, counters
<1>2. ConnectionTypeOK /\ Deletes(conjob[j]) /\ orphan \subseteq Connections
    BY <1>1, <1>a, AtWork, ConnectionTypes
<1>3. ~conjob[j].deletes
    BY <1>1, <1>2 DEF Deletes, Promotes
<1>4. /\ conjob' \in [ConnectJobs -> ConnectJob]
      /\ \A k \in ConnectJobs \ {j} : conjob'[k] = conjob[k]
      /\ conjob'[j].step \in {"idle", "state", "recreate"}
      /\ conjob'[j].step = "idle" \/ conjob'[j].conn = c
      /\ ~conjob'[j].deletes
    BY <1>a, <1>1, <1>2, <1>3, FinishIs, ToIs, IdleConnectJob DEF ConnectSteps
<1> QED BY <1>a, <1>1, <1>2, <1>3, <1>4, CountersStay, OnlyMoves

LEMMA ConnectStateKeeps ==
    ASSUME ConnectionInv, NEW j \in ConnectJobs, ConnectState(j)
    PROVE  ConnectionInv'
<1>a. PICK c : c = conjob[j].conn
    OBVIOUS
<1>b. PICK job : job = [conjob[j] EXCEPT !.step = "update", !.open = remote[c] = "open"]
    OBVIOUS
<1>1. /\ conjob[j].step = "state"
      /\ conjob' = [conjob EXCEPT ![j].step = "update", ![j].open = remote[c] = "open"]
         \/ To(j, "recreate")
      /\ losses' = losses \/ (Loses /\ losses' = losses + 1)
      /\ UNCHANGED <<row, created, inst, remote, hooks, staleInst, staleRow, unruly, orphan, leaked,
                     requests, remoteMoves>>
    BY <1>a DEF ConnectState, history1
<1>2. /\ ConnectionTypeOK /\ Deletes(conjob[j]) /\ orphan \subseteq Connections
      /\ conjob \in [ConnectJobs -> ConnectJob] /\ conjob[j] \in ConnectJob
    BY <1>1, <1>a, AtWork, ConnectionTypes
<1>3. ~conjob[j].deletes
    BY <1>1, <1>2 DEF Deletes, Promotes
<1>4. /\ job \in ConnectJob /\ job.step = "update" /\ job.conn = c /\ ~job.deletes
    BY <1>a, <1>b, <1>2, <1>3 DEF ConnectJob, ConnectSteps
<1>5. /\ conjob' \in [ConnectJobs -> ConnectJob]
      /\ \A k \in ConnectJobs \ {j} : conjob'[k] = conjob[k]
      /\ conjob'[j].step \in {"update", "recreate"} /\ conjob'[j].conn = c
      /\ ~conjob'[j].deletes
  <2>1. CASE conjob' = [conjob EXCEPT ![j].step = "update", ![j].open = remote[c] = "open"]
    <3>1. conjob' = [conjob EXCEPT ![j] = job]
      BY <2>1, <1>b, <1>2
    <3> QED BY <3>1, <1>2, <1>4, ConnectJobMoves
  <2>2. CASE To(j, "recreate")
    BY <2>2, <1>a, <1>2, <1>3, ToIs DEF ConnectSteps
  <2> QED BY <2>1, <2>2, <1>1
<1>6. losses' \in 0 .. MaxLosses
    BY <1>1, <1>2, CountersStay
<1> QED BY <1>a, <1>1, <1>2, <1>3, <1>5, <1>6, CountersStay, OnlyMoves

(* an instance of Evolution's comes *)
LEMMA RecreateKeeps ==
    ASSUME ConnectionInv, NEW j \in ConnectJobs, Recreate(j)
    PROVE  ConnectionInv'
<1>a. PICK c : c = conjob[j].conn
    OBVIOUS
<1>b. PICK job : job = [conjob[j] EXCEPT !.step = "update", !.again = TRUE, !.open = FALSE]
    OBVIOUS
<1>0. /\ conjob[j].step = "recreate"
      /\ UNCHANGED <<row, created, inst, hooks, staleInst, staleRow, unruly, leaked,
                     requests, remoteMoves>>
    BY DEF Recreate
<1>1. /\ ConnectionTypeOK /\ c \in Connections /\ j \in JobsOn(c) /\ conjob[j] \in ConnectJob
      /\ JobsOn(c) \subseteq ConnectJobs
      /\ NewIsUnknown(c) /\ TokenIsKept(c) /\ DeletionIsAlone(c) /\ EntryHasCause(c)
      /\ RowHasCause(c) /\ Deletes(conjob[j]) /\ row[c].state # "new"
      /\ conjob \in [ConnectJobs -> ConnectJob] /\ orphan \subseteq Connections
      /\ remote \in [Connections -> {"absent", "connecting", "open", "shut"}]
    BY <1>a, <1>0, AtWork, ConnectionTypes
<1>2. ~conjob[j].deletes
    BY <1>0, <1>1 DEF Deletes, Promotes
<1>3. CASE Finish(j) /\ UNCHANGED <<remote, orphan, losses>>
  <2>1. /\ conjob' \in [ConnectJobs -> ConnectJob] /\ conjob'[j] = IdleJob
        /\ \A k \in ConnectJobs \ {j} : conjob'[k] = conjob[k]
    BY <1>1, <1>3, FinishIs
  <2> QED BY <2>1, <1>3, <1>a, <1>0, <1>1, <1>2, CountersStay, IdleConnectJob, OnlyMoves
<1>4. ASSUME remote[c] = "absent", remote' = [remote EXCEPT ![c] = "connecting"]
      PROVE  /\ remote' \in [Connections -> {"absent", "connecting", "open", "shut"}]
             /\ remote'[c] = "connecting"
             /\ \A d \in Connections \ {c} : remote'[d] = remote[d]
             /\ <<c, "absent">> \notin hooks
    BY <1>4, <1>1 DEF ConnectionTypeOK
<1>5. CASE /\ remote[c] = "absent" /\ remote' = [remote EXCEPT ![c] = "connecting"]
           /\ conjob' = [conjob EXCEPT ![j].step = "update", ![j].again = TRUE,
                                       ![j].open = FALSE]
           /\ UNCHANGED <<orphan, losses>>
  <2>1. /\ job \in ConnectJob /\ job.step = "update" /\ job.conn = c /\ ~job.deletes /\ job.again
    BY <1>a, <1>b, <1>1, <1>2 DEF ConnectJob, ConnectSteps
  <2>2. conjob' = [conjob EXCEPT ![j] = job]
    BY <1>1, <1>5, <1>b
  <2>3. /\ conjob' \in [ConnectJobs -> ConnectJob] /\ conjob'[j] = job
        /\ \A k \in ConnectJobs \ {j} : conjob'[k] = conjob[k]
    BY <2>1, <2>2, <1>1, ConnectJobMoves
  <2>4. JobsOn(c)' = JobsOn(c)
    BY <2>1, <2>3, <1>0, <1>1, <1>a, OthersOn
  <2>5. /\ remote' \in [Connections -> {"absent", "connecting", "open", "shut"}]
        /\ remote'[c] = "connecting" /\ <<c, "absent">> \notin hooks
        /\ \A d \in Connections \ {c} : remote'[d] = remote[d]
    BY <1>4, <1>5
  <2>6. ConnectionTypeOK'
    BY <2>3, <2>5, <1>0, <1>1, <1>5 DEF ConnectionTypeOK, ConnectJob
  <2>7. HereIsCreated' /\ DefaultsHaveCause'
    BY <2>3, <1>0, <1>5, DefaultsStay DEF Unsettled, Promotes
  <2>8. NewIsUnknown(c)'
    BY <2>1, <2>3, <2>4, <1>0, <1>1, <1>5 DEF NewIsUnknown
  <2>9. TokenIsKept(c)'
    BY <2>1, <2>3, <2>4, <1>0, <1>1, <1>5 DEF TokenIsKept
  <2>10. DeletionIsAlone(c)'
    BY <2>1, <2>3, <2>4, <1>0, <1>1, <1>2, <1>5 DEF DeletionIsAlone, Promotes
  <2>11. EntryHasCause(c)'
    BY <2>1, <2>3, <2>4, <2>5, <1>0, <1>1, <1>5 DEF EntryHasCause
  <2>12. RowHasCause(c)'
    BY <2>1, <2>3, <2>4, <1>0, <1>1, <1>5 DEF RowHasCause
  <2>13. Deletes(conjob[j])' /\ Holds(c)'
    BY <2>1, <2>3, <2>8, <2>9, <2>10, <2>11, <2>12 DEF Deletes, Promotes, Holds
  <2> QED BY <2>1, <2>3, <2>5, <2>6, <2>7, <2>13, <1>a, <1>0, <1>1, <1>5, OneMoves
<1>6. CASE /\ remote[c] = "absent" /\ remote' = [remote EXCEPT ![c] = "connecting"]
           /\ Loses /\ losses' = losses + 1
           /\ orphan' = orphan \union {c} /\ Finish(j)
  <2>1. /\ conjob' \in [ConnectJobs -> ConnectJob] /\ conjob'[j] = IdleJob
        /\ \A k \in ConnectJobs \ {j} : conjob'[k] = conjob[k]
    BY <1>1, <1>6, FinishIs
  <2>2. JobsOn(c)' = JobsOn(c) \ {j}
    BY <2>1, <1>0, <1>1, <1>a, IdleConnectJob, OthersOn
  <2>3. /\ remote' \in [Connections -> {"absent", "connecting", "open", "shut"}]
        /\ remote'[c] = "connecting" /\ <<c, "absent">> \notin hooks
        /\ \A d \in Connections \ {c} : remote'[d] = remote[d]
    BY <1>4, <1>6
  <2>4. losses' \in 0 .. MaxLosses /\ orphan' \subseteq Connections /\ c \in orphan'
    BY <1>1, <1>6, CountersStay
  <2>5. ConnectionTypeOK'
    BY <2>1, <2>3, <2>4, <1>0, <1>1 DEF ConnectionTypeOK, ConnectJob
  <2>6. HereIsCreated' /\ DefaultsHaveCause'
    BY <2>1, <1>0, DefaultsStay DEF Unsettled, Promotes
  <2>7. NewIsUnknown(c)'
    BY <2>1, <2>2, <1>0, <1>1 DEF NewIsUnknown
  <2>8. TokenIsKept(c)'
    BY <2>1, <2>2, <2>4, <1>0, <1>1 DEF TokenIsKept
  <2>9. DeletionIsAlone(c)'
    BY <2>1, <2>2, <2>4, <1>0, <1>1, <1>2, <1>6 DEF DeletionIsAlone, Promotes
  <2>10. EntryHasCause(c)'
    BY <2>1, <2>2, <2>3, <1>0, <1>1, <1>6 DEF EntryHasCause
  <2>11. RowHasCause(c)'
    BY <2>1, <2>2, <1>0, <1>1 DEF RowHasCause
  <2>12. Deletes(conjob[j])' /\ Holds(c)'
    BY <2>1, <2>7, <2>8, <2>9, <2>10, <2>11, IdleConnectJob DEF Deletes, Promotes, Holds
  <2> QED
    BY <2>1, <2>3, <2>4, <2>5, <2>6, <2>12, <1>a, <1>0, <1>1, <1>6, IdleConnectJob, OneMoves
<1> QED BY <1>3, <1>5, <1>6, <1>a DEF Recreate

LEMMA UpdateIs ==
    ASSUME ConnectionTypeOK, NEW c \in Connections, NEW new \in ConnectionRow, Update(c, new)
    PROVE  /\ row' \in [Connections -> ConnectionRow]
           /\ row[c].state = "here" => row'[c] = new
           /\ row[c].state # "here" => row' = row
           /\ \A d \in Connections \ {c} : row'[d] = row[d]
  BY ConnectionTypes DEF Update

LEMMA EntryIs ==
    ASSUME ConnectionTypeOK, NEW c \in Connections, NEW new \in InstEntry, NEW b \in BOOLEAN,
           inst' = [inst EXCEPT ![c] = new], staleInst' = [staleInst EXCEPT ![c] = b]
    PROVE  /\ inst' \in [Connections -> InstEntry] /\ staleInst' \in [Connections -> BOOLEAN]
           /\ inst'[c] = new /\ staleInst'[c] = b
           /\ \A d \in Connections \ {c} : inst'[d] = inst[d] /\ staleInst'[d] = staleInst[d]
<1>1. inst \in [Connections -> InstEntry] /\ staleInst \in [Connections -> BOOLEAN]
    BY ConnectionTypes
<1> QED BY <1>1

LEMMA FlagIs ==
    ASSUME NEW f \in [Connections -> BOOLEAN], NEW c \in Connections, NEW b \in BOOLEAN
    PROVE  /\ [f EXCEPT ![c] = b] \in [Connections -> BOOLEAN] /\ [f EXCEPT ![c] = b][c] = b
           /\ \A d \in Connections \ {c} : [f EXCEPT ![c] = b][d] = f[d]
  OBVIOUS

LEMMA ConnectRowKeeps ==
    ASSUME ConnectionInv, NEW j \in ConnectJobs, ConnectRow(j)
    PROVE  ConnectionInv'
<1>a. PICK c : c = conjob[j].conn
    OBVIOUS
<1>b. PICK new : new = [row[c] EXCEPT !.status = "PENDING", !.token = TRUE]
    OBVIOUS
<1>0. /\ conjob[j].step = "update" /\ Update(c, new) /\ To(j, "set")
      /\ staleRow' = [staleRow EXCEPT ![c] = FALSE] /\ orphan' = orphan \ {c}
      /\ UNCHANGED <<created, inst, remote, hooks, staleInst, unruly, leaked, requests, remoteMoves,
                     losses>>
    BY <1>a, <1>b DEF ConnectRow, counters
<1>1. /\ ConnectionTypeOK /\ c \in Connections /\ j \in JobsOn(c) /\ conjob[j] \in ConnectJob
      /\ JobsOn(c) \subseteq ConnectJobs
      /\ NewIsUnknown(c) /\ TokenIsKept(c) /\ DeletionIsAlone(c) /\ EntryHasCause(c)
      /\ RowHasCause(c) /\ Deletes(conjob[j]) /\ row[c].state # "new" /\ row[c] \in ConnectionRow
      /\ staleRow \in [Connections -> BOOLEAN] /\ orphan \subseteq Connections
    BY <1>a, <1>0, AtWork, ConnectionTypes
<1>2. ~conjob[j].deletes
    BY <1>0, <1>1 DEF Deletes, Promotes
<1>3. /\ new \in ConnectionRow /\ new.state = row[c].state /\ new.status = "PENDING" /\ new.token
      /\ new.isDefault = row[c].isDefault
    BY <1>1, <1>b DEF ConnectionRow, Status
<1>4. /\ row' \in [Connections -> ConnectionRow]
      /\ row[c].state = "here" => row'[c] = new
      /\ row[c].state # "here" => row' = row
      /\ \A d \in Connections \ {c} : row'[d] = row[d]
    BY <1>0, <1>1, <1>3, UpdateIs
<1>5. /\ conjob' \in [ConnectJobs -> ConnectJob] /\ conjob'[j].step = "set"
      /\ conjob'[j].conn = c /\ ~conjob'[j].deletes
      /\ \A k \in ConnectJobs \ {j} : conjob'[k] = conjob[k]
    BY <1>a, <1>0, <1>1, <1>2, ToIs DEF ConnectSteps
<1>6. JobsOn(c)' = JobsOn(c)
    BY <1>a, <1>0, <1>1, <1>5, OthersOn
<1>7. /\ staleRow' \in [Connections -> BOOLEAN] /\ ~staleRow'[c]
      /\ \A d \in Connections \ {c} : staleRow'[d] = staleRow[d]
    BY <1>0, <1>1, FlagIs
<1>8. ConnectionTypeOK'
    BY <1>0, <1>1, <1>4, <1>5, <1>7 DEF ConnectionTypeOK, ConnectJob
<1>9. HereIsCreated' /\ DefaultsHaveCause'
    BY <1>0, <1>3, <1>4, <1>5, DefaultsStay DEF Unsettled, Promotes
<1>10. NewIsUnknown(c)'
    BY <1>0, <1>1, <1>3, <1>4, <1>5, <1>6 DEF NewIsUnknown
<1>11. TokenIsKept(c)'
  <2>1. c \notin leaked => row[c].state = "here"
    BY <1>0, <1>1, RowIs DEF DeletionIsAlone, Promotes
  <2>2. row'[c].state = "here" => row'[c].token
    BY <1>3, <1>4
  <2>3. row'[c].token \/ c \in leaked
    BY <2>1, <1>3, <1>4
  <2> QED BY <2>2, <2>3, <1>0, <1>1 DEF TokenIsKept
<1>12. DeletionIsAlone(c)'
    BY <1>0, <1>1, <1>2, <1>3, <1>4, <1>5, <1>6 DEF DeletionIsAlone, Promotes
<1>13. EntryHasCause(c)'
    BY <1>0, <1>1, <1>5, <1>6 DEF EntryHasCause
<1>14. RowHasCause(c)'
    BY <1>0, <1>1, <1>3, <1>4, <1>5, <1>6 DEF RowHasCause
<1>15. Deletes(conjob[j])' /\ Holds(c)'
    BY <1>5, <1>10, <1>11, <1>12, <1>13, <1>14 DEF Deletes, Promotes, Holds
<1> QED BY <1>a, <1>0, <1>1, <1>4, <1>5, <1>7, <1>8, <1>9, <1>15, OneMoves

LEMMA ConnectSetKeeps ==
    ASSUME ConnectionInv, NEW j \in ConnectJobs, ConnectSet(j)
    PROVE  ConnectionInv'
<1>a. PICK c : c = conjob[j].conn
    OBVIOUS
<1>b. PICK status : status = IF conjob[j].open THEN "CONNECTED" ELSE "PENDING"
    OBVIOUS
<1>c. PICK b : b = (row[c].status = "CONNECTED" /\ ~conjob[j].open)
    OBVIOUS
<1>d. PICK new : new = [status |-> status, qr |-> FALSE]
    OBVIOUS
<1>e. PICK s : s = (conjob[j].open # (remote[c] = "open") /\ <<c, remote[c]>> \notin hooks)
    OBVIOUS
<1>0. /\ conjob[j].step = "set"
      /\ inst' = [inst EXCEPT ![c] = new] /\ staleInst' = [staleInst EXCEPT ![c] = s]
      /\ staleRow' = [staleRow EXCEPT ![c] = b]
      /\ Finish(j) \/ To(j, "qr")
      /\ UNCHANGED <<row, created, remote, hooks, unruly, orphan, leaked, requests, remoteMoves,
                     losses>>
    BY <1>a, <1>b, <1>c, <1>d, <1>e DEF ConnectSet, Store, history1, counters
<1>1. /\ ConnectionTypeOK /\ c \in Connections /\ j \in JobsOn(c) /\ conjob[j] \in ConnectJob
      /\ JobsOn(c) \subseteq ConnectJobs
      /\ NewIsUnknown(c) /\ TokenIsKept(c) /\ DeletionIsAlone(c) /\ EntryHasCause(c)
      /\ RowHasCause(c) /\ Deletes(conjob[j]) /\ row[c].state # "new" /\ row[c] \in ConnectionRow
      /\ staleRow \in [Connections -> BOOLEAN] /\ orphan \subseteq Connections
    BY <1>a, <1>0, AtWork, ConnectionTypes
<1>2. ~conjob[j].deletes /\ conjob[j].open \in BOOLEAN /\ status \in Status /\ b \in BOOLEAN
      /\ (status = "CONNECTED" <=> conjob[j].open)
    BY <1>0, <1>1, <1>b, <1>c DEF Deletes, Promotes, ConnectJob, Status
<1>f. new \in InstEntry /\ new.status = status /\ new # NoInst /\ s \in BOOLEAN
    BY <1>2, <1>d, <1>e DEF InstEntry, NoInst, Status
<1>3. /\ inst' \in [Connections -> InstEntry] /\ staleInst' \in [Connections -> BOOLEAN]
      /\ inst'[c].status = status /\ inst'[c] # NoInst
      /\ staleInst'[c] <=>
            (conjob[j].open # (remote[c] = "open")) /\ <<c, remote[c]>> \notin hooks
      /\ \A d \in Connections \ {c} : inst'[d] = inst[d] /\ staleInst'[d] = staleInst[d]
    BY <1>0, <1>1, <1>2, <1>e, <1>f, EntryIs
<1>4. /\ conjob' \in [ConnectJobs -> ConnectJob] /\ conjob'[j].step \in {"idle", "qr"}
      /\ conjob'[j].step # "idle" => conjob'[j].conn = c
      /\ ~conjob'[j].deletes
      /\ \A k \in ConnectJobs \ {j} : conjob'[k] = conjob[k]
    BY <1>a, <1>0, <1>1, <1>2, ToIs, FinishIs, IdleConnectJob DEF ConnectSteps
<1>5. JobsOn(c)' = JobsOn(c) \/ JobsOn(c)' = JobsOn(c) \ {j}
    BY <1>a, <1>0, <1>1, <1>4, OthersOn
<1>6. /\ staleRow' \in [Connections -> BOOLEAN] /\ staleRow'[c] = b
      /\ \A d \in Connections \ {c} : staleRow'[d] = staleRow[d]
    BY <1>0, <1>1, <1>2, FlagIs
<1>7. ConnectionTypeOK'
    BY <1>0, <1>1, <1>3, <1>4, <1>6 DEF ConnectionTypeOK, ConnectJob,
                                                       InstEntry
<1>8. HereIsCreated' /\ DefaultsHaveCause'
    BY <1>0, <1>4, DefaultsStay DEF Unsettled, Promotes
<1>9. NewIsUnknown(c)'
    BY <1>0, <1>1, <1>4, <1>5 DEF NewIsUnknown
<1>10. TokenIsKept(c)'
    BY <1>0, <1>1, <1>2, <1>3, <1>4, <1>5 DEF TokenIsKept, Status
<1>11. DeletionIsAlone(c)'
    BY <1>0, <1>1, <1>2, <1>4, <1>5 DEF DeletionIsAlone, Promotes
<1>12. EntryHasCause(c)'
    BY <1>0, <1>2, <1>3 DEF EntryHasCause
<1>13. RowHasCause(c)'
    BY <1>0, <1>2, <1>3, <1>6, <1>c DEF RowHasCause
<1>14. Deletes(conjob[j])' /\ Holds(c)'
    BY <1>4, <1>9, <1>10, <1>11, <1>12, <1>13 DEF Deletes, Promotes, Holds
<1> QED BY <1>a, <1>0, <1>1, <1>3, <1>4, <1>6, <1>7, <1>8, <1>14, OneMoves

LEMMA ConnectQrKeeps ==
    ASSUME ConnectionInv, NEW j \in ConnectJobs, ConnectQr(j)
    PROVE  ConnectionInv'
<1>a. PICK c : c = conjob[j].conn
    OBVIOUS
<1>b. PICK new : new = IF inst[c] = NoInst THEN inst[c]
                       ELSE [inst[c] EXCEPT !.qr = remote[c] \in {"shut", "connecting"}]
    OBVIOUS
<1>0. /\ conjob[j].step = "qr" /\ Finish(j)
      /\ inst' = IF inst[c] = NoInst THEN inst
                 ELSE [inst EXCEPT ![c].qr = remote[c] \in {"shut", "connecting"}]
      /\ UNCHANGED <<row, created, remote, hooks, staleInst, staleRow, unruly, orphan, leaked,
                     requests, remoteMoves, losses>>
    BY <1>a DEF ConnectQr, history1, counters
<1>1. /\ ConnectionTypeOK /\ c \in Connections /\ j \in JobsOn(c) /\ conjob[j] \in ConnectJob
      /\ JobsOn(c) \subseteq ConnectJobs /\ inst[c] \in InstEntry
      /\ inst \in [Connections -> InstEntry]
      /\ NewIsUnknown(c) /\ TokenIsKept(c) /\ DeletionIsAlone(c) /\ EntryHasCause(c)
      /\ RowHasCause(c) /\ Deletes(conjob[j]) /\ row[c].state # "new" /\ row[c] \in ConnectionRow
    BY <1>a, <1>0, AtWork, ConnectionTypes
<1>2. ~conjob[j].deletes
    BY <1>0, <1>1 DEF Deletes, Promotes
<1>3. /\ new \in InstEntry /\ new.status = inst[c].status /\ (new = NoInst <=> inst[c] = NoInst)
  <2>1. inst[c] # NoInst => inst[c].status # "none"
    BY <1>1 DEF TokenIsKept
  <2>2. PICK b \in BOOLEAN : b <=> remote[c] \in {"shut", "connecting"}
    OBVIOUS
  <2>3. inst[c] # NoInst => new = [inst[c] EXCEPT !.qr = b]
    BY <2>2, <1>b
  <2> QED BY ONLY <2>1, <2>2, <2>3, <1>1, <1>b DEF InstEntry, NoInst
<1>4. inst' \in [Connections -> InstEntry] /\ inst'[c] = new
      /\ \A d \in Connections \ {c} : inst'[d] = inst[d]
  <2>1. inst' = [inst EXCEPT ![c] = new]
    BY <1>0, <1>1, <1>b
  <2> QED BY <2>1, <1>1, <1>3
<1>5. /\ conjob' \in [ConnectJobs -> ConnectJob] /\ conjob'[j].step = "idle"
      /\ conjob'[j] = IdleJob
      /\ \A k \in ConnectJobs \ {j} : conjob'[k] = conjob[k]
    BY <1>0, <1>1, FinishIs, IdleConnectJob
<1>6. JobsOn(c)' = JobsOn(c) \ {j}
    BY <1>a, <1>0, <1>1, <1>5, OthersOn
<1>7. ConnectionTypeOK'
    BY <1>0, <1>1, <1>4, <1>5 DEF ConnectionTypeOK, ConnectJob,
                                                       InstEntry
<1>8. HereIsCreated' /\ DefaultsHaveCause'
    BY <1>0, <1>5, DefaultsStay DEF Unsettled, Promotes
<1>9. NewIsUnknown(c)'
    BY <1>0, <1>1, <1>5, <1>6 DEF NewIsUnknown
<1>10. TokenIsKept(c)'
    BY <1>0, <1>1, <1>3, <1>4, <1>5, <1>6 DEF TokenIsKept, NoInst
<1>11. DeletionIsAlone(c)'
    BY <1>0, <1>1, <1>2, <1>3, <1>4, <1>5, <1>6 DEF DeletionIsAlone, Promotes, NoInst
<1>12. EntryHasCause(c)'
    BY <1>0, <1>1, <1>3, <1>4, <1>5, <1>6 DEF EntryHasCause
<1>13. RowHasCause(c)'
    BY <1>0, <1>1, <1>3, <1>4, <1>5, <1>6 DEF RowHasCause
<1>14. Deletes(conjob[j])' /\ Holds(c)'
    BY <1>5, <1>9, <1>10, <1>11, <1>12, <1>13, IdleConnectJob DEF Deletes, Promotes, Holds
<1> QED BY <1>a, <1>0, <1>1, <1>4, <1>5, <1>7, <1>8, <1>14, OneMoves

-----------------------------------------------------------------------------
(* getStatus *)

(* A connection of which no request tells. *)
LEMMA NobodyMoves ==
    ASSUME ConnectionInv, NEW c \in Connections,
           ConnectionTypeOK', HereIsCreated', DefaultsHaveCause', Holds(c)',
           conjob' = conjob,
           \A d \in Connections \ {c} :
               /\ row'[d].state = row[d].state /\ row'[d].status = row[d].status
               /\ row'[d].token = row[d].token /\ inst'[d] = inst[d] /\ remote'[d] = remote[d]
               /\ staleInst'[d] = staleInst[d] /\ staleRow'[d] = staleRow[d],
           \A d \in Connections \ {c}, what \in {"absent", "connecting", "open", "shut", "qr"} :
               <<d, what>> \in hooks' <=> <<d, what>> \in hooks,
           leaked \subseteq leaked', orphan \ {c} \subseteq orphan'
    PROVE  ConnectionInv'
<1>1. ASSUME NEW d \in Connections \ {c} PROVE Holds(d)'
  <2>1. Holds(d) /\ remote[d] \in {"absent", "connecting", "open", "shut"}
    BY ConnectionTypes DEF ConnectionInv
  <2>2. JobsOn(d)' = JobsOn(d) /\ \A k \in JobsOn(d) : conjob'[k] = conjob[k]
    BY DEF JobsOn
  <2> QED BY <2>1, <2>2, StillHolds
<1>2. \A k \in ConnectJobs : Deletes(conjob[k])'
    BY DEF ConnectionInv, Deletes, Promotes
<1> QED BY <1>1, <1>2 DEF ConnectionInv

(* What holds of any connection. *)
LEMMA HoldsOf ==
    ASSUME ConnectionInv, NEW c \in Connections
    PROVE  /\ ConnectionTypeOK /\ JobsOn(c) \subseteq ConnectJobs
           /\ NewIsUnknown(c) /\ TokenIsKept(c) /\ DeletionIsAlone(c) /\ EntryHasCause(c)
           /\ RowHasCause(c) /\ row[c] \in ConnectionRow /\ inst[c] \in InstEntry
           /\ remote[c] \in {"absent", "connecting", "open", "shut"}
<1>1. JobsOn(c) \subseteq ConnectJobs
    BY DEF JobsOn
<1> QED BY <1>1, ConnectionTypes DEF ConnectionInv, Holds

LEMMA AskKeeps ==
    ASSUME ConnectionInv, NEW j \in ConnectJobs, NEW c \in Connections, Ask(j, c)
    PROVE  ConnectionInv'
<1>a. PICK job : job = [IdleJob EXCEPT !.step = "status", !.conn = c, !.was = row[c].status]
    OBVIOUS
<1>0. /\ row[c].state = "here" /\ row[c].token /\ inst[c] = NoInst
      /\ conjob[j].step = "idle" /\ BeginsAnother /\ requests' = requests + 1
      /\ conjob' = [conjob EXCEPT ![j] = job]
      /\ UNCHANGED <<row, created, inst, remote, hooks, staleInst, staleRow, unruly, orphan, leaked,
                     remoteMoves, losses>>
    BY <1>a DEF Ask, history1
<1>1. /\ ConnectionTypeOK /\ JobsOn(c) \subseteq ConnectJobs
      /\ NewIsUnknown(c) /\ TokenIsKept(c) /\ DeletionIsAlone(c) /\ EntryHasCause(c)
      /\ RowHasCause(c) /\ row[c] \in ConnectionRow
    BY HoldsOf
<1>2. job \in ConnectJob /\ job.step = "status" /\ job.conn = c /\ ~job.deletes /\ ~job.again
    BY <1>1, <1>a, IdleConnectJob, RowIs DEF ConnectJob, ConnectSteps
<1>3. /\ conjob' \in [ConnectJobs -> ConnectJob] /\ conjob'[j] = job
      /\ \A k \in ConnectJobs \ {j} : conjob'[k] = conjob[k]
    BY <1>0, <1>1, <1>2, ConnectJobMoves
<1>4. JobsOn(c)' = JobsOn(c) \union {j} /\ j \notin JobsOn(c)
  <2>1. j \notin JobsOn(c)
    BY <1>0 DEF JobsOn
  <2> QED BY <2>1, <1>0, <1>2, <1>3, OthersOn
<1>5. ConnectionTypeOK'
    BY <1>0, <1>1, <1>3, CountersStay DEF ConnectionTypeOK, ConnectJob
<1>6. HereIsCreated' /\ DefaultsHaveCause'
    BY <1>0, <1>3, DefaultsStay DEF Unsettled, Promotes
<1>7. NewIsUnknown(c)'
    BY <1>0, <1>1, <1>2, <1>3, <1>4 DEF NewIsUnknown
<1>8. TokenIsKept(c)'
    BY <1>0, <1>1, <1>2, <1>3, <1>4 DEF TokenIsKept
<1>9. DeletionIsAlone(c)'
    BY <1>0, <1>1, <1>2, <1>3, <1>4 DEF DeletionIsAlone, Promotes
<1>10. EntryHasCause(c)'
    BY <1>0, <1>1, <1>3, <1>4 DEF EntryHasCause
<1>11. RowHasCause(c)'
    BY <1>0, <1>1, <1>3, <1>4 DEF RowHasCause
<1>12. Deletes(conjob[j])' /\ Holds(c)'
    BY <1>2, <1>3, <1>7, <1>8, <1>9, <1>10, <1>11 DEF Deletes, Promotes, Holds
<1> QED BY <1>0, <1>2, <1>3, <1>5, <1>6, <1>12, OneMoves

LEMMA AnswerKeeps ==
    ASSUME ConnectionInv, NEW j \in ConnectJobs, Answer(j)
    PROVE  ConnectionInv'
<1>a. PICK c : c = conjob[j].conn
    OBVIOUS
<1>b. PICK open : open = (remote[c] = "open")
    OBVIOUS
<1>c. PICK status :
         /\ status = StatusOf(remote[c])
         /\ Store(c, status, FALSE, remote[c] = "open", hooks)
         /\ IF conjob[j].was = status THEN UNCHANGED row
            ELSE Update(c, [row[c] EXCEPT !.status = status])
         /\ staleRow' = [staleRow EXCEPT ![c] = row'[c].status # status]
    BY <1>a, <1>b DEF Answer
<1>d. PICK new : new = [status |-> status, qr |-> FALSE]
    OBVIOUS
<1>e. PICK s : s = (open # (remote[c] = "open") /\ <<c, remote[c]>> \notin hooks)
    OBVIOUS
<1>0. /\ conjob[j].step = "status"
      /\ inst' = [inst EXCEPT ![c] = new] /\ staleInst' = [staleInst EXCEPT ![c] = s]
      /\ Finish(j)
      /\ UNCHANGED <<created, remote, hooks, unruly, orphan, leaked, requests, remoteMoves,
                     losses>>
    BY <1>a, <1>b, <1>c, <1>d, <1>e DEF Answer, Store, history1, counters
<1>1. /\ ConnectionTypeOK /\ c \in Connections /\ j \in JobsOn(c) /\ conjob[j] \in ConnectJob
      /\ JobsOn(c) \subseteq ConnectJobs
      /\ NewIsUnknown(c) /\ TokenIsKept(c) /\ DeletionIsAlone(c) /\ EntryHasCause(c)
      /\ RowHasCause(c) /\ Deletes(conjob[j]) /\ row[c].state # "new" /\ row[c] \in ConnectionRow
      /\ staleRow \in [Connections -> BOOLEAN] /\ orphan \subseteq Connections
      /\ row \in [Connections -> ConnectionRow]
    BY <1>a, <1>0, AtWork, ConnectionTypes
<1>2. ~conjob[j].deletes /\ status \in Status /\ (status = "CONNECTED" <=> remote[c] = "open")
    BY <1>0, <1>1, <1>b, <1>c DEF Deletes, Promotes, Status, StatusOf
<1>f. new \in InstEntry /\ new.status = status /\ new # NoInst /\ s \in BOOLEAN /\ ~s
    BY <1>2, <1>b, <1>d, <1>e DEF InstEntry, NoInst, Status
<1>3. /\ inst' \in [Connections -> InstEntry] /\ staleInst' \in [Connections -> BOOLEAN]
      /\ inst'[c] = new /\ staleInst'[c] = s
      /\ \A d \in Connections \ {c} : inst'[d] = inst[d] /\ staleInst'[d] = staleInst[d]
    BY <1>0, <1>1, <1>f, EntryIs
<1>4. /\ conjob' \in [ConnectJobs -> ConnectJob] /\ conjob'[j] = IdleJob
      /\ \A k \in ConnectJobs \ {j} : conjob'[k] = conjob[k]
    BY <1>0, <1>1, FinishIs
<1>5. JobsOn(c)' = JobsOn(c) \ {j}
    BY <1>a, <1>0, <1>1, <1>4, IdleConnectJob, OthersOn
<1>6. /\ row' \in [Connections -> ConnectionRow]
      /\ \A d \in Connections \ {c} : row'[d] = row[d]
      /\ row'[c].state = row[c].state /\ row'[c].token = row[c].token
      /\ row'[c].isDefault = row[c].isDefault
  <2>1. CASE row' = row
    BY <2>1, <1>1
  <2>2. CASE Update(c, [row[c] EXCEPT !.status = status])
    <3>1. PICK r : r = [row[c] EXCEPT !.status = status]
      OBVIOUS
    <3>2. /\ r \in ConnectionRow /\ r.state = row[c].state /\ r.token = row[c].token
          /\ r.isDefault = row[c].isDefault
      BY <3>1, <1>1, <1>2, RowIs
    <3>3. /\ row' \in [Connections -> ConnectionRow]
          /\ row[c].state = "here" => row'[c] = r
          /\ row[c].state # "here" => row' = row
          /\ \A d \in Connections \ {c} : row'[d] = row[d]
      BY <2>2, <3>1, <3>2, <1>1, UpdateIs
    <3> QED BY <3>2, <3>3, <1>1
  <2> QED BY <2>1, <2>2, <1>c
<1>7. /\ staleRow' \in [Connections -> BOOLEAN] /\ (staleRow'[c] <=> row'[c].status # status)
      /\ \A d \in Connections \ {c} : staleRow'[d] = staleRow[d]
  <2>1. PICK b \in BOOLEAN : b <=> row'[c].status # status
    OBVIOUS
  <2>2. staleRow' = [staleRow EXCEPT ![c] = b]
    BY <2>1, <1>c
  <2>3. /\ staleRow' \in [Connections -> BOOLEAN] /\ staleRow'[c] = b
        /\ \A d \in Connections \ {c} : staleRow'[d] = staleRow[d]
    BY <2>2, <1>1, FlagIs
  <2> QED BY <2>1, <2>3
<1>8. ConnectionTypeOK'
    BY <1>0, <1>1, <1>3, <1>4, <1>6, <1>7 DEF ConnectionTypeOK, ConnectJob,
                                                       InstEntry
<1>9. HereIsCreated' /\ DefaultsHaveCause'
    BY <1>0, <1>4, <1>6, DefaultsStay DEF Unsettled, Promotes
<1>10. NewIsUnknown(c)'
    BY <1>0, <1>1, <1>4, <1>5, <1>6 DEF NewIsUnknown
<1>11. TokenIsKept(c)'
    BY <1>0, <1>1, <1>2, <1>3, <1>4, <1>5, <1>6, <1>f DEF TokenIsKept, Status
<1>12. DeletionIsAlone(c)'
  <2>1. remote[c] # "absent"
    BY <1>a DEF Answer
  <2>2. row[c].state = "gone" => c \in leaked
    BY <1>0, <1>1 DEF DeletionIsAlone, Promotes
  <2>3. row[c].state = "here" => row[c].token
    BY <1>0, <1>1 DEF TokenIsKept
  <2>4. c \in leaked \/ row[c].token
    BY <2>2, <2>3, <1>1, RowIs
  <2>5. \A i \in JobsOn(c)' : i \in JobsOn(c) /\ i # j /\ conjob'[i] = conjob[i]
    BY <1>1, <1>4, <1>5
  <2> QED BY <2>1, <2>2, <2>4, <2>5, <1>0, <1>1, <1>2, <1>6 DEF DeletionIsAlone, Promotes
<1>13. EntryHasCause(c)'
    BY <1>0, <1>2, <1>3, <1>f DEF EntryHasCause
<1>14. RowHasCause(c)'
    BY <1>0, <1>3, <1>7, <1>f DEF RowHasCause
<1>15. Deletes(conjob[j])' /\ Holds(c)'
    BY <1>4, <1>10, <1>11, <1>12, <1>13, <1>14, IdleConnectJob DEF Deletes, Promotes, Holds
<1> QED BY <1>a, <1>0, <1>1, <1>3, <1>4, <1>6, <1>7, <1>8, <1>9, <1>15, IdleConnectJob, OneMoves

LEMMA NoAnswerKeeps ==
    ASSUME ConnectionInv, NEW j \in ConnectJobs, NoAnswer(j)
    PROVE  ConnectionInv'
<1>a. PICK c : c = conjob[j].conn
    OBVIOUS
<1>1. /\ conjob[j].step = "status" /\ Finish(j)
      /\ UNCHANGED <<row, created, inst, remote, hooks, staleInst, staleRow, unruly, orphan, leaked,
                     requests, remoteMoves, losses>>
    BY DEF NoAnswer, history1, counters
<1>2. ConnectionTypeOK /\ Deletes(conjob[j]) /\ orphan \subseteq Connections
    BY <1>1, <1>a, AtWork, ConnectionTypes
<1>3. ~conjob[j].deletes
    BY <1>1, <1>2 DEF Deletes, Promotes
<1>4. /\ conjob' \in [ConnectJobs -> ConnectJob] /\ conjob'[j] = IdleJob
      /\ \A k \in ConnectJobs \ {j} : conjob'[k] = conjob[k]
    BY <1>1, <1>2, FinishIs
<1> QED BY <1>a, <1>1, <1>2, <1>3, <1>4, IdleConnectJob, CountersStay, OnlyMoves

-----------------------------------------------------------------------------
(* Evolution and its webhooks *)

LEMMA RemoteMovesKeeps ==
    ASSUME ConnectionInv, NEW c \in Connections, NEW to \in {"open", "shut", "connecting"},
           RemoteMoves(c, to)
    PROVE  ConnectionInv'
<1>0. /\ Befalls /\ remote[c] \notin {"absent", to} /\ remote' = [remote EXCEPT ![c] = to]
      /\ hooks' = hooks \union {<<c, to>>} /\ remoteMoves' = remoteMoves + 1
      /\ UNCHANGED <<row, created, inst, conjob, staleInst, staleRow, unruly, orphan, leaked,
                     requests, losses>>
    BY DEF RemoteMoves, history1
<1>1. /\ ConnectionTypeOK /\ JobsOn(c) \subseteq ConnectJobs /\ JobsOn(c)' = JobsOn(c)
      /\ NewIsUnknown(c) /\ TokenIsKept(c) /\ DeletionIsAlone(c) /\ EntryHasCause(c)
      /\ RowHasCause(c) /\ remote \in [Connections -> {"absent", "connecting", "open", "shut"}]
    BY <1>0, HoldsOf, ConnectionTypes DEF JobsOn
<1>2. /\ remote' \in [Connections -> {"absent", "connecting", "open", "shut"}] /\ remote'[c] = to
      /\ \A d \in Connections \ {c} : remote'[d] = remote[d]
    BY <1>0, <1>1
<1>3. ConnectionTypeOK'
    BY <1>0, <1>1, <1>2, CountersStay DEF ConnectionTypeOK
<1>4. HereIsCreated' /\ DefaultsHaveCause'
    BY <1>0, DefaultsStay DEF Unsettled, Promotes
<1>5. NewIsUnknown(c)'
    BY <1>0, <1>1 DEF NewIsUnknown
<1>6. TokenIsKept(c)'
    BY <1>0, <1>1 DEF TokenIsKept
<1>7. DeletionIsAlone(c)'
    BY <1>0, <1>1, <1>2 DEF DeletionIsAlone, Promotes
<1>8. EntryHasCause(c)'
    BY <1>0, <1>2 DEF EntryHasCause
<1>9. RowHasCause(c)'
    BY <1>0, <1>1 DEF RowHasCause
<1>10. Holds(c)'
    BY <1>5, <1>6, <1>7, <1>8, <1>9 DEF Holds
<1> QED BY <1>0, <1>2, <1>3, <1>4, <1>10, NobodyMoves

LEMMA RemoteQrKeeps ==
    ASSUME ConnectionInv, NEW c \in Connections, RemoteQr(c)
    PROVE  ConnectionInv'
<1>0. /\ Befalls /\ remote[c] \in {"shut", "connecting"} /\ remoteMoves' = remoteMoves + 1
      /\ hooks' = hooks \union {<<c, "qr">>}
      /\ UNCHANGED <<row, created, inst, remote, conjob, staleInst, staleRow, unruly, orphan,
                     leaked, requests, losses>>
    BY DEF RemoteQr, history1
<1>1. /\ ConnectionTypeOK /\ JobsOn(c) \subseteq ConnectJobs /\ JobsOn(c)' = JobsOn(c)
      /\ NewIsUnknown(c) /\ TokenIsKept(c) /\ DeletionIsAlone(c) /\ EntryHasCause(c)
      /\ RowHasCause(c)
    BY <1>0, HoldsOf DEF JobsOn
<1>2. ConnectionTypeOK'
    BY <1>0, <1>1, CountersStay DEF ConnectionTypeOK
<1>3. HereIsCreated' /\ DefaultsHaveCause'
    BY <1>0, DefaultsStay DEF Unsettled, Promotes
<1>4. NewIsUnknown(c)'
    BY <1>0, <1>1 DEF NewIsUnknown
<1>5. TokenIsKept(c)'
    BY <1>0, <1>1 DEF TokenIsKept
<1>6. DeletionIsAlone(c)'
    BY <1>0, <1>1 DEF DeletionIsAlone, Promotes
<1>7. EntryHasCause(c)'
    BY <1>0, <1>1 DEF EntryHasCause
<1>8. RowHasCause(c)'
    BY <1>0, <1>1 DEF RowHasCause
<1>9. Holds(c)'
    BY <1>4, <1>5, <1>6, <1>7, <1>8 DEF Holds
<1> QED BY <1>0, <1>2, <1>3, <1>9, NobodyMoves

(* a webhook goes: the entry may miss the last *)
LEMMA HookGoesKeeps ==
    ASSUME ConnectionInv, NEW h \in hooks, HookLost(h) \/ HookDropped(h)
    PROVE  ConnectionInv'
<1>a. PICK c : c = h[1]
    OBVIOUS
<1>b. PICK b : b = IF HookLost(h) THEN staleInst[c] \/ h[2] = remote[c] ELSE staleInst[c]
    OBVIOUS
<1>1. /\ ConnectionTypeOK /\ c \in Connections /\ h = <<c, h[2]>>
      /\ staleInst \in [Connections -> BOOLEAN]
    BY <1>a, ConnectionTypes DEF ConnectionInv, ConnectionTypeOK
<1>0. /\ hooks' = hooks \ {h} /\ losses' \in 0 .. MaxLosses
      /\ staleInst' = [staleInst EXCEPT ![c] = b] /\ b \in BOOLEAN
      /\ ~b => inst[c] = NoInst \/ (~staleInst[c] /\ h[2] # remote[c])
      /\ UNCHANGED <<row, created, inst, remote, conjob, staleRow, unruly, orphan, leaked,
                     requests, remoteMoves>>
  <2>1. CASE HookLost(h)
    BY <2>1, <1>1, <1>a, <1>b, CountersStay DEF HookLost, history1
  <2>2. CASE ~HookLost(h) /\ HookDropped(h)
    BY <2>2, <1>1, <1>a, <1>b, CountersStay DEF HookDropped, history1, counters
  <2> QED BY <2>1, <2>2
<1>2. /\ JobsOn(c) \subseteq ConnectJobs /\ JobsOn(c)' = JobsOn(c)
      /\ NewIsUnknown(c) /\ TokenIsKept(c) /\ DeletionIsAlone(c) /\ EntryHasCause(c)
      /\ RowHasCause(c)
    BY <1>0, <1>1, HoldsOf DEF JobsOn
<1>3. /\ staleInst' \in [Connections -> BOOLEAN] /\ staleInst'[c] = b
      /\ \A d \in Connections \ {c} : staleInst'[d] = staleInst[d]
    BY <1>0, <1>1, FlagIs
<1>4. ConnectionTypeOK'
    BY <1>0, <1>1, <1>3 DEF ConnectionTypeOK
<1>5. HereIsCreated' /\ DefaultsHaveCause'
    BY <1>0, DefaultsStay DEF Unsettled, Promotes
<1>6. NewIsUnknown(c)'
    BY <1>0, <1>2 DEF NewIsUnknown
<1>7. TokenIsKept(c)'
    BY <1>0, <1>2 DEF TokenIsKept
<1>8. DeletionIsAlone(c)'
    BY <1>0, <1>2 DEF DeletionIsAlone, Promotes
<1>9. EntryHasCause(c)'
    BY <1>0, <1>1, <1>2, <1>3 DEF EntryHasCause
<1>10. RowHasCause(c)'
    BY <1>0, <1>2 DEF RowHasCause
<1>11. Holds(c)'
    BY <1>6, <1>7, <1>8, <1>9, <1>10 DEF Holds
<1>12. \A d \in Connections \ {c}, what \in {"absent", "connecting", "open", "shut", "qr"} :
           <<d, what>> \in hooks' <=> <<d, what>> \in hooks
    BY <1>0, <1>1
<1> QED BY <1>0, <1>1, <1>3, <1>4, <1>5, <1>11, <1>12, NobodyMoves

(* a webhook of another state than open, close and disconnected *)
LEMMA HookIgnoredKeeps ==
    ASSUME ConnectionInv, NEW c \in Connections, HookIgnored(c)
    PROVE  ConnectionInv'
<1>0. /\ hooks' = hooks \ {<<c, "connecting">>}
      /\ UNCHANGED <<row, created, inst, remote, conjob, staleInst, staleRow, unruly, orphan,
                     leaked, requests, remoteMoves, losses>>
    BY DEF HookIgnored, history1, counters
<1>1. /\ ConnectionTypeOK /\ JobsOn(c) \subseteq ConnectJobs /\ JobsOn(c)' = JobsOn(c)
      /\ NewIsUnknown(c) /\ TokenIsKept(c) /\ DeletionIsAlone(c) /\ EntryHasCause(c)
      /\ RowHasCause(c)
    BY <1>0, HoldsOf DEF JobsOn
<1>2. ConnectionTypeOK'
    BY <1>0, <1>1 DEF ConnectionTypeOK
<1>3. HereIsCreated' /\ DefaultsHaveCause'
    BY <1>0, DefaultsStay DEF Unsettled, Promotes
<1>4. NewIsUnknown(c)'
    BY <1>0, <1>1 DEF NewIsUnknown
<1>5. TokenIsKept(c)'
    BY <1>0, <1>1 DEF TokenIsKept
<1>6. DeletionIsAlone(c)'
    BY <1>0, <1>1 DEF DeletionIsAlone, Promotes
<1>7. EntryHasCause(c)'
  <2>1. CASE remote[c] = "connecting"
    BY <2>1, <1>0 DEF EntryHasCause
  <2>2. CASE remote[c] # "connecting"
    BY <2>2, <1>0, <1>1 DEF EntryHasCause
  <2> QED BY <2>1, <2>2
<1>8. RowHasCause(c)'
    BY <1>0, <1>1 DEF RowHasCause
<1>9. Holds(c)'
    BY <1>4, <1>5, <1>6, <1>7, <1>8 DEF Holds
<1>10. \A d \in Connections \ {c}, what \in {"absent", "connecting", "open", "shut", "qr"} :
           <<d, what>> \in hooks' <=> <<d, what>> \in hooks
    BY <1>0
<1> QED BY <1>0, <1>2, <1>3, <1>9, <1>10, NobodyMoves

(* A webhook that is taken leaves those of the others. *)
LEMMA HooksOfOthers ==
    ASSUME NEW c, NEW told, hooks' = hooks \ {<<c, told>>}
    PROVE  /\ \A d \in Connections \ {c}, what \in {"absent", "connecting", "open", "shut", "qr"} :
                 <<d, what>> \in hooks' <=> <<d, what>> \in hooks
           /\ \A d, what : <<d, what>> \in hooks' => <<d, what>> \in hooks
  OBVIOUS

LEMMA HookQrKeeps ==
    ASSUME ConnectionInv, NEW c \in Connections, HookQr(c)
    PROVE  ConnectionInv'
<1>a. PICK s \in BOOLEAN :
         s <=> remote[c] = "open" /\ <<c, remote[c]>> \notin hooks \ {<<c, "qr">>}
    OBVIOUS
<1>b. PICK new : new = [status |-> "PENDING", qr |-> TRUE]
    OBVIOUS
<1>0. /\ inst[c] # NoInst /\ hooks' = hooks \ {<<c, "qr">>}
      /\ inst' = [inst EXCEPT ![c] = new] /\ staleInst' = [staleInst EXCEPT ![c] = s]
      /\ staleRow' = [staleRow EXCEPT ![c] = TRUE]
      /\ UNCHANGED <<row, created, remote, conjob, unruly, orphan, leaked,
                     requests, remoteMoves, losses>>
  <2>1. (FALSE # (remote[c] = "open")) <=> remote[c] = "open"
    OBVIOUS
  <2>2. staleInst' = [staleInst EXCEPT ![c] =
            /\ FALSE # (remote[c] = "open")
            /\ <<c, remote[c]>> \notin hooks \ {<<c, "qr">>}]
    BY DEF HookQr, Store
  <2>3. s = (/\ FALSE # (remote[c] = "open")
             /\ <<c, remote[c]>> \notin hooks \ {<<c, "qr">>})
    BY <2>1, <1>a
  <2>4. staleInst' = [staleInst EXCEPT ![c] = s]
    BY <2>2, <2>3
  <2> QED BY <2>4, <1>b DEF HookQr, Store, history1, counters
<1>1. /\ ConnectionTypeOK /\ JobsOn(c) \subseteq ConnectJobs /\ JobsOn(c)' = JobsOn(c)
      /\ NewIsUnknown(c) /\ TokenIsKept(c) /\ DeletionIsAlone(c) /\ EntryHasCause(c)
      /\ RowHasCause(c) /\ remote[c] \in {"absent", "connecting", "open", "shut"}
      /\ staleRow \in [Connections -> BOOLEAN]
    BY <1>0, HoldsOf, ConnectionTypes DEF JobsOn
<1>2. new \in InstEntry /\ new.status = "PENDING"
    BY <1>b DEF InstEntry, Status
<1>3. /\ inst' \in [Connections -> InstEntry] /\ staleInst' \in [Connections -> BOOLEAN]
      /\ inst'[c] = new /\ staleInst'[c] = s
      /\ \A d \in Connections \ {c} : inst'[d] = inst[d] /\ staleInst'[d] = staleInst[d]
    BY <1>0, <1>1, <1>2, EntryIs
<1>4. /\ staleRow' \in [Connections -> BOOLEAN] /\ staleRow'[c]
      /\ \A d \in Connections \ {c} : staleRow'[d] = staleRow[d]
    BY <1>0, <1>1, FlagIs
<1>5. ConnectionTypeOK'
    BY <1>0, <1>1, <1>3, <1>4 DEF ConnectionTypeOK, InstEntry
<1>6. HereIsCreated' /\ DefaultsHaveCause'
    BY <1>0, DefaultsStay DEF Unsettled, Promotes
<1>7. NewIsUnknown(c)'
    BY <1>0, <1>1 DEF NewIsUnknown
<1>8. TokenIsKept(c)'
    BY <1>0, <1>1, <1>2, <1>3 DEF TokenIsKept
<1>9. DeletionIsAlone(c)'
    BY <1>0, <1>1 DEF DeletionIsAlone, Promotes
<1>10. EntryHasCause(c)'
    BY <1>0, <1>1, <1>2, <1>3, <1>a DEF EntryHasCause
<1>11. RowHasCause(c)'
    BY <1>4 DEF RowHasCause
<1>12. Holds(c)'
    BY <1>7, <1>8, <1>9, <1>10, <1>11 DEF Holds
<1>13. \A d \in Connections \ {c}, what \in {"absent", "connecting", "open", "shut", "qr"} :
           <<d, what>> \in hooks' <=> <<d, what>> \in hooks
    BY <1>0, HooksOfOthers
<1> QED BY <1>0, <1>3, <1>4, <1>5, <1>6, <1>12, <1>13, NobodyMoves

LEMMA HookStateKeeps ==
    ASSUME ConnectionInv, NEW j \in ConnectJobs, NEW c \in Connections,
           NEW told \in {"open", "shut"}, HookState(j, c, told)
    PROVE  ConnectionInv'
<1>a. PICK s \in BOOLEAN :
         s <=> /\ (told = "open") # (remote[c] = "open")
               /\ <<c, remote[c]>> \notin hooks \ {<<c, told>>}
    OBVIOUS
<1>b. PICK status : status = IF told = "open" THEN "CONNECTED" ELSE "DISCONNECTED"
    OBVIOUS
<1>c. PICK new : new = [status |-> status, qr |-> FALSE]
    OBVIOUS
<1>d. PICK job : job = [IdleJob EXCEPT !.step = IF told = "open" THEN "openRow" ELSE "closeRow",
                                       !.conn = c]
    OBVIOUS
<1>0. /\ inst[c] # NoInst /\ hooks' = hooks \ {<<c, told>>} /\ conjob[j].step = "idle"
      /\ inst' = [inst EXCEPT ![c] = new] /\ staleInst' = [staleInst EXCEPT ![c] = s]
      /\ conjob' = [conjob EXCEPT ![j] = job]
      /\ UNCHANGED <<row, created, remote, staleRow, unruly, orphan, leaked,
                     requests, remoteMoves, losses>>
  <2>1. staleInst' = [staleInst EXCEPT ![c] =
            /\ (told = "open") # (remote[c] = "open")
            /\ <<c, remote[c]>> \notin hooks \ {<<c, told>>}]
    BY DEF HookState, Store
  <2>2. staleInst' = [staleInst EXCEPT ![c] = s]
    BY <2>1, <1>a
  <2>3. inst' = [inst EXCEPT ![c] = new]
    BY <1>b, <1>c DEF HookState, Store, StoredStatus
  <2>4. conjob' = [conjob EXCEPT ![j] = job]
    BY <1>d DEF HookState
  <2> QED BY <2>2, <2>3, <2>4 DEF HookState, history1, counters
<1>1. /\ ConnectionTypeOK /\ JobsOn(c) \subseteq ConnectJobs
      /\ NewIsUnknown(c) /\ TokenIsKept(c) /\ DeletionIsAlone(c) /\ EntryHasCause(c)
      /\ RowHasCause(c) /\ remote[c] \in {"absent", "connecting", "open", "shut"}
    BY HoldsOf
<1>2. /\ status \in Status /\ new \in InstEntry /\ new.status = status
      /\ (status = "CONNECTED" <=> told = "open")
    BY <1>b, <1>c DEF InstEntry, Status
<1>3. /\ inst' \in [Connections -> InstEntry] /\ staleInst' \in [Connections -> BOOLEAN]
      /\ inst'[c] = new /\ staleInst'[c] = s
      /\ \A d \in Connections \ {c} : inst'[d] = inst[d] /\ staleInst'[d] = staleInst[d]
    BY <1>0, <1>1, <1>2, EntryIs
<1>4. /\ job \in ConnectJob /\ job.step = (IF told = "open" THEN "openRow" ELSE "closeRow")
      /\ job.conn = c /\ ~job.deletes /\ ~job.again
    BY <1>d, IdleConnectJob DEF ConnectJob, ConnectSteps
<1>5. /\ conjob' \in [ConnectJobs -> ConnectJob] /\ conjob'[j] = job
      /\ \A k \in ConnectJobs \ {j} : conjob'[k] = conjob[k]
    BY <1>0, <1>1, <1>4, ConnectJobMoves
<1>6. JobsOn(c)' = JobsOn(c) \union {j} /\ j \notin JobsOn(c)
  <2>1. j \notin JobsOn(c)
    BY <1>0 DEF JobsOn
  <2> QED BY <2>1, <1>0, <1>4, <1>5, OthersOn
<1>7. ConnectionTypeOK'
    BY <1>0, <1>1, <1>3, <1>5 DEF ConnectionTypeOK, InstEntry, ConnectJob
<1>8. HereIsCreated' /\ DefaultsHaveCause'
    BY <1>0, <1>5, DefaultsStay DEF Unsettled, Promotes
<1>9. NewIsUnknown(c)'
    BY <1>0, <1>1, <1>4, <1>5, <1>6 DEF NewIsUnknown
<1>10. TokenIsKept(c)'
    BY <1>0, <1>1, <1>2, <1>3, <1>4, <1>5, <1>6 DEF TokenIsKept, Status
<1>11. DeletionIsAlone(c)'
    BY <1>0, <1>1, <1>4, <1>5, <1>6 DEF DeletionIsAlone, Promotes
<1>12. EntryHasCause(c)'
    BY <1>0, <1>1, <1>2, <1>3, <1>a DEF EntryHasCause
<1>13. RowHasCause(c)'
    BY <1>0, <1>2, <1>3, <1>4, <1>5, <1>6 DEF RowHasCause
<1>14. Deletes(conjob[j])' /\ Holds(c)'
    BY <1>4, <1>5, <1>9, <1>10, <1>11, <1>12, <1>13 DEF Deletes, Promotes, Holds
<1>15. \A d \in Connections \ {c}, what \in {"absent", "connecting", "open", "shut", "qr"} :
           <<d, what>> \in hooks' <=> <<d, what>> \in hooks
    BY <1>0, HooksOfOthers
<1> QED BY <1>0, <1>3, <1>4, <1>5, <1>7, <1>8, <1>14, <1>15, OneMoves

LEMMA HookRowKeeps ==
    ASSUME ConnectionInv, NEW j \in ConnectJobs, HookRow(j)
    PROVE  ConnectionInv'
<1>a. PICK c : c = conjob[j].conn
    OBVIOUS
<1>b. PICK status : status = IF conjob[j].step = "openRow" THEN "CONNECTED" ELSE "DISCONNECTED"
    OBVIOUS
<1>c. PICK b \in BOOLEAN : b <=> inst[c].status # status
    OBVIOUS
<1>d. PICK new : new = [row[c] EXCEPT !.status = status]
    OBVIOUS
<1>0. /\ conjob[j].step \in {"openRow", "closeRow"} /\ Finish(j) /\ Update(c, new)
      /\ staleRow' = [staleRow EXCEPT ![c] = b]
      /\ UNCHANGED <<created, inst, remote, hooks, staleInst, unruly, orphan, leaked,
                     requests, remoteMoves, losses>>
  <2>1. staleRow' = [staleRow EXCEPT ![c] = inst[c].status # status]
    BY <1>a, <1>b DEF HookRow
  <2>2. b = (inst[c].status # status)
    BY <1>c
  <2>3. staleRow' = [staleRow EXCEPT ![c] = b]
    BY <2>1, <2>2
  <2> QED BY <2>3, <1>a, <1>b, <1>d DEF HookRow, history1, counters
<1>1. /\ ConnectionTypeOK /\ c \in Connections /\ j \in JobsOn(c) /\ conjob[j] \in ConnectJob
      /\ JobsOn(c) \subseteq ConnectJobs
      /\ NewIsUnknown(c) /\ TokenIsKept(c) /\ DeletionIsAlone(c) /\ EntryHasCause(c)
      /\ RowHasCause(c) /\ Deletes(conjob[j]) /\ row[c].state # "new" /\ row[c] \in ConnectionRow
      /\ staleRow \in [Connections -> BOOLEAN]
    BY <1>a, <1>0, AtWork, ConnectionTypes
<1>2. /\ status \in Status /\ new \in ConnectionRow /\ new.state = row[c].state
      /\ new.token = row[c].token /\ new.isDefault = row[c].isDefault /\ new.status = status
  <2>1. status \in Status
    BY <1>b DEF Status
  <2> QED BY <2>1, <1>1, <1>d, RowIs
<1>3. /\ row' \in [Connections -> ConnectionRow]
      /\ row[c].state = "here" => row'[c] = new
      /\ row[c].state # "here" => row' = row
      /\ \A d \in Connections \ {c} : row'[d] = row[d]
    BY <1>0, <1>1, <1>2, UpdateIs
<1>4. /\ conjob' \in [ConnectJobs -> ConnectJob] /\ conjob'[j] = IdleJob
      /\ \A k \in ConnectJobs \ {j} : conjob'[k] = conjob[k]
    BY <1>0, <1>1, FinishIs
<1>5. JobsOn(c)' = JobsOn(c) \ {j}
    BY <1>a, <1>0, <1>1, <1>4, IdleConnectJob, OthersOn
<1>6. /\ staleRow' \in [Connections -> BOOLEAN] /\ staleRow'[c] = b
      /\ \A d \in Connections \ {c} : staleRow'[d] = staleRow[d]
    BY <1>0, <1>1, FlagIs
<1>7. ConnectionTypeOK'
    BY <1>0, <1>1, <1>3, <1>4, <1>6 DEF ConnectionTypeOK, ConnectJob
<1>8. HereIsCreated' /\ DefaultsHaveCause'
    BY <1>0, <1>2, <1>3, <1>4, DefaultsStay DEF Unsettled, Promotes
<1>9. NewIsUnknown(c)'
    BY <1>0, <1>1, <1>2, <1>3, <1>4, <1>5 DEF NewIsUnknown
<1>10. TokenIsKept(c)'
    BY <1>0, <1>1, <1>2, <1>3, <1>4, <1>5 DEF TokenIsKept
<1>11. DeletionIsAlone(c)'
    BY <1>0, <1>1, <1>2, <1>3, <1>4, <1>5 DEF DeletionIsAlone, Promotes
<1>12. EntryHasCause(c)'
    BY <1>0, <1>1, <1>4, <1>5 DEF EntryHasCause
<1>13. RowHasCause(c)'
    BY <1>0, <1>1, <1>2, <1>3, <1>6, <1>c DEF RowHasCause
<1>14. Deletes(conjob[j])' /\ Holds(c)'
    BY <1>4, <1>9, <1>10, <1>11, <1>12, <1>13, IdleConnectJob DEF Deletes, Promotes, Holds
<1> QED BY <1>a, <1>0, <1>1, <1>3, <1>4, <1>6, <1>7, <1>8, <1>14, IdleConnectJob, OneMoves

-----------------------------------------------------------------------------
(* Starting, disconnecting and deleting a connection *)

(* A request begins. *)
LEMMA Begun ==
    ASSUME ConnectionInv, NEW j \in ConnectJobs, NEW c \in Connections,
           NEW step \in ConnectSteps \ {"idle"}, NEW flag \in BOOLEAN, NEW deletes \in BOOLEAN,
           Begins(j, c, step, flag, deletes)
    PROVE  /\ conjob' \in [ConnectJobs -> ConnectJob]
           /\ conjob[j].step = "idle" /\ conjob'[j].step = step /\ conjob'[j].conn = c
           /\ conjob'[j].flag = flag /\ conjob'[j].deletes = deletes
           /\ \A k \in ConnectJobs \ {j} : conjob'[k] = conjob[k]
           /\ j \notin JobsOn(c) /\ \A d : d = c => JobsOn(d)' = JobsOn(d) \union {j}
           /\ requests' \in 0 .. MaxRequests
<1>a. PICK job : job = [IdleJob EXCEPT !.step = step, !.conn = c, !.flag = flag,
                                       !.deletes = deletes]
    OBVIOUS
<1>1. job \in ConnectJob /\ job.step = step /\ job.conn = c /\ job.flag = flag
      /\ job.deletes = deletes
    BY <1>a, IdleConnectJob DEF ConnectJob
<1>2. /\ conjob' \in [ConnectJobs -> ConnectJob] /\ conjob'[j] = job
      /\ \A k \in ConnectJobs \ {j} : conjob'[k] = conjob[k]
      /\ conjob[j].step = "idle" /\ requests' \in 0 .. MaxRequests
    BY <1>a, <1>1, ConnectJobMoves, CountersStay DEF Begins, ConnectionInv
<1>3. j \notin JobsOn(c)
    BY <1>2 DEF JobsOn
<1>4. \A d : d = c => JobsOn(d)' = JobsOn(d) \union {j}
    BY <1>1, <1>2, OthersOn
<1> QED BY <1>1, <1>2, <1>3, <1>4

LEMMA StartKeeps ==
    ASSUME ConnectionInv, NEW j \in ConnectJobs, NEW c \in Connections, Start(j, c)
    PROVE  ConnectionInv'
<1>a. PICK no \in BOOLEAN : no = FALSE
    OBVIOUS
<1>b. PICK new : new = [row[c] EXCEPT !.status = "PENDING"]
    OBVIOUS
<1>0. /\ row[c].state = "here" /\ Begins(j, c, "connect", no, no)
      /\ row' = [row EXCEPT ![c].status = "PENDING"] /\ staleRow' = [staleRow EXCEPT ![c] = FALSE]
      /\ leaked' = leaked \union Crossed(c, no)
      /\ UNCHANGED <<created, inst, remote, hooks, staleInst, unruly, orphan, remoteMoves,
                     losses>>
    BY <1>a DEF Start
<1>1. /\ ConnectionTypeOK /\ JobsOn(c) \subseteq ConnectJobs
      /\ NewIsUnknown(c) /\ TokenIsKept(c) /\ DeletionIsAlone(c) /\ EntryHasCause(c)
      /\ RowHasCause(c) /\ row[c] \in ConnectionRow /\ row \in [Connections -> ConnectionRow]
      /\ staleRow \in [Connections -> BOOLEAN] /\ leaked \subseteq Connections
    BY HoldsOf, ConnectionTypes
<1>2. /\ new \in ConnectionRow /\ new.state = row[c].state /\ new.token = row[c].token
      /\ new.isDefault = row[c].isDefault /\ new.status = "PENDING"
  <2>1. "PENDING" \in Status
    BY DEF Status
  <2> QED BY <2>1, <1>1, <1>b, RowIs
<1>3. /\ row' \in [Connections -> ConnectionRow] /\ row'[c] = new
      /\ \A d \in Connections \ {c} : row'[d] = row[d]
    BY <1>0, <1>1, <1>2, <1>b
<1>4. /\ conjob' \in [ConnectJobs -> ConnectJob]
      /\ conjob[j].step = "idle" /\ conjob'[j].step = "connect" /\ conjob'[j].conn = c
      /\ ~conjob'[j].deletes
      /\ \A k \in ConnectJobs \ {j} : conjob'[k] = conjob[k]
      /\ j \notin JobsOn(c) /\ JobsOn(c)' = JobsOn(c) \union {j} /\ requests' \in 0 .. MaxRequests
  <2>1. "connect" \in ConnectSteps \ {"idle"}
    BY DEF ConnectSteps
  <2> QED BY <2>1, <1>a, <1>0, Begun
<1>5. /\ leaked \subseteq leaked' /\ leaked' \subseteq Connections
      /\ c \notin leaked' => \A k \in JobsOn(c) : ~conjob[k].deletes
    BY <1>0, <1>1 DEF Crossed, JobsOn
<1>6. /\ staleRow' \in [Connections -> BOOLEAN]
      /\ \A d \in Connections \ {c} : staleRow'[d] = staleRow[d]
    BY <1>0, <1>1, FlagIs
<1>7. ConnectionTypeOK'
    BY <1>0, <1>1, <1>3, <1>4, <1>5, <1>6 DEF ConnectionTypeOK, ConnectJob
<1>8. HereIsCreated' /\ DefaultsHaveCause'
    BY <1>0, <1>2, <1>3, <1>4, DefaultsStay DEF Unsettled, Promotes
<1>9. NewIsUnknown(c)'
    BY <1>0, <1>1, <1>2, <1>3, <1>4 DEF NewIsUnknown
<1>10. TokenIsKept(c)'
    BY <1>0, <1>1, <1>2, <1>3, <1>4, <1>5 DEF TokenIsKept
<1>11. DeletionIsAlone(c)'
    BY <1>0, <1>1, <1>2, <1>3, <1>4, <1>5 DEF DeletionIsAlone, Promotes
<1>12. EntryHasCause(c)'
    BY <1>0, <1>1, <1>4 DEF EntryHasCause
<1>13. RowHasCause(c)'
    BY <1>2, <1>3 DEF RowHasCause
<1>14. Deletes(conjob[j])' /\ Holds(c)'
    BY <1>4, <1>9, <1>10, <1>11, <1>12, <1>13 DEF Deletes, Promotes, Holds
<1> QED BY <1>0, <1>3, <1>4, <1>5, <1>6, <1>7, <1>8, <1>14, OneMoves

LEMMA DisconnectKeeps ==
    ASSUME ConnectionInv, NEW j \in ConnectJobs, NEW c \in Connections,
           NEW deletes \in BOOLEAN, Disconnect(j, c, deletes)
    PROVE  ConnectionInv'
<1>a. PICK step : step = IF LogsOut(c) THEN "logout" ELSE "drop"
    OBVIOUS
<1>0. /\ row[c].state = "here" /\ Begins(j, c, step, row[c].isDefault, deletes)
      /\ leaked' = leaked \union Crossed(c, deletes)
      /\ UNCHANGED <<row, created, inst, remote, hooks, staleInst, staleRow, unruly, orphan,
                     remoteMoves, losses>>
    BY <1>a DEF Disconnect
<1>1. /\ ConnectionTypeOK /\ JobsOn(c) \subseteq ConnectJobs
      /\ NewIsUnknown(c) /\ TokenIsKept(c) /\ DeletionIsAlone(c) /\ EntryHasCause(c)
      /\ RowHasCause(c) /\ row[c].isDefault \in BOOLEAN /\ leaked \subseteq Connections
    BY HoldsOf, ConnectionTypes, RowIs
<1>2. /\ step \in ConnectSteps \ {"idle"} /\ step \in {"logout", "drop"}
      /\ step = "drop" => inst[c] = NoInst /\ ~row[c].token
    BY <1>a DEF ConnectSteps, LogsOut
<1>3. /\ conjob' \in [ConnectJobs -> ConnectJob]
      /\ conjob[j].step = "idle" /\ conjob'[j].step = step /\ conjob'[j].conn = c
      /\ conjob'[j].deletes = deletes
      /\ \A k \in ConnectJobs \ {j} : conjob'[k] = conjob[k]
      /\ j \notin JobsOn(c) /\ JobsOn(c)' = JobsOn(c) \union {j} /\ requests' \in 0 .. MaxRequests
    BY <1>0, <1>1, <1>2, Begun
<1>4. /\ leaked \subseteq leaked' /\ leaked' \subseteq Connections
      /\ c \notin leaked' => /\ deletes => JobsOn(c) = {}
                             /\ \A k \in JobsOn(c) : ~conjob[k].deletes
    BY <1>0, <1>1 DEF Crossed, JobsOn, Quiet
<1>5. ConnectionTypeOK'
    BY <1>0, <1>1, <1>3, <1>4 DEF ConnectionTypeOK, ConnectJob
<1>6. HereIsCreated' /\ DefaultsHaveCause'
    BY <1>0, <1>3, DefaultsStay DEF Unsettled, Promotes
<1>7. NewIsUnknown(c)'
    BY <1>0, <1>1, <1>2, <1>3 DEF NewIsUnknown
<1>8. TokenIsKept(c)'
    BY <1>0, <1>1, <1>2, <1>3, <1>4 DEF TokenIsKept
<1>9. DeletionIsAlone(c)'
  <2>1. c \notin leaked' /\ deletes /\ step = "drop" =>
           remote[c] = "absent" \/ (c \in orphan /\ ~row[c].token)
    BY <1>1, <1>2, <1>4 DEF TokenIsKept
  <2> QED BY <2>1, <1>0, <1>1, <1>2, <1>3, <1>4 DEF DeletionIsAlone, Promotes
<1>10. EntryHasCause(c)'
    BY <1>0, <1>1, <1>3 DEF EntryHasCause
<1>11. RowHasCause(c)'
    BY <1>0, <1>1, <1>3 DEF RowHasCause
<1>12. Deletes(conjob[j])' /\ Holds(c)'
    BY <1>2, <1>3, <1>7, <1>8, <1>9, <1>10, <1>11 DEF Deletes, Promotes, Holds
<1> QED BY <1>0, <1>3, <1>4, <1>5, <1>6, <1>12, OneMoves

LEMMA LogoutKeeps ==
    ASSUME ConnectionInv, NEW j \in ConnectJobs, Logout(j)
    PROVE  ConnectionInv'
<1>a. PICK c : c = conjob[j].conn
    OBVIOUS
<1>0. /\ conjob[j].step = "logout" /\ To(j, "drop")
      /\ \/ /\ remote' = [remote EXCEPT ![c] = "absent"]
            /\ orphan' = orphan \ {c} /\ UNCHANGED <<leaked, losses>>
         \/ /\ Loses /\ losses' = losses + 1
            /\ leaked' = IF conjob[j].deletes THEN leaked \union {c} ELSE leaked
            /\ UNCHANGED <<remote, orphan>>
      /\ UNCHANGED <<row, created, inst, hooks, staleInst, staleRow, unruly,
                     requests, remoteMoves>>
    BY <1>a DEF Logout
<1>1. /\ ConnectionTypeOK /\ c \in Connections /\ j \in JobsOn(c) /\ conjob[j] \in ConnectJob
      /\ JobsOn(c) \subseteq ConnectJobs
      /\ NewIsUnknown(c) /\ TokenIsKept(c) /\ DeletionIsAlone(c) /\ EntryHasCause(c)
      /\ RowHasCause(c) /\ Deletes(conjob[j]) /\ row[c].state # "new"
      /\ remote \in [Connections -> {"absent", "connecting", "open", "shut"}]
      /\ leaked \subseteq Connections /\ orphan \subseteq Connections
    BY <1>a, <1>0, AtWork, ConnectionTypes
<1>2. /\ conjob' \in [ConnectJobs -> ConnectJob] /\ conjob'[j].step = "drop"
      /\ conjob'[j].conn = c /\ conjob'[j].deletes = conjob[j].deletes
      /\ \A k \in ConnectJobs \ {j} : conjob'[k] = conjob[k]
    BY <1>a, <1>0, <1>1, ToIs DEF ConnectSteps
<1>3. JobsOn(c)' = JobsOn(c)
    BY <1>a, <1>0, <1>1, <1>2, OthersOn
<1>4. /\ remote' \in [Connections -> {"absent", "connecting", "open", "shut"}]
      /\ \/ remote'[c] = "absent"
         \/ /\ remote'[c] = remote[c] /\ orphan' = orphan
            /\ conjob[j].deletes => c \in leaked'
      /\ orphan \ {c} \subseteq orphan' /\ orphan' \subseteq Connections
      /\ \A d \in Connections \ {c} : remote'[d] = remote[d]
      /\ leaked \subseteq leaked' /\ leaked' \subseteq Connections
      /\ losses' \in 0 .. MaxLosses
    BY <1>0, <1>1, CountersStay
<1>5. ConnectionTypeOK'
    BY <1>0, <1>1, <1>2, <1>4 DEF ConnectionTypeOK, ConnectJob
<1>6. HereIsCreated' /\ DefaultsHaveCause'
    BY <1>0, <1>2, DefaultsStay DEF Unsettled, Promotes
<1>7. NewIsUnknown(c)'
    BY <1>0, <1>1, <1>2, <1>3 DEF NewIsUnknown
<1>8. TokenIsKept(c)'
    BY <1>0, <1>1, <1>2, <1>3, <1>4 DEF TokenIsKept
<1>9. DeletionIsAlone(c)'
    BY <1>0, <1>1, <1>2, <1>3, <1>4 DEF DeletionIsAlone, Promotes
<1>10. EntryHasCause(c)'
    BY <1>1, <1>2, <1>3 DEF EntryHasCause
<1>11. RowHasCause(c)'
    BY <1>0, <1>1, <1>2, <1>3 DEF RowHasCause
<1>12. Deletes(conjob[j])' /\ Holds(c)'
    BY <1>2, <1>7, <1>8, <1>9, <1>10, <1>11 DEF Deletes, Promotes, Holds
<1> QED BY <1>a, <1>0, <1>1, <1>2, <1>4, <1>5, <1>6, <1>12, OneMoves

LEMMA DropInstanceKeeps ==
    ASSUME ConnectionInv, NEW j \in ConnectJobs, DropInstance(j)
    PROVE  ConnectionInv'
<1>a. PICK c : c = conjob[j].conn
    OBVIOUS
<1>0. /\ conjob[j].step = "drop" /\ To(j, "discRow")
      /\ inst' = [inst EXCEPT ![c] = NoInst] /\ staleInst' = [staleInst EXCEPT ![c] = FALSE]
      /\ UNCHANGED <<row, created, remote, hooks, staleRow, unruly, orphan, leaked,
                     requests, remoteMoves, losses>>
    BY <1>a DEF DropInstance, history1, counters
<1>1. /\ ConnectionTypeOK /\ c \in Connections /\ j \in JobsOn(c) /\ conjob[j] \in ConnectJob
      /\ JobsOn(c) \subseteq ConnectJobs /\ NoInst \in InstEntry
      /\ NewIsUnknown(c) /\ TokenIsKept(c) /\ DeletionIsAlone(c) /\ EntryHasCause(c)
      /\ RowHasCause(c) /\ Deletes(conjob[j]) /\ row[c].state # "new"
    BY <1>a, <1>0, AtWork, ConnectionTypes
<1>2. /\ conjob' \in [ConnectJobs -> ConnectJob] /\ conjob'[j].step = "discRow"
      /\ conjob'[j].conn = c /\ conjob'[j].deletes = conjob[j].deletes
      /\ \A k \in ConnectJobs \ {j} : conjob'[k] = conjob[k]
    BY <1>a, <1>0, <1>1, ToIs DEF ConnectSteps
<1>3. JobsOn(c)' = JobsOn(c)
    BY <1>a, <1>0, <1>1, <1>2, OthersOn
<1>4. /\ inst' \in [Connections -> InstEntry] /\ staleInst' \in [Connections -> BOOLEAN]
      /\ inst'[c] = NoInst
      /\ \A d \in Connections \ {c} : inst'[d] = inst[d] /\ staleInst'[d] = staleInst[d]
    BY <1>0, <1>1, EntryIs
<1>5. ConnectionTypeOK'
    BY <1>0, <1>1, <1>2, <1>4 DEF ConnectionTypeOK, ConnectJob,
                                                       InstEntry
<1>6. HereIsCreated' /\ DefaultsHaveCause'
    BY <1>0, <1>2, DefaultsStay DEF Unsettled, Promotes
<1>7. NewIsUnknown(c)'
    BY <1>0, <1>1, <1>2, <1>3 DEF NewIsUnknown
<1>8. TokenIsKept(c)'
    BY <1>0, <1>1, <1>2, <1>3, <1>4 DEF TokenIsKept, NoInst
<1>9. DeletionIsAlone(c)'
    BY <1>0, <1>1, <1>2, <1>3, <1>4 DEF DeletionIsAlone, Promotes, NoInst
<1>10. EntryHasCause(c)' /\ RowHasCause(c)'
    BY <1>4 DEF EntryHasCause, RowHasCause, NoInst
<1>11. Deletes(conjob[j])' /\ Holds(c)'
    BY <1>1, <1>2, <1>7, <1>8, <1>9, <1>10 DEF Deletes, Promotes, Holds
<1> QED BY <1>a, <1>0, <1>1, <1>2, <1>4, <1>5, <1>6, <1>11, OneMoves

LEMMA DisconnectRowKeeps ==
    ASSUME ConnectionInv, NEW j \in ConnectJobs, DisconnectRow(j)
    PROVE  ConnectionInv'
<1>a. PICK c : c = conjob[j].conn
    OBVIOUS
<1>b. PICK new : new = [row[c] EXCEPT !.status = "DISCONNECTED"]
    OBVIOUS
<1>0. /\ conjob[j].step = "discRow" /\ Update(c, new)
      /\ IF conjob[j].deletes THEN To(j, "delete") ELSE Finish(j)
      /\ staleRow' = [staleRow EXCEPT ![c] = FALSE]
      /\ UNCHANGED <<created, inst, remote, hooks, staleInst, unruly, orphan, leaked,
                     requests, remoteMoves, losses>>
    BY <1>a, <1>b DEF DisconnectRow, history1, counters
<1>1. /\ ConnectionTypeOK /\ c \in Connections /\ j \in JobsOn(c) /\ conjob[j] \in ConnectJob
      /\ JobsOn(c) \subseteq ConnectJobs
      /\ NewIsUnknown(c) /\ TokenIsKept(c) /\ DeletionIsAlone(c) /\ EntryHasCause(c)
      /\ RowHasCause(c) /\ Deletes(conjob[j]) /\ row[c].state # "new" /\ row[c] \in ConnectionRow
      /\ staleRow \in [Connections -> BOOLEAN]
    BY <1>a, <1>0, AtWork, ConnectionTypes
<1>2. /\ new \in ConnectionRow /\ new.state = row[c].state /\ new.token = row[c].token
      /\ new.isDefault = row[c].isDefault /\ new.status = "DISCONNECTED"
  <2>1. "DISCONNECTED" \in Status
    BY DEF Status
  <2> QED BY <2>1, <1>1, <1>b, RowIs
<1>3. /\ row' \in [Connections -> ConnectionRow]
      /\ row[c].state = "here" => row'[c] = new
      /\ row[c].state # "here" => row' = row
      /\ \A d \in Connections \ {c} : row'[d] = row[d]
    BY <1>0, <1>1, <1>2, UpdateIs
<1>4. /\ conjob' \in [ConnectJobs -> ConnectJob] /\ conjob'[j].step \in {"idle", "delete"}
      /\ conjob'[j].step # "idle" => conjob'[j].conn = c /\ conjob'[j].deletes /\ conjob[j].deletes
      /\ conjob'[j].deletes => conjob'[j].step = "delete"
      /\ \A k \in ConnectJobs \ {j} : conjob'[k] = conjob[k]
    BY <1>a, <1>0, <1>1, ToIs, FinishIs, IdleConnectJob DEF ConnectSteps
<1>5. /\ conjob'[j].step = "idle" => JobsOn(c)' = JobsOn(c) \ {j}
      /\ conjob'[j].step # "idle" => JobsOn(c)' = JobsOn(c)
    BY <1>a, <1>0, <1>1, <1>4, OthersOn
<1>6. /\ staleRow' \in [Connections -> BOOLEAN]
      /\ \A d \in Connections \ {c} : staleRow'[d] = staleRow[d]
    BY <1>0, <1>1, FlagIs
<1>7. ConnectionTypeOK'
    BY <1>0, <1>1, <1>3, <1>4, <1>6 DEF ConnectionTypeOK, ConnectJob
<1>8. HereIsCreated' /\ DefaultsHaveCause'
    BY <1>0, <1>2, <1>3, <1>4, DefaultsStay DEF Unsettled, Promotes
<1>9. NewIsUnknown(c)'
    BY <1>0, <1>1, <1>2, <1>3, <1>4, <1>5 DEF NewIsUnknown
<1>10. TokenIsKept(c)'
    BY <1>0, <1>1, <1>2, <1>3, <1>4, <1>5 DEF TokenIsKept
<1>11. DeletionIsAlone(c)'
    BY <1>0, <1>1, <1>2, <1>3, <1>4, <1>5 DEF DeletionIsAlone, Promotes
<1>12. EntryHasCause(c)'
    BY <1>0, <1>1, <1>4, <1>5 DEF EntryHasCause
<1>13. RowHasCause(c)'
    BY <1>2, <1>3 DEF RowHasCause
<1>14. Deletes(conjob[j])' /\ Holds(c)'
    BY <1>4, <1>9, <1>10, <1>11, <1>12, <1>13 DEF Deletes, Promotes, Holds
<1> QED BY <1>a, <1>0, <1>1, <1>3, <1>4, <1>6, <1>7, <1>8, <1>14, OneMoves, ZenonT(40)

LEMMA DeleteRowKeeps ==
    ASSUME ConnectionInv, NEW j \in ConnectJobs, DeleteRow(j)
    PROVE  ConnectionInv'
<1>a. PICK c : c = conjob[j].conn
    OBVIOUS
<1>b. PICK new : new = [row[c] EXCEPT !.state = "gone"]
    OBVIOUS
<1>0. /\ conjob[j].step = "delete" /\ row' = [row EXCEPT ![c].state = "gone"]
      /\ leaked' = leaked \union
           (IF \E i \in ConnectJobs \ {j} : conjob[i].conn = c /\ conjob[i].step # "idle"
            THEN {c} ELSE {})
      /\ unruly' = unruly \union
           (IF \/ ~conjob[j].flag /\ row[c].isDefault
               \/ \E i \in ConnectJobs : conjob[i].step = "promoteRow" /\ conjob[i].next = c
            THEN {"none"} ELSE {})
      /\ IF conjob[j].flag THEN To(j, "promote") ELSE Finish(j)
      /\ UNCHANGED <<created, inst, remote, hooks, staleInst, staleRow, orphan,
                     requests, remoteMoves, losses>>
    BY <1>a DEF DeleteRow, counters
<1>1. /\ ConnectionTypeOK /\ c \in Connections /\ j \in JobsOn(c) /\ conjob[j] \in ConnectJob
      /\ JobsOn(c) \subseteq ConnectJobs
      /\ NewIsUnknown(c) /\ TokenIsKept(c) /\ DeletionIsAlone(c) /\ EntryHasCause(c)
      /\ RowHasCause(c) /\ Deletes(conjob[j]) /\ row[c].state # "new" /\ row[c] \in ConnectionRow
      /\ row \in [Connections -> ConnectionRow] /\ leaked \subseteq Connections
      /\ unruly \subseteq {"two", "none"}
    BY <1>a, <1>0, AtWork, ConnectionTypes
<1>2. /\ new \in ConnectionRow /\ new.state = "gone" /\ new.token = row[c].token
      /\ new.isDefault = row[c].isDefault
    BY <1>1, <1>b DEF ConnectionRow
<1>3. /\ row' \in [Connections -> ConnectionRow] /\ row'[c] = new
      /\ \A d \in Connections \ {c} : row'[d] = row[d]
    BY <1>0, <1>1, <1>2, <1>b
<1>4. /\ conjob' \in [ConnectJobs -> ConnectJob] /\ conjob'[j].step \in {"idle", "promote"}
      /\ conjob'[j].step = "promote" => conjob'[j].conn = c
      /\ conjob'[j].step = "promote" <=> conjob[j].flag
      /\ conjob'[j].step = "promote" <=> conjob'[j].deletes
      /\ \A k \in ConnectJobs \ {j} : conjob'[k] = conjob[k]
  <2>1. CASE conjob[j].flag
    BY <2>1, <1>a, <1>0, <1>1, ToIs DEF ConnectSteps, Deletes, Promotes
  <2>2. CASE ~conjob[j].flag
    BY <2>2, <1>a, <1>0, <1>1, FinishIs, IdleConnectJob
  <2> QED BY <2>1, <2>2
<1>5. /\ conjob'[j].step = "idle" => JobsOn(c)' = JobsOn(c) \ {j}
      /\ conjob'[j].step # "idle" => JobsOn(c)' = JobsOn(c)
    BY <1>a, <1>0, <1>1, <1>4, OthersOn
<1>6. /\ leaked \subseteq leaked' /\ leaked' \subseteq Connections
      /\ c \notin leaked' => JobsOn(c) = {j}
    BY <1>0, <1>1 DEF JobsOn
<1>7. ConnectionTypeOK'
  <2>1. unruly' \subseteq {"two", "none"}
    BY <1>0, <1>1
  <2> QED BY <2>1, <1>0, <1>1, <1>3, <1>4, <1>6 DEF ConnectionTypeOK, ConnectJob
<1>8. HereIsCreated' /\ DefaultsHaveCause'
  <2>1. Here' \subseteq Here \ {c} /\ Here \ {c} \subseteq Here'
    BY <1>2, <1>3 DEF Here
  <2>2. Defaults' \subseteq Defaults /\ Defaults \ {c} \subseteq Defaults'
    BY <1>2, <1>3 DEF Here, Defaults
  <2>3. HereIsCreated'
    <3>1. IsFiniteSet(Here) /\ Here' \subseteq Here
      BY <2>1 DEF ConnectionInv, HereIsCreated
    <3>2. IsFiniteSet(Here')
      BY <3>1, FS_Subset
    <3> QED BY <3>1, <3>2, <1>0 DEF ConnectionInv, HereIsCreated
  <2>4. \A d, e \in Defaults' : d # e => "two" \in unruly'
    BY <2>2, <1>0 DEF ConnectionInv, DefaultsHaveCause
  <2>5. ASSUME Here' # {}, Defaults' = {}
        PROVE  "none" \in unruly' \/ \E k \in ConnectJobs : Chooses(k)'
    <3>1. CASE conjob[j].flag
      BY <3>1, <1>4 DEF Chooses
    <3>2. CASE ~conjob[j].flag /\ row[c].isDefault
      BY <3>2, <1>0
    <3>3. CASE ~conjob[j].flag /\ ~row[c].isDefault
      <4>1. c \notin Defaults
        BY <3>3 DEF Defaults
      <4>2. Defaults = {} /\ Here # {}
        BY <4>1, <2>1, <2>2, <2>5
      <4>3. CASE "none" \in unruly
        BY <4>3, <1>0
      <4>4. ASSUME NEW k \in ConnectJobs, Chooses(k), "none" \notin unruly'
            PROVE  Chooses(k)'
        <5>1. conjob'[k] = conjob[k] /\ conjob[k].next \in Connections
          BY <4>4, <1>0, <1>1, <1>4, ConnectionTypes DEF Chooses, ConnectJob
        <5>2. conjob[k].step = "promoteRow" => conjob[k].next # c
          BY <4>4, <1>0
        <5> QED BY <4>4, <5>1, <5>2, <1>3 DEF Chooses
      <4> QED BY <4>2, <4>3, <4>4 DEF ConnectionInv, DefaultsHaveCause, Chooses
    <3> QED BY <3>1, <3>2, <3>3
  <2> QED BY <2>3, <2>4, <2>5 DEF DefaultsHaveCause, Chooses
<1>9. NewIsUnknown(c)'
    BY <1>1, <1>2, <1>3, <1>4, <1>5 DEF NewIsUnknown
<1>10. TokenIsKept(c)'
    BY <1>0, <1>1, <1>2, <1>3, <1>4, <1>5, <1>6 DEF TokenIsKept
<1>11. DeletionIsAlone(c)'
  <2>1. c \notin leaked' => inst[c] = NoInst /\ (c \in orphan \/ remote[c] = "absent")
    BY <1>0, <1>1, <1>6 DEF DeletionIsAlone, Deletes, Promotes
  <2> QED BY <2>1, <1>0, <1>4, <1>5, <1>6 DEF DeletionIsAlone, Promotes
<1>12. EntryHasCause(c)'
    BY <1>0, <1>1, <1>4, <1>5 DEF EntryHasCause
<1>13. RowHasCause(c)'
    BY <1>2, <1>3 DEF RowHasCause
<1>14. Deletes(conjob[j])' /\ Holds(c)'
    BY <1>4, <1>9, <1>10, <1>11, <1>12, <1>13 DEF Deletes, Promotes, Holds
<1> QED BY <1>a, <1>0, <1>1, <1>3, <1>4, <1>6, <1>7, <1>8, <1>14, OneMoves

-----------------------------------------------------------------------------
(* New rows and defaults *)

LEMMA CreateKeeps ==
    ASSUME ConnectionInv, NEW j \in ConnectJobs, NEW c \in Connections, Create(j, c)
    PROVE  ConnectionInv'
<1>a. PICK no \in BOOLEAN : no = FALSE
    OBVIOUS
<1>b. PICK alone \in BOOLEAN : alone = (Here = {})
    OBVIOUS
<1>0. /\ row[c].state = "new" /\ Quiet(c) /\ Begins(j, c, "insert", alone, no)
      /\ UNCHANGED <<row, created, inst, remote, hooks, staleInst, staleRow, unruly, orphan, leaked,
                     remoteMoves, losses>>
    BY <1>a, <1>b DEF Create, history1
<1>1. /\ ConnectionTypeOK /\ JobsOn(c) \subseteq ConnectJobs
      /\ NewIsUnknown(c) /\ TokenIsKept(c) /\ DeletionIsAlone(c) /\ EntryHasCause(c)
      /\ RowHasCause(c)
    BY HoldsOf
<1>2. /\ conjob' \in [ConnectJobs -> ConnectJob]
      /\ conjob[j].step = "idle" /\ conjob'[j].step = "insert" /\ conjob'[j].conn = c
      /\ ~conjob'[j].deletes
      /\ \A k \in ConnectJobs \ {j} : conjob'[k] = conjob[k]
      /\ JobsOn(c)' = JobsOn(c) \union {j} /\ requests' \in 0 .. MaxRequests
  <2>1. PICK step \in ConnectSteps \ {"idle"} : step = "insert"
    BY DEF ConnectSteps
  <2>2. Begins(j, c, step, alone, no)
    BY <1>0, <2>1
  <2>3. /\ conjob' \in [ConnectJobs -> ConnectJob]
        /\ conjob[j].step = "idle" /\ conjob'[j].step = step /\ conjob'[j].conn = c
        /\ conjob'[j].deletes = no
        /\ \A k \in ConnectJobs \ {j} : conjob'[k] = conjob[k]
        /\ JobsOn(c)' = JobsOn(c) \union {j} /\ requests' \in 0 .. MaxRequests
    BY <2>2, Begun
  <2> QED BY <1>a, <2>1, <2>3
<1>3. JobsOn(c)' = {j}
    BY <1>0, <1>2 DEF Quiet, JobsOn
<1>4. ConnectionTypeOK'
    BY <1>0, <1>1, <1>2 DEF ConnectionTypeOK, ConnectJob
<1>5. HereIsCreated' /\ DefaultsHaveCause'
    BY <1>0, <1>2, DefaultsStay DEF Unsettled, Promotes
<1>6. NewIsUnknown(c)'
    BY <1>0, <1>1, <1>2, <1>3 DEF NewIsUnknown
<1>7. TokenIsKept(c)'
    BY <1>0, <1>1, <1>2, <1>3 DEF TokenIsKept, NewIsUnknown
<1>8. DeletionIsAlone(c)'
    BY <1>0, <1>2, <1>3 DEF DeletionIsAlone, Promotes
<1>9. EntryHasCause(c)' /\ RowHasCause(c)'
    BY <1>0, <1>1 DEF EntryHasCause, RowHasCause, NewIsUnknown
<1>10. Deletes(conjob[j])' /\ Holds(c)'
    BY <1>2, <1>6, <1>7, <1>8, <1>9 DEF Deletes, Promotes, Holds
<1> QED BY <1>0, <1>2, <1>4, <1>5, <1>10, OneMoves

LEMMA InsertKeeps ==
    ASSUME ConnectionInv, NEW j \in ConnectJobs, Insert(j)
    PROVE  ConnectionInv'
<1>a. PICK c : c = conjob[j].conn
    OBVIOUS
<1>b. PICK new : new = [state |-> "here", status |-> "PENDING", token |-> FALSE,
                        isDefault |-> conjob[j].flag]
    OBVIOUS
<1>0. /\ conjob[j].step = "insert" /\ row' = [row EXCEPT ![c] = new]
      /\ created' = Append(created, c)
      /\ unruly' = unruly \union (IF conjob[j].flag /\ Here # {} THEN {"two"} ELSE {})
                          \union (IF ~conjob[j].flag /\ Here = {} THEN {"none"} ELSE {})
      /\ To(j, "connect")
      /\ UNCHANGED <<inst, remote, hooks, staleInst, staleRow, orphan, leaked,
                     requests, remoteMoves, losses>>
    BY <1>a, <1>b DEF Insert, counters
<1>1. /\ ConnectionTypeOK /\ c \in Connections /\ j \in JobsOn(c) /\ conjob[j] \in ConnectJob
      /\ JobsOn(c) \subseteq ConnectJobs
      /\ NewIsUnknown(c) /\ TokenIsKept(c) /\ DeletionIsAlone(c) /\ EntryHasCause(c)
      /\ RowHasCause(c) /\ Deletes(conjob[j]) /\ row[c].state = "new"
      /\ row \in [Connections -> ConnectionRow] /\ unruly \subseteq {"two", "none"}
    BY <1>a, <1>0, AtWork, ConnectionTypes
<1>2. /\ conjob[j].flag \in BOOLEAN /\ ~conjob[j].deletes
      /\ inst[c] = NoInst /\ remote[c] = "absent" /\ JobsOn(c) = {j}
    BY <1>0, <1>1 DEF ConnectJob, Deletes, Promotes, NewIsUnknown
<1>3. new \in ConnectionRow /\ new.state = "here" /\ new.isDefault = conjob[j].flag
    BY <1>b, <1>2 DEF ConnectionRow, Status
<1>4. /\ row' \in [Connections -> ConnectionRow] /\ row'[c] = new
      /\ \A d \in Connections \ {c} : row'[d] = row[d]
    BY <1>0, <1>1, <1>3
<1>5. /\ conjob' \in [ConnectJobs -> ConnectJob] /\ conjob'[j].step = "connect"
      /\ conjob'[j].conn = c /\ ~conjob'[j].deletes
      /\ \A k \in ConnectJobs \ {j} : conjob'[k] = conjob[k]
    BY <1>a, <1>0, <1>1, <1>2, ToIs DEF ConnectSteps
<1>6. JobsOn(c)' = {j}
    BY <1>a, <1>0, <1>1, <1>2, <1>5, OthersOn
<1>7. /\ created \in Seq(Connections) /\ created' \in Seq(Connections)
      /\ \A i \in DOMAIN created : i \in DOMAIN created' /\ created'[i] = created[i]
      /\ \E i \in DOMAIN created' : created'[i] = c
  <2>1. created \in Seq(Connections)
    BY <1>1 DEF ConnectionTypeOK
  <2> QED BY <2>1, <1>0, <1>1, AppendProperties
<1>8. ConnectionTypeOK'
  <2>1. unruly' \subseteq {"two", "none"}
    BY <1>0, <1>1
  <2> QED BY <2>1, <1>0, <1>1, <1>4, <1>5, <1>7 DEF ConnectionTypeOK, ConnectJob
<1>9. HereIsCreated' /\ DefaultsHaveCause'
  <2>1. Here' = Here \union {c} /\ c \notin Here
    BY <1>1, <1>3, <1>4 DEF Here
  <2>2. Defaults' = IF conjob[j].flag THEN Defaults \union {c} ELSE Defaults
    BY <1>1, <1>3, <1>4 DEF Here, Defaults
  <2>3. HereIsCreated'
    <3>1. IsFiniteSet(Here)
      BY DEF ConnectionInv, HereIsCreated
    <3>2. IsFiniteSet(Here')
      BY <2>1, <3>1, FS_AddElement
    <3>3. \A d \in Here : \E i \in DOMAIN created' : created'[i] = d
      BY <1>7 DEF ConnectionInv, HereIsCreated
    <3> QED BY <2>1, <3>2, <3>3, <1>7 DEF HereIsCreated
  <2>4. ASSUME NEW d \in Defaults', NEW e \in Defaults', d # e PROVE "two" \in unruly'
    <3>1. CASE d \in Defaults /\ e \in Defaults
      BY <3>1, <2>4, <1>0 DEF ConnectionInv, DefaultsHaveCause
    <3>2. CASE d \notin Defaults \/ e \notin Defaults
      <4>1. conjob[j].flag /\ Defaults # {}
        BY <3>2, <2>2, <2>4
      <4>2. Here # {}
        BY <4>1 DEF Defaults
      <4> QED BY <4>1, <4>2, <1>0
    <3> QED BY <3>1, <3>2
  <2>5. ASSUME Defaults' = {}
        PROVE  "none" \in unruly' \/ \E k \in ConnectJobs : Chooses(k)'
    <3>1. ~conjob[j].flag /\ Defaults = {}
      BY <2>2, <2>5
    <3>2. CASE Here = {}
      BY <3>1, <3>2, <1>0
    <3>3. CASE Here # {}
      <4>1. ASSUME NEW k \in ConnectJobs, Chooses(k)
            PROVE  Chooses(k)'
        <5>1. conjob'[k] = conjob[k] /\ conjob[k].next \in Connections
          BY <4>1, <1>0, <1>1, <1>5, ConnectionTypes DEF Chooses, ConnectJob
        <5>2. conjob[k].step = "promoteRow" => conjob[k].next # c
          BY <4>1, <1>1 DEF Chooses
        <5> QED BY <4>1, <5>1, <5>2, <1>4 DEF Chooses
      <4> QED BY <3>1, <3>3, <4>1, <1>0 DEF ConnectionInv, DefaultsHaveCause, Chooses
    <3> QED BY <3>2, <3>3
  <2> QED BY <2>3, <2>4, <2>5 DEF DefaultsHaveCause, Chooses
<1>10. NewIsUnknown(c)'
    BY <1>3, <1>4, <1>5, <1>6 DEF NewIsUnknown
<1>11. TokenIsKept(c)'
    BY <1>0, <1>2, <1>5, <1>6 DEF TokenIsKept
<1>12. DeletionIsAlone(c)'
    BY <1>3, <1>4, <1>5, <1>6 DEF DeletionIsAlone, Promotes
<1>13. EntryHasCause(c)' /\ RowHasCause(c)'
    BY <1>0, <1>2 DEF EntryHasCause, RowHasCause
<1>14. Deletes(conjob[j])' /\ Holds(c)'
    BY <1>5, <1>10, <1>11, <1>12, <1>13 DEF Deletes, Promotes, Holds
<1> QED BY <1>a, <1>0, <1>1, <1>4, <1>5, <1>8, <1>9, <1>14, OneMoves

(* A step that changes flags of rows only. *)
LEMMA OnlyFlags ==
    ASSUME ConnectionInv, NEW j \in ConnectJobs, NEW c \in Connections,
           conjob[j].step \in {"idle", "default", "promote", "promoteRow"},
           conjob[j].step = "idle" \/ conjob[j].conn = c,
           conjob' \in [ConnectJobs -> ConnectJob],
           \A k \in ConnectJobs \ {j} : conjob'[k] = conjob[k],
           conjob'[j].step = "idle" \/
              (conjob'[j].step = "default" /\ conjob'[j].conn = c /\ row[c].state = "here"),
           ~conjob'[j].deletes,
           row' \in [Connections -> ConnectionRow],
           \A d \in Connections :
               /\ row'[d].state = row[d].state /\ row'[d].status = row[d].status
               /\ row'[d].token = row[d].token,
           created' = created, inst' = inst, remote' = remote, hooks' = hooks,
           staleInst' = staleInst, staleRow' = staleRow, leaked' = leaked,
           orphan' = orphan,
           unruly' \subseteq {"two", "none"}, DefaultsHaveCause',
           requests' \in 0 .. MaxRequests, UNCHANGED <<remoteMoves, losses>>
    PROVE  ConnectionInv'
<1>1. /\ ConnectionTypeOK /\ JobsOn(c) \subseteq ConnectJobs
      /\ NewIsUnknown(c) /\ TokenIsKept(c) /\ DeletionIsAlone(c) /\ EntryHasCause(c)
      /\ RowHasCause(c)
    BY HoldsOf
<1>2. /\ conjob'[j].step = "idle" => JobsOn(c)' = JobsOn(c) \ {j}
      /\ conjob'[j].step # "idle" => JobsOn(c)' = JobsOn(c) \union {j}
  <2>1. conjob'[j].step = "idle" \/ conjob'[j].conn = c
    OBVIOUS
  <2>2. CASE conjob'[j].step = "idle"
    <3>1. JobsOn(c)' = JobsOn(c) \ {j}
      BY <2>2 DEF JobsOn
    <3> QED BY <2>2, <3>1
  <2>3. CASE conjob'[j].step # "idle"
    BY <2>1, <2>3, OthersOn, ZenonT(40)
  <2> QED BY <2>2, <2>3
<1>3. ConnectionTypeOK'
    BY <1>1 DEF ConnectionTypeOK, ConnectJob
<1>4. HereIsCreated'
  <2>1. Here' = Here
    BY DEF Here
  <2> QED BY <2>1 DEF ConnectionInv, HereIsCreated
<1>5. j \in JobsOn(c) => conjob[j].step \in {"default", "promote", "promoteRow"}
    BY DEF JobsOn
<1>6. NewIsUnknown(c)'
    BY <1>1, <1>2 DEF NewIsUnknown
<1>7. TokenIsKept(c)'
    BY <1>1, <1>2, <1>5 DEF TokenIsKept
<1>8. DeletionIsAlone(c)'
    BY <1>1, <1>2, <1>5 DEF DeletionIsAlone, Promotes
<1>9. EntryHasCause(c)'
    BY <1>1, <1>2, <1>5 DEF EntryHasCause
<1>10. RowHasCause(c)'
    BY <1>1, <1>2, <1>5 DEF RowHasCause
<1>11. Deletes(conjob[j])' /\ Holds(c)'
  <2>1. Deletes(conjob[j])'
    BY DEF Deletes, Promotes
  <2> QED BY <2>1, <1>6, <1>7, <1>8, <1>9, <1>10 DEF Holds
<1> QED BY <1>3, <1>4, <1>11, OneMoves

LEMMA MakeDefaultKeeps ==
    ASSUME ConnectionInv, NEW j \in ConnectJobs, NEW c \in Connections, MakeDefault(j, c)
    PROVE  ConnectionInv'
<1>a. PICK no, yes \in BOOLEAN : no = FALSE /\ yes = TRUE
    OBVIOUS
<1>0. /\ row[c].state = "here" /\ Begins(j, c, "default", yes, no)
      /\ row' = [d \in Connections |-> [row[d] EXCEPT !.isDefault = FALSE]]
      /\ UNCHANGED <<created, inst, remote, hooks, staleInst, staleRow, unruly, orphan, leaked,
                     remoteMoves, losses>>
    BY <1>a DEF MakeDefault, history1
<1>1. /\ row \in [Connections -> ConnectionRow] /\ unruly \subseteq {"two", "none"}
    BY ConnectionTypes DEF ConnectionInv
<1>2. /\ conjob' \in [ConnectJobs -> ConnectJob]
      /\ conjob[j].step = "idle" /\ conjob'[j].step = "default" /\ conjob'[j].conn = c
      /\ ~conjob'[j].deletes
      /\ \A k \in ConnectJobs \ {j} : conjob'[k] = conjob[k]
      /\ requests' \in 0 .. MaxRequests
  <2>1. "default" \in ConnectSteps \ {"idle"}
    BY DEF ConnectSteps
  <2>2. /\ conjob' \in [ConnectJobs -> ConnectJob]
        /\ conjob[j].step = "idle" /\ conjob'[j].step = "default" /\ conjob'[j].conn = c
        /\ conjob'[j].deletes = no
        /\ \A k \in ConnectJobs \ {j} : conjob'[k] = conjob[k]
        /\ requests' \in 0 .. MaxRequests
    BY <2>1, <1>0, Begun
  <2> QED BY <2>2, <1>a
<1>3. ASSUME NEW d \in Connections
      PROVE  /\ row'[d] \in ConnectionRow
             /\ row'[d].state = row[d].state /\ row'[d].status = row[d].status
             /\ row'[d].token = row[d].token /\ ~row'[d].isDefault
    BY <1>0, <1>1, RowIs
<1>4. row' \in [Connections -> ConnectionRow]
    BY <1>0, <1>3
<1>5. DefaultsHaveCause'
  <2>1. Defaults' = {}
    BY <1>3 DEF Defaults, Here
  <2> QED BY <2>1, <1>2 DEF DefaultsHaveCause
<1> QED BY <1>0, <1>1, <1>2, <1>3, <1>4, <1>5, OnlyFlags

LEMMA SetDefaultKeeps ==
    ASSUME ConnectionInv, NEW j \in ConnectJobs, SetDefault(j)
    PROVE  ConnectionInv'
<1>a. PICK c : c = conjob[j].conn
    OBVIOUS
<1>b. PICK new : new = [row[c] EXCEPT !.isDefault = TRUE]
    OBVIOUS
<1>0. /\ conjob[j].step = "default" /\ Update(c, new) /\ Finish(j)
      /\ unruly' = IF row[c].state # "here" THEN unruly \union {"none"}
                   ELSE IF Defaults \ {c} # {} THEN unruly \union {"two"} ELSE {}
      /\ UNCHANGED <<created, inst, remote, hooks, staleInst, staleRow, orphan, leaked,
                     requests, remoteMoves, losses>>
    BY <1>a, <1>b DEF SetDefault, counters
<1>1. /\ ConnectionTypeOK /\ c \in Connections /\ row[c] \in ConnectionRow
      /\ row \in [Connections -> ConnectionRow] /\ unruly \subseteq {"two", "none"}
    BY <1>a, <1>0, AtWork, ConnectionTypes
<1>2. /\ new \in ConnectionRow /\ new.state = row[c].state /\ new.token = row[c].token
      /\ new.status = row[c].status /\ new.isDefault
  <2>1. TRUE \in BOOLEAN
    OBVIOUS
  <2> QED BY <2>1, <1>1, <1>b, RowIs
<1>3. /\ row' \in [Connections -> ConnectionRow]
      /\ row[c].state = "here" => row'[c] = new
      /\ row[c].state # "here" => row' = row
      /\ \A d \in Connections \ {c} : row'[d] = row[d]
    BY <1>0, <1>1, <1>2, UpdateIs
<1>4. /\ conjob' \in [ConnectJobs -> ConnectJob] /\ conjob'[j] = IdleJob
      /\ \A k \in ConnectJobs \ {j} : conjob'[k] = conjob[k]
    BY <1>0, <1>1, FinishIs
<1>5. unruly' \subseteq {"two", "none"}
    BY <1>0, <1>1
<1>6. DefaultsHaveCause'
  <2>1. CASE row[c].state # "here"
    <3>1. Here' = Here /\ Defaults' = Defaults
      BY <2>1, <1>3 DEF Here, Defaults
    <3> QED BY <3>1, <2>1, <1>0 DEF ConnectionInv, DefaultsHaveCause
  <2>2. CASE row[c].state = "here"
    <3>1. Defaults' = Defaults \union {c}
      BY <2>2, <1>1, <1>2, <1>3 DEF Here, Defaults
    <3>2. CASE Defaults \ {c} = {}
      BY <3>1, <3>2 DEF DefaultsHaveCause
    <3>3. CASE Defaults \ {c} # {}
      BY <3>1, <3>3, <2>2, <1>0 DEF DefaultsHaveCause
    <3> QED BY <3>2, <3>3
  <2> QED BY <2>1, <2>2
<1>7. /\ \A d \in Connections :
            /\ row'[d].state = row[d].state /\ row'[d].status = row[d].status
            /\ row'[d].token = row[d].token
      /\ requests' \in 0 .. MaxRequests
    BY <1>0, <1>1, <1>2, <1>3, CountersStay
<1> QED BY <1>a, <1>0, <1>1, <1>3, <1>4, <1>5, <1>6, <1>7, IdleConnectJob, OnlyFlags

LEMMA UnsetDefaultKeeps ==
    ASSUME ConnectionInv, NEW c \in Connections, UnsetDefault(c)
    PROVE  ConnectionInv'
<1>b. PICK new : new = [row[c] EXCEPT !.isDefault = FALSE]
    OBVIOUS
<1>0. /\ row' = [row EXCEPT ![c].isDefault = FALSE] /\ BeginsAnother
      /\ unruly' = unruly \union {"none"} /\ requests' = requests + 1
      /\ UNCHANGED <<created, inst, remote, hooks, conjob, staleInst, staleRow, orphan,
                     leaked, remoteMoves, losses>>
    BY DEF UnsetDefault
<1>1. /\ ConnectionTypeOK /\ row[c] \in ConnectionRow /\ Holds(c)
      /\ remote[c] \in {"absent", "connecting", "open", "shut"}
      /\ row \in [Connections -> ConnectionRow] /\ unruly \subseteq {"two", "none"}
    BY ConnectionTypes DEF ConnectionInv
<1>2. /\ new \in ConnectionRow /\ new.state = row[c].state /\ new.token = row[c].token
      /\ new.status = row[c].status /\ ~new.isDefault
  <2>1. FALSE \in BOOLEAN
    OBVIOUS
  <2> QED BY <2>1, <1>1, <1>b, RowIs
<1>3. /\ row' \in [Connections -> ConnectionRow] /\ row'[c] = new
      /\ \A d \in Connections \ {c} : row'[d] = row[d]
    BY <1>0, <1>1, <1>2, <1>b
<1>4. ConnectionTypeOK'
  <2>1. unruly' \subseteq {"two", "none"}
    BY <1>0, <1>1
  <2> QED BY <2>1, <1>0, <1>1, <1>3, CountersStay DEF ConnectionTypeOK
<1>5. Here' = Here /\ Defaults' \subseteq Defaults
    BY <1>2, <1>3 DEF Here, Defaults
<1>6. HereIsCreated' /\ DefaultsHaveCause'
    BY <1>0, <1>5 DEF ConnectionInv, HereIsCreated, DefaultsHaveCause
<1>7. Holds(c)'
  <2>1. JobsOn(c)' = JobsOn(c) /\ \A k \in JobsOn(c) : conjob'[k] = conjob[k]
    BY <1>0 DEF JobsOn
  <2> QED BY <2>1, <1>0, <1>1, <1>2, <1>3, StillHolds
<1> QED BY <1>0, <1>3, <1>4, <1>6, <1>7, NobodyMoves

(* The oldest row that is there: one, if any is. *)
LEMMA OldestIsOne ==
    ASSUME ConnectionInv, NEW c, NEW next, next = Oldest(c)
    PROVE  /\ next \subseteq Here /\ \A d, e \in next : d = e
           /\ Here # {} => next # {}
<1>1. /\ DOMAIN created = 1 .. Len(created) /\ Len(created) \in Nat
      /\ \A i \in DOMAIN created : i \in Nat /\ created[i] \in Connections
    BY DEF ConnectionInv, ConnectionTypeOK
<1>2. next \subseteq Here
    BY <1>1 DEF Oldest, Here
<1>3. \A d, e \in next : d = e
  <2>1. SUFFICES ASSUME NEW i \in DOMAIN created, NEW k \in DOMAIN created,
                        row[created[i]].state = "here", row[created[k]].state = "here",
                        \A m \in 1 .. i - 1 : row[created[m]].state # "here",
                        \A m \in 1 .. k - 1 : row[created[m]].state # "here"
                 PROVE  i = k
    BY DEF Oldest
  <2>2. i \in Nat /\ k \in Nat /\ 1 <= i /\ 1 <= k
    BY <1>1
  <2>3. ~(i < k)
    BY <2>1, <2>2
  <2>4. ~(k < i)
    BY <2>1, <2>2
  <2> QED BY <2>2, <2>3, <2>4
<1>4. ASSUME Here # {} PROVE next # {}
  <2>1. PICK S : S = {i \in DOMAIN created : row[created[i]].state = "here"}
    OBVIOUS
  <2>2. S \in SUBSET Nat /\ S # {}
    BY <1>1, <1>4, <2>1 DEF ConnectionInv, HereIsCreated, Here
  <2>3. PICK k \in S : \A m \in S : ~(m < k)
    BY <2>2, LeastNumber
  <2>4. k \in DOMAIN created /\ row[created[k]].state = "here"
    BY <2>1
  <2>5. \A m \in 1 .. k - 1 : row[created[m]].state # "here"
    <3>1. ASSUME NEW m \in 1 .. k - 1 PROVE m \notin S /\ m \in DOMAIN created
      BY <1>1, <2>3, <2>4
    <3> QED BY <3>1, <2>1
  <2>6. created[k] \in next
    BY <2>4, <2>5 DEF Oldest
  <2> QED BY <2>6
<1> QED BY <1>2, <1>3, <1>4

LEMMA PromoteKeeps ==
    ASSUME ConnectionInv, NEW j \in ConnectJobs, Promote(j)
    PROVE  ConnectionInv'
<1>a. PICK c : c = conjob[j].conn
    OBVIOUS
<1>b. PICK found : found = Oldest(conjob[j].conn)
    OBVIOUS
<1>0. /\ conjob[j].step = "promote"
      /\ \/ found = {} /\ Finish(j)
         \/ \E d \in found : conjob' = [conjob EXCEPT ![j].step = "promoteRow", ![j].next = d]
      /\ UNCHANGED <<row, created, inst, remote, hooks, staleInst, staleRow, unruly, orphan,
                     leaked, requests, remoteMoves, losses>>
    BY <1>b DEF Promote, history1, counters
<1>1. /\ ConnectionTypeOK /\ c \in Connections /\ j \in JobsOn(c) /\ conjob[j] \in ConnectJob
      /\ JobsOn(c) \subseteq ConnectJobs
      /\ NewIsUnknown(c) /\ TokenIsKept(c) /\ DeletionIsAlone(c) /\ EntryHasCause(c)
      /\ RowHasCause(c) /\ Deletes(conjob[j]) /\ row[c].state # "new"
      /\ conjob \in [ConnectJobs -> ConnectJob]
    BY <1>a, <1>0, AtWork, ConnectionTypes
<1>2. found \subseteq Here /\ (Here # {} => found # {})
    BY <1>b, OldestIsOne
<1>3. /\ conjob' \in [ConnectJobs -> ConnectJob]
      /\ \A k \in ConnectJobs \ {j} : conjob'[k] = conjob[k]
      /\ \/ found = {} /\ conjob'[j].step = "idle" /\ ~conjob'[j].deletes
         \/ /\ conjob'[j].step = "promoteRow" /\ conjob'[j].conn = c
            /\ conjob'[j].deletes = conjob[j].deletes
            /\ row[conjob'[j].next].state = "here"
  <2>1. CASE found = {} /\ Finish(j)
    BY <2>1, <1>1, FinishIs, IdleConnectJob
  <2>2. ASSUME NEW d \in found,
               conjob' = [conjob EXCEPT ![j].step = "promoteRow", ![j].next = d]
        PROVE  /\ conjob' \in [ConnectJobs -> ConnectJob]
               /\ \A k \in ConnectJobs \ {j} : conjob'[k] = conjob[k]
               /\ conjob'[j].step = "promoteRow" /\ conjob'[j].conn = c
               /\ conjob'[j].deletes = conjob[j].deletes
               /\ row[conjob'[j].next].state = "here"
    <3>1. PICK job : job = [conjob[j] EXCEPT !.step = "promoteRow", !.next = d]
      OBVIOUS
    <3>2. d \in Connections /\ row[d].state = "here"
      BY <1>2 DEF Here
    <3>3. /\ job \in ConnectJob /\ job.step = "promoteRow" /\ job.conn = c
          /\ job.deletes = conjob[j].deletes /\ job.next = d
      BY <3>1, <3>2, <1>a, <1>1 DEF ConnectJob, ConnectSteps
    <3>4. conjob' = [conjob EXCEPT ![j] = job]
      BY <2>2, <3>1, <1>1
    <3> QED BY <3>2, <3>3, <3>4, <1>1, ConnectJobMoves
  <2> QED BY <2>1, <2>2, <1>0
<1>4. /\ conjob'[j].step = "idle" => JobsOn(c)' = JobsOn(c) \ {j}
      /\ conjob'[j].step # "idle" => JobsOn(c)' = JobsOn(c)
    BY <1>a, <1>0, <1>1, <1>3, OthersOn
<1>5. ConnectionTypeOK'
    BY <1>0, <1>1, <1>3 DEF ConnectionTypeOK, ConnectJob
<1>6. Here' = Here /\ Defaults' = Defaults
    BY <1>0 DEF Here, Defaults
<1>7. HereIsCreated'
    BY <1>0, <1>6 DEF ConnectionInv, HereIsCreated
<1>8. DefaultsHaveCause'
  <2>1. \A d, e \in Defaults' : d # e => "two" \in unruly'
    BY <1>0, <1>6 DEF ConnectionInv, DefaultsHaveCause
  <2>2. Here' # {} => Chooses(j)'
    BY <1>0, <1>2, <1>3, <1>6 DEF Chooses
  <2> QED BY <2>1, <2>2 DEF DefaultsHaveCause, Chooses
<1>9. NewIsUnknown(c)'
    BY <1>0, <1>1, <1>3, <1>4 DEF NewIsUnknown
<1>10. TokenIsKept(c)'
    BY <1>0, <1>1, <1>3, <1>4 DEF TokenIsKept
<1>11. DeletionIsAlone(c)'
    BY <1>0, <1>1, <1>3, <1>4 DEF DeletionIsAlone, Promotes
<1>12. EntryHasCause(c)'
    BY <1>0, <1>1, <1>3, <1>4 DEF EntryHasCause
<1>13. RowHasCause(c)'
    BY <1>0, <1>1, <1>3, <1>4 DEF RowHasCause
<1>14. Deletes(conjob[j])' /\ Holds(c)'
    BY <1>0, <1>1, <1>3, <1>9, <1>10, <1>11, <1>12, <1>13 DEF Deletes, Promotes, Holds
<1> QED BY <1>a, <1>0, <1>1, <1>3, <1>5, <1>7, <1>8, <1>14, OneMoves

LEMMA PromoteRowKeeps ==
    ASSUME ConnectionInv, NEW j \in ConnectJobs, PromoteRow(j)
    PROVE  ConnectionInv'
<1>a. PICK c : c = conjob[j].conn
    OBVIOUS
<1>b. PICK next : next = conjob[j].next
    OBVIOUS
<1>c. PICK new : new = [row[next] EXCEPT !.isDefault = TRUE]
    OBVIOUS
<1>0. /\ conjob[j].step = "promoteRow" /\ Finish(j) /\ Update(next, new)
      /\ unruly' = unruly \union
           (IF row[next].state = "here" /\ Defaults \ {next} # {} THEN {"two"} ELSE {})
      /\ UNCHANGED <<created, inst, remote, hooks, staleInst, staleRow, orphan, leaked,
                     requests, remoteMoves, losses>>
    BY <1>b, <1>c DEF PromoteRow, counters
<1>1. /\ ConnectionTypeOK /\ c \in Connections /\ next \in Connections
      /\ row[next] \in ConnectionRow
      /\ row \in [Connections -> ConnectionRow] /\ unruly \subseteq {"two", "none"}
    BY <1>a, <1>b, <1>0, AtWork, ConnectionTypes DEF ConnectJob
<1>2. /\ new \in ConnectionRow /\ new.state = row[next].state
      /\ new.token = row[next].token /\ new.status = row[next].status /\ new.isDefault
  <2>1. TRUE \in BOOLEAN
    OBVIOUS
  <2> QED BY <2>1, <1>1, <1>c, RowIs
<1>3. /\ row' \in [Connections -> ConnectionRow]
      /\ row[next].state = "here" => row'[next] = new
      /\ row[next].state # "here" => row' = row
      /\ \A d \in Connections \ {next} : row'[d] = row[d]
    BY <1>0, <1>1, <1>2, UpdateIs
<1>4. /\ conjob' \in [ConnectJobs -> ConnectJob] /\ conjob'[j] = IdleJob
      /\ \A k \in ConnectJobs \ {j} : conjob'[k] = conjob[k]
    BY <1>0, <1>1, FinishIs
<1>5. unruly' \subseteq {"two", "none"}
    BY <1>0, <1>1
<1>6. DefaultsHaveCause'
  <2>1. CASE row[next].state # "here"
    <3>1. row' = row /\ Here' = Here /\ Defaults' = Defaults /\ unruly' = unruly
      BY <2>1, <1>0, <1>3 DEF Here, Defaults
    <3>2. ASSUME NEW k \in ConnectJobs, Chooses(k) PROVE Chooses(k)'
      <4>1. conjob'[k] = conjob[k]
        BY <3>2, <2>1, <1>b, <1>0, <1>4 DEF Chooses
      <4> QED BY <4>1, <3>1, <3>2 DEF Chooses
    <3> QED BY <3>1, <3>2 DEF ConnectionInv, DefaultsHaveCause, Chooses
  <2>2. CASE row[next].state = "here"
    <3>1. Here' = Here /\ Defaults' = Defaults \union {next}
      BY <2>2, <1>1, <1>2, <1>3 DEF Here, Defaults
    <3>2. ASSUME NEW d \in Defaults', NEW e \in Defaults', d # e PROVE "two" \in unruly'
      <4>1. CASE d \in Defaults /\ e \in Defaults
        BY <4>1, <3>2, <1>0 DEF ConnectionInv, DefaultsHaveCause
      <4>2. CASE d \notin Defaults \/ e \notin Defaults
        BY <4>2, <3>1, <3>2, <2>2, <1>0
      <4> QED BY <4>1, <4>2
    <3> QED BY <3>1, <3>2 DEF DefaultsHaveCause
  <2> QED BY <2>1, <2>2
<1>7. /\ \A d \in Connections :
            /\ row'[d].state = row[d].state /\ row'[d].status = row[d].status
            /\ row'[d].token = row[d].token
      /\ requests' \in 0 .. MaxRequests
    BY <1>0, <1>1, <1>2, <1>3, CountersStay
<1> QED BY <1>a, <1>0, <1>1, <1>3, <1>4, <1>5, <1>6, <1>7, IdleConnectJob, OnlyFlags

-----------------------------------------------------------------------------
(* A request that stops half-way, and a restart *)

LEMMA ConnectFailsKeeps ==
    ASSUME ConnectionInv, NEW j \in ConnectJobs, ConnectFails(j)
    PROVE  ConnectionInv'
<1>a. PICK c : c = conjob[j].conn
    OBVIOUS
<1>0. /\ conjob[j].step \notin {"idle", "drop", "logout", "state", "set", "qr"} /\ Loses
      /\ losses' = losses + 1
      /\ unruly' = unruly \union (IF conjob[j].step \in Unsettled THEN {"none"} ELSE {})
      /\ staleRow' = IF conjob[j].step \in {"closeRow", "discRow", "status"}
                     THEN [staleRow EXCEPT ![c] = TRUE] ELSE staleRow
      /\ orphan' = IF conjob[j].step = "update" /\ conjob[j].again
                   THEN orphan \union {c} ELSE orphan
      /\ IF conjob[j].step = "update" /\ ~conjob[j].again THEN To(j, "recreate") ELSE Finish(j)
      /\ UNCHANGED <<row, created, inst, remote, hooks, staleInst, leaked, requests, remoteMoves>>
    BY <1>a DEF ConnectFails
<1>1. /\ ConnectionTypeOK /\ c \in Connections /\ j \in JobsOn(c) /\ conjob[j] \in ConnectJob
      /\ JobsOn(c) \subseteq ConnectJobs
      /\ NewIsUnknown(c) /\ TokenIsKept(c) /\ DeletionIsAlone(c) /\ EntryHasCause(c)
      /\ RowHasCause(c) /\ Deletes(conjob[j])
      /\ staleRow \in [Connections -> BOOLEAN] /\ orphan \subseteq Connections
      /\ unruly \subseteq {"two", "none"}
      /\ conjob[j].step = "insert" <=> row[c].state = "new"
    BY <1>a, <1>0, AtWork, ConnectionTypes
<1>2. /\ conjob' \in [ConnectJobs -> ConnectJob] /\ ~conjob'[j].deletes
      /\ conjob'[j].step = "idle" \/
            (conjob'[j].step = "recreate" /\ conjob'[j].conn = c /\ conjob[j].step = "update"
             /\ ~conjob[j].again)
      /\ conjob[j].step = "update" /\ conjob[j].again => c \in orphan'
      /\ \A k \in ConnectJobs \ {j} : conjob'[k] = conjob[k]
  <2>1. CASE conjob[j].step = "update" /\ ~conjob[j].again
    BY <2>1, <1>a, <1>0, <1>1, ToIs DEF ConnectSteps, Deletes, Promotes
  <2>2. CASE ~(conjob[j].step = "update" /\ ~conjob[j].again)
    BY <2>2, <1>0, <1>1, FinishIs, IdleConnectJob
  <2> QED BY <2>1, <2>2
<1>3. /\ conjob'[j].step = "idle" => JobsOn(c)' = JobsOn(c) \ {j}
      /\ conjob'[j].step # "idle" => JobsOn(c)' = JobsOn(c)
    BY <1>a, <1>0, <1>1, <1>2, OthersOn
<1>4. /\ staleRow' \in [Connections -> BOOLEAN] /\ orphan \subseteq orphan'
      /\ orphan' \subseteq Connections /\ unruly \subseteq unruly'
      /\ unruly' \subseteq {"two", "none"} /\ losses' \in 0 .. MaxLosses
      /\ \A d \in Connections \ {c} : staleRow'[d] = staleRow[d]
      /\ conjob[j].step \in {"closeRow", "discRow", "status"} => staleRow'[c]
      /\ conjob[j].step \notin {"closeRow", "discRow", "status"} => staleRow' = staleRow
  <2>1. /\ staleRow' \in [Connections -> BOOLEAN]
        /\ \A d \in Connections \ {c} : staleRow'[d] = staleRow[d]
        /\ conjob[j].step \in {"closeRow", "discRow", "status"} => staleRow'[c]
        /\ conjob[j].step \notin {"closeRow", "discRow", "status"} => staleRow' = staleRow
    BY <1>0, <1>1, FlagIs
  <2> QED BY <2>1, <1>0, <1>1, CountersStay
<1>5. ConnectionTypeOK'
    BY <1>0, <1>1, <1>2, <1>4 DEF ConnectionTypeOK, ConnectJob
<1>6. HereIsCreated' /\ DefaultsHaveCause'
  <2>1. \A k \in ConnectJobs : conjob[k].step \in Unsettled =>
           conjob'[k] = conjob[k] \/ "none" \in unruly'
    BY <1>0, <1>2
  <2> QED BY <2>1, <1>0, <1>4, DefaultsStay
<1>7. NewIsUnknown(c)'
    BY <1>0, <1>1, <1>2, <1>3 DEF NewIsUnknown
<1>8. TokenIsKept(c)'
    BY <1>0, <1>1, <1>2, <1>3, <1>4 DEF TokenIsKept
<1>9. DeletionIsAlone(c)'
    BY <1>0, <1>1, <1>2, <1>3, <1>4 DEF DeletionIsAlone, Promotes
<1>10. EntryHasCause(c)'
    BY <1>0, <1>1, <1>2, <1>3 DEF EntryHasCause
<1>11. RowHasCause(c)'
    BY <1>0, <1>1, <1>2, <1>3, <1>4 DEF RowHasCause
<1>12. Deletes(conjob[j])' /\ Holds(c)'
    BY <1>2, <1>7, <1>8, <1>9, <1>10, <1>11 DEF Deletes, Promotes, Holds
<1> QED BY <1>a, <1>0, <1>1, <1>2, <1>4, <1>5, <1>6, <1>12, OneMoves

LEMMA RestartKeeps ==
    ASSUME ConnectionInv, NEW answers \in SUBSET Connections, Restart(answers)
    PROVE  ConnectionInv'
<1>a. PICK restored : restored = {c \in Here : row[c].status = "CONNECTED" /\ row[c].token}
    OBVIOUS
<1>b. PICK reached : reached = {c \in answers : remote[c] # "absent"}
    OBVIOUS
<1>c. PICK lone \in BOOLEAN : lone <=> Cardinality(Here) = 1
    OBVIOUS
<1>d. PICK gets : gets = {c \in Here : lone /\ Defaults = {}}
    OBVIOUS
<1>0. /\ BeginsAnother /\ requests' = requests + 1 /\ answers \subseteq restored
      /\ conjob' = [j \in ConnectJobs |-> IdleJob]
      /\ inst' = [c \in Connections |->
                    IF c \notin restored THEN NoInst
                    ELSE [status |-> IF c \in reached /\ remote[c] = "open"
                                     THEN "CONNECTED" ELSE "DISCONNECTED", qr |-> FALSE]]
      /\ staleInst' = [c \in Connections |-> c \in restored \ reached]
      /\ staleRow' = [c \in Connections |-> c \in restored \ reached]
      /\ orphan' = orphan \union {conjob[j].conn : j \in {i \in ConnectJobs :
                                      conjob[i].step = "update" /\ conjob[i].again}}
      /\ UNCHANGED <<created, remote, hooks, leaked, remoteMoves, losses>>
    BY <1>a, <1>b DEF Restart
<1>1. /\ row' = [c \in Connections |->
                   [row[c] EXCEPT !.status = IF c \in reached /\ remote[c] # "open"
                                             THEN "DISCONNECTED" ELSE @,
                                  !.isDefault = @ \/ (lone /\ c \in Here /\ Defaults = {})]]
      /\ unruly' = IF lone THEN {}
                   ELSE unruly \union
                     (IF \E j \in ConnectJobs : conjob[j].step \in Unsettled
                      THEN {"none"} ELSE {})
    BY <1>a, <1>b, <1>c DEF Restart
<1>2. /\ ConnectionTypeOK /\ row \in [Connections -> ConnectionRow]
      /\ inst \in [Connections -> InstEntry] /\ NoInst \in InstEntry
      /\ remote \in [Connections -> {"absent", "connecting", "open", "shut"}]
      /\ conjob \in [ConnectJobs -> ConnectJob]
      /\ orphan \subseteq Connections /\ unruly \subseteq {"two", "none"}
    BY ConnectionTypes DEF ConnectionInv
<1>3. ASSUME NEW c \in Connections
      PROVE  /\ row'[c] \in ConnectionRow /\ row'[c].state = row[c].state
             /\ row'[c].token = row[c].token
             /\ c \in reached /\ remote[c] # "open" => row'[c].status = "DISCONNECTED"
             /\ row'[c].isDefault <=> row[c].isDefault \/ c \in gets
  <2>1. PICK b \in BOOLEAN : b <=> row[c].isDefault \/ c \in gets
    OBVIOUS
  <2>2. PICK status : status = IF c \in reached /\ remote[c] # "open"
                               THEN "DISCONNECTED" ELSE row[c].status
    OBVIOUS
  <2>3. row[c] \in ConnectionRow /\ row[c].isDefault \in BOOLEAN /\ status \in Status
    <3>1. "DISCONNECTED" \in Status
      BY DEF Status
    <3>2. row[c] \in ConnectionRow
      BY <1>2
    <3>3. row[c].isDefault \in BOOLEAN /\ row[c].status \in Status
      BY <3>2, RowIs
    <3> QED BY <3>1, <3>2, <3>3, <2>2
  <2>4. PICK new : new = [row[c] EXCEPT !.status = status, !.isDefault = b]
    OBVIOUS
  <2>5. row'[c] = new
    <3>1. b = (row[c].isDefault \/ (lone /\ c \in Here /\ Defaults = {}))
      BY <1>d, <2>1, <2>3
    <3>2. row'[c] = [row[c] EXCEPT
                       !.status = IF c \in reached /\ remote[c] # "open"
                                  THEN "DISCONNECTED" ELSE @,
                       !.isDefault = @ \/ (lone /\ c \in Here /\ Defaults = {})]
      BY <1>1
    <3> QED BY <3>1, <3>2, <2>2, <2>3, <2>4 DEF ConnectionRow
  <2>6. /\ new \in ConnectionRow /\ new.state = row[c].state /\ new.token = row[c].token
        /\ new.status = status /\ new.isDefault = b
    BY <2>3, <2>4 DEF ConnectionRow
  <2> QED BY <2>1, <2>2, <2>5, <2>6
<1>4. row' \in [Connections -> ConnectionRow]
  <2>1. DOMAIN row' = Connections /\ row' = [c \in Connections |-> row'[c]]
    BY <1>1
  <2> QED BY <2>1, <1>3
<1>5. \A j \in ConnectJobs : conjob'[j] = IdleJob
    BY <1>0
<1>6. ASSUME NEW c \in Connections
      PROVE  /\ inst'[c] \in InstEntry
             /\ c \notin restored => inst'[c] = NoInst
             /\ c \in restored => /\ inst'[c].status \in {"CONNECTED", "DISCONNECTED"}
                                  /\ inst'[c].status = "CONNECTED" <=>
                                       c \in reached /\ remote[c] = "open"
             /\ staleInst'[c] <=> c \in restored \ reached
             /\ staleRow'[c] <=> c \in restored \ reached
    BY <1>0, <1>2 DEF InstEntry, Status
<1>7. ConnectionTypeOK'
  <2>1. inst' \in [Connections -> InstEntry]
    BY <1>0, <1>6
  <2>2. conjob' \in [ConnectJobs -> ConnectJob]
    BY <1>0, IdleConnectJob
  <2>3. staleInst' \in [Connections -> BOOLEAN] /\ staleRow' \in [Connections -> BOOLEAN]
    BY <1>0
  <2>4. orphan' \subseteq Connections
    BY <1>0, <1>2 DEF ConnectJob
  <2>5. unruly' \subseteq {"two", "none"}
    BY <1>1, <1>2
  <2>6. requests' \in 0 .. MaxRequests
    BY <1>0, <1>2, CountersStay
  <2> QED BY <2>1, <2>2, <2>3, <2>4, <2>5, <2>6, <1>0, <1>2, <1>4
       DEF ConnectionTypeOK, ConnectJob,
                                                       InstEntry
<1>8. Here' = Here /\ Defaults' = Defaults \union gets
    BY <1>3, <1>d DEF Here, Defaults
<1>9. HereIsCreated'
    BY <1>0, <1>8 DEF ConnectionInv, HereIsCreated
<1>10. DefaultsHaveCause'
  <2>1. CASE lone
    <3>1. IsFiniteSet(Here) /\ Cardinality(Here) = 1
      BY <2>1, <1>c DEF ConnectionInv, HereIsCreated
    <3>2. PICK x : Here = {x}
      BY <3>1, FS_Singleton
    <3>3. Defaults' = {x}
      BY <3>2, <2>1, <1>8, <1>d DEF Defaults
    <3> QED BY <3>3 DEF DefaultsHaveCause
  <2>2. CASE ~lone
    <3>1. Defaults' = Defaults
      BY <2>2, <1>8, <1>d
    <3>2. \A j \in ConnectJobs : Chooses(j) => "none" \in unruly'
      BY <2>2, <1>1 DEF Chooses, Unsettled, Promotes
    <3>3. unruly \subseteq unruly'
      BY <2>2, <1>1
    <3> QED BY <3>1, <3>2, <3>3, <1>8 DEF ConnectionInv, DefaultsHaveCause, Chooses
  <2> QED BY <2>1, <2>2
<1>11. ASSUME NEW c \in Connections PROVE Holds(c)'
  <2>1. /\ NewIsUnknown(c) /\ TokenIsKept(c) /\ DeletionIsAlone(c)
        /\ remote[c] \in {"absent", "connecting", "open", "shut"} /\ JobsOn(c) \subseteq ConnectJobs
        /\ row[c].state \in {"new", "here", "gone"}
    BY HoldsOf, RowIs
  <2>2. JobsOn(c)' = {}
    BY <1>5, IdleConnectJob DEF JobsOn
  <2>3. c \in restored => row[c].state = "here" /\ row[c].token
    BY <1>a DEF Here
  <2>4. NewIsUnknown(c)'
    BY <2>1, <2>2, <2>3, <1>0, <1>3, <1>6 DEF NewIsUnknown
  <2>5. TokenIsKept(c)'
    <3>1. \A j \in JobsOn(c) : conjob[j].step = "update" /\ conjob[j].again => c \in orphan'
      BY <1>0 DEF JobsOn
    <3>2. inst'[c] # NoInst => inst'[c].status # "none" /\ row'[c].token
      BY <2>3, <1>3, <1>6
    <3>3. remote'[c] # "absent" => row'[c].token \/ c \in leaked' \union orphan'
      BY <3>1, <2>1, <1>0, <1>3 DEF TokenIsKept
    <3> QED BY <3>2, <3>3, <2>2 DEF TokenIsKept
  <2>6. DeletionIsAlone(c)'
    BY <2>1, <2>2, <2>3, <1>0, <1>3, <1>6 DEF DeletionIsAlone, Promotes
  <2>7. EntryHasCause(c)'
    BY <2>2, <1>0, <1>6 DEF EntryHasCause
  <2>8. RowHasCause(c)'
    BY <2>2, <1>3, <1>6, <1>b, <1>0 DEF RowHasCause
  <2> QED BY <2>4, <2>5, <2>6, <2>7, <2>8 DEF Holds
<1>12. \A j \in ConnectJobs : Deletes(conjob[j])'
    BY <1>5, IdleConnectJob DEF Deletes, Promotes
<1> QED BY <1>7, <1>9, <1>10, <1>11, <1>12 DEF ConnectionInv

-----------------------------------------------------------------------------
(* The connections of a tenant *)

LEMMA ConnectionInvInit == ConnectionInit => ConnectionInv
<1> SUFFICES ASSUME ConnectionInit PROVE ConnectionInv
    OBVIOUS
<1>1. \A j \in ConnectJobs : conjob[j] = IdleJob
    BY DEF ConnectionInit
<1>2. PICK n \in 0 .. Cardinality(Connections) : created \in [1 .. n -> Connections]
    BY DEF ConnectionInit
<1>3. n \in Nat
    BY <1>2, WhatsappConnectionAssumption, FS_CardinalityType
<1>4. /\ created \in Seq(Connections) /\ DOMAIN created = 1 .. n
      /\ \A i \in DOMAIN created : 1 \in DOMAIN created /\ created[i] \in Connections
    BY <1>2, <1>3
<1>5. /\ inst = [c \in Connections |-> NoInst] /\ remote = [c \in Connections |-> "absent"]
      /\ hooks = {} /\ \A c : JobsOn(c) = {}
    BY <1>1, IdleConnectJob DEF ConnectionInit, JobsOn
<1>6. ASSUME NEW c \in Connections
      PROVE  IF \E i \in DOMAIN created : created[i] = c
             THEN row[c] = [state |-> "here", status |-> "DISCONNECTED", token |-> TRUE,
                            isDefault |-> created[1] = c]
             ELSE row[c] = [state |-> "new", status |-> "PENDING", token |-> FALSE,
                            isDefault |-> FALSE]
    BY DEF ConnectionInit
<1>7. ASSUME NEW c \in Connections
      PROVE  /\ row[c] \in ConnectionRow /\ row[c].state \in {"new", "here"}
             /\ row[c].state = "here" <=> \E i \in DOMAIN created : created[i] = c
             /\ row[c].state = "here" => row[c].token /\ row[c].status = "DISCONNECTED"
             /\ row[c].isDefault <=> row[c].state = "here" /\ created[1] = c
  <2>1. PICK first \in BOOLEAN : first <=> created[1] = c
    OBVIOUS
  <2>2. CASE \E i \in DOMAIN created : created[i] = c
    <3>1. row[c] = [state |-> "here", status |-> "DISCONNECTED", token |-> TRUE,
                    isDefault |-> first]
      BY <2>1, <2>2, <1>6
    <3> QED BY <3>1, <2>1, <2>2 DEF ConnectionRow, Status
  <2>3. CASE ~\E i \in DOMAIN created : created[i] = c
    <3>1. row[c] = [state |-> "new", status |-> "PENDING", token |-> FALSE,
                    isDefault |-> FALSE]
      BY <2>3, <1>6
    <3> QED BY <3>1, <2>3 DEF ConnectionRow, Status
  <2> QED BY <2>2, <2>3
<1>8. ConnectionTypeOK
  <2>1. row \in [Connections -> ConnectionRow]
    <3>1. row = [c \in Connections |-> row[c]]
      BY DEF ConnectionInit
    <3> QED BY <3>1, <1>7
  <2>2. inst \in [Connections -> InstEntry]
    BY <1>5 DEF NoInst, InstEntry
  <2>3. conjob \in [ConnectJobs -> ConnectJob]
    BY IdleConnectJob DEF ConnectionInit
  <2>4. requests \in 0 .. MaxRequests /\ remoteMoves \in 0 .. MaxRemote /\ losses \in 0 .. MaxLosses
    BY WhatsappConnectionAssumption DEF ConnectionInit
  <2>5. /\ staleInst \in [Connections -> BOOLEAN] /\ staleRow \in [Connections -> BOOLEAN]
        /\ unruly = {} /\ orphan = {} /\ leaked = {}
    BY DEF ConnectionInit
  <2> QED BY <2>1, <2>2, <2>3, <2>4, <2>5, <1>4, <1>5 DEF ConnectionTypeOK, ConnectJob, InstEntry
<1>9. HereIsCreated
  <2>1. IsFiniteSet(Here)
    BY WhatsappConnectionAssumption, FS_Subset DEF Here
  <2> QED BY <2>1, <1>7 DEF HereIsCreated, Here
<1>10. DefaultsHaveCause
  <2>1. \A c, d \in Defaults : c = d
    BY <1>7 DEF Defaults, Here
  <2>2. ASSUME NEW c \in Here PROVE Defaults # {}
    <3>1. PICK d \in Connections : d = created[1] /\ 1 \in DOMAIN created
      BY <2>2, <1>4, <1>7 DEF Here
    <3>2. d \in Defaults
      BY <3>1, <1>7 DEF Defaults, Here
    <3> QED BY <3>2
  <2> QED BY <2>1, <2>2 DEF DefaultsHaveCause
<1>11. ASSUME NEW c \in Connections PROVE Holds(c)
  <2>1. /\ inst[c] = NoInst /\ remote[c] = "absent" /\ JobsOn(c) = {} /\ row[c].state # "gone"
        /\ \A what : <<c, what>> \notin hooks
    BY <1>5, <1>7
  <2>2. NewIsUnknown(c)
    BY <2>1 DEF NewIsUnknown
  <2>3. TokenIsKept(c) /\ DeletionIsAlone(c) /\ EntryHasCause(c) /\ RowHasCause(c)
    BY <2>1 DEF TokenIsKept, DeletionIsAlone, EntryHasCause, RowHasCause
  <2> QED BY <2>2, <2>3 DEF Holds
<1>12. \A j \in ConnectJobs : Deletes(conjob[j])
    BY <1>1, IdleConnectJob
<1> QED BY <1>8, <1>9, <1>10, <1>11, <1>12 DEF ConnectionInv

LEMMA ConnectionRests == ConnectionInv /\ UNCHANGED connectionVars => ConnectionInv'
<1> SUFFICES ASSUME ConnectionInv, UNCHANGED connectionVars PROVE ConnectionInv'
    OBVIOUS
<1>0. UNCHANGED <<row, created, inst, remote, hooks, conjob, staleInst, staleRow, unruly,
                  orphan, leaked, requests, remoteMoves, losses>>
    BY DEF connectionVars
<1>1. ConnectionTypeOK'
    BY <1>0 DEF ConnectionInv, ConnectionTypeOK
<1>2. HereIsCreated' /\ DefaultsHaveCause'
    BY <1>0, DefaultsStay DEF Unsettled, Promotes
<1>3. ASSUME NEW c \in Connections PROVE Holds(c)'
  <2>1. Holds(c) /\ remote[c] \in {"absent", "connecting", "open", "shut"}
    BY ConnectionTypes DEF ConnectionInv
  <2>2. JobsOn(c)' = JobsOn(c)
    BY <1>0 DEF JobsOn
  <2> QED BY <2>1, <2>2, <1>0, StillHolds
<1>4. \A j \in ConnectJobs : Deletes(conjob[j])'
    BY <1>0 DEF ConnectionInv, Deletes, Promotes
<1> QED BY <1>1, <1>2, <1>3, <1>4 DEF ConnectionInv

LEMMA ConnectionInvStep == ConnectionInv /\ [ConnectionNext]_connectionVars => ConnectionInv'
<1> SUFFICES ASSUME ConnectionInv, [ConnectionNext]_connectionVars PROVE ConnectionInv'
    OBVIOUS
<1>1. CASE \E answers \in SUBSET Connections : Restart(answers)
    BY <1>1, RestartKeeps
<1>2. CASE \E h \in hooks : HookLost(h) \/ HookDropped(h)
    BY <1>2, HookGoesKeeps
<1>3. ASSUME NEW c \in Connections,
             \/ UnsetDefault(c) \/ RemoteQr(c) \/ HookQr(c) \/ HookIgnored(c)
             \/ \E to \in {"open", "shut", "connecting"} : RemoteMoves(c, to)
      PROVE  ConnectionInv'
    BY <1>3, UnsetDefaultKeeps, RemoteQrKeeps, HookQrKeeps, HookIgnoredKeeps,
       RemoteMovesKeeps
<1>4. ASSUME NEW j \in ConnectJobs,
             \/ Insert(j) \/ SetDefault(j) \/ Logout(j) \/ DropInstance(j) \/ DisconnectRow(j)
             \/ DeleteRow(j) \/ Promote(j) \/ PromoteRow(j) \/ ConnectFails(j) 
             \/ Connect(j) \/ ConnectState(j)
      PROVE  ConnectionInv'
    BY <1>4, InsertKeeps, SetDefaultKeeps, LogoutKeeps, DropInstanceKeeps, DisconnectRowKeeps,
       DeleteRowKeeps, PromoteKeeps, PromoteRowKeeps, ConnectFailsKeeps, ConnectKeeps,
       ConnectStateKeeps
<1>5. ASSUME NEW j \in ConnectJobs,
             \/ Recreate(j) \/ ConnectRow(j) \/ ConnectSet(j) \/ ConnectQr(j)
             \/ Answer(j) \/ NoAnswer(j) \/ HookRow(j)
      PROVE  ConnectionInv'
    BY <1>5, RecreateKeeps, ConnectRowKeeps, ConnectSetKeeps, ConnectQrKeeps, AnswerKeeps,
       NoAnswerKeeps, HookRowKeeps
<1>6. ASSUME NEW j \in ConnectJobs, NEW c \in Connections,
             \/ Create(j, c) \/ Start(j, c) \/ MakeDefault(j, c) \/ Ask(j, c)
             \/ \E deletes \in BOOLEAN : Disconnect(j, c, deletes)
             \/ \E told \in {"open", "shut"} : HookState(j, c, told)
      PROVE  ConnectionInv'
    BY <1>6, CreateKeeps, StartKeeps, MakeDefaultKeeps, AskKeeps, DisconnectKeeps, HookStateKeeps
<1>7. CASE UNCHANGED connectionVars
    BY <1>7, ConnectionRests
<1> QED BY <1>1, <1>2, <1>3, <1>4, <1>5, <1>6, <1>7 DEF ConnectionNext

(* ConnectionInv is inductive: between the steps of the requests, of the webhooks and  *)
(* of Evolution, a connection's row, entry and instance agree but for what the         *)
(* requests at work on it are about to make true.                                      *)
THEOREM ConnectionInvHolds == ConnectionSpec => []ConnectionInv
  BY ConnectionInvInit, ConnectionInvStep, PTL DEF ConnectionSpec

(* What follows from it. *)
LEMMA DefaultsAreOne == ConnectionInv => DefaultConnection
<1> SUFFICES ASSUME ConnectionInv,
                    \A j \in ConnectJobs : conjob[j].step \notin Unsettled \union {"insert"}
             PROVE  /\ Cardinality(Defaults) > 1 => "two" \in unruly
                    /\ Here # {} /\ Defaults = {} => "none" \in unruly
    BY DEF DefaultConnection
<1>1. ASSUME Cardinality(Defaults) > 1 PROVE "two" \in unruly
  <2>1. Defaults # {}
    BY <1>1, FS_EmptySet
  <2>2. PICK c : c \in Defaults
    BY <2>1
  <2>3. Defaults # {c}
    <3>1. Cardinality({c}) = 1
      BY FS_Singleton
    <3> QED BY <3>1, <1>1
  <2> QED BY <2>2, <2>3 DEF ConnectionInv, DefaultsHaveCause
<1>2. Here # {} /\ Defaults = {} => "none" \in unruly
    BY DEF ConnectionInv, DefaultsHaveCause, Unsettled, Promotes
<1> QED BY <1>1, <1>2

LEMMA NothingIsLeft == ConnectionInv => DeletedLeavesNothing
<1> SUFFICES ASSUME ConnectionInv, NEW c \in Connections \ leaked, row[c].state = "gone"
             PROVE  inst[c] = NoInst /\ (c \in orphan \/ remote[c] = "absent")
    BY DEF DeletedLeavesNothing
<1> QED BY DEF ConnectionInv, Holds, DeletionIsAlone, Promotes

LEMMA CauseIsKnown == ConnectionInv => StatusHasCause
<1> SUFFICES ASSUME ConnectionInv, NEW c \in Here, Quiet(c), inst[c] # NoInst
             PROVE  /\ <<c, remote[c]>> \notin hooks /\ ~staleInst[c] =>
                          /\ remote[c] = "open" => inst[c].status = "CONNECTED"
                          /\ inst[c].status = "CONNECTED" => remote[c] \in {"open", "connecting"}
                    /\ row[c].status = "CONNECTED" /\ ~staleRow[c] => inst[c].status = "CONNECTED"
    BY DEF StatusHasCause
<1>1. c \in Connections /\ row[c].state = "here" /\ JobsOn(c) = {}
    BY DEF Here, Quiet, JobsOn
<1>2. EntryHasCause(c) /\ RowHasCause(c)
    BY <1>1, HoldsOf
<1> QED BY <1>1, <1>2 DEF EntryHasCause, RowHasCause

(* createConnection, updateConnection, deleteConnection and onModuleInit: a tenant has  *)
(* one default connection while it has any, unless requests counted, cleared or         *)
(* promoted at once, one stopped half-way, the connection found for the promotion was   *)
(* deleted before its update, or the flag was taken away.                               *)
THEOREM OneDefault == ConnectionSpec => []DefaultConnection
  BY ConnectionInvHolds, DefaultsAreOne, PTL

(* deleteConnection leaves neither an entry in the process nor an instance at           *)
(* Evolution, unless another request was about the connection meanwhile, or Evolution   *)
(* did not delete; only an instance whose token the row never got may outlive it.       *)
THEOREM DeletionIsComplete == ConnectionSpec => []DeletedLeavesNothing
  BY ConnectionInvHolds, NothingIsLeft, PTL

(* The status in the process, on which sendMessage relies, is Evolution's, and the row's  *)
(* CONNECTED is the process's, but for news that is on its way, lost, overtaken, or that  *)
(* Evolution connects again, which the process ignores.                                   *)
THEOREM StatusIsTrue == ConnectionSpec => []StatusHasCause
  BY ConnectionInvHolds, CauseIsKnown, PTL

-----------------------------------------------------------------------------
(* WhatsappMessages.tla: what rows and jobs are, and the steps that write only jobs. *)

MessageSteps == {"idle", "send", "revoke", "hook", "react", "unread", "later"}
MessageJob == [step : MessageSteps, ext : ExternalIds, id : Rows, copy : MessageRow,
               flag : BOOLEAN, sender : Senders, emoji : Emoji]

LEMMA MessageTypes ==
    ASSUME WhatsappMessagesTypeOK
    PROVE  /\ message \in [Rows -> MessageRow] /\ deletedChat \subseteq Rows
           /\ messageJob \in [MessageJobs -> MessageJob]
           /\ revoked \subseteq OwnIds /\ raced \subseteq OwnIds /\ overtaken \subseteq ExternalIds
           /\ lastReport \in [ExternalIds -> MessageStatus]
           /\ lastReaction \in [ExternalIds -> [Senders -> Emoji]]
  BY DEF WhatsappMessagesTypeOK, MessageJob, MessageSteps

LEMMA NewRowIs ==
    /\ NewRow \in MessageRow /\ AnId \in ExternalIds
    /\ NewRow.state = "new" /\ NewRow.reactions = NoReactions
    /\ NewRow.readByUser \in BOOLEAN /\ NewRow.replyLater \in BOOLEAN /\ ~NewRow.deleted
    /\ NoReactions \in [Senders -> Emoji] /\ "none" \in Emoji
<1>1. AnId \in ExternalIds
    BY WhatsappMessagesAssumption DEF AnId, ExternalIds
<1>2. NoReactions \in [Senders -> Emoji] /\ "none" \in Emoji
    BY DEF NoReactions, Emoji
<1>3. NewRow \in MessageRow
    BY <1>1, <1>2 DEF NewRow, MessageRow, MessageStatus
<1> QED BY <1>1, <1>2, <1>3 DEF NewRow

LEMMA IdleMessageJobIs ==
    /\ IdleMessageJob \in MessageJob /\ IdleMessageJob.step = "idle"
    /\ MessageJobFollows(IdleMessageJob)
<1>1. (CHOOSE s \in Senders : TRUE) \in Senders
    BY WhatsappMessagesAssumption
<1>2. 1 \in Rows
    BY WhatsappMessagesAssumption DEF Rows
<1>3. IdleMessageJob \in MessageJob
    BY <1>1, <1>2, NewRowIs DEF IdleMessageJob, MessageJob, MessageSteps
<1>4. IdleMessageJob.step = "idle"
    BY DEF IdleMessageJob
<1> QED BY <1>3, <1>4 DEF MessageJobFollows

LEMMA MessageJobMoves ==
    ASSUME WhatsappMessagesTypeOK, NEW j \in MessageJobs, NEW job \in MessageJob, Works(j, job)
    PROVE  /\ messageJob' \in [MessageJobs -> MessageJob] /\ messageJob'[j] = job
           /\ \A i \in MessageJobs \ {j} : messageJob'[i] = messageJob[i]
  BY MessageTypes DEF Works

LEMMA RowsAgain ==
    ASSUME \A m \in Rows : /\ message'[m].state = message[m].state
                           /\ message'[m].ext = message[m].ext
    PROVE  Stored' = Stored /\ \A e : RowsOf(e)' = RowsOf(e)
<1>1. Stored' = Stored
    BY DEF Stored
<1>2. ASSUME NEW e PROVE RowsOf(e)' = RowsOf(e)
  <2>1. \A m \in Stored : message'[m].ext = message[m].ext
    BY DEF Stored
  <2> QED BY <1>1, <2>1 DEF RowsOf
<1> QED BY <1>1, <1>2

(* A job keeps to its row: rows are never made new again, nor of another message. *)
LEMMA MessageJobStays ==
    ASSUME NEW job \in MessageJob, MessageJobFollows(job),
           \A m \in Rows : message[m].state # "new" => /\ message'[m].state # "new"
                                                      /\ message'[m].ext = message[m].ext
    PROVE  MessageJobFollows(job)'
  BY DEF MessageJobFollows, MessageJob

(* A step that changes neither what rows say nor what they should say. *)
LEMMA NothingIsSaid ==
    ASSUME MessagesInv, WhatsappMessagesTypeOK',
           \A m \in Rows : /\ message'[m].state = message[m].state
                           /\ message'[m].ext = message[m].ext
                           /\ message'[m].status = message[m].status
                           /\ message'[m].deleted = message[m].deleted
                           /\ message'[m].reactions = message[m].reactions,
           UNCHANGED <<deletedChat, raced, revoked, lasts>>,
           \A e \in overtaken : e \in overtaken',
           \A i \in MessageJobs :
              \/ messageJob'[i] = messageJob[i]
              \/ /\ MessageJobFollows(messageJob[i])'
                 /\ messageJob[i].step = "revoke" => messageJob[i].ext \in overtaken'
    PROVE  MessagesInv'
<1>0. WhatsappMessagesTypeOK
    BY DEF MessagesInv
<1>1. Stored' = Stored /\ \A e : RowsOf(e)' = RowsOf(e)
    BY RowsAgain
<1>2. ASSUME NEW i \in MessageJobs PROVE MessageJobFollows(messageJob[i])'
  <2>1. CASE messageJob'[i] = messageJob[i]
    <3>1. PICK job : job = messageJob[i]
      OBVIOUS
    <3>2. job \in MessageJob /\ MessageJobFollows(job)
      BY <1>0, <3>1, MessageTypes DEF MessagesInv
    <3>3. MessageJobFollows(job)'
      BY <3>2, MessageJobStays
    <3> QED BY <2>1, <3>1, <3>3 DEF MessageJobFollows
  <2> QED BY <2>1
<1>3. ASSUME NEW m \in Rows PROVE RowLeavesWithChat(m)'
  <2>1. RowLeavesWithChat(m)
    BY DEF MessagesInv
  <2> QED BY <1>1, <2>1 DEF RowLeavesWithChat
<1>4. ASSUME NEW e \in OwnIds PROVE RowIsAlone(e)'
  <2>1. RowIsAlone(e)
    BY DEF MessagesInv
  <2> QED BY <1>1, <2>1 DEF RowIsAlone
<1>5. ASSUME NEW m \in Stored' PROVE RowFollows(m)'
  <2>1. m \in Rows /\ RowFollows(m)
    BY <1>1 DEF MessagesInv, Stored
  <2>2. PICK e : e = message[m].ext
    OBVIOUS
  <2>3. SUFFICES ASSUME e \notin overtaken' \union raced'
                 PROVE  /\ e \in OwnIds => message'[m].status = lastReport'[e]
                        /\ (\A n \in RowsOf(e)' : n = m) =>
                              message'[m].reactions = lastReaction'[e]
                        /\ e \in revoked' => \/ message'[m].deleted
                                             \/ \E j \in Working(e)' :
                                                   /\ messageJob'[j].step = "revoke"
                                                   /\ messageJob'[j].id = m
    BY <2>1, <2>2 DEF RowFollows
  <2>4. e \notin overtaken \union raced
    BY <2>3
  <2>5. /\ e \in OwnIds => message[m].status = lastReport[e]
        /\ (\A n \in RowsOf(e) : n = m) => message[m].reactions = lastReaction[e]
        /\ e \in revoked => \/ message[m].deleted
                            \/ \E j \in Working(e) : /\ messageJob[j].step = "revoke"
                                                     /\ messageJob[j].id = m
    BY <2>1, <2>2, <2>4 DEF RowFollows
  <2>6. ASSUME NEW j \in Working(e), messageJob[j].step = "revoke"
        PROVE  messageJob'[j] = messageJob[j] /\ j \in Working(e)'
    <3>1. j \in MessageJobs /\ messageJob[j].ext = e
      BY DEF Working
    <3>2. messageJob'[j] = messageJob[j]
      BY <2>3, <2>6, <3>1
    <3> QED BY <2>6, <3>1, <3>2 DEF Working
  <2> QED BY <1>1, <2>1, <2>5, <2>6 DEF lasts
<1> QED BY <1>2, <1>3, <1>4, <1>5 DEF MessagesInv

-----------------------------------------------------------------------------
(* Requests and webhooks that look, and what Evolution announces. *)

(* A job that was no revocation takes up a new one, or rests. *)
LEMMA JobLooks ==
    ASSUME MessagesInv, NEW j \in MessageJobs, NEW job \in MessageJob, Works(j, job),
           WhatsappMessagesTypeOK',
           MessageJobFollows(job)',
           messageJob[j].step = "revoke" => messageJob[j].ext \in overtaken',
           \A m \in Rows : /\ message'[m].state = message[m].state
                           /\ message'[m].ext = message[m].ext
                           /\ message'[m].status = message[m].status
                           /\ message'[m].deleted = message[m].deleted
                           /\ message'[m].reactions = message[m].reactions,
           UNCHANGED <<deletedChat, raced, revoked, lasts>>,
           \A e \in overtaken : e \in overtaken'
    PROVE  MessagesInv'
<1>0. WhatsappMessagesTypeOK
    BY DEF MessagesInv
<1>1. ASSUME NEW i \in MessageJobs
      PROVE  \/ messageJob'[i] = messageJob[i]
             \/ /\ MessageJobFollows(messageJob[i])'
                /\ messageJob[i].step = "revoke" => messageJob[i].ext \in overtaken'
  <2>1. messageJob'[j] = job /\ (i # j => messageJob'[i] = messageJob[i])
    BY <1>0, MessageJobMoves
  <2>2. CASE i = j
    BY <2>1, <2>2 DEF MessageJobFollows
  <2> QED BY <2>1, <2>2
<1> QED BY <1>1, NothingIsSaid

LEMMA CountersCount ==
    ASSUME WhatsappMessagesTypeOK
    PROVE  /\ Asks => asked' \in 0 .. MaxAsked
           /\ reportsMade < MaxReports /\ reportsMade' = reportsMade + 1 =>
                 reportsMade' \in 0 .. MaxReports
           /\ asked \in 0 .. MaxAsked /\ reportsMade \in 0 .. MaxReports
  BY WhatsappMessagesAssumption DEF WhatsappMessagesTypeOK, Asks

LEMMA SendKeeps ==
    ASSUME MessagesInv, NEW j \in MessageJobs, NEW e \in ExternalIds, Send(j, e)
    PROVE  MessagesInv'
<1>0. WhatsappMessagesTypeOK
    BY DEF MessagesInv
<1>1. PICK job \in {IdleMessageJob, [IdleMessageJob EXCEPT !.step = "send", !.ext = e]} :
         Works(j, job)
    BY DEF Send, Rests
<1>2. /\ job \in MessageJob /\ e \in OwnIds
      /\ job = IdleMessageJob \/ (job.step = "send" /\ job.ext = e)
    BY IdleMessageJobIs DEF MessageJob, MessageSteps, Send
<1>3. MessageJobFollows(job)'
    BY <1>2, IdleMessageJobIs DEF MessageJobFollows
<1>4. WhatsappMessagesTypeOK'
    BY <1>0, <1>1, <1>2, MessageJobMoves, CountersCount
    DEF WhatsappMessagesTypeOK, MessageJob, MessageSteps, Send, lasts
<1> QED BY <1>1, <1>2, <1>3, <1>4, JobLooks DEF Send

LEMMA FindsLastKeeps ==
    ASSUME MessagesInv, NEW j \in MessageJobs, NEW step \in {"unread", "later"},
           NEW last \in SUBSET Stored, FindsLast(j, step, last),
           Latest(last) \in last
    PROVE  MessagesInv'
<1>0. WhatsappMessagesTypeOK
    BY DEF MessagesInv
<1>1. PICK id : id = Latest(last)
    OBVIOUS
<1>2. id \in Rows /\ message[id] \in MessageRow
    BY <1>0, <1>1, MessageTypes DEF Stored
<1>3. PICK flag \in BOOLEAN : flag = ~message[id].replyLater
    BY <1>2 DEF MessageRow
<1>4. PICK job : job = [IdleMessageJob EXCEPT !.step = step, !.ext = message[id].ext,
                                              !.id = id, !.flag = flag]
    OBVIOUS
<1>5. Works(j, job)
    BY <1>1, <1>3, <1>4 DEF FindsLast
<1>6. job \in MessageJob /\ job.step = step
    BY <1>2, <1>4, IdleMessageJobIs DEF MessageJob, MessageSteps, MessageRow
<1>7. MessageJobFollows(job)'
    BY <1>6 DEF MessageJobFollows
<1>8. WhatsappMessagesTypeOK'
    BY <1>0, <1>5, <1>6, MessageJobMoves, CountersCount
    DEF WhatsappMessagesTypeOK, MessageJob, MessageSteps, FindsLast, lasts, wires
<1> QED BY <1>5, <1>6, <1>7, <1>8, JobLooks DEF FindsLast

(* Rows that are there have a last one. *)
LEMMA LatestIsOne ==
    ASSUME NEW last \in SUBSET Stored, last # {}
    PROVE  Latest(last) \in last
<1>1. last \subseteq Nat /\ MaxRows \in Nat /\ \A m \in last : m <= MaxRows
    BY WhatsappMessagesAssumption DEF Stored, Rows
<1>2. PICK S : S = {n \in Nat : \A m \in last : m <= n}
    OBVIOUS
<1>3. MaxRows \in S /\ S \in SUBSET Nat
    BY <1>1, <1>2
<1>4. PICK k \in S : \A n \in S : ~(n < k)
    BY <1>3, LeastNumber
<1>5. k \in Nat /\ \A m \in last : m \in Nat /\ m <= k
    BY <1>1, <1>2
<1>6. k \in last
  <2>1. SUFFICES ASSUME k \notin last PROVE FALSE
    OBVIOUS
  <2>2. \A m \in last : m <= k - 1 /\ 1 <= m
    BY <1>5, <2>1, <1>1, WhatsappMessagesAssumption DEF Stored, Rows
  <2>3. k - 1 \in Nat /\ k - 1 < k
    BY <1>5, <2>2
  <2> QED BY <1>2, <1>4, <2>2, <2>3
<1>7. \E m \in last : \A n \in last : n <= m
    BY <1>5, <1>6
<1> QED BY <1>7 DEF Latest

LEMMA HookFindsKeeps ==
    ASSUME MessagesInv, NEW j \in MessageJobs, NEW e \in ExternalIds, HookFinds(j, e)
    PROVE  MessagesInv'
<1>0. WhatsappMessagesTypeOK
    BY DEF MessagesInv
<1>1. PICK job \in {IdleMessageJob,
                    [IdleMessageJob EXCEPT !.step = "hook", !.ext = e, !.flag = TRUE]} :
         Works(j, job)
    BY DEF HookFinds, Rests, Known
<1>2. /\ job \in MessageJob /\ e \in OwnIds
      /\ job = IdleMessageJob \/ (job.step = "hook" /\ job.ext = e /\ job.flag)
    BY IdleMessageJobIs DEF MessageJob, MessageSteps, HookFinds
<1>3. MessageJobFollows(job)'
    BY <1>2, IdleMessageJobIs DEF MessageJobFollows
<1>4. WhatsappMessagesTypeOK'
    BY <1>0, <1>1, <1>2, MessageJobMoves, CountersCount
    DEF WhatsappMessagesTypeOK, MessageJob, MessageSteps, HookFinds, lasts
<1> QED BY <1>1, <1>2, <1>3, <1>4, JobLooks DEF HookFinds

LEMMA HookReadsKeeps ==
    ASSUME MessagesInv, NEW j \in MessageJobs, NEW e \in ExternalIds,
           NEW s \in Senders, NEW emoji \in Emoji, HookReads(j, e, s, emoji)
    PROVE  MessagesInv'
<1>0. WhatsappMessagesTypeOK
    BY DEF MessagesInv
<1>1. PICK job : /\ Works(j, job) /\ job \in MessageJob
                 /\ \/ job = IdleMessageJob
                    \/ job.step = "react" /\ job.ext = e /\ job.id \in RowsOf(e)
  <2>1. CASE Rests(j)
    BY <2>1, IdleMessageJobIs DEF Rests
  <2>2. CASE ~Rests(j)
    <3>1. PICK m \in RowsOf(e) :
             Works(j, [IdleMessageJob EXCEPT !.step = "react", !.ext = e, !.id = m,
                         !.copy.reactions = message[m].reactions,
                         !.sender = s, !.emoji = emoji])
      BY <2>2 DEF HookReads
    <3>2. m \in Rows /\ message[m].reactions \in [Senders -> Emoji]
      BY <1>0, MessageTypes DEF RowsOf, Stored, MessageRow
    <3>3. [IdleMessageJob.copy EXCEPT !.reactions = message[m].reactions] \in MessageRow
      BY <3>2, IdleMessageJobIs DEF MessageJob, MessageRow
    <3>4. PICK job : job = [IdleMessageJob EXCEPT !.step = "react", !.ext = e, !.id = m,
                              !.copy.reactions = message[m].reactions,
                              !.sender = s, !.emoji = emoji]
      OBVIOUS
    <3>5. job \in MessageJob /\ job.step = "react" /\ job.ext = e /\ job.id = m
      BY <3>2, <3>3, <3>4, IdleMessageJobIs DEF MessageJob, MessageSteps
    <3> QED BY <3>1, <3>4, <3>5
  <2> QED BY <2>1, <2>2
<1>2. \A m \in RowsOf(e) : message'[m].state # "new" /\ message'[m].ext = e
    BY DEF HookReads, RowsOf, Stored
<1>3. MessageJobFollows(job)'
    BY <1>1, <1>2, IdleMessageJobIs DEF MessageJobFollows
<1>4. overtaken' \subseteq ExternalIds /\ (\A x \in overtaken : x \in overtaken')
    BY <1>0 DEF WhatsappMessagesTypeOK, HookReads
<1>5. WhatsappMessagesTypeOK'
    BY <1>0, <1>1, <1>4, MessageJobMoves, CountersCount
    DEF WhatsappMessagesTypeOK, MessageJob, MessageSteps, HookReads, lasts
<1> QED BY <1>1, <1>3, <1>4, <1>5, JobLooks DEF HookReads, lasts

LEMMA MessageJobFailsKeeps ==
    ASSUME MessagesInv, NEW j \in MessageJobs, MessageJobFails(j)
    PROVE  MessagesInv'
<1>0. WhatsappMessagesTypeOK
    BY DEF MessagesInv
<1>1. MessageJobFollows(IdleMessageJob)'
    BY IdleMessageJobIs DEF MessageJobFollows
<1>2. messageJob[j].ext \in ExternalIds
    BY <1>0, MessageTypes DEF MessageJob
<1>3. WhatsappMessagesTypeOK'
    BY <1>0, <1>2, IdleMessageJobIs, MessageJobMoves, CountersCount
    DEF WhatsappMessagesTypeOK, MessageJob, MessageSteps, MessageJobFails, Rests, wires, lasts
<1> QED BY <1>1, <1>3, IdleMessageJobIs, JobLooks DEF MessageJobFails, Rests

(* Marks of the user, and what Evolution announces. *)
LEMMA UserMarks ==
    ASSUME MessagesInv, NEW j \in MessageJobs,
           MarksUnread(j) \/ TogglesLater(j)
    PROVE  MessagesInv'
<1>0. WhatsappMessagesTypeOK
    BY DEF MessagesInv
<1>1. PICK flag \in BOOLEAN : flag = messageJob[j].flag
    BY <1>0, MessageTypes DEF MessageJob
<1>2. ASSUME NEW m \in Rows
      PROVE  \/ message'[m] = message[m]
             \/ message'[m] = [message[m] EXCEPT !.readByUser = FALSE]
             \/ message'[m] = [message[m] EXCEPT !.replyLater = flag]
    BY <1>0, <1>1, MessageTypes DEF MarksUnread, TogglesLater
<1>3. ASSUME NEW m \in Rows
      PROVE  /\ message'[m] \in MessageRow
             /\ message'[m].state = message[m].state /\ message'[m].ext = message[m].ext
             /\ message'[m].status = message[m].status /\ message'[m].deleted = message[m].deleted
             /\ message'[m].reactions = message[m].reactions
  <2>1. message[m] \in MessageRow
    BY <1>0, MessageTypes
  <2> QED BY <1>2, <2>1, ZenonT(40) DEF MessageRow
<1>4. message' \in [Rows -> MessageRow]
  <2>1. \E f : message' = [m \in Rows |-> f[m]]
    BY <1>0, MessageTypes DEF MarksUnread, TogglesLater
  <2> QED BY <1>3, <2>1
<1>5. MessageJobFollows(IdleMessageJob)'
    BY IdleMessageJobIs DEF MessageJobFollows
<1>6. Rests(j) /\ messageJob[j].step # "revoke"
    BY DEF MarksUnread, TogglesLater
<1>7. WhatsappMessagesTypeOK'
    BY <1>0, <1>4, <1>6, IdleMessageJobIs, MessageJobMoves, CountersCount
    DEF WhatsappMessagesTypeOK, MessageJob, MessageSteps, MarksUnread, TogglesLater, Rests,
        wires, lasts
<1>8. UNCHANGED <<deletedChat, raced, revoked, lasts>> /\ (\A e \in overtaken : e \in overtaken')
    BY DEF MarksUnread, TogglesLater
<1> QED BY <1>3, <1>5, <1>6, <1>7, <1>8, IdleMessageJobIs, JobLooks DEF Rests

LEMMA OthersAnnounce ==
    ASSUME MessagesInv, NEW e \in ExternalIds,
           \/ PhoneWrites(e)
           \/ \E status \in MessageStatus : Reports(e, status)
           \/ \E s \in Senders, emoji \in Emoji : Reacts(e, s, emoji)
    PROVE  MessagesInv'
<1>0. WhatsappMessagesTypeOK
    BY DEF MessagesInv
<1>1. /\ UNCHANGED <<message, deletedChat, messageJob, revoked, lasts, raced, overtaken, asked>>
      /\ reportsMade' \in 0 .. MaxReports
    BY <1>0, CountersCount DEF PhoneWrites, Reports, Reacts
<1>2. upserts' \subseteq ExternalIds /\ reports' \subseteq OwnIds \X MessageStatus
    BY <1>0 DEF PhoneWrites, Reports, Reacts, WhatsappMessagesTypeOK
<1>3. reactions' \subseteq ExternalIds \X Senders \X Emoji
    BY <1>0 DEF PhoneWrites, Reports, Reacts, WhatsappMessagesTypeOK
<1>4. WhatsappMessagesTypeOK'
    BY <1>0, <1>1, <1>2, <1>3 DEF WhatsappMessagesTypeOK, lasts
<1> QED BY <1>1, <1>4, NothingIsSaid

LEMMA MarkChatReadKeeps == MessagesInv /\ MarkChatRead => MessagesInv'
<1> SUFFICES ASSUME MessagesInv, MarkChatRead PROVE MessagesInv'
    OBVIOUS
<1>0. WhatsappMessagesTypeOK
    BY DEF MessagesInv
<1>1. ASSUME NEW m \in Rows
      PROVE  /\ message'[m] \in MessageRow
             /\ message'[m].state = message[m].state /\ message'[m].ext = message[m].ext
             /\ message'[m].status = message[m].status /\ message'[m].deleted = message[m].deleted
             /\ message'[m].reactions = message[m].reactions
  <2>1. message[m] \in MessageRow
    BY <1>0, MessageTypes
  <2>2. \/ message'[m] = message[m]
        \/ message'[m] = [message[m] EXCEPT !.readByUser = TRUE]
    BY DEF MarkChatRead
  <2> QED BY <2>1, <2>2 DEF MessageRow
<1>2. message' \in [Rows -> MessageRow]
  <2>1. message' = [m \in Rows |-> message'[m]]
    BY DEF MarkChatRead
  <2> QED BY <1>1, <2>1
<1>3. WhatsappMessagesTypeOK'
    BY <1>0, <1>2, CountersCount DEF WhatsappMessagesTypeOK, MarkChatRead, wires, lasts
<1> QED BY <1>1, <1>3, NothingIsSaid DEF MarkChatRead

-----------------------------------------------------------------------------
(* Requests and webhooks that insert or write rows. *)

LEMMA InsertIs ==
    ASSUME WhatsappMessagesTypeOK, NEW e \in ExternalIds, InsertMessage(e)
    PROVE  \E m \in Rows :
              /\ message[m].state = "new" /\ message'[m].state = "here" /\ message'[m].ext = e
              /\ message'[m].status = IF e \in OwnIds THEN "SENT" ELSE "DELIVERED"
              /\ message'[m].reactions = NoReactions /\ ~message'[m].deleted
              /\ \A n \in Rows \ {m} : message'[n] = message[n]
              /\ message' \in [Rows -> MessageRow]
<1>1. PICK m \in Rows :
         /\ message[m].state = "new"
         /\ message' = [message EXCEPT ![m] =
                          [NewRow EXCEPT !.state = "here", !.ext = e,
                             !.status = IF e \in OwnIds THEN "SENT" ELSE "DELIVERED",
                             !.readByUser = e \in OwnIds]]
    BY DEF InsertMessage
<1>2. PICK status \in MessageStatus : status = IF e \in OwnIds THEN "SENT" ELSE "DELIVERED"
    BY DEF MessageStatus
<1>3. PICK own \in BOOLEAN : own = (e \in OwnIds)
  <2> WITNESS (e \in OwnIds) \in BOOLEAN
  <2> QED OBVIOUS
<1>4. PICK r : r = [NewRow EXCEPT !.state = "here", !.ext = e, !.status = status,
                                  !.readByUser = own]
    OBVIOUS
<1>5. /\ r \in MessageRow /\ r.state = "here" /\ r.ext = e /\ r.status = status
      /\ r.reactions = NoReactions /\ ~r.deleted
    BY <1>4, NewRowIs DEF MessageRow
<1>6. message' = [message EXCEPT ![m] = r]
    BY <1>1, <1>2, <1>3, <1>4
<1>7. message'[m] = r /\ (\A n \in Rows \ {m} : message'[n] = message[n])
      /\ message' \in [Rows -> MessageRow]
    BY <1>5, <1>6, MessageTypes
<1> QED BY <1>1, <1>2, <1>5, <1>7

(* An insertion: the row is alone, or known to race; and fresh, or known to be overtaken. *)
LEMMA MessageInsertKeeps ==
    ASSUME MessagesInv, NEW e \in ExternalIds, InsertMessage(e),
           WhatsappMessagesTypeOK',
           UNCHANGED <<deletedChat, revoked, lasts>>,
           \A x \in raced : x \in raced', \A x \in overtaken : x \in overtaken',
           e \in OwnIds /\ RowsOf(e) # {} => e \in raced',
           e \in OwnIds /\ (lastReport[e] # "SENT" \/ e \in revoked) => e \in overtaken',
           lastReaction[e] # NoReactions => e \in overtaken',
           \A i \in MessageJobs :
              \/ messageJob'[i] = messageJob[i]
              \/ messageJob'[i] = IdleMessageJob /\ messageJob[i].step # "revoke"
    PROVE  MessagesInv'
<1>0. WhatsappMessagesTypeOK
    BY DEF MessagesInv
<1>1. PICK r \in Rows :
         /\ message[r].state = "new" /\ message'[r].state = "here" /\ message'[r].ext = e
         /\ message'[r].status = IF e \in OwnIds THEN "SENT" ELSE "DELIVERED"
         /\ message'[r].reactions = NoReactions /\ ~message'[r].deleted
         /\ \A n \in Rows \ {r} : message'[n] = message[n]
    BY <1>0, InsertIs
<1>2. /\ r \notin Stored /\ Stored' = Stored \union {r}
      /\ \A x : RowsOf(x)' = IF x = e THEN RowsOf(e) \union {r} ELSE RowsOf(x)
  <2>1. r \notin Stored /\ Stored' = Stored \union {r}
    BY <1>1 DEF Stored
  <2>2. \A n \in Stored : n \in Rows /\ n # r
    BY <2>1 DEF Stored
  <2>3. \A n \in Stored : message'[n].ext = message[n].ext
    BY <1>1, <2>2
  <2> QED BY <1>1, <2>1, <2>3 DEF RowsOf
<1>3. ASSUME NEW i \in MessageJobs PROVE MessageJobFollows(messageJob[i])'
  <2>1. CASE messageJob'[i] = messageJob[i]
    <3>1. PICK job : job = messageJob[i]
      OBVIOUS
    <3>2. job \in MessageJob /\ MessageJobFollows(job)
      BY <1>0, <3>1, MessageTypes DEF MessagesInv
    <3>3. MessageJobFollows(job)'
      BY <1>1, <3>2, MessageJobStays
    <3> QED BY <2>1, <3>1, <3>3 DEF MessageJobFollows
  <2>2. CASE messageJob'[i] = IdleMessageJob
    BY <2>2, IdleMessageJobIs DEF MessageJobFollows
  <2> QED BY <2>1, <2>2
<1>4. r \notin deletedChat
    BY <1>1 DEF MessagesInv, RowLeavesWithChat
<1>5. ASSUME NEW m \in Rows PROVE RowLeavesWithChat(m)'
  <2>1. RowLeavesWithChat(m)
    BY DEF MessagesInv
  <2>2. CASE m = r
    BY <1>1, <1>4, <2>2 DEF RowLeavesWithChat
  <2>3. CASE m # r
    BY <1>1, <1>2, <2>1, <2>3 DEF RowLeavesWithChat
  <2> QED BY <2>2, <2>3
<1>6. ASSUME NEW x \in OwnIds PROVE RowIsAlone(x)'
  <2>1. RowIsAlone(x)
    BY DEF MessagesInv
  <2>2. CASE x = e /\ RowsOf(e) # {}
    BY <2>2 DEF RowIsAlone
  <2>3. CASE x = e /\ RowsOf(e) = {}
    BY <1>2, <2>3 DEF RowIsAlone
  <2>4. CASE x # e
    BY <1>2, <2>1, <2>4 DEF RowIsAlone
  <2> QED BY <2>2, <2>3, <2>4
<1>7. ASSUME NEW m \in Stored' PROVE RowFollows(m)'
  <2>1. PICK x : x = message'[m].ext
    OBVIOUS
  <2>2. SUFFICES ASSUME x \notin overtaken' \union raced'
                 PROVE  /\ x \in OwnIds => message'[m].status = lastReport'[x]
                        /\ (\A n \in RowsOf(x)' : n = m) =>
                              message'[m].reactions = lastReaction'[x]
                        /\ x \in revoked' => \/ message'[m].deleted
                                             \/ \E j \in Working(x)' :
                                                   /\ messageJob'[j].step = "revoke"
                                                   /\ messageJob'[j].id = m
    BY <2>1 DEF RowFollows
  <2>3. x \notin overtaken \union raced
    BY <2>2
  <2>4. CASE m = r
    <3>1. x = e /\ (e \in OwnIds => lastReport[e] = "SENT" /\ e \notin revoked)
          /\ lastReaction[e] = NoReactions
      BY <1>1, <2>1, <2>2, <2>4
    <3>2. e \notin OwnIds => e \notin revoked
      BY <1>0, MessageTypes
    <3> QED BY <1>1, <2>4, <3>1, <3>2 DEF lasts
  <2>5. CASE m # r
    <3>1. m \in Stored /\ m \in Rows /\ message'[m] = message[m]
      BY <1>1, <1>2, <2>5 DEF Stored
    <3>2. /\ x \in OwnIds => message[m].status = lastReport[x]
          /\ (\A n \in RowsOf(x) : n = m) => message[m].reactions = lastReaction[x]
          /\ x \in revoked => \/ message[m].deleted
                              \/ \E j \in Working(x) : /\ messageJob[j].step = "revoke"
                                                       /\ messageJob[j].id = m
      BY <2>1, <2>3, <3>1 DEF MessagesInv, RowFollows
    <3>3. ASSUME NEW j \in Working(x), messageJob[j].step = "revoke"
          PROVE  messageJob'[j] = messageJob[j] /\ j \in Working(x)'
      BY <3>3 DEF Working
    <3>4. \A n \in RowsOf(x) : n \in RowsOf(x)'
      BY <1>2
    <3> QED BY <3>1, <3>2, <3>3, <3>4 DEF lasts
  <2> QED BY <2>4, <2>5
<1> QED BY <1>3, <1>5, <1>6, <1>7 DEF MessagesInv

LEMMA StoresKeeps ==
    ASSUME MessagesInv, NEW j \in MessageJobs, SendStores(j) \/ HookStores(j)
    PROVE  MessagesInv'
<1>0. WhatsappMessagesTypeOK
    BY DEF MessagesInv
<1>1. PICK e : e = messageJob[j].ext
    OBVIOUS
<1>2. messageJob[j].step \in {"send", "hook"}
    BY DEF SendStores, HookStores
<1>3. e \in OwnIds /\ e \in ExternalIds /\ (messageJob[j].step = "hook" => messageJob[j].flag)
    BY <1>1, <1>2 DEF MessagesInv, MessageJobFollows, ExternalIds
<1>4. /\ InsertMessage(e) /\ Rests(j) /\ UNCHANGED <<deletedChat, wires, revoked, lasts>>
      /\ UNCHANGED <<reportsMade, asked>>
      /\ overtaken' = IF lastReport[e] # "SENT" \/ lastReaction[e] # NoReactions
                         \/ e \in revoked
                      THEN overtaken \union {e} ELSE overtaken
      /\ raced' = IF RowsOf(e) # {} THEN raced \union {e} ELSE raced
    BY <1>1, <1>3 DEF SendStores, HookStores
<1>5. /\ messageJob'[j] = IdleMessageJob /\ messageJob' \in [MessageJobs -> MessageJob]
      /\ \A i \in MessageJobs \ {j} : messageJob'[i] = messageJob[i]
    BY <1>0, <1>4, IdleMessageJobIs, MessageJobMoves DEF Rests
<1>6. message' \in [Rows -> MessageRow]
    BY <1>0, <1>3, <1>4, InsertIs
<1>7. raced' \subseteq OwnIds /\ overtaken' \subseteq ExternalIds
    BY <1>0, <1>3, <1>4, MessageTypes
<1>8. WhatsappMessagesTypeOK'
    BY <1>0, <1>4, <1>5, <1>6, <1>7
    DEF WhatsappMessagesTypeOK, MessageJob, MessageSteps, wires, lasts
<1>9. \A i \in MessageJobs :
              \/ messageJob'[i] = messageJob[i]
              \/ messageJob'[i] = IdleMessageJob /\ messageJob[i].step # "revoke"
    BY <1>2, <1>5
<1>10. /\ \A x \in raced : x \in raced'
       /\ \A x \in overtaken : x \in overtaken'
       /\ e \in OwnIds /\ RowsOf(e) # {} => e \in raced'
       /\ e \in OwnIds /\ (lastReport[e] # "SENT" \/ e \in revoked) => e \in overtaken'
       /\ lastReaction[e] # NoReactions => e \in overtaken'
    BY <1>4
<1> QED BY <1>3, <1>4, <1>8, <1>9, <1>10, MessageInsertKeeps

LEMMA HookInboundKeeps ==
    ASSUME MessagesInv, NEW e \in ExternalIds, HookInbound(e)
    PROVE  MessagesInv'
<1>0. WhatsappMessagesTypeOK
    BY DEF MessagesInv
<1>1. e \notin OwnIds
    BY WhatsappMessagesAssumption DEF HookInbound
<1>2. upserts' \subseteq ExternalIds /\ reportsMade' \in 0 .. MaxReports
    BY <1>0, CountersCount DEF HookInbound, WhatsappMessagesTypeOK
<1>3. message' \in [Rows -> MessageRow]
    BY <1>0, InsertIs DEF HookInbound
<1>4. overtaken' \subseteq ExternalIds
    BY <1>0, MessageTypes DEF HookInbound
<1>5. WhatsappMessagesTypeOK'
    BY <1>0, <1>2, <1>3, <1>4 DEF WhatsappMessagesTypeOK, HookInbound, lasts
<1>6. /\ \A x \in overtaken : x \in overtaken'
      /\ lastReaction[e] # NoReactions => e \in overtaken'
    BY DEF HookInbound
<1> QED BY <1>1, <1>5, <1>6, MessageInsertKeeps DEF HookInbound

LEMMA RevokeKeeps ==
    ASSUME MessagesInv, NEW j \in MessageJobs, NEW r \in Rows, Revoke(j, r)
    PROVE  MessagesInv'
<1>0. WhatsappMessagesTypeOK
    BY DEF MessagesInv
<1>1. PICK e : e = message[r].ext
    OBVIOUS
<1>2. /\ message[r] \in MessageRow /\ message[r].state = "here" /\ r \in Stored
      /\ e \in OwnIds /\ e \in ExternalIds /\ messageJob[j].step = "idle"
    BY <1>0, <1>1, MessageTypes DEF Revoke, Stored, ExternalIds
<1>3. PICK job : job = [IdleMessageJob EXCEPT !.step = "revoke", !.ext = e, !.id = r,
                                              !.copy = message[r]]
    OBVIOUS
<1>4. /\ job \in MessageJob /\ job.step = "revoke" /\ job.ext = e /\ job.id = r
      /\ job.copy = message[r] /\ Works(j, job)
    BY <1>1, <1>2, <1>3, IdleMessageJobIs DEF MessageJob, MessageSteps, Revoke
<1>5. /\ messageJob'[j] = job /\ messageJob' \in [MessageJobs -> MessageJob]
      /\ \A i \in MessageJobs \ {j} : messageJob'[i] = messageJob[i]
    BY <1>0, <1>4, MessageJobMoves
<1>6. /\ UNCHANGED <<message, deletedChat, wires, lasts, raced, overtaken, reportsMade>>
      /\ revoked' = revoked \union {e} /\ asked' \in 0 .. MaxAsked
    BY <1>0, <1>1, CountersCount DEF Revoke
<1>7. WhatsappMessagesTypeOK'
    BY <1>0, <1>2, <1>5, <1>6 DEF WhatsappMessagesTypeOK, MessageJob, MessageSteps, wires, lasts
<1>8. ASSUME NEW i \in MessageJobs PROVE MessageJobFollows(messageJob[i])'
  <2>1. CASE i = j
    BY <1>1, <1>2, <1>4, <1>5, <1>6, <2>1 DEF MessageJobFollows
  <2>2. CASE i # j
    <3>1. MessageJobFollows(messageJob[i]) /\ messageJob'[i] = messageJob[i]
      BY <1>5, <2>2 DEF MessagesInv
    <3> QED BY <1>6, <3>1 DEF MessageJobFollows
  <2> QED BY <2>1, <2>2
<1>9. Stored' = Stored /\ \A x : RowsOf(x)' = RowsOf(x)
    BY <1>6 DEF Stored, RowsOf
<1>10. ASSUME NEW m \in Rows PROVE RowLeavesWithChat(m)'
    BY <1>6, <1>9 DEF MessagesInv, RowLeavesWithChat
<1>11. ASSUME NEW x \in OwnIds PROVE RowIsAlone(x)'
    BY <1>6, <1>9 DEF MessagesInv, RowIsAlone
<1>12. ASSUME NEW m \in Stored' PROVE RowFollows(m)'
  <2>1. PICK x : x = message[m].ext
    OBVIOUS
  <2>2. SUFFICES ASSUME x \notin overtaken \union raced
                 PROVE  /\ x \in OwnIds => message[m].status = lastReport[x]
                        /\ (\A n \in RowsOf(x) : n = m) => message[m].reactions = lastReaction[x]
                        /\ x \in revoked' => \/ message[m].deleted
                                             \/ \E i \in Working(x)' :
                                                   /\ messageJob'[i].step = "revoke"
                                                   /\ messageJob'[i].id = m
    BY <1>6, <1>9, <2>1 DEF RowFollows, lasts
  <2>3. /\ x \in OwnIds => message[m].status = lastReport[x]
        /\ (\A n \in RowsOf(x) : n = m) => message[m].reactions = lastReaction[x]
        /\ x \in revoked => \/ message[m].deleted
                            \/ \E i \in Working(x) : /\ messageJob[i].step = "revoke"
                                                     /\ messageJob[i].id = m
    BY <1>9, <2>1, <2>2 DEF MessagesInv, RowFollows
  <2>4. CASE x = e
    <3>1. m \in RowsOf(e) /\ r \in RowsOf(e)
      BY <1>1, <1>2, <1>9, <2>1, <2>4 DEF RowsOf
    <3>2. m = r
      BY <1>2, <2>2, <2>4, <3>1 DEF MessagesInv, RowIsAlone
    <3>3. j \in Working(e)'
      BY <1>4, <1>5 DEF Working
    <3> QED BY <1>4, <1>5, <2>3, <2>4, <3>2, <3>3
  <2>5. CASE x # e
    <3>1. ASSUME NEW i \in Working(x), messageJob[i].step = "revoke"
          PROVE  messageJob'[i] = messageJob[i] /\ i \in Working(x)'
      <4>1. i # j /\ i \in MessageJobs
        BY <1>2, <3>1 DEF Working
      <4> QED BY <1>5, <3>1, <4>1 DEF Working
    <3> QED BY <1>6, <2>3, <2>5, <3>1
  <2> QED BY <2>4, <2>5
<1> QED BY <1>7, <1>8, <1>10, <1>11, <1>12 DEF MessagesInv

(* The copy is the row it was made of, or the message is known to be overtaken. *)
LEMMA RevokeSavesKeeps ==
    ASSUME MessagesInv, NEW j \in MessageJobs, RevokeSaves(j)
    PROVE  MessagesInv'
<1>0. WhatsappMessagesTypeOK
    BY DEF MessagesInv
<1>1. PICK job : job = messageJob[j]
    OBVIOUS
<1>2. job \in MessageJob /\ MessageJobFollows(job) /\ job.step = "revoke"
    BY <1>0, <1>1, MessageTypes DEF MessagesInv, RevokeSaves
<1>3. PICK e, r, copy : e = job.ext /\ r = job.id /\ copy = job.copy
    OBVIOUS
<1>4. /\ e \in OwnIds /\ e \in ExternalIds /\ r \in Rows /\ copy \in MessageRow
      /\ message[r].state # "new" /\ message[r].ext = e
      /\ copy.state = "here" /\ copy.ext = e
    BY <1>2, <1>3 DEF MessageJob, MessageJobFollows
<1>5. PICK saved : saved = [copy EXCEPT !.deleted = TRUE]
    OBVIOUS
<1>6. /\ saved \in MessageRow /\ saved.state = "here" /\ saved.ext = e /\ saved.deleted
      /\ saved.status = copy.status /\ saved.reactions = copy.reactions
    BY <1>4, <1>5 DEF MessageRow
<1>7. message' = [message EXCEPT ![r] = saved]
    BY <1>1, <1>3, <1>5 DEF RevokeSaves
<1>8. /\ message'[r] = saved /\ message' \in [Rows -> MessageRow]
      /\ \A m \in Rows \ {r} : message'[m] = message[m]
    BY <1>0, <1>4, <1>6, <1>7, MessageTypes
<1>9. /\ UNCHANGED <<deletedChat, wires, revoked, lasts, raced, reportsMade, asked>> /\ Rests(j)
      /\ overtaken' = IF message[r] # copy THEN overtaken \union {e} ELSE overtaken
    BY <1>1, <1>3 DEF RevokeSaves
<1>10. /\ messageJob'[j] = IdleMessageJob /\ messageJob' \in [MessageJobs -> MessageJob]
       /\ \A i \in MessageJobs \ {j} : messageJob'[i] = messageJob[i]
    BY <1>0, <1>9, IdleMessageJobIs, MessageJobMoves DEF Rests
<1>11. overtaken' \subseteq ExternalIds
    BY <1>0, <1>4, <1>9, MessageTypes
<1>12. WhatsappMessagesTypeOK'
    BY <1>0, <1>8, <1>9, <1>10, <1>11
    DEF WhatsappMessagesTypeOK, MessageJob, MessageSteps, wires, lasts
<1>13. ASSUME NEW i \in MessageJobs PROVE MessageJobFollows(messageJob[i])'
  <2>1. CASE i = j
    BY <1>10, <2>1, IdleMessageJobIs DEF MessageJobFollows
  <2>2. CASE i # j
    <3>1. PICK other : other = messageJob[i]
      OBVIOUS
    <3>2. other \in MessageJob /\ MessageJobFollows(other)
      BY <1>0, <3>1, MessageTypes DEF MessagesInv
    <3>3. MessageJobFollows(other)'
      BY <1>4, <1>6, <1>8, <3>2, MessageJobStays
    <3> QED BY <1>10, <2>2, <3>1, <3>3 DEF MessageJobFollows
  <2> QED BY <2>1, <2>2
<1>14. /\ Stored' = Stored \union {r}
       /\ \A x : RowsOf(x)' = IF x = e THEN RowsOf(e) \union {r} ELSE RowsOf(x)
  <2>1. Stored' = Stored \union {r}
    BY <1>4, <1>6, <1>8 DEF Stored
  <2>2. \A n \in Rows : message'[n].ext = message[n].ext
    BY <1>4, <1>6, <1>8
  <2>3. \A n \in Stored \union {r} : n \in Rows
    BY <1>4 DEF Stored
  <2> QED BY <1>4, <2>1, <2>2, <2>3 DEF RowsOf
<1>15. r \notin Stored => e \in overtaken' /\ r \in deletedChat
  <2>1. SUFFICES ASSUME r \notin Stored PROVE e \in overtaken' /\ r \in deletedChat
    OBVIOUS
  <2>2. message[r].state = "gone"
    BY <1>0, <1>4, <2>1, MessageTypes DEF Stored, MessageRow
  <2> QED BY <1>4, <1>9, <2>2 DEF MessagesInv, RowLeavesWithChat
<1>16. ASSUME NEW m \in Rows PROVE RowLeavesWithChat(m)'
  <2>1. RowLeavesWithChat(m)
    BY DEF MessagesInv
  <2>2. CASE m = r
    BY <1>6, <1>8, <2>2 DEF RowLeavesWithChat
  <2>3. CASE m # r
    BY <1>8, <1>9, <1>14, <2>1, <2>3 DEF RowLeavesWithChat
  <2> QED BY <2>2, <2>3
<1>17. ASSUME NEW x \in OwnIds PROVE RowIsAlone(x)'
  <2>1. RowIsAlone(x) /\ \A y \in overtaken : y \in overtaken'
    BY <1>9 DEF MessagesInv
  <2>2. CASE r \in Stored \/ x # e
    <3>1. RowsOf(x)' = RowsOf(x)
      BY <1>4, <1>14, <2>2 DEF RowsOf
    <3> QED BY <1>9, <2>1, <3>1 DEF RowIsAlone
  <2>3. CASE r \notin Stored /\ x = e
    BY <1>9, <1>14, <1>15, <2>1, <2>3 DEF RowIsAlone
  <2> QED BY <2>2, <2>3
<1>18. ASSUME NEW m \in Stored' PROVE RowFollows(m)'
  <2>1. PICK x : x = message'[m].ext
    OBVIOUS
  <2>2. SUFFICES ASSUME x \notin overtaken' \union raced
                 PROVE  /\ x \in OwnIds => message'[m].status = lastReport[x]
                        /\ (\A n \in RowsOf(x)' : n = m) =>
                              message'[m].reactions = lastReaction[x]
                        /\ x \in revoked => \/ message'[m].deleted
                                            \/ \E i \in Working(x)' :
                                                  /\ messageJob'[i].step = "revoke"
                                                  /\ messageJob'[i].id = m
    BY <1>9, <2>1 DEF RowFollows, lasts
  <2>3. x \notin overtaken \union raced
    BY <1>9, <2>2
  <2>4. m \in Stored /\ m \in Rows /\ message[m].ext = x
    BY <1>4, <1>6, <1>8, <1>14, <1>15, <2>1, <2>2 DEF Stored
  <2>5. /\ x \in OwnIds => message[m].status = lastReport[x]
        /\ (\A n \in RowsOf(x) : n = m) => message[m].reactions = lastReaction[x]
        /\ x \in revoked => \/ message[m].deleted
                            \/ \E i \in Working(x) : /\ messageJob[i].step = "revoke"
                                                     /\ messageJob[i].id = m
    BY <2>3, <2>4 DEF MessagesInv, RowFollows
  <2>6. RowsOf(x) \subseteq RowsOf(x)'
    BY <1>14
  <2>7. CASE m = r
    <3>1. x = e /\ message[r] = copy
      BY <1>4, <1>9, <2>2, <2>4, <2>7
    <3> QED BY <1>6, <1>8, <2>5, <2>6, <2>7, <3>1
  <2>8. CASE m # r
    <3>1. message'[m] = message[m]
      BY <1>8, <2>4, <2>8
    <3>2. ASSUME NEW i \in Working(x), messageJob[i].step = "revoke", messageJob[i].id = m
          PROVE  messageJob'[i] = messageJob[i] /\ i \in Working(x)'
      <4>1. i # j /\ i \in MessageJobs
        BY <1>1, <1>3, <2>8, <3>2 DEF Working
      <4> QED BY <1>10, <3>2, <4>1 DEF Working
    <3> QED BY <2>5, <2>6, <3>1, <3>2
  <2> QED BY <2>7, <2>8
<1> QED BY <1>12, <1>13, <1>16, <1>17, <1>18 DEF MessagesInv

LEMMA DeleteChatKeeps == MessagesInv /\ DeleteChat => MessagesInv'
<1> SUFFICES ASSUME MessagesInv, DeleteChat PROVE MessagesInv'
    OBVIOUS
<1>0. WhatsappMessagesTypeOK
    BY DEF MessagesInv
<1>1. ASSUME NEW m \in Rows
      PROVE  /\ message'[m] \in MessageRow /\ message'[m].ext = message[m].ext
             /\ message'[m].state = IF m \in Stored THEN "gone" ELSE message[m].state
  <2>1. message[m] \in MessageRow
    BY <1>0, MessageTypes
  <2>2. message'[m] = IF m \in Stored THEN [message[m] EXCEPT !.state = "gone"] ELSE message[m]
    BY DEF DeleteChat
  <2> QED BY <2>1, <2>2 DEF MessageRow
<1>2. message' \in [Rows -> MessageRow]
  <2>1. message' = [m \in Rows |-> message'[m]]
    BY DEF DeleteChat
  <2> QED BY <1>1, <2>1
<1>3. Stored' = {} /\ deletedChat' = deletedChat \union Stored /\ Stored \subseteq Rows
    BY <1>1 DEF Stored, DeleteChat
<1>4. WhatsappMessagesTypeOK'
    BY <1>0, <1>2, <1>3, CountersCount DEF WhatsappMessagesTypeOK, DeleteChat, wires, lasts
<1>5. ASSUME NEW i \in MessageJobs PROVE MessageJobFollows(messageJob[i])'
  <2>1. PICK job : job = messageJob[i]
    OBVIOUS
  <2>2. job \in MessageJob /\ MessageJobFollows(job)
    BY <1>0, <2>1, MessageTypes DEF MessagesInv
  <2>3. MessageJobFollows(job)'
    BY <1>1, <2>2, MessageJobStays
  <2> QED BY <2>1, <2>3 DEF MessageJobFollows, DeleteChat
<1>6. ASSUME NEW m \in Rows PROVE RowLeavesWithChat(m)'
  <2>1. RowLeavesWithChat(m)
    BY DEF MessagesInv
  <2> QED BY <1>1, <1>3, <2>1 DEF RowLeavesWithChat, Stored
<1>7. ASSUME NEW x \in OwnIds PROVE RowIsAlone(x)'
    BY <1>3 DEF RowIsAlone, RowsOf
<1> QED BY <1>3, <1>4, <1>5, <1>6, <1>7 DEF MessagesInv

LEMMA HookReportKeeps ==
    ASSUME MessagesInv, NEW e \in ExternalIds, NEW status \in MessageStatus,
           HookReport(e, status)
    PROVE  MessagesInv'
<1>0. WhatsappMessagesTypeOK
    BY DEF MessagesInv
<1>1. /\ UNCHANGED <<deletedChat, upserts, reactions, messageJob, revoked, lastReaction,
                     raced, reportsMade, asked>>
      /\ reports' \subseteq reports
      /\ lastReport' = [lastReport EXCEPT ![e] = status]
      /\ overtaken' = IF RowsOf(e) = {} THEN overtaken \union {e} ELSE overtaken
    BY DEF HookReport
<1>2. ASSUME NEW m \in Rows
      PROVE  /\ message'[m] \in MessageRow
             /\ message'[m].state = message[m].state /\ message'[m].ext = message[m].ext
             /\ message'[m].deleted = message[m].deleted
             /\ message'[m].reactions = message[m].reactions
             /\ message'[m].status = IF m \in RowsOf(e) THEN status ELSE message[m].status
  <2>1. message[m] \in MessageRow
    BY <1>0, MessageTypes
  <2>2. message'[m] = IF m \in RowsOf(e) THEN [message[m] EXCEPT !.status = status]
                      ELSE message[m]
    BY DEF HookReport
  <2> QED BY <2>1, <2>2 DEF MessageRow
<1>3. message' \in [Rows -> MessageRow]
  <2>1. message' = [m \in Rows |-> message'[m]]
    BY DEF HookReport
  <2> QED BY <1>2, <2>1
<1>4. WhatsappMessagesTypeOK'
    BY <1>0, <1>1, <1>3 DEF WhatsappMessagesTypeOK
<1>5. Stored' = Stored /\ \A x : RowsOf(x)' = RowsOf(x)
    BY <1>2, RowsAgain
<1>6. ASSUME NEW i \in MessageJobs PROVE MessageJobFollows(messageJob[i])'
  <2>1. PICK job : job = messageJob[i]
    OBVIOUS
  <2>2. job \in MessageJob /\ MessageJobFollows(job)
    BY <1>0, <2>1, MessageTypes DEF MessagesInv
  <2>3. MessageJobFollows(job)'
    BY <1>2, <2>2, MessageJobStays
  <2> QED BY <1>1, <2>1, <2>3 DEF MessageJobFollows
<1>7. ASSUME NEW m \in Rows PROVE RowLeavesWithChat(m)'
    BY <1>1, <1>2, <1>5 DEF MessagesInv, RowLeavesWithChat
<1>8. ASSUME NEW x \in OwnIds PROVE RowIsAlone(x)'
    BY <1>1, <1>5 DEF MessagesInv, RowIsAlone
<1>9. ASSUME NEW m \in Stored' PROVE RowFollows(m)'
  <2>1. PICK x : x = message[m].ext
    OBVIOUS
  <2>2. m \in Rows /\ m \in Stored /\ x \in ExternalIds
    BY <1>0, <1>5, <2>1, MessageTypes DEF Stored, MessageRow
  <2>3. SUFFICES ASSUME x \notin overtaken' \union raced
                 PROVE  /\ x \in OwnIds => message'[m].status = lastReport'[x]
                        /\ (\A n \in RowsOf(x) : n = m) => message[m].reactions = lastReaction[x]
                        /\ x \in revoked => \/ message[m].deleted
                                            \/ \E j \in Working(x) :
                                                  /\ messageJob[j].step = "revoke"
                                                  /\ messageJob[j].id = m
    BY <1>1, <1>2, <1>5, <2>1, <2>2 DEF RowFollows, Working
  <2>4. x \notin overtaken \union raced
    BY <1>1, <2>3
  <2>5. RowFollows(m)
    BY <2>2 DEF MessagesInv
  <2>6. message'[m].status = lastReport'[x] \/ x \notin OwnIds
    <3>1. CASE x = e
      BY <1>0, <1>1, <1>2, <2>1, <2>2, <3>1, MessageTypes DEF RowsOf
    <3>2. CASE x # e
      <4>1. m \notin RowsOf(e)
        BY <2>1, <3>2 DEF RowsOf
      <4> QED BY <1>0, <1>1, <1>2, <2>1, <2>2, <2>4, <2>5, <3>2, <4>1, MessageTypes DEF RowFollows
    <3> QED BY <3>1, <3>2
  <2> QED BY <2>1, <2>4, <2>5, <2>6 DEF RowFollows
<1> QED BY <1>4, <1>6, <1>7, <1>8, <1>9 DEF MessagesInv

(* The reactions read are the row's, or the message is known to be overtaken. *)
LEMMA HookReactsKeeps ==
    ASSUME MessagesInv, NEW j \in MessageJobs, HookReacts(j)
    PROVE  MessagesInv'
<1>0. WhatsappMessagesTypeOK
    BY DEF MessagesInv
<1>1. PICK job : job = messageJob[j]
    OBVIOUS
<1>2. job \in MessageJob /\ MessageJobFollows(job) /\ job.step = "react"
    BY <1>0, <1>1, MessageTypes DEF MessagesInv, HookReacts
<1>3. PICK e, r, old, s, emoji :
         /\ e = job.ext /\ r = job.id /\ old = job.copy.reactions
         /\ s = job.sender /\ emoji = job.emoji
    OBVIOUS
<1>4. /\ e \in ExternalIds /\ r \in Rows /\ old \in [Senders -> Emoji] /\ s \in Senders
      /\ emoji \in Emoji /\ message[r].state # "new" /\ message[r].ext = e
    BY <1>2, <1>3 DEF MessageJob, MessageJobFollows, MessageRow
<1>5. PICK new : new = [old EXCEPT ![s] = emoji]
    OBVIOUS
<1>6. new \in [Senders -> Emoji]
    BY <1>4, <1>5
<1>7. /\ UNCHANGED <<deletedChat, wires, revoked, lastReport, raced, reportsMade, asked>>
      /\ Rests(j)
      /\ message' = IF r \in Stored THEN [message EXCEPT ![r].reactions = new] ELSE message
      /\ lastReaction' = [lastReaction EXCEPT ![e][s] = emoji]
      /\ overtaken' = IF r \notin Stored \/ message[r].reactions # old
                      THEN overtaken \union {e} ELSE overtaken
    BY <1>1, <1>3, <1>5 DEF HookReacts, WithReaction
<1>8. ASSUME NEW m \in Rows
      PROVE  /\ message'[m] \in MessageRow
             /\ message'[m].state = message[m].state /\ message'[m].ext = message[m].ext
             /\ message'[m].deleted = message[m].deleted
             /\ message'[m].status = message[m].status
             /\ message'[m].reactions = IF m = r /\ r \in Stored THEN new ELSE message[m].reactions
  <2>1. message[m] \in MessageRow
    BY <1>0, MessageTypes
  <2>2. message'[m] = IF m = r /\ r \in Stored THEN [message[m] EXCEPT !.reactions = new]
                      ELSE message[m]
    BY <1>0, <1>4, <1>7, MessageTypes
  <2> QED BY <1>6, <2>1, <2>2 DEF MessageRow
<1>9. message' \in [Rows -> MessageRow]
  <2>1. message' = [m \in Rows |-> message'[m]]
    BY <1>0, <1>7, MessageTypes
  <2> QED BY <1>8, <2>1
<1>10. /\ messageJob'[j] = IdleMessageJob /\ messageJob' \in [MessageJobs -> MessageJob]
       /\ \A i \in MessageJobs \ {j} : messageJob'[i] = messageJob[i]
    BY <1>0, <1>7, IdleMessageJobIs, MessageJobMoves DEF Rests
<1>11. /\ lastReaction' \in [ExternalIds -> [Senders -> Emoji]]
       /\ lastReaction'[e] = [lastReaction[e] EXCEPT ![s] = emoji]
       /\ \A x \in ExternalIds \ {e} : lastReaction'[x] = lastReaction[x]
    BY <1>0, <1>4, <1>7, MessageTypes
<1>12. WhatsappMessagesTypeOK'
    BY <1>0, <1>4, <1>7, <1>9, <1>10, <1>11
    DEF WhatsappMessagesTypeOK, MessageJob, MessageSteps, wires
<1>13. Stored' = Stored /\ \A x : RowsOf(x)' = RowsOf(x)
    BY <1>8, RowsAgain
<1>14. ASSUME NEW i \in MessageJobs PROVE MessageJobFollows(messageJob[i])'
  <2>1. CASE i = j
    BY <1>10, <2>1, IdleMessageJobIs DEF MessageJobFollows
  <2>2. CASE i # j
    <3>1. PICK other : other = messageJob[i]
      OBVIOUS
    <3>2. other \in MessageJob /\ MessageJobFollows(other)
      BY <1>0, <3>1, MessageTypes DEF MessagesInv
    <3>3. MessageJobFollows(other)'
      BY <1>8, <3>2, MessageJobStays
    <3> QED BY <1>10, <2>2, <3>1, <3>3 DEF MessageJobFollows
  <2> QED BY <2>1, <2>2
<1>15. ASSUME NEW m \in Rows PROVE RowLeavesWithChat(m)'
    BY <1>7, <1>8, <1>13 DEF MessagesInv, RowLeavesWithChat
<1>16. ASSUME NEW x \in OwnIds PROVE RowIsAlone(x)'
    BY <1>7, <1>13 DEF MessagesInv, RowIsAlone
<1>17. ASSUME NEW m \in Stored' PROVE RowFollows(m)'
  <2>1. PICK x : x = message[m].ext
    OBVIOUS
  <2>2. m \in Rows /\ m \in Stored /\ x \in ExternalIds
    BY <1>0, <1>13, <2>1, MessageTypes DEF Stored, MessageRow
  <2>3. SUFFICES ASSUME x \notin overtaken' \union raced
                 PROVE  /\ x \in OwnIds => message[m].status = lastReport[x]
                        /\ (\A n \in RowsOf(x) : n = m) =>
                              message'[m].reactions = lastReaction'[x]
                        /\ x \in revoked => \/ message[m].deleted
                                            \/ \E i \in Working(x)' :
                                                  /\ messageJob'[i].step = "revoke"
                                                  /\ messageJob'[i].id = m
    BY <1>7, <1>8, <1>13, <2>1, <2>2 DEF RowFollows
  <2>4. x \notin overtaken \union raced
    BY <1>7, <2>3
  <2>5. /\ x \in OwnIds => message[m].status = lastReport[x]
        /\ (\A n \in RowsOf(x) : n = m) => message[m].reactions = lastReaction[x]
        /\ x \in revoked => \/ message[m].deleted
                            \/ \E i \in Working(x) : /\ messageJob[i].step = "revoke"
                                                     /\ messageJob[i].id = m
    BY <2>1, <2>2, <2>4 DEF MessagesInv, RowFollows
  <2>6. ASSUME NEW i \in Working(x), messageJob[i].step = "revoke"
        PROVE  messageJob'[i] = messageJob[i] /\ i \in Working(x)'
    <3>1. i # j /\ i \in MessageJobs
      BY <1>1, <1>2, <2>6 DEF Working
    <3> QED BY <1>10, <2>6, <3>1 DEF Working
  <2>7. ASSUME \A n \in RowsOf(x) : n = m
        PROVE  message'[m].reactions = lastReaction'[x]
    <3>1. CASE x = e
      <4>1. r \in Stored /\ message[r].reactions = old
        BY <1>7, <2>3, <3>1
      <4>2. m = r
        BY <1>4, <2>7, <3>1, <4>1 DEF RowsOf
      <4> QED BY <1>5, <1>8, <1>11, <2>2, <2>5, <2>7, <3>1, <4>1, <4>2
    <3>2. CASE x # e
      <4>1. m # r
        BY <1>4, <2>1, <3>2
      <4> QED BY <1>8, <1>11, <2>2, <2>5, <2>7, <3>2, <4>1
    <3> QED BY <3>1, <3>2
  <2> QED BY <2>5, <2>6, <2>7
<1> QED BY <1>12, <1>14, <1>15, <1>16, <1>17 DEF MessagesInv

-----------------------------------------------------------------------------
(* The messages' inductive invariant, and what follows from it. *)

LEMMA MessagesInvInit == WhatsappMessagesInit => MessagesInv
<1> SUFFICES ASSUME WhatsappMessagesInit PROVE MessagesInv
    OBVIOUS
<1>1. /\ \A m \in Rows : message[m] = NewRow
      /\ Stored = {} /\ deletedChat = {}
    BY NewRowIs DEF WhatsappMessagesInit, Stored
<1>2. /\ lastReport \in [ExternalIds -> MessageStatus]
      /\ lastReaction \in [ExternalIds -> [Senders -> Emoji]]
    BY NewRowIs DEF WhatsappMessagesInit, MessageStatus
<1>3. /\ message \in [Rows -> MessageRow] /\ messageJob \in [MessageJobs -> MessageJob]
      /\ \A j \in MessageJobs : messageJob[j] = IdleMessageJob
    BY NewRowIs, IdleMessageJobIs DEF WhatsappMessagesInit
<1>4. WhatsappMessagesTypeOK
    BY <1>2, <1>3, WhatsappMessagesAssumption
    DEF WhatsappMessagesInit, WhatsappMessagesTypeOK, MessageJob, MessageSteps
<1>5. \A j \in MessageJobs : MessageJobFollows(messageJob[j])
    BY <1>3, IdleMessageJobIs
<1>6. \A m \in Rows : RowLeavesWithChat(m)
    BY <1>1, NewRowIs DEF RowLeavesWithChat
<1>7. \A e \in OwnIds : RowIsAlone(e)
    BY <1>1 DEF RowIsAlone, RowsOf
<1> QED BY <1>1, <1>4, <1>5, <1>6, <1>7 DEF MessagesInv

LEMMA MessagesInvStep == MessagesInv /\ [WhatsappMessagesNext]_messageVars => MessagesInv'
<1> SUFFICES ASSUME MessagesInv, [WhatsappMessagesNext]_messageVars PROVE MessagesInv'
    OBVIOUS
<1>1. ASSUME NEW j \in MessageJobs, MarkChatUnread(j) \/ ToggleReplyLater(j)
      PROVE  MessagesInv'
  <2>1. PICK step \in {"unread", "later"}, last \in SUBSET Stored : FindsLast(j, step, last)
    BY <1>1 DEF MarkChatUnread, ToggleReplyLater
  <2>2. Latest(last) \in last
    BY <2>1, LatestIsOne DEF FindsLast
  <2> QED BY <2>1, <2>2, FindsLastKeeps
<1>2. ASSUME NEW j \in MessageJobs,
             \/ MarksUnread(j) \/ TogglesLater(j)
             \/ SendStores(j) \/ RevokeSaves(j) \/ HookStores(j) \/ HookReacts(j)
             \/ MessageJobFails(j)
      PROVE  MessagesInv'
    BY <1>2, UserMarks, StoresKeeps, RevokeSavesKeeps, HookReactsKeeps, MessageJobFailsKeeps
<1>3. ASSUME NEW j \in MessageJobs, NEW e \in ExternalIds,
             \/ Send(j, e) \/ HookFinds(j, e)
             \/ \E s \in Senders, emoji \in Emoji : HookReads(j, e, s, emoji)
      PROVE  MessagesInv'
    BY <1>3, SendKeeps, HookFindsKeeps, HookReadsKeeps
<1>4. ASSUME NEW j \in MessageJobs, NEW m \in Rows, Revoke(j, m) PROVE MessagesInv'
    BY <1>4, RevokeKeeps
<1>5. ASSUME NEW e \in ExternalIds,
             \/ PhoneWrites(e) \/ HookInbound(e)
             \/ \E status \in MessageStatus : Reports(e, status) \/ HookReport(e, status)
             \/ \E s \in Senders, emoji \in Emoji : Reacts(e, s, emoji)
      PROVE  MessagesInv'
    BY <1>5, OthersAnnounce, HookInboundKeeps, HookReportKeeps
<1>6. CASE MarkChatRead \/ DeleteChat
    BY <1>6, MarkChatReadKeeps, DeleteChatKeeps
<1>7. CASE UNCHANGED messageVars
  <2>1. UNCHANGED <<message, deletedChat, upserts, reports, reactions, messageJob, revoked,
                    lasts, raced, overtaken, reportsMade, asked>>
    BY <1>7 DEF messageVars, lasts
  <2>2. WhatsappMessagesTypeOK'
    BY <2>1 DEF MessagesInv, WhatsappMessagesTypeOK, lasts
  <2> QED BY <2>1, <2>2, NothingIsSaid
<1> QED BY <1>1, <1>2, <1>3, <1>4, <1>5, <1>6, <1>7 DEF WhatsappMessagesNext

(* MessagesInv is inductive: a row keeps to the reports, reactions and revocations of its  *)
(* message, and is its only one, at every step of the requests and of the webhooks.        *)
THEOREM MessagesInvHolds == WhatsappMessagesSpec => []MessagesInv
  BY MessagesInvInit, MessagesInvStep, PTL DEF WhatsappMessagesSpec

LEMMA WebhooksAreFollowed == MessagesInv => MessagesFollowWebhooks
<1> SUFFICES ASSUME MessagesInv PROVE OwnMessageOnce /\ LastWordHolds
    BY DEF MessagesFollowWebhooks
<1>1. \A x : IsFiniteSet(RowsOf(x))
  <2>1. IsFiniteSet(Rows) /\ \A x : RowsOf(x) \in SUBSET Rows
    BY WhatsappMessagesAssumption, FS_Interval DEF Rows, RowsOf, Stored
  <2> QED BY <2>1, FS_Subset
<1>2. ASSUME NEW e \in OwnIds, Cardinality(RowsOf(e)) > 1
      PROVE  e \in raced \/ RowsOf(e) \intersect deletedChat # {}
  <2>1. RowsOf(e) # {}
    BY <1>2, FS_EmptySet
  <2>2. PICK m : m \in RowsOf(e)
    BY <2>1
  <2>3. Cardinality({m}) = 1
    BY FS_Singleton
  <2>4. PICK n \in RowsOf(e) : n # m
    BY <1>2, <2>2, <2>3
  <2> QED BY <2>2, <2>4 DEF MessagesInv, RowIsAlone
<1>3. OwnMessageOnce
  <2>1. \A m \in deletedChat \intersect Stored : message[m].deleted
    BY DEF MessagesInv, RowLeavesWithChat, Stored
  <2> QED BY <1>2, <2>1 DEF OwnMessageOnce
<1>4. ASSUME NEW m \in Stored, NEW e, e = message[m].ext, e \notin overtaken \union raced,
             Working(e) = {}
      PROVE  /\ e \in OwnIds => message[m].status = lastReport[e]
             /\ Cardinality(RowsOf(e)) = 1 => message[m].reactions = lastReaction[e]
             /\ e \in revoked => message[m].deleted
  <2>1. m \in RowsOf(e) /\ RowFollows(m)
    BY <1>4 DEF MessagesInv, RowsOf
  <2>2. Cardinality(RowsOf(e)) = 1 => \A n \in RowsOf(e) : n = m
    <3>1. Cardinality(RowsOf(e)) = 1 => \E x : RowsOf(e) = {x}
      BY <1>1, FS_Singleton
    <3> QED BY <2>1, <3>1
  <2> QED BY <1>4, <2>1, <2>2 DEF RowFollows
<1>5. LastWordHolds
    BY <1>4 DEF LastWordHolds
<1> QED BY <1>3, <1>5

(* An own message is stored once and a row keeps the last word Evolution had on it, but   *)
(* for two who stored it at once, a webhook that found no row, and a row written from an   *)
(* old copy (whatsapp-evolution.service.ts, whatsapp.service.ts).                          *)
THEOREM MessagesAreTrue == WhatsappMessagesSpec => []MessagesFollowWebhooks
  BY MessagesInvHolds, WebhooksAreFollowed, PTL

-----------------------------------------------------------------------------
(* MediaCache.tla: bytes of sequences of entries. *)

BytesAt(s) == [i \in DOMAIN s |-> s[i].bytes]

LEMMA BytesAre ==
    ASSUME NEW s \in Seq(Entry)
    PROVE  /\ DOMAIN s = 1 .. Len(s) /\ Len(s) \in Nat /\ IsFiniteSet(1 .. Len(s))
           /\ BytesOf(s) = Total(BytesAt(s)) /\ BytesAt(s) \in [1 .. Len(s) -> Nat]
           /\ BytesOf(s) \in Nat
<1>1. PICK n : n = Len(s)
    OBVIOUS
<1>2. n \in Nat /\ DOMAIN s = 1 .. n /\ \A i \in 1 .. n : s[i] \in Entry
    BY <1>1
<1>3. IsFiniteSet(1 .. n)
  <2>1. 1 \in Int /\ n \in Int
    BY <1>2
  <2> QED BY ONLY <2>1, FS_Interval
<1>4. BytesAt(s) \in [1 .. n -> Nat]
    BY <1>2, MediaCacheAssumption DEF BytesAt, Entry
<1>5. DOMAIN BytesAt(s) = 1 .. n /\ \A i \in 1 .. n : BytesAt(s)[i] \in Nat
    BY <1>4
<1>6. Total(BytesAt(s)) \in Nat
    BY ONLY <1>3, <1>5, TotalIs
<1> QED BY <1>1, <1>2, <1>3, <1>4, <1>6 DEF BytesOf, BytesAt

LEMMA BytesJoin ==
    ASSUME NEW s \in Seq(Entry), NEW t \in Seq(Entry)
    PROVE  s \o t \in Seq(Entry) /\ BytesOf(s \o t) = BytesOf(s) + BytesOf(t)
<1>1. PICK r, n, m : r = s \o t /\ n = Len(s) /\ m = Len(t)
    OBVIOUS
<1>2. /\ r \in Seq(Entry) /\ Len(r) = n + m /\ n \in Nat /\ m \in Nat
      /\ \A i \in 1 .. n : r[i] = s[i]
      /\ \A i \in 1 .. m : r[n + i] = t[i]
    BY <1>1
<1>3. PICK f, D, E, g, h : /\ f = BytesAt(r) /\ D = 1 .. n /\ E = (n + 1) .. (n + m)
                           /\ g = [x \in D |-> f[x]] /\ h = [x \in E |-> f[x]]
    OBVIOUS
<1>4. f \in [1 .. (n + m) -> Nat] /\ IsFiniteSet(1 .. (n + m)) /\ BytesOf(r) = Total(f)
    BY <1>2, <1>3, BytesAre
<1>5. D \union E = 1 .. (n + m) /\ D \intersect E = {}
    BY <1>2, <1>3
<1>6. /\ IsFiniteSet(DOMAIN f) /\ \A x \in DOMAIN f : f[x] \in Nat
      /\ D \union E = DOMAIN f /\ g = [x \in D |-> f[x]] /\ h = [x \in E |-> f[x]]
    BY <1>3, <1>4, <1>5
<1>7. Total(f) = Total(g) + Total(h)
  <2>1. Total(f) = Total([x \in D |-> f[x]]) + Total([x \in E |-> f[x]])
    BY ONLY <1>5, <1>6, TotalSplits
  <2> QED BY ONLY <1>6, <2>1
<1>8. g = BytesAt(s)
    BY <1>1, <1>2, <1>3, <1>5 DEF BytesAt
<1>9. PICK to : to = [x \in E |-> x - n]
    OBVIOUS
<1>10. to \in Bijection(E, 1 .. m)
  <2>1. to \in [E -> 1 .. m] /\ \A x, y \in E : to[x] = to[y] => x = y
    BY <1>2, <1>3, <1>9
  <2>2. ASSUME NEW i \in 1 .. m PROVE \E x \in E : to[x] = i
    <3>1. n + i \in E /\ (n + i) - n = i
      BY <1>2, <1>3
    <3> QED BY <1>9, <3>1
  <2> QED BY <2>1, <2>2 DEF Bijection, Injection, IsInjective, Surjection
<1>11. PICK T, b : T = 1 .. m /\ b = BytesAt(t)
    OBVIOUS
<1>12. h = [x \in E |-> b[to[x]]]
  <2>1. ASSUME NEW x \in E PROVE f[x] = BytesAt(t)[to[x]]
    <3>0. n \in Nat /\ m \in Nat /\ x \in Int /\ n + 1 <= x /\ x <= n + m
      BY <1>2, <1>3
    <3>1. PICK i \in 1 .. m : i = x - n /\ x = n + i
      <4>1. x - n \in 1 .. m /\ x = n + (x - n)
        BY ONLY <3>0
      <4> QED BY ONLY <4>1
    <3>2. f[x] = r[x].bytes /\ DOMAIN t = 1 .. m
      BY <1>1, <1>2, <1>3, <1>5 DEF BytesAt
    <3> QED BY <1>2, <1>9, <3>1, <3>2 DEF BytesAt
  <2> QED BY <1>3, <1>11, <2>1
<1>13. b \in [T -> Nat] /\ IsFiniteSet(T) /\ BytesOf(t) = Total(b)
    BY <1>1, <1>11, BytesAre
<1>14. to \in Bijection(E, T)
    BY <1>10, <1>11
<1>15. Total(h) = Total(b)
    BY ONLY <1>12, <1>13, <1>14, TotalMoves
<1> QED BY <1>1, <1>2, <1>4, <1>7, <1>8, <1>13, <1>15, BytesAre

LEMMA BytesOfOne ==
    ASSUME NEW e \in Entry
    PROVE  <<e>> \in Seq(Entry) /\ BytesOf(<<e>>) = e.bytes
<1>1. PICK n \in Nat : n = e.bytes
    BY MediaCacheAssumption DEF Entry
<1>2. PICK f : f = BytesAt(<<e>>)
    OBVIOUS
<1>3. DOMAIN f = {1} /\ f[1] = n
    BY <1>1, <1>2 DEF BytesAt
<1>4. Under(f) = {1} \X (1 .. n)
    BY <1>3 DEF Under
<1>5. IsFiniteSet({1}) /\ Cardinality({1}) = 1
    BY FS_Singleton
<1>6. IsFiniteSet(1 .. n) /\ Cardinality(1 .. n) = n
  <2>1. 1 \in Int /\ n \in Int /\ (IF 1 > n THEN 0 ELSE n - 1 + 1) = n
    OBVIOUS
  <2> QED BY ONLY <2>1, FS_Interval
<1>7. Cardinality(Under(f)) = 1 * n
    BY ONLY <1>4, <1>5, <1>6, FS_Product
<1> QED BY <1>1, <1>2, <1>7 DEF BytesOf, BytesAt, Total

(* An entry taken out of a sequence leaves the others, in their order, and its bytes.      *)
LEMMA TakenOut ==
    ASSUME NEW s \in Seq(Entry), NEW i \in DOMAIN s, NEW r, r = RemoveAt(s, i)
    PROVE  /\ r \in Seq(Entry) /\ Len(r) = Len(s) - 1
           /\ \A j \in 1 .. Len(r) : r[j] = s[IF j < i THEN j ELSE j + 1]
           /\ BytesOf(s) = BytesOf(r) + s[i].bytes
<1>1. PICK n \in Nat : n = Len(s)
    OBVIOUS
<1>2. DOMAIN s = 1 .. n /\ i \in 1 .. n /\ \A j \in 1 .. n : s[j] \in Entry
    BY <1>1
<1>3. PICK a, b, c : a = SubSeq(s, 1, i - 1) /\ b = SubSeq(s, i + 1, n) /\ c = SubSeq(s, i, n)
    OBVIOUS
<1>4. /\ a \in Seq(Entry) /\ Len(a) = i - 1 /\ \A j \in 1 .. i - 1 : a[j] = s[j]
  <2>1. 1 \in Int /\ i - 1 \in Int /\ \A j \in 1 .. i - 1 : s[j] \in Entry
    BY <1>2
  <2>2. /\ a \in Seq(Entry) /\ Len(a) = IF 1 <= i - 1 THEN i - 1 - 1 + 1 ELSE 0
        /\ \A j \in 1 .. i - 1 - 1 + 1 : a[j] = s[1 + j - 1]
    BY ONLY <1>3, <2>1, SubSeqProperties
  <2> QED BY <1>2, <2>2
<1>5. /\ b \in Seq(Entry) /\ Len(b) = n - i /\ \A j \in 1 .. n - i : b[j] = s[i + j]
  <2>1. i + 1 \in Int /\ n \in Int /\ \A j \in i + 1 .. n : s[j] \in Entry
    BY <1>2
  <2>2. /\ b \in Seq(Entry) /\ Len(b) = IF i + 1 <= n THEN n - (i + 1) + 1 ELSE 0
        /\ \A j \in 1 .. n - (i + 1) + 1 : b[j] = s[i + 1 + j - 1]
    BY ONLY <1>3, <2>1, SubSeqProperties, SMTT(40)
  <2>3. n - (i + 1) + 1 = n - i /\ \A j \in 1 .. n - i : i + 1 + j - 1 = i + j
    BY <1>2
  <2>4. (IF i + 1 <= n THEN n - (i + 1) + 1 ELSE 0) = n - i
    BY <1>2
  <2> QED BY ONLY <2>2, <2>3, <2>4
<1>6. r = a \o b
    BY <1>1, <1>3 DEF RemoveAt
<1>7. r \in Seq(Entry) /\ Len(r) = n - 1
  <2>1. r \in Seq(Entry) /\ Len(r) = Len(a) + Len(b)
    BY ONLY <1>4, <1>5, <1>6, ConcatProperties
  <2>2. (i - 1) + (n - i) = n - 1
    BY <1>2
  <2> QED BY ONLY <1>4, <1>5, <2>1, <2>2
<1>8. \A j \in 1 .. n - 1 : r[j] = s[IF j < i THEN j ELSE j + 1]
  <2>1. ASSUME NEW j \in 1 .. n - 1 PROVE r[j] = s[IF j < i THEN j ELSE j + 1]
    <3>1. r[j] = IF j <= i - 1 THEN a[j] ELSE b[j - (i - 1)]
      BY <1>2, <1>4, <1>5, <1>6
    <3>2. CASE j < i
      BY <1>2, <1>4, <3>1, <3>2
    <3>3. CASE ~(j < i)
      <4>1. j - (i - 1) \in 1 .. n - i /\ i + (j - (i - 1)) = j + 1
        BY <1>2, <3>3
      <4> QED BY <1>2, <1>5, <3>1, <3>3, <4>1
    <3> QED BY <3>2, <3>3
  <2> QED BY <2>1
<1>9. s = a \o c /\ c = <<s[i]>> \o b
  <2>1. 1 \in 1 .. n + 1 /\ i - 1 \in 1 - 1 .. n /\ n \in i - 1 .. n /\ i - 1 + 1 = i
        /\ n \in i .. n
    BY <1>2
  <2>2. SubSeq(s, 1, i - 1) \o SubSeq(s, i - 1 + 1, n) = SubSeq(s, 1, n)
    BY ONLY <1>1, <2>1, ConcatAdjacentSubSeq, s \in Seq(Entry)
  <2>3. SubSeq(s, 1, n) = s
    BY <1>1, SubSeqFull
  <2>4. SubSeq(s, i, n) = <<s[i]>> \o SubSeq(s, i + 1, n)
    BY ONLY <1>1, <1>2, <2>1, SubSeqRecursiveFirst, s \in Seq(Entry)
  <2> QED BY ONLY <1>3, <2>1, <2>2, <2>3, <2>4
<1>10. s[i] \in Entry
    BY <1>2
<1>11. <<s[i]>> \in Seq(Entry) /\ BytesOf(<<s[i]>>) = s[i].bytes
    BY ONLY <1>10, BytesOfOne
<1>12. c \in Seq(Entry) /\ BytesOf(c) = s[i].bytes + BytesOf(b)
    BY ONLY <1>5, <1>9, <1>11, BytesJoin
<1>13. BytesOf(s) = BytesOf(a) + BytesOf(c) /\ BytesOf(r) = BytesOf(a) + BytesOf(b)
    BY ONLY <1>4, <1>5, <1>6, <1>9, <1>12, BytesJoin
<1>14. BytesOf(a) \in Nat /\ BytesOf(b) \in Nat
    BY ONLY <1>4, <1>5, BytesAre
<1>15. PICK x \in Nat : x = s[i].bytes
    BY <1>10, MediaCacheAssumption DEF Entry
<1>16. BytesOf(s) = BytesOf(r) + s[i].bytes
    BY ONLY <1>12, <1>13, <1>14, <1>15
<1> QED BY <1>1, <1>7, <1>8, <1>16

(* The sequence begins with the one that was used longest ago. *)
InOrder(s, used) == \A i, j \in DOMAIN s : i < j => used[s[i].key] < used[s[j].key]

LEMMA MediaTypes ==
    ASSUME MediaInv
    PROVE  /\ mediaCache \in Seq(Entry) /\ mediaCacheBytes = BytesOf(mediaCache)
           /\ mediaCacheBytes \in Nat /\ mediaCacheBytes <= MaxBytes /\ MaxBytes \in Nat
           /\ InOrder(mediaCache, lastUse) /\ lastUse \in [MediaKeys -> Nat] /\ uses \in Nat
           /\ \A i, j \in DOMAIN mediaCache : mediaCache[i].key = mediaCache[j].key => i = j
           /\ \A i \in DOMAIN mediaCache : /\ mediaCache[i] \in Entry
                                           /\ mediaCache[i].key \in MediaKeys
<1>1. /\ mediaCache \in Seq(Entry) /\ mediaCacheBytes = BytesOf(mediaCache)
      /\ mediaCacheBytes <= MaxBytes /\ InOrder(mediaCache, lastUse)
    BY DEF MediaInv, MediaCacheTypeOK, MediaCacheAccounted, InOrder
<1>2. MaxUses \in Nat /\ MaxBytes \in Nat
    BY MediaCacheAssumption
<1>3. lastUse \in [MediaKeys -> Nat] /\ uses \in Nat
    BY <1>2 DEF MediaInv, MediaCacheTypeOK
<1>4. \A i \in DOMAIN mediaCache : /\ mediaCache[i] \in Entry /\ i \in Nat
                                   /\ mediaCache[i].key \in MediaKeys
  <2>1. \A i \in DOMAIN mediaCache : mediaCache[i] \in Entry /\ i \in Nat
    BY ONLY <1>1, BytesAre
  <2> QED BY <2>1 DEF Entry
<1>5. ASSUME NEW i \in DOMAIN mediaCache, NEW j \in DOMAIN mediaCache,
             mediaCache[i].key = mediaCache[j].key
      PROVE  i = j
  <2>1. i \in Nat /\ j \in Nat /\ lastUse[mediaCache[i].key] \in Nat
    BY <1>3, <1>4
  <2>2. ~(i < j) /\ ~(j < i)
    BY <1>1, <1>5, <2>1 DEF InOrder
  <2> QED BY <2>1, <2>2
<1> QED BY <1>1, <1>2, <1>3, <1>4, <1>5, BytesAre

(* What is left without the entry of a key. *)
LEMMA WithoutIs ==
    ASSUME MediaInv, NEW k \in MediaKeys
    PROVE  /\ Without(k) \in Seq(Entry) /\ InOrder(Without(k), lastUse)
           /\ \A i \in DOMAIN Without(k) : Without(k)[i].key # k
           /\ Replaced(k) \in Nat
           /\ mediaCacheBytes = BytesOf(Without(k)) + Replaced(k)
           /\ Cached(k) => EntryOf(k) \in Entry /\ EntryOf(k).key = k
<1>1. PICK w, s : w = Without(k) /\ s = mediaCache
    OBVIOUS
<1>2. s \in Seq(Entry) /\ mediaCacheBytes = BytesOf(s) /\ BytesOf(s) \in Nat
    BY <1>1, MediaTypes
<1>3. CASE ~Cached(k)
  <2>1. w = s /\ Replaced(k) = 0
    BY <1>1, <1>3 DEF Without, Replaced
  <2>2. \A i \in DOMAIN s : s[i].key # k
    BY <1>1, <1>3 DEF Cached
  <2> QED BY <1>1, <1>2, <1>3, <2>1, <2>2, MediaTypes
<1>4. CASE Cached(k)
  <2>1. PICK i : i = PlaceOf(k)
    OBVIOUS
  <2>2. i \in DOMAIN s /\ s[i].key = k /\ s[i] \in Entry
    BY <1>1, <1>2, <1>4, <2>1 DEF Cached, PlaceOf
  <2>3. w = RemoveAt(s, i) /\ EntryOf(k) = s[i] /\ Replaced(k) = s[i].bytes
    BY <1>1, <1>4, <2>1 DEF Without, Replaced, EntryOf
  <2>4. PICK n \in Nat : n = Len(s)
    BY <1>2
  <2>5. DOMAIN s = 1 .. n /\ i \in 1 .. n
    BY <1>2, <2>2, <2>4
  <2>6. /\ w \in Seq(Entry) /\ Len(w) = n - 1 /\ BytesOf(s) = BytesOf(w) + s[i].bytes
        /\ \A j \in 1 .. n - 1 : w[j] = s[IF j < i THEN j ELSE j + 1]
    <3>1. /\ w \in Seq(Entry) /\ Len(w) = Len(s) - 1 /\ BytesOf(s) = BytesOf(w) + s[i].bytes
          /\ \A j \in 1 .. Len(w) : w[j] = s[IF j < i THEN j ELSE j + 1]
      BY ONLY <1>2, <2>2, <2>3, TakenOut
    <3> QED BY ONLY <2>4, <3>1
  <2>7. DOMAIN w = 1 .. n - 1
    BY <2>6
  <2>8. PICK p : p = [j \in 1 .. n - 1 |-> IF j < i THEN j ELSE j + 1]
    OBVIOUS
  <2>9. /\ \A j \in 1 .. n - 1 : p[j] \in 1 .. n /\ p[j] # i /\ w[j] = s[p[j]]
        /\ \A j, l \in 1 .. n - 1 : j < l => p[j] < p[l]
    BY <2>5, <2>6, <2>8
  <2>10. \A j \in DOMAIN w : w[j].key # k
    BY <1>1, <2>2, <2>5, <2>7, <2>9, MediaTypes
  <2>11. InOrder(s, lastUse)
    BY <1>1, MediaTypes
  <2>12. InOrder(w, lastUse)
    BY <2>5, <2>7, <2>9, <2>11 DEF InOrder
  <2>13. s[i].bytes \in Nat
    BY <2>2, MediaCacheAssumption DEF Entry
  <2> QED BY <1>1, <1>2, <2>2, <2>3, <2>6, <2>10, <2>12, <2>13
<1> QED BY <1>3, <1>4

(* An entry that is used now comes last. *)
LEMMA LastUsed ==
    ASSUME MediaInv, NEW k \in MediaKeys, Uses(k), NEW e \in Entry, e.key = k,
           NEW r, r = Append(Without(k), e)
    PROVE  /\ r \in Seq(Entry) /\ InOrder(r, lastUse')
           /\ BytesOf(r) = mediaCacheBytes - Replaced(k) + e.bytes
           /\ lastUse' \in [MediaKeys -> 0 .. MaxUses] /\ uses' \in 0 .. MaxUses
           /\ \A l \in MediaKeys : lastUse'[l] <= uses'
<1>1. PICK w : w = Without(k)
    OBVIOUS
<1>2. w \in Seq(Entry) /\ InOrder(w, lastUse) /\ \A i \in DOMAIN w : w[i].key # k
    BY <1>1, WithoutIs
<1>3. PICK n \in Nat : n = Len(w)
    BY <1>2
<1>4. /\ r \in Seq(Entry) /\ DOMAIN r = 1 .. n + 1 /\ r[n + 1] = e /\ DOMAIN w = 1 .. n
      /\ \A i \in 1 .. n : r[i] = w[i] /\ w[i] \in Entry
    BY <1>1, <1>2, <1>3
<1>5. MaxUses \in Nat
    BY MediaCacheAssumption
<1>6. /\ lastUse \in [MediaKeys -> 0 .. MaxUses] /\ uses \in 0 .. MaxUses
      /\ \A l \in MediaKeys : lastUse[l] <= uses
    BY DEF MediaInv, MediaCacheTypeOK
<1>7. /\ uses' = uses + 1 /\ uses' \in 0 .. MaxUses
      /\ lastUse' = [lastUse EXCEPT ![k] = uses + 1]
    BY <1>5, <1>6 DEF Uses
<1>8. /\ lastUse' \in [MediaKeys -> 0 .. MaxUses] /\ lastUse'[k] = uses + 1
      /\ \A l \in MediaKeys : /\ lastUse'[l] <= uses' /\ lastUse[l] < uses + 1
                              /\ l # k => lastUse'[l] = lastUse[l]
    BY <1>5, <1>6, <1>7
<1>9. \A i \in 1 .. n : w[i].key \in MediaKeys \ {k}
    BY <1>2, <1>4 DEF Entry
<1>10. ASSUME NEW i \in DOMAIN r, NEW j \in DOMAIN r, i < j
       PROVE  lastUse'[r[i].key] < lastUse'[r[j].key]
  <2>1. i \in 1 .. n /\ (j \in 1 .. n \/ j = n + 1)
    BY <1>4, <1>10
  <2>2. lastUse'[r[i].key] = lastUse[w[i].key] /\ w[i].key \in MediaKeys
    BY <1>4, <1>8, <1>9, <2>1
  <2>3. CASE j = n + 1
    BY <1>4, <1>8, <2>2, <2>3
  <2>4. CASE j \in 1 .. n
    <3>1. lastUse'[r[j].key] = lastUse[w[j].key]
      BY <1>4, <1>8, <1>9, <2>4
    <3> QED BY <1>2, <1>4, <1>10, <2>1, <2>2, <2>4, <3>1 DEF InOrder
  <2> QED BY <2>1, <2>3, <2>4
<1>11. BytesOf(r) = mediaCacheBytes - Replaced(k) + e.bytes
  <2>1. r = w \o <<e>> /\ <<e>> \in Seq(Entry)
    BY <1>1, <1>2, AppendIsConcat
  <2>2. BytesOf(r) = BytesOf(w) + e.bytes
    BY ONLY <1>2, <2>1, e \in Entry, BytesJoin, BytesOfOne
  <2>3. BytesOf(w) \in Nat /\ e.bytes \in Nat
    BY <1>2, BytesAre, MediaCacheAssumption DEF Entry
  <2>4. mediaCacheBytes = BytesOf(w) + Replaced(k) /\ Replaced(k) \in Nat
    BY <1>1, WithoutIs
  <2> QED BY ONLY <2>2, <2>3, <2>4
<1> QED BY <1>4, <1>7, <1>8, <1>10, <1>11 DEF InOrder

(* The least recently used are evicted until the others fit. *)
LEMMA EvictsOldest ==
    ASSUME NEW entries \in Seq(Entry), NEW used, InOrder(entries, used)
    PROVE  \E evicted, rest :
              /\ evicted = Evicted(entries, BytesOf(entries))
              /\ rest = SubSeq(entries, evicted + 1, Len(entries))
              /\ rest \in Seq(Entry) /\ InOrder(rest, used) /\ BytesOf(rest) <= MaxBytes
              /\ BytesOf(entries) - BytesOf(SubSeq(entries, 1, evicted)) = BytesOf(rest)
<1> SUFFICES ASSUME NEW counted, counted = BytesOf(entries),
                    NEW evicted, evicted = Evicted(entries, counted),
                    NEW rest, rest = SubSeq(entries, evicted + 1, Len(entries))
             PROVE  /\ rest \in Seq(Entry) /\ InOrder(rest, used) /\ BytesOf(rest) <= MaxBytes
                    /\ counted - BytesOf(SubSeq(entries, 1, evicted)) = BytesOf(rest)
    BY ZenonT(40)
<1>1. PICK n \in Nat : n = Len(entries)
    OBVIOUS
<1>2. DOMAIN entries = 1 .. n /\ \A i \in 1 .. n : entries[i] \in Entry
    BY <1>1
<1>3. PICK F : F = [m \in 0 .. n |-> counted - BytesOf(SubSeq(entries, 1, m))]
    OBVIOUS
<1>4. ASSUME NEW m \in 0 .. n
      PROVE  /\ SubSeq(entries, 1, m) \in Seq(Entry)
             /\ SubSeq(entries, m + 1, n) \in Seq(Entry)
             /\ Len(SubSeq(entries, m + 1, n)) = n - m
             /\ \A i \in 1 .. n - m : SubSeq(entries, m + 1, n)[i] = entries[m + i]
             /\ F[m] = BytesOf(SubSeq(entries, m + 1, n)) /\ F[m] \in Nat
  <2>1. PICK a, b : a = SubSeq(entries, 1, m) /\ b = SubSeq(entries, m + 1, n)
    OBVIOUS
  <2>2. a \in Seq(Entry)
    <3>1. 1 \in Int /\ m \in Int /\ \A i \in 1 .. m : entries[i] \in Entry
      BY <1>2
    <3> QED BY ONLY <2>1, <3>1, SubSeqProperties
  <2>3. b \in Seq(Entry) /\ Len(b) = n - m /\ \A i \in 1 .. n - m : b[i] = entries[m + i]
    <3>1. m + 1 \in Int /\ n \in Int /\ \A i \in m + 1 .. n : entries[i] \in Entry
      BY <1>2
    <3>2. /\ b \in Seq(Entry) /\ Len(b) = IF m + 1 <= n THEN n - (m + 1) + 1 ELSE 0
          /\ \A i \in 1 .. n - (m + 1) + 1 : b[i] = entries[m + 1 + i - 1]
      BY ONLY <2>1, <3>1, SubSeqProperties
    <3>3. n - (m + 1) + 1 = n - m /\ \A i \in 1 .. n - m : m + 1 + i - 1 = m + i
      OBVIOUS
    <3>4. (IF m + 1 <= n THEN n - (m + 1) + 1 ELSE 0) = n - m
      OBVIOUS
    <3> QED BY ONLY <3>2, <3>3, <3>4
  <2>4. a \o b = entries
    <3>1. 1 \in 1 .. n + 1 /\ m \in 1 - 1 .. n /\ n \in m .. n
      OBVIOUS
    <3>2. a \o b = SubSeq(entries, 1, n)
      BY ONLY <1>1, <2>1, <3>1, entries \in Seq(Entry), ConcatAdjacentSubSeq
    <3> QED BY <1>1, <3>2, SubSeqFull
  <2>5. counted = BytesOf(a) + BytesOf(b) /\ BytesOf(a) \in Nat /\ BytesOf(b) \in Nat
    <3>1. BytesOf(a \o b) = BytesOf(a) + BytesOf(b)
      BY ONLY <2>2, <2>3, BytesJoin
    <3> QED BY <2>2, <2>3, <2>4, <3>1, BytesAre
  <2>6. F[m] = counted - BytesOf(a)
    BY <1>3, <2>1
  <2>7. F[m] = BytesOf(b) /\ F[m] \in Nat
    BY ONLY <2>5, <2>6
  <2> QED BY <2>1, <2>2, <2>3, <2>7
<1>5. PICK fits : fits = {m \in 0 .. n : F[m] <= MaxBytes \/ m = n}
    OBVIOUS
<1>6. PICK e \in 0 .. n : /\ F[e] <= MaxBytes \/ e = n
                          /\ \A m \in 0 .. e - 1 : F[m] > MaxBytes
  <2>1. fits \in SUBSET Nat /\ n \in fits
    BY <1>1, <1>5
  <2>2. PICK e \in fits : \A m \in fits : ~(m < e)
    BY ONLY <2>1, LeastNumber
  <2>3. ASSUME NEW m \in 0 .. e - 1 PROVE F[m] > MaxBytes
    <3>1. m \in 0 .. n /\ m < e /\ F[m] \in Nat
      BY <1>4, <1>5, <2>2
    <3>2. ~(F[m] <= MaxBytes)
      BY <1>5, <2>2, <3>1
    <3> QED BY <3>1, <3>2, MediaCacheAssumption
  <2> QED BY <1>5, <2>2, <2>3
<1>7. evicted \in 0 .. n /\ (F[evicted] <= MaxBytes \/ evicted = n)
  <2>1. evicted = (CHOOSE m \in 0 .. n : /\ F[m] <= MaxBytes \/ m = n
                                         /\ \A l \in 0 .. m - 1 : F[l] > MaxBytes)
    <3>1. ASSUME NEW m \in 0 .. n
          PROVE  /\ F[m] = counted - BytesOf(SubSeq(entries, 1, m))
                 /\ \A l \in 0 .. m - 1 : F[l] = counted - BytesOf(SubSeq(entries, 1, l))
      BY <1>3
    <3> QED BY <1>1, <3>1 DEF Evicted
  <2> QED BY ONLY <1>6, <2>1
<1>8. /\ rest \in Seq(Entry) /\ Len(rest) = n - evicted
      /\ \A i \in 1 .. n - evicted : rest[i] = entries[evicted + i]
      /\ F[evicted] = BytesOf(rest)
  <2>1. rest = SubSeq(entries, evicted + 1, n)
    BY <1>1
  <2> QED BY ONLY <1>4, <1>7, <2>1
<1>9. BytesOf(rest) <= MaxBytes
  <2>1. CASE evicted = n
    <3>1. MaxBytes \in Nat /\ n - n = 0
      BY MediaCacheAssumption
    <3>2. Len(rest) = 0
      BY <1>8, <2>1, <3>1
    <3>3. DOMAIN BytesAt(rest) = {}
      BY ONLY <1>8, <3>2, BytesAre DEF BytesAt
    <3>4. Under(BytesAt(rest)) = {}
      BY <3>3 DEF Under
    <3>5. BytesOf(rest) = 0
      BY <3>4, FS_EmptySet DEF BytesOf, BytesAt, Total
    <3> QED BY <3>1, <3>5
  <2> QED BY <1>7, <1>8, <2>1
<1>10. InOrder(rest, used)
  <2>1. DOMAIN rest = 1 .. n - evicted
    BY <1>8
  <2>2. ASSUME NEW i \in DOMAIN rest, NEW j \in DOMAIN rest, i < j
        PROVE  used[rest[i].key] < used[rest[j].key]
    <3>1. evicted + i \in 1 .. n /\ evicted + j \in 1 .. n /\ evicted + i < evicted + j
      BY <1>7, <2>1, <2>2, SMTT(40)
    <3>2. rest[i] = entries[evicted + i] /\ rest[j] = entries[evicted + j]
      BY ONLY <1>8, <2>1, <2>2
    <3>3. used[entries[evicted + i].key] < used[entries[evicted + j].key]
      BY <1>2, <3>1 DEF InOrder
    <3> QED BY ONLY <3>2, <3>3
  <2> QED BY <2>2 DEF InOrder
<1>11. F[evicted] = counted - BytesOf(SubSeq(entries, 1, evicted))
    BY <1>3, <1>7
<1> QED BY <1>8, <1>9, <1>10, <1>11

LEMMA WritesKeepMedia ==
    ASSUME MediaInv, NEW k \in MediaKeys, NEW size \in Sizes, Write(k, size),
           now' = now, fetching' \in [MediaKeys -> 0 .. 2]
    PROVE  MediaInv'
<1>1. CASE size > MaxBytes
    BY <1>1 DEF Write, MediaInv, MediaCacheTypeOK, MediaCacheAccounted
<1>2. CASE ~(size > MaxBytes)
  <2>1. PICK e : e = [key |-> k, bytes |-> size, expiresAt |-> now + TTL]
    OBVIOUS
  <2>2. e \in Entry /\ e.key = k /\ e.bytes = size
    <3>1. now + TTL \in 0 .. MaxTime + TTL
      BY MediaCacheAssumption DEF MediaInv, MediaCacheTypeOK
    <3> QED BY <2>1, <3>1 DEF Entry
  <2>3. PICK entries, counted, evicted :
           /\ entries = Append(Without(k), e) /\ counted = mediaCacheBytes - Replaced(k) + size
           /\ evicted = Evicted(entries, counted)
    OBVIOUS
  <2>4. /\ mediaCache' = SubSeq(entries, evicted + 1, Len(entries))
        /\ mediaCacheBytes' = counted - BytesOf(SubSeq(entries, 1, evicted))
        /\ Uses(k)
    BY <1>2, <2>1, <2>3 DEF Write
  <2>5. /\ entries \in Seq(Entry) /\ InOrder(entries, lastUse') /\ BytesOf(entries) = counted
        /\ lastUse' \in [MediaKeys -> 0 .. MaxUses] /\ uses' \in 0 .. MaxUses
        /\ \A l \in MediaKeys : lastUse'[l] <= uses'
    BY <2>2, <2>3, <2>4, LastUsed
  <2>6. PICK rest, used : rest = SubSeq(entries, evicted + 1, Len(entries)) /\ used = lastUse'
    OBVIOUS
  <2>7. /\ rest \in Seq(Entry) /\ InOrder(rest, used) /\ BytesOf(rest) <= MaxBytes
        /\ counted - BytesOf(SubSeq(entries, 1, evicted)) = BytesOf(rest)
    <3>1. entries \in Seq(Entry) /\ InOrder(entries, used)
      BY <2>5, <2>6
    <3>2. \E n, r : /\ n = Evicted(entries, BytesOf(entries))
                    /\ r = SubSeq(entries, n + 1, Len(entries))
                    /\ r \in Seq(Entry) /\ InOrder(r, used) /\ BytesOf(r) <= MaxBytes
                    /\ BytesOf(entries) - BytesOf(SubSeq(entries, 1, n)) = BytesOf(r)
      BY ONLY <3>1, EvictsOldest
    <3> QED BY <2>3, <2>5, <2>6, <3>2
  <2>8. mediaCache' = rest /\ mediaCacheBytes' = BytesOf(rest) /\ BytesOf(rest) \in Int
    BY <2>4, <2>6, <2>7, BytesAre
  <2>9. MediaCacheAccounted'
    BY <2>6, <2>7, <2>8 DEF MediaCacheAccounted, InOrder
  <2>10. MediaCacheTypeOK'
    BY <2>5, <2>7, <2>8 DEF MediaInv, MediaCacheTypeOK
  <2> QED BY <2>5, <2>9, <2>10 DEF MediaInv
<1> QED BY <1>1, <1>2

LEMMA HitKeepsMedia ==
    ASSUME MediaInv, NEW k \in MediaKeys, Hit(k)
    PROVE  MediaInv'
<1>1. PICK e : e = EntryOf(k)
    OBVIOUS
<1>2. /\ e \in Entry /\ e.key = k /\ e.bytes = Replaced(k) /\ Replaced(k) \in Nat
      /\ mediaCache' = Append(Without(k), e) /\ Uses(k)
      /\ UNCHANGED <<mediaCacheBytes, now, fetching>>
    BY <1>1, WithoutIs DEF Hit, Replaced
<1>3. PICK r : r = Append(Without(k), e)
    OBVIOUS
<1>4. /\ r \in Seq(Entry) /\ InOrder(r, lastUse')
      /\ BytesOf(r) = mediaCacheBytes - Replaced(k) + e.bytes
      /\ lastUse' \in [MediaKeys -> 0 .. MaxUses] /\ uses' \in 0 .. MaxUses
      /\ \A l \in MediaKeys : lastUse'[l] <= uses'
    BY <1>2, <1>3, LastUsed
<1>5. mediaCacheBytes \in Nat
    BY MediaTypes
<1>6. mediaCacheBytes' = BytesOf(r) /\ mediaCache' = r
    BY ONLY <1>2, <1>3, <1>4, <1>5
<1>7. MediaCacheAccounted'
    BY <1>2, <1>4, <1>6 DEF MediaInv, MediaCacheAccounted, InOrder
<1>8. MediaCacheTypeOK'
    BY <1>2, <1>4, <1>6 DEF MediaInv, MediaCacheTypeOK
<1> QED BY <1>4, <1>7, <1>8 DEF MediaInv

LEMMA MissKeepsMedia ==
    ASSUME MediaInv, NEW k \in MediaKeys, Miss(k)
    PROVE  MediaInv'
<1>1. PICK w : w = Without(k)
    OBVIOUS
<1>2. /\ w \in Seq(Entry) /\ InOrder(w, lastUse) /\ Replaced(k) \in Nat
      /\ mediaCacheBytes = BytesOf(w) + Replaced(k) /\ BytesOf(w) \in Nat
    BY <1>1, WithoutIs, BytesAre
<1>3. mediaCache' = w /\ mediaCacheBytes' = mediaCacheBytes - Replaced(k)
      /\ UNCHANGED <<now, lastUse, uses>>
    BY <1>1 DEF Miss, Replaced
<1>4. mediaCacheBytes' = BytesOf(w) /\ mediaCacheBytes' <= MaxBytes
  <2>1. mediaCacheBytes <= MaxBytes /\ MaxBytes \in Nat
    BY MediaTypes
  <2> QED BY ONLY <1>2, <1>3, <2>1
<1>5. fetching' \in [MediaKeys -> 0 .. 2]
  <2>1. fetching \in [MediaKeys -> 0 .. 2]
    BY DEF MediaInv, MediaCacheTypeOK
  <2>2. fetching[k] + 1 \in 0 .. 2 /\ fetching' = [fetching EXCEPT ![k] = fetching[k] + 1]
    BY <2>1 DEF Miss
  <2> QED BY ONLY <2>1, <2>2
<1>6. MediaCacheAccounted'
    BY <1>2, <1>3, <1>4 DEF MediaCacheAccounted, InOrder
<1>7. MediaCacheTypeOK'
    BY <1>2, <1>3, <1>4, <1>5 DEF MediaInv, MediaCacheTypeOK
<1> QED BY <1>3, <1>6, <1>7 DEF MediaInv

LEMMA EmptyCache == BytesOf(<<>>) = 0 /\ <<>> \in Seq(Entry) /\ DOMAIN <<>> = {}
<1>1. DOMAIN BytesAt(<<>>) = {}
    BY DEF BytesAt
<1>2. Under(BytesAt(<<>>)) = {}
    BY <1>1 DEF Under
<1>3. Cardinality({}) = 0
    BY FS_EmptySet
<1>4. BytesOf(<<>>) = 0
    BY <1>2, <1>3 DEF BytesOf, BytesAt, Total
<1> QED BY <1>4

LEMMA MediaStarts == MediaCacheInit => MediaInv
<1> SUFFICES ASSUME MediaCacheInit PROVE MediaInv
    OBVIOUS
<1>1. MaxBytes \in Nat /\ MaxTime \in Nat /\ MaxUses \in Nat
    BY MediaCacheAssumption
<1> QED BY <1>1, EmptyCache DEF MediaCacheInit, MediaInv, MediaCacheTypeOK, MediaCacheAccounted

LEMMA MediaSteps ==
    ASSUME MediaInv, [MediaCacheNext]_mediaVars
    PROVE  MediaInv'
<1>1. CASE Tick \/ UNCHANGED mediaVars
  <2>1. now' \in 0 .. MaxTime
    BY <1>1, MediaCacheAssumption DEF Tick, mediaVars, MediaInv, MediaCacheTypeOK
  <2>2. UNCHANGED <<mediaCache, mediaCacheBytes, fetching, lastUse, uses>>
    BY <1>1 DEF Tick, mediaVars
  <2> QED BY <2>1, <2>2 DEF MediaInv, MediaCacheTypeOK, MediaCacheAccounted
<1>2. CASE ClearMedia
  <2>1. fetching' \in [MediaKeys -> 0 .. 2] /\ MaxBytes \in Nat
    BY <1>2, MediaCacheAssumption DEF ClearMedia
  <2> QED BY <1>2, <2>1, EmptyCache
          DEF ClearMedia, MediaInv, MediaCacheTypeOK, MediaCacheAccounted
<1>3. ASSUME NEW k \in MediaKeys, Fetched(k) PROVE MediaInv'
  <2>1. fetching' \in [MediaKeys -> 0 .. 2] /\ now' = now
    <3>1. fetching \in [MediaKeys -> 0 .. 2]
      BY DEF MediaInv, MediaCacheTypeOK
    <3>2. fetching[k] - 1 \in 0 .. 2 /\ fetching' = [fetching EXCEPT ![k] = fetching[k] - 1]
      BY <1>3, <3>1 DEF Fetched
    <3>3. now' = now
      BY <1>3 DEF Fetched
    <3> QED BY ONLY <3>1, <3>2, <3>3
  <2>2. CASE \E size \in Sizes : Write(k, size)
    BY <2>1, <2>2, WritesKeepMedia
  <2>3. CASE UNCHANGED <<mediaCache, mediaCacheBytes, lastUse, uses>>
    BY <2>1, <2>3 DEF MediaInv, MediaCacheTypeOK, MediaCacheAccounted
  <2> QED BY <1>3, <2>2, <2>3 DEF Fetched
<1>4. ASSUME NEW k \in MediaKeys, Inline(k) PROVE MediaInv'
  <2>1. fetching' \in [MediaKeys -> 0 .. 2] /\ now' = now
    BY <1>4 DEF Inline, MediaInv, MediaCacheTypeOK
  <2> QED BY <1>4, <2>1, WritesKeepMedia DEF Inline
<1> QED BY <1>1, <1>2, <1>3, <1>4, HitKeepsMedia, MissKeepsMedia DEF MediaCacheNext

(* The counter of the cache is the sum of its entries and within the budget, and the       *)
(* least recently used is the next to go (MediaCacheAccounted), for any keys, sizes,       *)
(* budget and calls at work (writeMediaCache in whatsapp-evolution.service.ts).            *)
THEOREM MediaIsAccounted == MediaCacheSpec => []MediaCacheAccounted
<1>1. MediaInv => MediaCacheAccounted
    BY DEF MediaInv
<1>2. MediaInv /\ [MediaCacheNext]_mediaVars => MediaInv'
    BY MediaSteps
<1> QED BY <1>1, <1>2, MediaStarts, PTL DEF MediaCacheSpec

-----------------------------------------------------------------------------
(* WhatsappFigures.tla: messages, and the last of some of them. *)

LEMMA FigureTypes ==
    ASSUME FiguresTypeOK
    PROVE  /\ MaxMessages \in Nat /\ MaxDay \in Nat /\ PageLimit \in Nat \ {0}
           /\ TopContacts \in Nat \ {0} /\ stored \in Nat /\ stored <= MaxMessages
           /\ \A m \in log : /\ m \in Message /\ m.id \in 1 .. MaxMessages /\ m.id \in Nat
                             /\ m.chat \in Chats /\ m.chat[1] \in Lines /\ m.chat[2] \in Phones
                             /\ m.day \in Days
           /\ view \in View /\ report \in Report /\ view.page \in Nat
           /\ \A r \in view.rows : /\ r \in ViewRow /\ r.chat \in Chats /\ r.page \in Nat
                                   /\ r.at \in Nat /\ r.last \in Nat
<1>1. MaxMessages \in Nat /\ MaxDay \in Nat /\ PageLimit \in Nat \ {0} /\ TopContacts \in Nat \ {0}
    BY WhatsappFiguresAssumption
<1>2. stored \in Nat /\ stored <= MaxMessages
    BY <1>1 DEF FiguresTypeOK
<1>3. ASSUME NEW m \in log
      PROVE  /\ m \in Message /\ m.id \in 1 .. MaxMessages /\ m.id \in Nat
             /\ m.chat \in Chats /\ m.day \in Days
    BY <1>1 DEF FiguresTypeOK, Message
<1>4. \A m \in log : m.chat[1] \in Lines /\ m.chat[2] \in Phones
    BY <1>3 DEF Chats
<1>5. view \in View /\ report \in Report
    BY DEF FiguresTypeOK
<1>6. view.page \in Nat /\ view.rows \in SUBSET ViewRow
    BY <1>5 DEF View
<1>7. \A r \in view.rows : /\ r \in ViewRow /\ r.chat \in Chats /\ r.page \in Nat
                           /\ r.at \in Nat /\ r.last \in Nat
    BY <1>6 DEF ViewRow
<1> QED BY <1>1, <1>2, <1>3, <1>4, <1>5, <1>6, <1>7

LEMMA LogIsFinite ==
    ASSUME FiguresTypeOK, LogKnown
    PROVE  IsFiniteSet(log) /\ Cardinality(log) \in 0 .. MaxMessages
<1>1. PICK number : number = [m \in log |-> m.id]
    OBVIOUS
<1>2. number \in Injection(log, 1 .. MaxMessages)
    BY <1>1, FigureTypes DEF LogKnown, Injection, IsInjective
<1>3. IsFiniteSet(1 .. MaxMessages) /\ Cardinality(1 .. MaxMessages) = MaxMessages
  <2>1. /\ 1 \in Int /\ MaxMessages \in Int
        /\ (IF 1 > MaxMessages THEN 0 ELSE MaxMessages - 1 + 1) = MaxMessages
    BY FigureTypes
  <2> QED BY ONLY <2>1, FS_Interval
<1>4. IsFiniteSet(log) /\ Cardinality(log) <= MaxMessages
    BY ONLY <1>2, <1>3, FS_Injection
<1> QED BY <1>4, FigureTypes, FS_CardinalityType

(* The greatest of some numbers. *)
LEMMA GreatestIs ==
    ASSUME NEW n \in Nat, NEW S \in SUBSET (0 .. n), S # {}
    PROVE  Max(S) \in S /\ \A y \in S : y <= Max(S)
<1>1. PICK bounds : bounds = {m \in Nat : \A y \in S : y <= m}
    OBVIOUS
<1>2. n \in bounds
    BY <1>1
<1>3. PICK m \in bounds : \A k \in bounds : ~(k < m)
    BY <1>1, <1>2, LeastNumber
<1>4. m \in Nat /\ \A y \in S : y <= m
    BY <1>1, <1>3
<1>5. m \in S
  <2>1. SUFFICES ASSUME m \notin S PROVE FALSE
    OBVIOUS
  <2>2. PICK y \in S : TRUE
    OBVIOUS
  <2>3. m - 1 \in Nat /\ \A z \in S : z <= m - 1
    BY <1>4, <2>1, <2>2
  <2>4. m - 1 \in bounds /\ m - 1 < m
    BY <1>1, <1>4, <2>3
  <2> QED BY <1>3, <2>4
<1>6. \A y \in S : m >= y
    BY <1>4, <1>5
<1>7. Max(S) \in S /\ \A y \in S : Max(S) >= y
    BY <1>5, <1>6 DEF Max
<1> QED BY <1>7

LEMMA LastIs ==
    ASSUME NEW rows, NEW n \in Nat, \A m \in rows : m.id \in 1 .. n, rows # {}
    PROVE  /\ LastOf(rows) \in 1 .. n /\ \E m \in rows : m.id = LastOf(rows)
           /\ \A m \in rows : m.id <= LastOf(rows)
<1>1. PICK ids : ids = {m.id : m \in rows}
    OBVIOUS
<1>2. ids \in SUBSET (0 .. n) /\ ids # {} /\ ids \in SUBSET (1 .. n)
    BY <1>1
<1>3. Max(ids) \in ids /\ \A y \in ids : y <= Max(ids)
    BY <1>2, GreatestIs
<1> QED BY <1>1, <1>2, <1>3 DEF LastOf

(* The last message of a chat. *)
Newest(c) == LastOf(Of(log, c))

LEMMA NewestIs ==
    ASSUME FiguresTypeOK, LogKnown, NEW c, Of(log, c) # {}
    PROVE  /\ Newest(c) \in 1 .. MaxMessages /\ Newest(c) \in Nat /\ Newest(c) <= stored
           /\ \E m \in log : m.chat = c /\ m.id = Newest(c)
           /\ \A m \in log : m.chat = c => m.id <= Newest(c)
<1>1. MaxMessages \in Nat /\ \A m \in Of(log, c) : m.id \in 1 .. MaxMessages
    BY FigureTypes DEF Of
<1>2. /\ LastOf(Of(log, c)) \in 1 .. MaxMessages
      /\ \E m \in Of(log, c) : m.id = LastOf(Of(log, c))
      /\ \A m \in Of(log, c) : m.id <= LastOf(Of(log, c))
    BY ONLY <1>1, Of(log, c) # {}, LastIs
<1>3. \E m \in log : m.chat = c /\ m.id = Newest(c)
    BY <1>2 DEF Of, Newest
<1>4. \A m \in log : m.chat = c => m.id <= Newest(c)
    BY <1>2 DEF Of, Newest
<1> QED BY <1>1, <1>2, <1>3, <1>4 DEF Newest, LogKnown

(* Chats in the order of their last messages, which are not the same. *)
LEMMA RanksAre ==
    ASSUME FiguresTypeOK, LogKnown, NEW chats, \A c \in chats : Of(log, c) # {}
    PROVE  /\ IsFiniteSet(chats)
           /\ \A c \in chats : RankOf(c, chats) \in Nat /\ Newest(c) \in Nat
           /\ \A c, d \in chats : Newest(c) = Newest(d) => c = d
           /\ \A c, d \in chats : Newest(d) > Newest(c) => RankOf(d, chats) < RankOf(c, chats)
<1>1. \A c \in chats : /\ Newest(c) \in 1 .. MaxMessages /\ Newest(c) \in Nat
                       /\ \E m \in log : m.chat = c /\ m.id = Newest(c)
    BY NewestIs
<1>2. \A c, d \in chats : Newest(c) = Newest(d) => c = d
    BY <1>1 DEF LogKnown
<1>3. IsFiniteSet(chats)
  <2>1. PICK newest : newest = [c \in chats |-> Newest(c)]
    OBVIOUS
  <2>2. newest \in Injection(chats, 1 .. MaxMessages)
    BY <1>1, <1>2, <2>1 DEF Injection, IsInjective
  <2>3. 1 \in Int /\ MaxMessages \in Int
    BY FigureTypes
  <2>4. IsFiniteSet(1 .. MaxMessages)
    BY ONLY <2>3, FS_Interval
  <2> QED BY ONLY <2>2, <2>4, FS_Injection
<1>4. ASSUME NEW c \in chats
      PROVE  /\ RankOf(c, chats) = Cardinality({d \in chats : Newest(d) > Newest(c)})
             /\ IsFiniteSet({d \in chats : Newest(d) > Newest(c)})
             /\ RankOf(c, chats) \in Nat
  <2>1. {d \in chats : Newest(d) > Newest(c)} \in SUBSET chats
    OBVIOUS
  <2>2. IsFiniteSet({d \in chats : Newest(d) > Newest(c)})
    BY ONLY <1>3, <2>1, FS_Subset
  <2>3. RankOf(c, chats) = Cardinality({d \in chats : Newest(d) > Newest(c)})
    BY DEF RankOf, Newest
  <2> QED BY ONLY <2>2, <2>3, FS_CardinalityType
<1>5. ASSUME NEW c \in chats, NEW d \in chats, Newest(d) > Newest(c)
      PROVE  RankOf(d, chats) < RankOf(c, chats)
  <2>1. PICK above, before : /\ above = {e \in chats : Newest(e) > Newest(d)}
                             /\ before = {e \in chats : Newest(e) > Newest(c)}
    OBVIOUS
  <2>2. above \in SUBSET before /\ d \in before /\ d \notin above
    BY <1>1, <1>5, <2>1
  <2>3. /\ IsFiniteSet(before) /\ RankOf(d, chats) = Cardinality(above)
        /\ RankOf(c, chats) = Cardinality(before)
        /\ RankOf(d, chats) \in Nat /\ RankOf(c, chats) \in Nat
    BY <1>4, <2>1
  <2>4. Cardinality(above) <= Cardinality(before) /\ Cardinality(before) # Cardinality(above)
    BY ONLY <2>2, <2>3, FS_Subset
  <2> QED BY ONLY <2>3, <2>4
<1> QED BY <1>1, <1>2, <1>3, <1>4, <1>5

(* No place in the order is left out: whoever has a place has all the places before it.    *)
LEMMA NoGap ==
    ASSUME FiguresTypeOK, LogKnown, NEW chats, \A c \in chats : Of(log, c) # {},
           NEW k \in Nat, NEW c \in chats, RankOf(c, chats) >= k
    PROVE  \E d \in chats : RankOf(d, chats) = k
<1>1. /\ IsFiniteSet(chats)
      /\ \A e \in chats : RankOf(e, chats) \in Nat /\ Newest(e) \in Nat
      /\ \A d, e \in chats : Newest(d) = Newest(e) => d = e
      /\ \A d, e \in chats : Newest(e) > Newest(d) => RankOf(e, chats) < RankOf(d, chats)
    BY RanksAre
<1>2. PICK rank : rank = [e \in chats |-> RankOf(e, chats)]
    OBVIOUS
<1>3. PICK ranks : ranks = {rank[e] : e \in {e \in chats : rank[e] >= k}}
    OBVIOUS
<1>4. ranks \in SUBSET Nat /\ ranks # {}
    BY <1>1, <1>2, <1>3
<1>5. PICK r \in ranks : \A s \in ranks : ~(s < r)
    BY ONLY <1>4, LeastNumber
<1>6. PICK d \in chats : rank[d] = r /\ r >= k
    BY <1>3
<1>7. CASE r = k
    BY <1>2, <1>6, <1>7
<1>8. CASE r # k
  <2>1. r > k /\ r \in Nat
    BY <1>1, <1>2, <1>6, <1>8
  <2>2. PICK above : above = {e \in chats : Newest(e) > Newest(d)}
    OBVIOUS
  <2>3. IsFiniteSet(above) /\ Cardinality(above) = r
    <3>1. above \in SUBSET chats
      BY <2>2
    <3>2. RankOf(d, chats) = Cardinality(above)
      BY <2>2 DEF RankOf, Newest
    <3>3. IsFiniteSet(above)
      BY ONLY <1>1, <3>1, FS_Subset
    <3> QED BY <1>2, <1>6, <3>2, <3>3
  <2>4. PICK f : f = [e \in above |-> rank[e]]
    OBVIOUS
  <2>5. ASSUME NEW e \in above PROVE rank[e] \in 0 .. k - 1
    <3>1. e \in chats /\ rank[e] < r /\ rank[e] \in Nat
      BY <1>1, <1>2, <1>6, <2>2
    <3>2. ~(rank[e] >= k)
      BY <1>3, <1>5, <3>1
    <3> QED BY <3>1, <3>2
  <2>6. f \in [above -> 0 .. k - 1]
    BY <2>4, <2>5
  <2>7. IsFiniteSet(0 .. k - 1) /\ Cardinality(0 .. k - 1) = k
    <3>1. 0 \in Int /\ k - 1 \in Int /\ (IF 0 > k - 1 THEN 0 ELSE (k - 1) - 0 + 1) = k
      OBVIOUS
    <3> QED BY ONLY <3>1, FS_Interval
  <2>8. Cardinality(0 .. k - 1) < Cardinality(above)
    BY <2>1, <2>3, <2>7
  <2>9. PICK x \in above, y \in above : x # y /\ f[x] = f[y]
    BY ONLY <2>3, <2>6, <2>7, <2>8, FS_PigeonHole
  <2>10. /\ x \in chats /\ y \in chats /\ Newest(x) # Newest(y) /\ rank[x] = rank[y]
         /\ Newest(x) \in Nat /\ Newest(y) \in Nat
    BY <1>1, <2>2, <2>4, <2>9
  <2>11. Newest(x) > Newest(y) \/ Newest(y) > Newest(x)
    BY ONLY <2>10
  <2>12. rank[x] \in Nat /\ (rank[x] < rank[y] \/ rank[y] < rank[x])
    BY <1>1, <1>2, <2>10, <2>11
  <2> QED BY <2>10, <2>12
<1> QED BY <1>7, <1>8

(* Which chats a list shows depends on their messages alone. *)
ListedBy(rows, c, line, filter) ==
    /\ \E m \in rows : line \in {EveryLine, c[1]}
    /\ filter = "unread" => Unread(rows) # {}
    /\ filter = "reply-later" => Flagged(rows)

LEMMA ListedIs ==
    ASSUME NEW line, NEW filter
    PROVE  \A c : c \in Listed(line, filter) <=> ListedBy(Of(log, c), c, line, filter)
BY DEF Listed, ListedBy, ChatsOf, On, Of

LEMMA ListedHave ==
    ASSUME FiguresTypeOK, NEW line, NEW filter
    PROVE  \A c \in Listed(line, filter) : Of(log, c) # {} /\ c \in Chats
<1>1. \A c \in Listed(line, filter) : Of(log, c) # {}
    BY ListedIs DEF ListedBy
<1>2. \A c : Of(log, c) # {} => c \in Chats
    BY FigureTypes DEF Of
<1> QED BY <1>1, <1>2

(* Where pages begin. *)
LEMMA OffsetIs ==
    /\ PageLimit \in Nat \ {0} /\ Offset(1) = 0
    /\ \A p \in Nat \ {0} : Offset(p) \in Nat /\ Offset(p + 1) = Offset(p) + PageLimit
    /\ \A p, q \in Nat \ {0} : p < q => Offset(p) + PageLimit <= Offset(q)
<1>1. PICK n \in Nat \ {0} : n = PageLimit
    BY WhatsappFiguresAssumption
<1>2. (1 - 1) * n = 0
    BY ONLY <1>1
<1>3. \A p \in Nat \ {0} : (p - 1) * n \in Nat /\ (p + 1 - 1) * n = (p - 1) * n + n
    BY ONLY <1>1
<1>4. ASSUME NEW p \in Nat \ {0}, NEW q \in Nat \ {0}, p < q
      PROVE  (p - 1) * n + n <= (q - 1) * n
  <2>1. PICK d \in Nat : d = q - 1 - p
    BY <1>4
  <2>2. (q - 1) * n = (p - 1) * n + n + d * n
    <3>1. q - 1 = (p - 1) + 1 + d
      BY <2>1
    <3>2. ((p - 1) + 1 + d) * n = (p - 1) * n + n + d * n
      BY ONLY <1>1, <1>4, <2>1
    <3> QED BY ONLY <3>1, <3>2
  <2>3. d * n \in Nat /\ (p - 1) * n \in Nat
    BY ONLY <1>1, <1>3, <2>1
  <2> QED BY ONLY <1>1, <2>2, <2>3
<1> QED BY ONLY <1>1, <1>2, <1>3, <1>4 DEF Offset

(* Rows of the pages that hold a place are of one page. *)
LEMMA PagesApart ==
    ASSUME NEW p \in Nat \ {0}, NEW q \in Nat \ {0}, NEW r \in Nat,
           r \in Offset(p) .. Offset(p) + PageLimit - 1,
           r \in Offset(q) .. Offset(q) + PageLimit - 1
    PROVE  p = q
<1>1. PICK n \in Nat \ {0}, a \in Nat, b \in Nat : n = PageLimit /\ a = Offset(p) /\ b = Offset(q)
    BY OffsetIs
<1>2. r >= a /\ r < a + n /\ r >= b /\ r < b + n
    BY <1>1
<1>3. (p < q => a + n <= b) /\ (q < p => b + n <= a)
    BY <1>1, OffsetIs
<1> QED BY ONLY <1>1, <1>2, <1>3

LEMMA PagesAre ==
    ASSUME FiguresTypeOK, LogKnown, ViewKnown
    PROVE  PagesCoverTheList
<1>1. ASSUME view.step = "shown", ~view.more, ~removed,
             NEW c \in Listed(view.line, view.filter) \ came
      PROVE  \E r \in view.rows : r.chat = c
    BY <1>1 DEF ViewKnown, InView
<1>2. ASSUME came = {}, ~removed, NEW r \in view.rows, NEW s \in view.rows, r.chat = s.chat
      PROVE  r = s
  <2>1. view.step # "closed"
    BY <1>2 DEF ViewKnown
  <2>2. PICK chats : chats = Listed(view.line, view.filter)
    OBVIOUS
  <2>3. PICK k : k = RankOf(r.chat, chats)
    OBVIOUS
  <2>4. /\ r.chat \in chats
        /\ k \in Offset(r.page) .. Offset(r.page) + PageLimit - 1
        /\ k \in Offset(s.page) .. Offset(s.page) + PageLimit - 1
        /\ r.at = s.at
        /\ r.last = (IF Filled(r) THEN r.at ELSE 0) /\ s.last = (IF Filled(s) THEN s.at ELSE 0)
    BY <1>2, <2>1, <2>2, <2>3 DEF ViewKnown
  <2>5. k \in Nat
    <3>1. \A c \in chats : Of(log, c) # {}
      BY <2>2, ListedHave
    <3> QED BY <2>3, <2>4, <3>1, RanksAre
  <2>6. r.page \in Nat \ {0} /\ s.page \in Nat \ {0} /\ r \in ViewRow /\ s \in ViewRow
    BY FigureTypes DEF FiguresTypeOK
  <2>7. r.page = s.page
    BY ONLY <2>4, <2>5, <2>6, PagesApart
  <2>8. r.last = s.last
    BY <2>4, <2>7 DEF Filled
  <2> QED BY ONLY <1>2, <2>4, <2>6, <2>7, <2>8 DEF ViewRow
<1>3. ASSUME view.step = "shown", NEW r \in view.rows PROVE r.last >= r.at \/ removed
    BY <1>3 DEF ViewKnown, Filled
<1> QED BY <1>1, <1>2, <1>3 DEF PagesCoverTheList

LEMMA FlagsAre ==
    ASSUME LogKnown, FiguresTypeOK
    PROVE  FlagFollowsClicks
BY DEF LogKnown, FiguresTypeOK, FlagFollowsClicks, Flagged

-----------------------------------------------------------------------------
(* The figures: what their queries count. *)

LEMMA RowsAreFinite ==
    ASSUME FiguresTypeOK, LogKnown, NEW rows \in SUBSET log
    PROVE  /\ IsFiniteSet(rows) /\ Cardinality(rows) \in 0 .. MaxMessages
           /\ Cardinality(rows) \in Nat
           /\ IsFiniteSet(PhonesOf(rows)) /\ Cardinality(PhonesOf(rows)) \in Nat
           /\ PhonesOf(rows) \in SUBSET Phones
<1>1. IsFiniteSet(rows) /\ Cardinality(rows) <= Cardinality(log) /\ Cardinality(rows) \in Nat
    BY LogIsFinite, FS_Subset, FS_CardinalityType
<1>2. PICK phone : phone = [m \in rows |-> m.chat[2]]
    OBVIOUS
<1>3. phone \in Surjection(rows, PhonesOf(rows))
    BY <1>2 DEF PhonesOf, Surjection
<1>4. IsFiniteSet(PhonesOf(rows)) /\ Cardinality(PhonesOf(rows)) \in Nat
    BY ONLY <1>1, <1>3, FS_Surjection, FS_CardinalityType
<1>5. Cardinality(rows) \in 0 .. MaxMessages
    BY <1>1, LogIsFinite, FigureTypes
<1> QED BY <1>1, <1>4, <1>5, FigureTypes DEF PhonesOf

LEMMA ByDayIs ==
    ASSUME FiguresTypeOK, LogKnown, NEW rows \in SUBSET log
    PROVE  ByDay(rows) \in [Days -> Nat] /\ Total(ByDay(rows)) = Cardinality(rows)
<1>1. PICK day : day = [m \in rows |-> m.day]
    OBVIOUS
<1>2. /\ IsFiniteSet(rows) /\ \A m \in rows : day[m] \in Days
      /\ ByDay(rows) = [d \in Days |-> Cardinality({m \in rows : day[m] = d})]
  <2>1. \A d : {m \in rows : m.day = d} = {m \in rows : day[m] = d}
    BY <1>1
  <2>2. \A m \in rows : day[m] \in Days
    BY <1>1, FigureTypes
  <2> QED BY <2>1, <2>2, RowsAreFinite DEF ByDay
<1>3. Total(ByDay(rows)) = Cardinality(rows)
    BY ONLY <1>2, CountsAddUp
<1>4. \A d : Cardinality({m \in rows : m.day = d}) \in Nat
  <2>1. \A d : {m \in rows : m.day = d} \in SUBSET rows
    OBVIOUS
  <2> QED BY ONLY <1>2, <2>1, FS_Subset, FS_CardinalityType
<1> QED BY <1>3, <1>4 DEF ByDay

LEMMA ByPhoneIs ==
    ASSUME FiguresTypeOK, LogKnown, NEW rows \in SUBSET log, NEW phones \in SUBSET Phones
    PROVE  /\ ByPhone(rows, phones) \in [phones -> 0 .. MaxMessages]
           /\ Total(ByPhone(rows, phones)) = Cardinality({m \in rows : m.chat[2] \in phones})
           /\ Total(ByPhone(rows, phones)) \in Nat
           /\ Total(ByPhone(rows, phones)) <= Cardinality(rows)
<1>1. PICK phone : phone = [m \in rows |-> m.chat[2]]
    OBVIOUS
<1>2. /\ IsFiniteSet(rows)
      /\ ByPhone(rows, phones) = [p \in phones |-> Cardinality({m \in rows : phone[m] = p})]
      /\ {m \in rows : m.chat[2] \in phones} = {m \in rows : phone[m] \in phones}
  <2>1. \A p : {m \in rows : m.chat[2] = p} = {m \in rows : phone[m] = p}
    BY <1>1
  <2>2. {m \in rows : m.chat[2] \in phones} = {m \in rows : phone[m] \in phones}
    BY <1>1
  <2> QED BY <2>1, <2>2, RowsAreFinite DEF ByPhone
<1>3. /\ Total(ByPhone(rows, phones)) = Cardinality({m \in rows : phone[m] \in phones})
      /\ Total(ByPhone(rows, phones)) \in Nat
      /\ Total(ByPhone(rows, phones)) <= Cardinality(rows)
  <2>1. IsFiniteSet(rows)
    BY <1>2
  <2>2. PICK f : f = [p \in phones |-> Cardinality({m \in rows : phone[m] = p})]
    OBVIOUS
  <2>3. ASSUME NEW E, NEW c, f = [p \in E |-> Cardinality({m \in rows : c[m] = p})]
        PROVE  /\ Total(f) = Cardinality({m \in rows : c[m] \in E})
               /\ Total(f) \in Nat /\ Total(f) <= Cardinality(rows)
    BY ONLY <2>1, <2>3, CountsOfSome
  <2>4. /\ Total(f) = Cardinality({m \in rows : phone[m] \in phones})
        /\ Total(f) \in Nat /\ Total(f) <= Cardinality(rows)
    BY ONLY <2>2, <2>3
  <2> QED BY ONLY <1>2, <2>2, <2>4
<1>4. \A p \in phones : Cardinality({m \in rows : m.chat[2] = p}) \in 0 .. MaxMessages
  <2>1. \A p : {m \in rows : m.chat[2] = p} \in SUBSET log
    OBVIOUS
  <2> QED BY <2>1, RowsAreFinite
<1> QED BY <1>2, <1>3, <1>4 DEF ByPhone

(* The rows of every contact are all of them. *)
LEMMA AllPhonesIs ==
    ASSUME FiguresTypeOK, LogKnown, NEW rows \in SUBSET log
    PROVE  Total(ByPhone(rows, PhonesOf(rows))) = Cardinality(rows)
<1>1. {m \in rows : m.chat[2] \in PhonesOf(rows)} = rows
    BY DEF PhonesOf
<1> QED BY <1>1, ByPhoneIs, RowsAreFinite

(* The contacts with the most messages have all of them, unless there is no room for all:    *)
(* then those that are left out have messages too.                                           *)
LEMMA TopIs ==
    ASSUME FiguresTypeOK, LogKnown, NEW rows \in SUBSET log, NEW top \in TopOf(rows)
    PROVE  /\ top \in SUBSET Phones
           /\ IF Cardinality(PhonesOf(rows)) <= TopContacts
              THEN Total(ByPhone(rows, top)) = Cardinality(rows)
              ELSE Total(ByPhone(rows, top)) < Cardinality(rows)
<1>1. PICK n \in Nat, k \in Nat \ {0} : n = Cardinality(PhonesOf(rows)) /\ k = TopContacts
    BY RowsAreFinite, FigureTypes
<1>2. Min({k, n}) = IF n <= k THEN n ELSE k
    BY ONLY n \in Nat, k \in Nat DEF Min
<1>3. /\ top \in SUBSET PhonesOf(rows) /\ top \in SUBSET Phones
      /\ Cardinality(top) = IF n <= k THEN n ELSE k
    BY <1>1, <1>2, RowsAreFinite DEF TopOf
<1>4. CASE n <= k
  <2>1. top = PhonesOf(rows)
    BY <1>1, <1>3, <1>4, RowsAreFinite, FS_Subset
  <2> QED BY <1>1, <1>3, <1>4, <2>1, AllPhonesIs
<1>5. CASE ~(n <= k)
  <2>1. top # PhonesOf(rows)
    BY <1>1, <1>3, <1>5
  <2>2. PICK m \in rows : m.chat[2] \notin top
    BY <1>3, <2>1 DEF PhonesOf
  <2>3. PICK some : some = {x \in rows : x.chat[2] \in top}
    OBVIOUS
  <2>4. some \in SUBSET rows /\ some # rows
    BY <2>2, <2>3
  <2>5. IsFiniteSet(rows) /\ Cardinality(rows) \in Nat
    BY RowsAreFinite
  <2>6. Cardinality(some) <= Cardinality(rows) /\ Cardinality(some) # Cardinality(rows)
    BY ONLY <2>4, <2>5, FS_Subset
  <2>7. Total(ByPhone(rows, top)) = Cardinality(some) /\ Total(ByPhone(rows, top)) \in Nat
    BY <1>3, <2>3, ByPhoneIs
  <2>8. Total(ByPhone(rows, top)) < Cardinality(rows)
    BY ONLY <2>5, <2>6, <2>7
  <2> QED BY <1>1, <1>3, <1>5, <2>8
<1> QED BY <1>4, <1>5

LEMMA ReportedIs ==
    ASSUME FiguresTypeOK, LogKnown
    PROVE  /\ Reported \in SUBSET log
           /\ IsFiniteSet(Reported) /\ Cardinality(Reported) \in Nat
           /\ IsFiniteSet(Answered(Reported)) /\ Cardinality(Answered(Reported)) \in Nat
           /\ IsFiniteSet(PhonesOf(Inbound(Reported)))
           /\ Cardinality(PhonesOf(Inbound(Reported))) \in Nat
           /\ Cardinality(PhonesOf(Reported)) \in Nat
<1>1. Reported \in SUBSET log /\ Inbound(Reported) \in SUBSET log
    BY DEF Reported, On, InRange, Inbound
<1>2. Reported \ Inbound(Reported) \in SUBSET log
    BY <1>1
<1>3. IsFiniteSet(PhonesOf(Reported \ Inbound(Reported)))
    BY <1>2, RowsAreFinite
<1>4. Answered(Reported) \in SUBSET PhonesOf(Reported \ Inbound(Reported))
    BY DEF Answered
<1>5. IsFiniteSet(Answered(Reported)) /\ Cardinality(Answered(Reported)) \in Nat
    BY ONLY <1>3, <1>4, FS_Subset, FS_CardinalityType
<1> QED BY <1>1, <1>5, RowsAreFinite

(* More contacts were answered than wrote only if one wrote after the range. *)
LEMMA AnsweredAre ==
    ASSUME FiguresTypeOK, LogKnown,
           Cardinality(Answered(Reported)) > Cardinality(PhonesOf(Inbound(Reported)))
    PROVE  /\ report.until # NoDay
           /\ \E m \in Inbound(On(log, report.line)) : m.day > report.until
<1>1. PICK p \in Answered(Reported) : p \notin PhonesOf(Inbound(Reported))
  <2>1. SUFFICES ASSUME Answered(Reported) \in SUBSET PhonesOf(Inbound(Reported)) PROVE FALSE
    OBVIOUS
  <2>2. Cardinality(Answered(Reported)) <= Cardinality(PhonesOf(Inbound(Reported)))
    BY <2>1, ReportedIs, FS_Subset
  <2> QED BY <2>2, ReportedIs
<1>2. PICK m \in Inbound(On(InRange(report.since, NoDay), report.line)) : m.chat[2] = p
    BY <1>1 DEF Answered, PhonesOf
<1>3. m \notin Inbound(Reported)
    BY <1>1, <1>2 DEF PhonesOf
<1>4. /\ m \in log /\ m.inbound /\ report.line \in {EveryLine, m.chat[1]}
      /\ m.day >= report.since
    BY <1>2 DEF Inbound, On, InRange
<1>5. report.until # NoDay /\ ~(m.day <= report.until)
    BY <1>3, <1>4 DEF Inbound, Reported, On, InRange
<1>6. m.day \in Int /\ report.until \in Int
    BY <1>4, FigureTypes DEF Report, Days
<1>7. m.day > report.until
    BY ONLY <1>5, <1>6
<1> QED BY <1>4, <1>5, <1>7 DEF Inbound, On

LEMMA FiguresAre ==
    ASSUME FiguresTypeOK, LogKnown, ReportKnown
    PROVE  FiguresAddUp
<1> SUFFICES ASSUME report.step = "done"
             PROVE  LET volume == Total(report.volume)
                        top == Total(report.top)
                    IN /\ ~written => /\ volume = report.total
                                      /\ IF report.kind = "sheet" \/ report.contacts <= TopContacts
                                         THEN top = report.total ELSE top < report.total
                       /\ ~removed => /\ volume >= report.total
                                      /\ report.kind = "sheet" =>
                                            report.total <= top /\ top <= volume
                       /\ report.answered > report.asking =>
                             /\ report.until # NoDay
                             /\ removed \/ \E m \in Inbound(On(log, report.line)) :
                                              m.day > report.until
    BY DEF FiguresAddUp
<1>1. VolumeKnown /\ TopKnown
    BY DEF ReportKnown, VolumeFound, TopFound
<1>2. CASE report.kind = "panel"
  <2>1. /\ report.answered = Cardinality(Answered(Reported))
        /\ report.asking = Cardinality(PhonesOf(Inbound(Reported)))
    BY <1>2 DEF ReportKnown
  <2>2. report.answered > report.asking =>
           /\ report.until # NoDay
           /\ \E m \in Inbound(On(log, report.line)) : m.day > report.until
    BY <2>1, AnsweredAre
  <2> QED BY <1>1, <1>2, <2>2 DEF VolumeKnown, TopKnown
<1>3. CASE report.kind # "panel"
  <2>1. ~(report.answered > report.asking)
    BY <1>3 DEF ReportKnown
  <2> QED BY <1>1, <1>3, <2>1 DEF VolumeKnown, TopKnown
<1> QED BY <1>2, <1>3

-----------------------------------------------------------------------------
(* What is written: messages, days, and chats read, flagged or deleted. *)

LEMMA StoreKeeps ==
    ASSUME FiguresTypeOK, LogKnown, NEW chat \in Chats, NEW inbound \in BOOLEAN,
           MessageStored(chat, inbound)
    PROVE  FiguresTypeOK' /\ LogKnown'
<1>1. PICK new : new = [id |-> stored + 1, chat |-> chat, inbound |-> inbound,
                        readByUser |-> ~inbound, replyLater |-> FALSE, day |-> today]
    OBVIOUS
<1>2. /\ stored' = stored + 1 /\ stored < MaxMessages /\ log' = log \union {new}
      /\ came' = came \union Noted({chat}) /\ written' = TRUE
      /\ cameSince' = cameSince \union Noted({chat})
      /\ UNCHANGED <<reader, today, edits, view, report, removed, wanted>>
    BY <1>1 DEF MessageStored, readers
<1>3. stored \in Nat /\ MaxMessages \in Nat /\ today \in Days
    BY FigureTypes DEF FiguresTypeOK
<1>4. /\ stored + 1 \in 1 .. MaxMessages /\ (~inbound) \in BOOLEAN /\ new \in Message
      /\ new.id = stored + 1 /\ new.chat = chat /\ new.replyLater = FALSE
  <2>1. stored + 1 \in 1 .. MaxMessages
    BY <1>2, <1>3
  <2>2. (~inbound) \in BOOLEAN
    OBVIOUS
  <2>3. new \in Message
    BY ONLY <1>1, <1>3, <2>1, <2>2, chat \in Chats, inbound \in BOOLEAN, Zenon DEF Message
  <2> QED BY <1>1, <2>1, <2>2, <2>3
<1>5. Noted({chat}) = IF reader = "list" THEN {chat} ELSE {}
    BY DEF Noted
<1>6. FiguresTypeOK'
  <2>1. log' \subseteq Message
    BY <1>2, <1>4 DEF FiguresTypeOK
  <2>2. came' \subseteq Chats /\ cameSince' \subseteq Chats
    BY <1>2, <1>5 DEF FiguresTypeOK
  <2>3. stored' \in 0 .. MaxMessages /\ written' \in BOOLEAN
    BY <1>2, <1>3
  <2>4. /\ reader' \in {"list", "figures"} /\ today' \in Days /\ edits' \in 0 .. MaxEdits
        /\ view' \in View /\ report' \in Report
        /\ (\A r \in view.rows : r.page \in 1 .. view.page)'
        /\ wanted' \in [Chats -> BOOLEAN] /\ removed' \in BOOLEAN
    BY <1>2 DEF FiguresTypeOK
  <2> QED BY <2>1, <2>2, <2>3, <2>4 DEF FiguresTypeOK
<1>7. LogKnown'
  <2>1. \A m \in log : m.id \in Nat /\ m.id <= stored
    BY FigureTypes DEF LogKnown
  <2>2. \A m \in log' : m.id <= stored'
    BY <1>2, <1>3, <1>4, <2>1
  <2>3. \A m, n \in log' : m.id = n.id => m = n
    BY <1>2, <1>3, <1>4, <2>1 DEF LogKnown
  <2>4. reader' = "figures" => (\A m \in log' : ~m.replyLater) /\ \A c \in Chats : ~wanted'[c]
    BY <1>2, <1>4 DEF LogKnown
  <2>5. ASSUME NEW c \in Chats \ cameSince', NEW m \in log', m.chat = c
        PROVE  m.replyLater = wanted'[c]
    <3>1. CASE m \in log
      <4>1. c \notin cameSince /\ m \in Of(log, c)
        BY <1>2, <2>5, <3>1 DEF Of
      <4> QED BY <1>2, <4>1 DEF LogKnown
    <3>2. CASE m = new
      <4>1. reader # "list" /\ ~wanted[c]
        BY <1>2, <1>4, <1>5, <2>5, <3>2 DEF LogKnown, FiguresTypeOK
      <4>2. wanted[c] \in BOOLEAN
        BY DEF FiguresTypeOK
      <4> QED BY <1>2, <1>4, <3>2, <4>1, <4>2
    <3> QED BY <1>2, <2>5, <3>1, <3>2
  <2>6. \A c \in Chats \ cameSince' : \A m \in Of(log', c) : m.replyLater = wanted'[c]
    BY <2>5 DEF Of
  <2> QED BY <2>2, <2>3, <2>4, <2>6 DEF LogKnown
<1> QED BY <1>6, <1>7

LEMMA DayKeeps ==
    ASSUME FiguresTypeOK, LogKnown, NextDay
    PROVE  FiguresTypeOK' /\ LogKnown'
<1>1. /\ today' \in Days
      /\ UNCHANGED <<reader, log, stored, edits, view, report, came, removed, written, wanted,
                     cameSince>>
    BY WhatsappFiguresAssumption DEF NextDay, FiguresTypeOK, readers, shown, Days
<1> QED BY <1>1 DEF FiguresTypeOK, LogKnown, Of

(* The messages of a chat, changed in place. *)
LEMMA EditedIs ==
    ASSUME FiguresTypeOK, LogKnown, NEW chat, NEW edited, NEW rows,
           \A m \in Of(log, chat) : /\ edited[m] \in Message /\ edited[m].id = m.id
                                    /\ edited[m].chat = chat,
           \A m : m \in rows <=> \/ m \in log /\ m \notin Of(log, chat)
                                 \/ \E n \in Of(log, chat) : m = edited[n]
    PROVE  /\ rows \subseteq Message
           /\ \A m \in rows : m.id <= stored
           /\ \A m, n \in rows : m.id = n.id => m = n
           /\ \A c : c # chat => Of(rows, c) = Of(log, c)
           /\ \A m \in Of(rows, chat) : \E n \in Of(log, chat) : m = edited[n]
<1>1. /\ \A m \in log : m \in Message /\ m.id <= stored
      /\ \A m, n \in log : m.id = n.id => m = n
    BY DEF FiguresTypeOK, LogKnown
<1>2. \A m \in Of(log, chat) : m \in log
    BY DEF Of
<1>3. \A m \in rows : \E n \in log : /\ m.id = n.id
                                     /\ m = IF n \in Of(log, chat) THEN edited[n] ELSE n
    BY <1>2
<1>4. \A m, n \in rows : m.id = n.id => m = n
    BY ONLY <1>1, <1>3
<1>5. \A m \in rows : m.id <= stored
    BY ONLY <1>1, <1>3
<1>6. rows \subseteq Message
    BY <1>1, <1>2
<1>7. \A m : m \in Of(log, chat) => m \in log /\ m.chat = chat
    BY DEF Of
<1>8. \A c : c # chat => Of(rows, c) = Of(log, c)
    BY <1>7 DEF Of
<1>9. \A m \in Of(rows, chat) : \E n \in Of(log, chat) : m = edited[n]
    BY <1>7 DEF Of
<1> QED BY <1>4, <1>5, <1>6, <1>8, <1>9

(* What a write to the log must keep. *)
LEMMA EditsKeep ==
    ASSUME FiguresTypeOK, LogKnown, NEW chat, NEW rows, Edits(rows),
           rows \subseteq Message, \A m \in rows : m.id <= stored,
           \A m, n \in rows : m.id = n.id => m = n,
           \A c : c # chat => Of(rows, c) = Of(log, c),
           wanted' \in [Chats -> BOOLEAN], \A c \in Chats : c # chat => wanted'[c] = wanted[c],
           cameSince' \subseteq cameSince, cameSince \ cameSince' \subseteq {chat},
           chat \notin cameSince' => \A m \in Of(rows, chat) : m.replyLater = wanted'[chat],
           reader = "figures" => (\A m \in rows : ~m.replyLater) /\ \A c \in Chats : ~wanted'[c]
    PROVE  /\ FiguresTypeOK' /\ LogKnown'
           /\ removed' = TRUE /\ written' = TRUE /\ report.step # "done"
           /\ UNCHANGED <<reader, view, report>>
<1>1. /\ log' = rows /\ edits' = edits + 1 /\ edits < MaxEdits /\ report.step # "done"
      /\ removed' = TRUE /\ written' = TRUE
      /\ UNCHANGED <<reader, today, stored, view, report, came>>
    BY DEF Edits, Open, readers
<1>2. edits' \in 0 .. MaxEdits
    BY <1>1, WhatsappFiguresAssumption DEF FiguresTypeOK
<1>3. cameSince' \subseteq Chats
    BY DEF FiguresTypeOK
<1>4. FiguresTypeOK'
    BY <1>1, <1>2, <1>3 DEF FiguresTypeOK
<1>5. ASSUME NEW c \in Chats \ cameSince', NEW m \in Of(rows, c)
      PROVE  m.replyLater = wanted'[c]
  <2>1. CASE c = chat
    BY <1>5, <2>1
  <2>2. CASE c # chat
    BY <1>5, <2>2 DEF LogKnown
  <2> QED BY <2>1, <2>2
<1>6. LogKnown'
    BY <1>1, <1>5 DEF LogKnown
<1> QED BY <1>1, <1>4, <1>6

LEMMA ReadKeeps ==
    ASSUME FiguresTypeOK, LogKnown, NEW chat \in Chats, ReadChat(chat)
    PROVE  /\ FiguresTypeOK' /\ LogKnown'
           /\ removed' = TRUE /\ written' = TRUE /\ report.step # "done"
           /\ UNCHANGED <<reader, view, report>>
<1>1. PICK edited : edited = [m \in Of(log, chat) |-> [m EXCEPT !.readByUser = TRUE]]
    OBVIOUS
<1>2. ASSUME NEW m \in Of(log, chat)
      PROVE  /\ edited[m] \in Message /\ edited[m].id = m.id /\ edited[m].chat = chat
             /\ edited[m].replyLater = m.replyLater
  <2>1. m \in Message /\ m.chat = chat
    BY DEF Of, FiguresTypeOK
  <2> QED BY <1>1, <2>1 DEF Message
<1>3. PICK rows : rows = (log \ Of(log, chat)) \union {edited[m] : m \in Of(log, chat)}
    OBVIOUS
<1>4. /\ Edits(rows) /\ reader = "list" /\ UNCHANGED <<wanted, cameSince>>
  <2>1. rows = (log \ Of(log, chat)) \union
               {[m EXCEPT !.readByUser = TRUE] : m \in Of(log, chat)}
    BY <1>1, <1>3
  <2> QED BY <2>1 DEF ReadChat
<1>5. /\ rows \subseteq Message /\ \A m \in rows : m.id <= stored
      /\ \A m, n \in rows : m.id = n.id => m = n
      /\ \A c : c # chat => Of(rows, c) = Of(log, c)
      /\ \A m \in Of(rows, chat) : \E n \in Of(log, chat) : m = edited[n]
  <2>1. \A m \in Of(log, chat) : /\ edited[m] \in Message /\ edited[m].id = m.id
                                 /\ edited[m].chat = chat
    BY <1>2
  <2>2. FiguresTypeOK /\ LogKnown
    OBVIOUS
  <2>3. \A m : m \in rows <=> \/ m \in log /\ m \notin Of(log, chat)
                              \/ \E n \in Of(log, chat) : m = edited[n]
    BY <1>3
  <2> QED BY ONLY <2>1, <2>2, <2>3, EditedIs
<1>6. chat \notin cameSince => \A m \in Of(rows, chat) : m.replyLater = wanted[chat]
    BY <1>2, <1>5 DEF LogKnown
<1>7. wanted' \in [Chats -> BOOLEAN]
    BY <1>4 DEF FiguresTypeOK
<1> QED BY <1>4, <1>5, <1>6, <1>7, EditsKeep

LEMMA FlagKeeps ==
    ASSUME FiguresTypeOK, LogKnown, NEW chat \in Chats, FlagChat(chat)
    PROVE  /\ FiguresTypeOK' /\ LogKnown'
           /\ removed' = TRUE /\ written' = TRUE /\ report.step # "done"
           /\ UNCHANGED <<reader, view, report>>
<1>1. PICK latest, flag : /\ latest = CHOOSE m \in Of(log, chat) : m.id = LastOf(Of(log, chat))
                          /\ flag = OppositeOfLast(Of(log, chat), latest)
    OBVIOUS
<1>2. PICK edited : edited = [m \in Of(log, chat) |-> [m EXCEPT !.replyLater = flag]]
    OBVIOUS
<1>3. PICK rows : rows = (log \ Of(log, chat)) \union {edited[m] : m \in Of(log, chat)}
    OBVIOUS
<1>4. /\ Edits(rows) /\ reader = "list" /\ Of(log, chat) # {}
      /\ wanted' = [wanted EXCEPT ![chat] = ~Flagged(Of(log, chat))]
      /\ cameSince' = IF Flagged(Of(log, chat)) THEN cameSince ELSE cameSince \ {chat}
  <2>1. rows = (log \ Of(log, chat)) \union
               {[m EXCEPT !.replyLater = flag] : m \in Of(log, chat)}
    BY <1>2, <1>3
  <2> QED BY <1>1, <2>1 DEF FlagChat
<1>5. latest \in Of(log, chat) /\ latest \in Message
  <2>1. \E m \in Of(log, chat) : m.id = LastOf(Of(log, chat))
    BY <1>4, NewestIs DEF Newest, Of
  <2> QED BY <1>1, <2>1 DEF Of, FiguresTypeOK
<1>6. flag = ~latest.replyLater /\ flag \in BOOLEAN /\ latest.replyLater \in BOOLEAN
    BY <1>1, <1>5 DEF OppositeOfLast, Message
<1>7. ASSUME NEW m \in Of(log, chat)
      PROVE  /\ edited[m] \in Message /\ edited[m].id = m.id /\ edited[m].chat = chat
             /\ edited[m].replyLater = flag
  <2>1. m \in Message /\ m.chat = chat
    BY DEF Of, FiguresTypeOK
  <2> QED BY <1>2, <1>6, <2>1 DEF Message
<1>8. /\ rows \subseteq Message /\ \A m \in rows : m.id <= stored
      /\ \A m, n \in rows : m.id = n.id => m = n
      /\ \A c : c # chat => Of(rows, c) = Of(log, c)
      /\ \A m \in Of(rows, chat) : \E n \in Of(log, chat) : m = edited[n]
  <2>1. \A m \in Of(log, chat) : /\ edited[m] \in Message /\ edited[m].id = m.id
                                 /\ edited[m].chat = chat
    BY <1>7
  <2>2. FiguresTypeOK /\ LogKnown
    OBVIOUS
  <2>3. \A m : m \in rows <=> \/ m \in log /\ m \notin Of(log, chat)
                              \/ \E n \in Of(log, chat) : m = edited[n]
    BY <1>3
  <2> QED BY ONLY <2>1, <2>2, <2>3, EditedIs
<1>9. /\ Flagged(Of(log, chat)) \in BOOLEAN /\ wanted' \in [Chats -> BOOLEAN]
      /\ wanted'[chat] = ~Flagged(Of(log, chat))
      /\ \A c \in Chats : c # chat => wanted'[c] = wanted[c]
    BY <1>4 DEF FiguresTypeOK, Flagged
<1>10. chat \notin cameSince' => flag = wanted'[chat]
  <2>1. CASE ~Flagged(Of(log, chat))
    BY <1>5, <1>6, <1>9, <2>1 DEF Flagged
  <2>2. CASE Flagged(Of(log, chat)) /\ chat \notin cameSince
    <3>1. \A m \in Of(log, chat) : m.replyLater = wanted[chat]
      BY <2>2 DEF LogKnown
    <3>2. latest.replyLater
      BY <1>5, <2>2, <3>1 DEF Flagged
    <3> QED BY <1>6, <1>9, <2>2, <3>2
  <2> QED BY <1>4, <2>1, <2>2
<1>11. chat \notin cameSince' => \A m \in Of(rows, chat) : m.replyLater = wanted'[chat]
    BY <1>7, <1>8, <1>10
<1>12. cameSince' \subseteq cameSince /\ cameSince \ cameSince' \subseteq {chat}
    BY <1>4
<1> QED BY <1>4, <1>8, <1>9, <1>11, <1>12, EditsKeep

LEMMA RemoveKeeps ==
    ASSUME FiguresTypeOK, LogKnown, NEW chat \in Chats, RemoveChat(chat)
    PROVE  /\ FiguresTypeOK' /\ LogKnown'
           /\ removed' = TRUE /\ written' = TRUE /\ report.step # "done"
           /\ UNCHANGED <<reader, view, report>>
<1>1. PICK rows : rows = log \ Of(log, chat)
    OBVIOUS
<1>2. /\ Edits(rows) /\ wanted' = [wanted EXCEPT ![chat] = FALSE]
      /\ cameSince' = cameSince \ {chat}
    BY <1>1 DEF RemoveChat
<1>3. /\ rows \subseteq Message /\ \A m \in rows : m.id <= stored
      /\ \A m, n \in rows : m.id = n.id => m = n
    BY <1>1 DEF FiguresTypeOK, LogKnown
<1>4. (\A c : c # chat => Of(rows, c) = Of(log, c)) /\ Of(rows, chat) = {}
    BY <1>1 DEF Of
<1>5. /\ wanted' \in [Chats -> BOOLEAN] /\ wanted'[chat] = FALSE
      /\ \A c \in Chats : c # chat => wanted'[c] = wanted[c]
    BY <1>2 DEF FiguresTypeOK
<1>6. reader = "figures" => (\A m \in rows : ~m.replyLater) /\ \A c \in Chats : ~wanted'[c]
    BY <1>1, <1>5 DEF LogKnown
<1>7. cameSince' \subseteq cameSince /\ cameSince \ cameSince' \subseteq {chat}
    BY <1>2
<1> QED BY <1>2, <1>3, <1>4, <1>5, <1>6, <1>7, EditsKeep

-----------------------------------------------------------------------------
(* The figures: their steps. *)

LEMMA ReportTypes ==
    ASSUME FiguresTypeOK
    PROVE  /\ report.step \in {"none", "volume", "contacts", "rate", "done"}
           /\ report.kind \in {"panel", "sheet"} /\ report.line \in Lines \union {EveryLine}
           /\ report.since \in Nat /\ report.until \in Int /\ report.total \in Nat
           /\ report.contacts \in Nat /\ report.volume \in [Days -> Nat]
           /\ report.top \in UNION {[phones -> 0 .. MaxMessages] : phones \in SUBSET Phones}
           /\ report.answered \in Nat /\ report.asking \in Nat
           /\ report = [step |-> report.step, kind |-> report.kind, line |-> report.line,
                        since |-> report.since, until |-> report.until,
                        total |-> report.total, contacts |-> report.contacts,
                        volume |-> report.volume, top |-> report.top,
                        answered |-> report.answered, asking |-> report.asking]
BY FigureTypes, Zenon DEF Report

LEMMA ReportStays ==
    ASSUME ReportKnown, UNCHANGED <<reader, log, report>>,
           report.step = "none" \/ (removed' = removed /\ written' = written)
    PROVE  ReportKnown'
<1>1. Reported' = Reported
    BY DEF Reported, InRange, On
<1>2. Answered(Reported)' = Answered(Reported)
    BY <1>1 DEF Answered, InRange, On, Inbound, PhonesOf
<1>3. CASE report.step = "none"
    BY <1>3 DEF ReportKnown
<1>4. CASE removed' = removed /\ written' = written
  <2>1. (VolumeFound' <=> VolumeFound) /\ (TopFound' <=> TopFound)
    BY DEF VolumeFound, TopFound
  <2>2. (VolumeKnown' <=> VolumeKnown) /\ (TopKnown' <=> TopKnown)
    BY <1>1, <1>4 DEF VolumeKnown, TopKnown
  <2>3. PhonesOf(Reported)' = PhonesOf(Reported)
        /\ PhonesOf(Inbound(Reported))' = PhonesOf(Inbound(Reported))
    BY <1>1 DEF PhonesOf, Inbound
  <2> QED BY <1>1, <1>2, <1>4, <2>1, <2>2, <2>3 DEF ReportKnown
<1> QED BY <1>3, <1>4

ReportedCounted == IsFiniteSet(Reported) /\ Cardinality(Reported) \in Nat
LEMMA ReportedCounts ==
    FiguresTypeOK /\ LogKnown => ReportedCounted
BY ReportedIs DEF ReportedCounted

(* New messages only add to what a report has yet to count. *)
LEMMA ReportOutgrown ==
    ASSUME FiguresTypeOK, LogKnown, FiguresTypeOK', LogKnown', ReportKnown, log \subseteq log',
           UNCHANGED <<reader, report, removed>>, written', report.step # "done"
    PROVE  ReportKnown'
<1>1. Reported \subseteq Reported'
    BY DEF Reported, InRange, On
<1>2. /\ IsFiniteSet(Reported') /\ Cardinality(Reported') \in Nat
      /\ Cardinality(Reported) \in Nat
  <2>1. ReportedCounted'
    BY ReportedCounts, PTL
  <2> QED BY <2>1, ReportedIs DEF ReportedCounted
<1>3. Cardinality(Reported) <= Cardinality(Reported')
    BY ONLY <1>1, <1>2, FS_Subset
<1>4. PICK a \in Nat, b \in Nat : a = Cardinality(Reported) /\ b = Cardinality(Reported')
    BY <1>2
<1>5. a <= b
    BY <1>3, <1>4
<1>6. (VolumeFound' <=> VolumeFound) /\ (TopFound' <=> TopFound)
    BY DEF VolumeFound, TopFound
<1>7. VolumeKnown => VolumeKnown'
    BY DEF VolumeKnown
<1>8. ASSUME TopFound, TopKnown PROVE TopKnown'
  <2>1. SUFFICES ASSUME ~removed, report.kind = "sheet"
                 PROVE  Total(report.top) <= Cardinality(Reported')
    BY <1>8 DEF TopKnown
  <2>2. PICK t \in Nat : t = Total(report.top)
    BY <1>8 DEF TopKnown
  <2>3. t <= a
    BY <1>4, <1>8, <2>1, <2>2 DEF TopKnown
  <2> QED BY ONLY <1>4, <1>5, <2>2, <2>3
<1>9. ASSUME ~removed, report.step # "none" PROVE report.total <= Cardinality(Reported')
  <2>1. report.total \in Nat /\ report.total <= a
    BY <1>4, <1>9, ReportTypes DEF ReportKnown
  <2> QED BY ONLY <1>4, <1>5, <2>1
<1> QED BY <1>6, <1>7, <1>8, <1>9 DEF ReportKnown

LEMMA ReportVoid ==
    ASSUME ReportKnown, UNCHANGED <<reader, report>>, removed', written', report.step # "done"
    PROVE  ReportKnown'
<1>1. (VolumeFound' <=> VolumeFound) /\ (TopFound' <=> TopFound)
    BY DEF VolumeFound, TopFound
<1>2. (VolumeKnown => VolumeKnown') /\ (TopKnown => TopKnown')
    BY DEF VolumeKnown, TopKnown
<1> QED BY <1>1, <1>2 DEF ReportKnown

LEMMA AskReportKeeps ==
    ASSUME FiguresTypeOK, LogKnown, ViewKnown, ReportKnown, NEW kind \in {"panel", "sheet"},
           NEW line \in Lines \union {EveryLine}, NEW since \in 0 .. today,
           NEW until \in (since .. MaxDay - 1) \union {NoDay},
           AskFigures(kind, line, since, until)
    PROVE  FiguresInv'
<1>1. PICK rows, total, contacts, step :
         /\ rows = On(InRange(since, until), line) /\ total = Cardinality(rows)
         /\ contacts = Cardinality(PhonesOf(rows))
         /\ step = IF kind = "panel" THEN "volume" ELSE "contacts"
    OBVIOUS
<1>2. /\ reader = "figures" /\ report.step = "none" /\ written' = FALSE /\ removed' = FALSE
      /\ report' = [NoReport EXCEPT !.step = step, !.kind = kind, !.line = line,
                                    !.since = since, !.until = until, !.total = total,
                                    !.contacts = contacts]
      /\ UNCHANGED <<reader, log, today, stored, edits, view, came, wanted, cameSince>>
    BY <1>1 DEF AskFigures, store
<1>3. report' = [step |-> step, kind |-> kind, line |-> line, since |-> since, until |-> until,
                 total |-> total, contacts |-> contacts, volume |-> [d \in Days |-> 0],
                 top |-> [p \in {} |-> 0], answered |-> 0, asking |-> 0]
    BY <1>2 DEF NoReport
<1>4. /\ rows \in SUBSET log /\ total \in Nat /\ contacts \in Nat
      /\ step \in {"volume", "contacts"} /\ since \in Nat /\ until \in Int
  <2>1. rows \in SUBSET log
    BY <1>1 DEF On, InRange
  <2>2. total \in Nat /\ contacts \in Nat
    BY <1>1, <2>1, RowsAreFinite
  <2>3. today \in Int /\ MaxDay \in Int
    BY FigureTypes DEF FiguresTypeOK, Days
  <2>4. since \in Nat
    BY <2>3
  <2>5. until \in Int
    BY <2>3, <2>4 DEF NoDay
  <2> QED BY <1>1, <2>1, <2>2, <2>4, <2>5
<1>5. report' \in Report
  <2>1. [d \in Days |-> 0] \in [Days -> Nat]
    OBVIOUS
  <2>2. [p \in {} |-> 0] \in UNION {[phones -> 0 .. MaxMessages] : phones \in SUBSET Phones}
    <3>1. [p \in {} |-> 0] \in [{} -> 0 .. MaxMessages]
      OBVIOUS
    <3> QED BY <3>1
  <2>3. step \in {"none", "volume", "contacts", "rate", "done"} /\ 0 \in Nat
    BY <1>4
  <2> QED BY <1>3, <1>4, <2>1, <2>2, <2>3, Zenon DEF Report
<1>6. FiguresTypeOK'
    BY <1>2, <1>5 DEF FiguresTypeOK
<1>7. LogKnown'
    BY <1>2 DEF LogKnown, Of
<1>8. ViewKnown'
    BY <1>2 DEF ViewKnown
<1>9. Reported' = rows
  <2>1. report'.since = since /\ report'.until = until /\ report'.line = line
    BY <1>3
  <2> QED BY <1>1, <1>2, <2>1 DEF Reported, InRange, On
<1>10. PhonesOf(Reported)' = PhonesOf(rows)
    BY <1>9 DEF PhonesOf
<1>11. /\ ~VolumeFound' /\ ~TopFound' /\ report'.step # "done" /\ report'.total = total
       /\ report'.contacts = contacts /\ report'.answered = 0 /\ report'.asking = 0
    BY <1>1, <1>3 DEF VolumeFound, TopFound
<1>12. ReportKnown'
    BY <1>1, <1>2, <1>4, <1>9, <1>10, <1>11 DEF ReportKnown
<1> QED BY <1>6, <1>7, <1>8, <1>12 DEF FiguresInv

(* A query of the report finds something and changes nothing else. *)
LEMMA QueryKeeps ==
    ASSUME FiguresTypeOK, LogKnown, ViewKnown, report' \in Report, ReportKnown',
           UNCHANGED <<reader, log, today, stored, edits, view, came, removed, written, wanted,
                       cameSince>>,
           reader = "figures"
    PROVE  FiguresInv'
<1>1. FiguresTypeOK'
    BY DEF FiguresTypeOK
<1>2. LogKnown'
    BY DEF LogKnown, Of
<1>3. ViewKnown'
    BY DEF ViewKnown
<1> QED BY <1>1, <1>2, <1>3 DEF FiguresInv

LEMMA VolumeKeeps ==
    ASSUME FiguresTypeOK, LogKnown, ViewKnown, ReportKnown, FiguresByDay
    PROVE  FiguresInv'
<1>1. PICK volume, step : /\ volume = ByDay(Reported)
                          /\ step = IF report.kind = "panel" THEN "contacts" ELSE "done"
    OBVIOUS
<1>2. /\ report.step = "volume" /\ report' = [report EXCEPT !.volume = volume, !.step = step]
      /\ UNCHANGED <<reader, log, today, stored, edits, view, came, removed, written, wanted,
                     cameSince>>
    BY <1>1 DEF FiguresByDay, store, shown
<1>3. /\ volume \in [Days -> Nat] /\ Total(volume) = Cardinality(Reported)
      /\ Cardinality(Reported) \in Nat
      /\ step \in {"none", "volume", "contacts", "rate", "done"}
    BY <1>1, ReportedIs, ByDayIs
<1>4. report' \in Report
    BY <1>2, <1>3, FigureTypes DEF Report
<1>5. /\ report'.step = step /\ report'.volume = volume /\ report'.kind = report.kind
      /\ report'.line = report.line /\ report'.since = report.since
      /\ report'.until = report.until /\ report'.total = report.total
      /\ report'.contacts = report.contacts /\ report'.top = report.top
      /\ report'.answered = report.answered /\ report'.asking = report.asking
    BY <1>2, <1>3, FigureTypes DEF Report
<1>6. Reported' = Reported
    BY <1>2, <1>5 DEF Reported, InRange, On
<1>7. PhonesOf(Reported)' = PhonesOf(Reported)
    BY <1>6 DEF PhonesOf
<1>8. /\ ~written => /\ report.total = Cardinality(Reported)
                     /\ report.contacts = Cardinality(PhonesOf(Reported))
      /\ ~removed => report.total <= Cardinality(Reported)
      /\ report.answered = 0 /\ report.asking = 0 /\ reader = "figures"
    BY <1>2 DEF ReportKnown
<1>9. VolumeKnown'
  <2>1. ASSUME ~removed PROVE Total(volume) >= report.total
    <3>1. PICK n \in Nat, k \in Nat : n = Cardinality(Reported) /\ k = report.total
      BY <1>3, ReportTypes
    <3>2. k <= n
      BY <1>8, <2>1, <3>1
    <3>3. n >= k
      BY ONLY <3>1, <3>2
    <3> QED BY <1>3, <3>1, <3>3
  <2> QED BY <1>2, <1>3, <1>5, <1>8, <2>1 DEF VolumeKnown
<1>10. ASSUME TopFound' PROVE TopKnown'
  <2>1. TopFound /\ step = "done" /\ report.kind = "sheet"
    BY <1>1, <1>2, <1>5, <1>10, ReportTypes DEF TopFound
  <2>2. TopKnown
    BY <1>2, <2>1 DEF ReportKnown
  <2> QED BY <1>2, <1>3, <1>5, <1>6, <2>1, <2>2 DEF TopKnown
<1>11. /\ ~(report'.step = "done" /\ report'.kind = "panel")
       /\ report'.step # "rate" /\ reader' = "figures"
       /\ report'.total = report.total /\ report'.answered = 0 /\ report'.asking = 0
       /\ ~written' => /\ report.total = Cardinality(Reported)
                       /\ report.contacts = Cardinality(PhonesOf(Reported))
    BY <1>1, <1>2, <1>5, <1>8
<1>12. ReportKnown'
    BY <1>2, <1>5, <1>6, <1>7, <1>8, <1>9, <1>10, <1>11 DEF ReportKnown
<1> QED BY <1>2, <1>4, <1>8, <1>12, QueryKeeps

LEMMA ContactsKeep ==
    ASSUME FiguresTypeOK, LogKnown, ViewKnown, ReportKnown, FiguresByContact
    PROVE  FiguresInv'
<1>1. PICK phones : /\ phones \in IF report.kind = "panel" THEN TopOf(Reported)
                                  ELSE {PhonesOf(Reported)}
                    /\ report' = [report EXCEPT !.top = ByPhone(Reported, phones),
                                    !.step = IF report.kind = "panel" THEN "rate"
                                             ELSE "volume"]
    BY DEF FiguresByContact
<1>2. PICK top, step : /\ top = ByPhone(Reported, phones)
                       /\ step = IF report.kind = "panel" THEN "rate" ELSE "volume"
    OBVIOUS
<1>3. /\ report.step = "contacts" /\ report' = [report EXCEPT !.top = top, !.step = step]
      /\ UNCHANGED <<reader, log, today, stored, edits, view, came, removed, written, wanted,
                     cameSince>>
    BY <1>1, <1>2 DEF FiguresByContact, store, shown
<1>4. /\ phones \in SUBSET Phones
      /\ report.kind = "panel" =>
            IF Cardinality(PhonesOf(Reported)) <= TopContacts
            THEN Total(top) = Cardinality(Reported) ELSE Total(top) < Cardinality(Reported)
      /\ report.kind = "sheet" => Total(top) = Cardinality(Reported)
  <2>1. Reported \in SUBSET log /\ PhonesOf(Reported) \in SUBSET Phones
    BY ReportedIs, RowsAreFinite
  <2>2. CASE report.kind = "panel"
    BY <1>1, <1>2, <2>1, <2>2, TopIs
  <2>3. CASE report.kind # "panel"
    BY <1>1, <1>2, <2>1, <2>3, AllPhonesIs
  <2> QED BY <2>2, <2>3
<1>5. /\ top \in [phones -> 0 .. MaxMessages] /\ Total(top) \in Nat
      /\ step \in {"none", "volume", "contacts", "rate", "done"}
      /\ top \in UNION {[chosen -> 0 .. MaxMessages] : chosen \in SUBSET Phones}
      /\ Cardinality(Reported) \in Nat
  <2>1. top \in [phones -> 0 .. MaxMessages] /\ Total(top) \in Nat
    BY <1>2, <1>4, ReportedIs, ByPhoneIs
  <2> QED BY <1>2, <1>4, <2>1, ReportedIs
<1>6. report' \in Report
    BY <1>3, <1>5, FigureTypes DEF Report
<1>7. /\ report'.step = step /\ report'.volume = report.volume /\ report'.kind = report.kind
      /\ report'.line = report.line /\ report'.since = report.since
      /\ report'.until = report.until /\ report'.total = report.total
      /\ report'.contacts = report.contacts /\ report'.top = top
      /\ report'.answered = report.answered /\ report'.asking = report.asking
    BY <1>3, <1>5, FigureTypes DEF Report
<1>8. Reported' = Reported
    BY <1>3, <1>7 DEF Reported, InRange, On
<1>9. PhonesOf(Reported)' = PhonesOf(Reported)
    BY <1>8 DEF PhonesOf
<1>10. /\ ~written => /\ report.total = Cardinality(Reported)
                      /\ report.contacts = Cardinality(PhonesOf(Reported))
       /\ ~removed => report.total <= Cardinality(Reported)
       /\ report.answered = 0 /\ report.asking = 0 /\ reader = "figures"
    BY <1>3 DEF ReportKnown
<1>11. TopKnown'
  <2>1. ASSUME ~written
        PROVE  IF report.kind = "sheet" \/ report.contacts <= TopContacts
               THEN Total(top) = report.total ELSE Total(top) < report.total
    BY <1>4, <1>10, <2>1, ReportTypes
  <2>2. ASSUME ~removed, report.kind = "sheet"
        PROVE  report.total <= Total(top) /\ Total(top) <= Cardinality(Reported)
    <3>1. Total(top) = Cardinality(Reported) /\ report.total <= Cardinality(Reported)
      BY <1>4, <1>10, <2>2
    <3>2. Total(top) <= Total(top)
      BY <1>5
    <3> QED BY <3>1, <3>2
  <2>3. report'.step # "done"
    BY <1>2, <1>7
  <2> QED BY <1>3, <1>5, <1>7, <1>8, <2>1, <2>2, <2>3 DEF TopKnown
<1>12. ASSUME VolumeFound' PROVE VolumeKnown'
  <2>1. VolumeFound
    BY <1>2, <1>3, <1>7, <1>12 DEF VolumeFound
  <2>2. VolumeKnown
    BY <1>3, <2>1 DEF ReportKnown
  <2> QED BY <1>3, <1>7, <2>2 DEF VolumeKnown
<1>13. /\ ~(report'.step = "done" /\ report'.kind = "panel")
       /\ report'.step = "rate" => report'.kind = "panel"
       /\ reader' = "figures" /\ report'.answered = 0 /\ report'.asking = 0
       /\ report'.total = report.total
    BY <1>2, <1>3, <1>7, <1>10
<1>14. ReportKnown'
    BY <1>3, <1>7, <1>8, <1>9, <1>10, <1>11, <1>12, <1>13 DEF ReportKnown
<1> QED BY <1>3, <1>6, <1>10, <1>14, QueryKeeps

LEMMA RateKeeps ==
    ASSUME FiguresTypeOK, LogKnown, ViewKnown, ReportKnown, ResponseRate
    PROVE  FiguresInv'
<1>1. PICK answered, asking : /\ answered = Cardinality(Answered(Reported))
                              /\ asking = Cardinality(PhonesOf(Inbound(Reported)))
    OBVIOUS
<1>2. /\ report.step = "rate"
      /\ report' = [report EXCEPT !.answered = answered, !.asking = asking, !.step = "done"]
      /\ UNCHANGED <<reader, log, today, stored, edits, view, came, removed, written, wanted,
                     cameSince>>
    BY <1>1 DEF ResponseRate, store, shown
<1>3. answered \in Nat /\ asking \in Nat
    BY <1>1, ReportedIs
<1>4. report' \in Report
    BY <1>2, <1>3, FigureTypes DEF Report
<1>5. /\ report'.step = "done" /\ report'.volume = report.volume /\ report'.kind = report.kind
      /\ report'.line = report.line /\ report'.since = report.since
      /\ report'.until = report.until /\ report'.total = report.total
      /\ report'.contacts = report.contacts /\ report'.top = report.top
      /\ report'.answered = answered /\ report'.asking = asking
    BY <1>2, <1>3, FigureTypes DEF Report
<1>6. Reported' = Reported
    BY <1>2, <1>5 DEF Reported, InRange, On
<1>7. /\ PhonesOf(Reported)' = PhonesOf(Reported)
      /\ PhonesOf(Inbound(Reported))' = PhonesOf(Inbound(Reported))
    BY <1>6 DEF PhonesOf, Inbound
<1>8. Answered(Reported)' = Answered(Reported)
    BY <1>2, <1>5, <1>6 DEF Answered, InRange, On, Inbound, PhonesOf
<1>9. /\ report.kind = "panel" /\ reader = "figures"
      /\ ~written => /\ report.total = Cardinality(Reported)
                     /\ report.contacts = Cardinality(PhonesOf(Reported))
      /\ ~removed => report.total <= Cardinality(Reported)
      /\ VolumeKnown /\ TopKnown
    BY <1>2 DEF ReportKnown, VolumeFound, TopFound
<1>10. VolumeKnown' /\ TopKnown'
    BY <1>2, <1>5, <1>9 DEF VolumeKnown, TopKnown
<1>11. ReportKnown'
    BY <1>1, <1>2, <1>5, <1>6, <1>7, <1>8, <1>9, <1>10 DEF ReportKnown
<1> QED BY <1>2, <1>4, <1>9, <1>11, QueryKeeps

-----------------------------------------------------------------------------
(* The list of chats: its steps. *)

(* A page holds the chats of its places, and asks for more when there are more. *)
LEMMA PageIs ==
    ASSUME FiguresTypeOK, LogKnown, NEW line \in Lines \union {EveryLine},
           NEW filter \in Filters, NEW page \in Nat \ {0}, GetChats(line, filter, page),
           \A r \in view.rows : r.page \in 1 .. page - 1
    PROVE  \E new, chats :
              /\ chats = Listed(line, filter)
              /\ view' \in View /\ view'.step = "grouped" /\ view'.line = line
              /\ view'.filter = filter /\ view'.page = page
              /\ view'.rows = view.rows \union new
              /\ \A r \in view'.rows : r.page \in 1 .. page
              /\ \A r \in new :
                    /\ r.page = page /\ r.last = 0 /\ r.chat \in chats
                    /\ r.at = Newest(r.chat)
                    /\ RankOf(r.chat, chats) \in Offset(page) .. Offset(page) + PageLimit - 1
              /\ \A c \in chats :
                    /\ RankOf(c, chats) \in Nat
                    /\ RankOf(c, chats) < Offset(page) + PageLimit \/ ~view'.more =>
                          \/ RankOf(c, chats) < Offset(page)
                          \/ \E r \in new : r.chat = c
<1>1. PICK chats, found, onPage, new :
         /\ chats = Listed(line, filter)
         /\ found = {c \in chats : RankOf(c, chats) \in Offset(page) .. Offset(page) + PageLimit}
         /\ onPage = {c \in found : RankOf(c, chats) < Offset(page) + PageLimit}
         /\ new = {[chat |-> c, page |-> page, at |-> LastOf(Of(log, c)), last |-> 0] :
                      c \in onPage}
    OBVIOUS
<1>2. view' = [step |-> "grouped", line |-> line, filter |-> filter, page |-> page,
               rows |-> view.rows \union new, more |-> found # onPage]
    BY <1>1 DEF GetChats
<1>3. /\ \A c \in chats : Of(log, c) # {} /\ c \in Chats
      /\ \A c \in chats : RankOf(c, chats) \in Nat /\ Newest(c) \in Nat
  <2>1. \A c \in chats : Of(log, c) # {} /\ c \in Chats
    BY <1>1, ListedHave
  <2> QED BY <2>1, RanksAre
<1>4. PICK start \in Nat, limit \in Nat \ {0} : start = Offset(page) /\ limit = PageLimit
    BY OffsetIs
<1>5. ASSUME NEW c \in onPage
      PROVE  /\ c \in chats /\ RankOf(c, chats) \in start .. start + limit - 1
             /\ Newest(c) \in Nat /\ c \in Chats
  <2>1. /\ c \in chats /\ RankOf(c, chats) \in start .. start + limit
        /\ RankOf(c, chats) < start + limit
    BY <1>1, <1>4
  <2>2. RankOf(c, chats) \in start .. start + limit - 1
    BY ONLY <1>4, <2>1
  <2> QED BY <1>3, <2>1, <2>2
<1>6. new \in SUBSET ViewRow
    BY <1>1, <1>5 DEF ViewRow, Newest
<1>7. /\ view' \in View /\ view'.step = "grouped" /\ view'.line = line
      /\ view'.filter = filter /\ view'.page = page /\ view'.rows = view.rows \union new
      /\ view'.more = (found # onPage)
  <2>1. view.rows \in SUBSET ViewRow
    BY FigureTypes DEF View
  <2>2. /\ view.rows \union new \in SUBSET ViewRow /\ (found # onPage) \in BOOLEAN
        /\ "grouped" \in {"closed", "grouped", "shown"} /\ page \in Nat
    BY <1>6, <2>1
  <2>3. view' \in View
    BY ONLY <1>2, <2>2, line \in Lines \union {EveryLine}, filter \in Filters, Zenon DEF View
  <2> QED BY <1>2, <2>3
<1>8. \A r \in new : /\ r.page = page /\ r.last = 0 /\ r.chat \in chats
                     /\ r.at = Newest(r.chat)
                     /\ RankOf(r.chat, chats) \in start .. start + limit - 1
    BY <1>1, <1>5 DEF Newest
<1>9. \A r \in view'.rows : r.page \in 1 .. page
    BY <1>7, <1>8
<1>10. ASSUME NEW c \in chats, RankOf(c, chats) < start + limit \/ found = onPage,
              ~(RankOf(c, chats) < start)
       PROVE  \E r \in new : r.chat = c
  <2>1. PICK k \in Nat : k = RankOf(c, chats)
    BY <1>3
  <2>2. CASE k < start + limit
    <3>1. k \in start .. start + limit
      BY ONLY <1>4, <1>10, <2>1, <2>2
    <3>2. c \in onPage
      BY <1>1, <1>4, <2>1, <2>2, <3>1
    <3>3. PICK r : r = [chat |-> c, page |-> page, at |-> LastOf(Of(log, c)), last |-> 0]
      OBVIOUS
    <3>4. r \in new
      BY <1>1, <3>2, <3>3
    <3>5. r.chat = c
      BY ONLY <3>3
    <3> QED BY ONLY <3>4, <3>5
  <2>3. CASE ~(k < start + limit)
    <3>1. start + limit \in Nat /\ k >= start + limit
      BY ONLY <1>4, <2>1, <2>3
    <3>2. PICK d \in chats : RankOf(d, chats) = start + limit
      BY <1>3, <2>1, <3>1, NoGap
    <3>3. start + limit \in start .. start + limit /\ ~(start + limit < start + limit)
      BY ONLY <1>4
    <3>4. d \in found /\ d \notin onPage
      BY <1>1, <1>4, <3>2, <3>3
    <3> QED BY <1>10, <2>1, <2>3, <3>4
  <2> QED BY <2>2, <2>3
<1>11. \A c \in chats : /\ RankOf(c, chats) \in Nat
                        /\ RankOf(c, chats) < start + limit \/ ~view'.more =>
                              \/ RankOf(c, chats) < start
                              \/ \E r \in new : r.chat = c
    BY <1>3, <1>7, <1>10
<1> QED BY <1>1, <1>4, <1>7, <1>8, <1>9, <1>11

(* What a list shows of a log that stays as it is. *)
LEMMA ListStays ==
    ASSUME UNCHANGED log
    PROVE  /\ \A line, filter : Listed(line, filter)' = Listed(line, filter)
           /\ \A c, chats : RankOf(c, chats)' = RankOf(c, chats)
<1>1. \A line, filter : Listed(line, filter)' = Listed(line, filter)
    BY DEF Listed, ChatsOf, On, Of, Unread, Flagged
<1>2. \A c, chats : RankOf(c, chats)' = RankOf(c, chats)
    BY DEF RankOf, Of, LastOf
<1> QED BY <1>1, <1>2

(* What a list of a page must know for ViewKnown to hold of it. *)
LEMMA ViewIs ==
    ASSUME NEW chats, chats = Listed(view.line, view.filter), UNCHANGED log,
           view'.line = view.line, view'.filter = view.filter, reader' = "list",
           view'.page >= 1, view'.step # "closed",
           ~removed' =>
              /\ \A c \in chats \ came' :
                    RankOf(c, chats) < Offset(view'.page) + PageLimit \/ ~view'.more =>
                       \E r \in view'.rows : r.chat = c
              /\ \A r \in view'.rows :
                    /\ Of(log, r.chat) # {} /\ LastOf(Of(log, r.chat)) >= r.at
                    /\ r.page < view'.page \/ view'.step = "shown" => r.last >= r.at
                    /\ came' = {} =>
                          /\ r.chat \in chats
                          /\ RankOf(r.chat, chats) \in
                                Offset(r.page) .. Offset(r.page) + PageLimit - 1
                          /\ r.at = LastOf(Of(log, r.chat))
                          /\ r.last = IF r.page < view'.page \/ view'.step = "shown"
                                      THEN r.at ELSE 0
    PROVE  ViewKnown'
<1>1. \A c, d : RankOf(c, d)' = RankOf(c, d)
    BY ListStays
<1>2. Listed(view.line, view.filter)' = chats
    BY DEF Listed, ChatsOf, On, Of, Unread, Flagged
<1> QED BY <1>1, <1>2 DEF ViewKnown, InView, Filled

LEMMA OpenKeeps ==
    ASSUME FiguresTypeOK, LogKnown, ViewKnown, ReportKnown,
           NEW line \in Lines \union {EveryLine}, NEW filter \in Filters,
           OpenChats(line, filter)
    PROVE  FiguresInv'
<1>1. /\ reader = "list" /\ view.step = "closed" /\ came' = {} /\ removed' = FALSE
      /\ GetChats(line, filter, 1)
      /\ UNCHANGED <<reader, log, today, stored, edits, report, written, wanted, cameSince>>
    BY DEF OpenChats, store
<1>2. view.rows = {} /\ report.step = "none"
    BY <1>1 DEF ViewKnown, ReportKnown
<1>3. PICK new, chats :
         /\ chats = Listed(line, filter)
         /\ view' \in View /\ view'.step = "grouped" /\ view'.line = line
         /\ view'.filter = filter /\ view'.page = 1
         /\ view'.rows = view.rows \union new
         /\ \A r \in view'.rows : r.page \in 1 .. 1
         /\ \A r \in new :
               /\ r.page = 1 /\ r.last = 0 /\ r.chat \in chats
               /\ r.at = Newest(r.chat)
               /\ RankOf(r.chat, chats) \in Offset(1) .. Offset(1) + PageLimit - 1
         /\ \A c \in chats :
               /\ RankOf(c, chats) \in Nat
               /\ RankOf(c, chats) < Offset(1) + PageLimit \/ ~view'.more =>
                     \/ RankOf(c, chats) < Offset(1)
                     \/ \E r \in new : r.chat = c
  <2>1. 1 \in Nat \ {0}
    OBVIOUS
  <2>2. \A r \in view.rows : r.page \in 1 .. 1 - 1
    BY <1>2
  <2> QED BY <1>1, <2>1, <2>2, PageIs
<1>4. \A c \in chats : Of(log, c) # {} /\ Newest(c) \in Nat
  <2>1. \A c \in chats : Of(log, c) # {}
    BY <1>3, ListedHave
  <2> QED BY <2>1, NewestIs
<1>5. FiguresTypeOK'
    BY <1>1, <1>3 DEF FiguresTypeOK
<1>6. LogKnown'
    BY <1>1 DEF LogKnown, Of
<1>7. ReportKnown'
    BY <1>1, <1>2, ReportStays
<1>8. ASSUME NEW c \in chats, RankOf(c, chats) < Offset(1) + PageLimit \/ ~view'.more
      PROVE  \E r \in view'.rows : r.chat = c
  <2>1. ~(RankOf(c, chats) < Offset(1))
    BY <1>3, OffsetIs
  <2> QED BY <1>3, <1>8, <2>1
<1>9. ASSUME NEW r \in view'.rows
      PROVE  /\ Of(log, r.chat) # {} /\ LastOf(Of(log, r.chat)) >= r.at
             /\ ~(r.page < view'.page \/ view'.step = "shown")
             /\ r.chat \in chats
             /\ RankOf(r.chat, chats) \in Offset(r.page) .. Offset(r.page) + PageLimit - 1
             /\ r.at = LastOf(Of(log, r.chat)) /\ r.last = 0
  <2>1. r \in new
    BY <1>2, <1>3
  <2>2. Newest(r.chat) >= Newest(r.chat)
    BY <1>3, <1>4, <2>1
  <2> QED BY <1>3, <1>4, <2>1, <2>2 DEF Newest
<1>10. ViewKnown'
  <2>1. \A c, d : RankOf(c, d)' = RankOf(c, d)
    BY <1>1, ListStays
  <2>2. Listed(view.line, view.filter)' = chats
    BY <1>1, <1>3 DEF Listed, ChatsOf, On, Of, Unread, Flagged
  <2>3. (\A c \in Listed(view.line, view.filter) \ came :
            RankOf(c, Listed(view.line, view.filter)) < Offset(view.page) + PageLimit
               \/ ~view.more => \E r \in view.rows : r.chat = c)'
    BY <1>3, <1>8, <2>1, <2>2
  <2> QED BY <1>1, <1>3, <1>9, <2>1, <2>2, <2>3 DEF ViewKnown, InView, Filled
<1> QED BY <1>5, <1>6, <1>7, <1>10 DEF FiguresInv

LEMMA ScrollKeeps ==
    ASSUME FiguresTypeOK, LogKnown, ViewKnown, ReportKnown, ScrollChats
    PROVE  FiguresInv'
<1>1. /\ view.step = "shown" /\ view.more
      /\ GetChats(view.line, view.filter, view.page + 1)
      /\ UNCHANGED <<reader, log, today, stored, edits, report, came, removed, written, wanted,
                     cameSince>>
    BY DEF ScrollChats, store, shown
<1>2. reader = "list" /\ view.page \in Nat \ {0} /\ report.step = "none"
  <2>1. reader = "list" /\ view.page >= 1 /\ report.step = "none"
    BY <1>1 DEF ViewKnown, ReportKnown
  <2> QED BY <2>1, FigureTypes
<1>3. PICK page \in Nat \ {0} : page = view.page + 1 /\ view.page < page
    BY <1>2
<1>4. PICK new, chats :
         /\ chats = Listed(view.line, view.filter)
         /\ view' \in View /\ view'.step = "grouped" /\ view'.line = view.line
         /\ view'.filter = view.filter /\ view'.page = page
         /\ view'.rows = view.rows \union new
         /\ \A r \in view'.rows : r.page \in 1 .. page
         /\ \A r \in new :
               /\ r.page = page /\ r.last = 0 /\ r.chat \in chats
               /\ r.at = Newest(r.chat)
               /\ RankOf(r.chat, chats) \in Offset(page) .. Offset(page) + PageLimit - 1
         /\ \A c \in chats :
               /\ RankOf(c, chats) \in Nat
               /\ RankOf(c, chats) < Offset(page) + PageLimit \/ ~view'.more =>
                     \/ RankOf(c, chats) < Offset(page)
                     \/ \E r \in new : r.chat = c
  <2>1. view.line \in Lines \union {EveryLine} /\ view.filter \in Filters
    BY FigureTypes DEF View
  <2>2. \A r \in view.rows : r.page \in 1 .. page - 1
    BY <1>2, <1>3 DEF FiguresTypeOK
  <2>3. GetChats(view.line, view.filter, page)
    BY <1>1, <1>3
  <2> QED BY <2>1, <2>2, <2>3, PageIs
<1>5. \A c \in chats : Of(log, c) # {} /\ Newest(c) \in Nat
  <2>1. \A c \in chats : Of(log, c) # {}
    BY <1>4, ListedHave
  <2> QED BY <2>1, NewestIs
<1>6. FiguresTypeOK'
    BY <1>1, <1>4 DEF FiguresTypeOK
<1>7. LogKnown'
    BY <1>1 DEF LogKnown, Of
<1>8. ReportKnown'
    BY <1>1, <1>2, ReportStays
<1>9. Offset(page) = Offset(view.page) + PageLimit
    BY <1>2, <1>3, OffsetIs
<1>10. ASSUME ~removed', NEW c \in chats \ came',
              RankOf(c, chats) < Offset(page) + PageLimit \/ ~view'.more
       PROVE  \E r \in view'.rows : r.chat = c
  <2>1. CASE RankOf(c, chats) < Offset(page)
    <3>1. InView(c)
      BY <1>1, <1>4, <1>9, <1>10, <2>1 DEF ViewKnown
    <3> QED BY <1>4, <3>1 DEF InView
  <2>2. CASE ~(RankOf(c, chats) < Offset(page))
    BY <1>4, <1>10, <2>2
  <2> QED BY <2>1, <2>2
<1>11. ASSUME ~removed', NEW r \in view'.rows
       PROVE  /\ Of(log, r.chat) # {} /\ LastOf(Of(log, r.chat)) >= r.at
              /\ r.page < view'.page \/ view'.step = "shown" => r.last >= r.at
              /\ came' = {} =>
                    /\ r.chat \in chats
                    /\ RankOf(r.chat, chats) \in
                          Offset(r.page) .. Offset(r.page) + PageLimit - 1
                    /\ r.at = LastOf(Of(log, r.chat))
                    /\ r.last = IF r.page < view'.page \/ view'.step = "shown"
                                THEN r.at ELSE 0
  <2>1. CASE r \in new
    <3>1. Newest(r.chat) >= Newest(r.chat) /\ ~(r.page < view'.page)
      BY <1>4, <1>5, <2>1
    <3> QED BY <1>4, <1>5, <2>1, <3>1 DEF Newest
  <2>2. CASE r \in view.rows
    <3>1. /\ r.page < view'.page /\ Filled(r)
      <4>1. r.page \in 1 .. view.page
        BY <2>2 DEF FiguresTypeOK
      <4> QED BY <1>1, <1>2, <1>3, <1>4, <4>1 DEF Filled
    <3> QED BY <1>1, <1>4, <1>11, <2>2, <3>1 DEF ViewKnown
  <2> QED BY <1>4, <2>1, <2>2
<1>12. ViewKnown'
  <2>1. view'.page >= 1 /\ view'.step # "closed" /\ reader' = "list"
    BY <1>1, <1>2, <1>4
  <2> QED BY <1>1, <1>4, <1>10, <1>11, <2>1, ViewIs
<1> QED BY <1>6, <1>7, <1>8, <1>12 DEF FiguresInv

LEMMA FillKeeps ==
    ASSUME FiguresTypeOK, LogKnown, ViewKnown, ReportKnown, FillChats
    PROVE  FiguresInv'
<1>1. PICK last : last = [r \in view.rows |-> IF Of(log, r.chat) = {} THEN 0
                                              ELSE LastOf(Of(log, r.chat))]
    OBVIOUS
<1>2. PICK filled : filled = [r \in view.rows |->
                         IF r.page = view.page THEN [r EXCEPT !.last = last[r]] ELSE r]
    OBVIOUS
<1>3. PICK rows : rows = {filled[r] : r \in view.rows}
    OBVIOUS
<1>4. /\ view.step = "grouped" /\ view' = [view EXCEPT !.step = "shown", !.rows = rows]
      /\ UNCHANGED <<reader, log, today, stored, edits, report, came, removed, written, wanted,
                     cameSince>>
  <2>1. rows = {IF r.page = view.page
                THEN [r EXCEPT !.last = IF Of(log, r.chat) = {} THEN 0
                                        ELSE LastOf(Of(log, r.chat))]
                ELSE r : r \in view.rows}
    BY <1>1, <1>2, <1>3
  <2> QED BY <2>1 DEF FillChats, store, shown
<1>5. ASSUME NEW r \in view.rows
      PROVE  /\ filled[r] \in ViewRow /\ filled[r].chat = r.chat /\ filled[r].page = r.page
             /\ filled[r].at = r.at
             /\ filled[r].last = IF r.page = view.page THEN last[r] ELSE r.last
  <2>1. r \in ViewRow
    BY FigureTypes
  <2>2. last[r] \in Nat
    <3>1. CASE Of(log, r.chat) = {}
      BY <1>1, <3>1
    <3>2. CASE Of(log, r.chat) # {}
      BY <1>1, <3>2, NewestIs DEF Newest
    <3> QED BY <3>1, <3>2
  <2> QED BY <1>2, <2>1, <2>2 DEF ViewRow
<1>6. /\ view' \in View /\ view'.step = "shown" /\ view'.rows = rows
      /\ view'.line = view.line /\ view'.filter = view.filter /\ view'.page = view.page
      /\ view'.more = view.more
  <2>1. rows \in SUBSET ViewRow
    BY <1>3, <1>5
  <2> QED BY <1>4, <2>1, FigureTypes DEF View
<1>7. FiguresTypeOK'
  <2>1. \A r \in view'.rows : r.page \in 1 .. view'.page
    BY <1>3, <1>5, <1>6 DEF FiguresTypeOK
  <2> QED BY <1>4, <1>6, <2>1 DEF FiguresTypeOK
<1>8. LogKnown'
    BY <1>4 DEF LogKnown, Of
<1>9. reader = "list" /\ view.page >= 1 /\ report.step = "none"
    BY <1>4 DEF ViewKnown, ReportKnown
<1>10. ReportKnown'
    BY <1>4, <1>9, ReportStays
<1>11. PICK chats : chats = Listed(view.line, view.filter)
    OBVIOUS
<1>12. ASSUME ~removed', NEW c \in chats \ came',
              RankOf(c, chats) < Offset(view'.page) + PageLimit \/ ~view'.more
       PROVE  \E r \in view'.rows : r.chat = c
  <2>1. PICK r \in view.rows : r.chat = c
    BY <1>4, <1>6, <1>11, <1>12 DEF ViewKnown, InView
  <2> QED BY <1>3, <1>5, <1>6, <2>1
<1>13. ASSUME ~removed', NEW s \in view'.rows
       PROVE  /\ Of(log, s.chat) # {} /\ LastOf(Of(log, s.chat)) >= s.at
              /\ s.page < view'.page \/ view'.step = "shown" => s.last >= s.at
              /\ came' = {} =>
                    /\ s.chat \in chats
                    /\ RankOf(s.chat, chats) \in
                          Offset(s.page) .. Offset(s.page) + PageLimit - 1
                    /\ s.at = LastOf(Of(log, s.chat))
                    /\ s.last = IF s.page < view'.page \/ view'.step = "shown"
                                THEN s.at ELSE 0
  <2>1. PICK r \in view.rows : s = filled[r]
    BY <1>3, <1>6
  <2>2. /\ Of(log, r.chat) # {} /\ LastOf(Of(log, r.chat)) >= r.at
        /\ Filled(r) => r.last >= r.at
        /\ came = {} =>
              /\ r.chat \in chats
              /\ RankOf(r.chat, chats) \in
                    Offset(r.page) .. Offset(r.page) + PageLimit - 1
              /\ r.at = LastOf(Of(log, r.chat))
              /\ r.last = IF Filled(r) THEN r.at ELSE 0
    BY <1>4, <1>11, <1>13 DEF ViewKnown
  <2>3. /\ s.chat = r.chat /\ s.page = r.page /\ s.at = r.at
        /\ s.last = IF r.page = view.page THEN last[r] ELSE r.last
    BY <1>5, <2>1
  <2>4. CASE r.page = view.page
    <3>1. s.last = LastOf(Of(log, r.chat))
      BY <1>1, <2>2, <2>3, <2>4
    <3> QED BY <1>4, <1>6, <2>2, <2>3, <3>1
  <2>5. CASE r.page # view.page
    <3>1. r.page < view.page
      <4>1. r.page \in 1 .. view.page
        BY DEF FiguresTypeOK
      <4> QED BY <2>5, <4>1, FigureTypes
    <3> QED BY <1>4, <1>6, <2>2, <2>3, <2>5, <3>1 DEF Filled
  <2> QED BY <2>4, <2>5
<1>14. ViewKnown'
  <2>1. view'.page >= 1 /\ view'.step # "closed" /\ reader' = "list"
    BY <1>4, <1>6, <1>9
  <2> QED BY <1>4, <1>6, <1>11, <1>12, <1>13, <2>1, ViewIs
<1> QED BY <1>7, <1>8, <1>10, <1>14 DEF FiguresInv

(* The list and its order, as they follow from a log. *)
ListedIn(rows, line, filter) ==
    {c \in ChatsOf(On(rows, line)) : /\ filter = "unread" => Unread(Of(rows, c)) # {}
                                     /\ filter = "reply-later" => Flagged(Of(rows, c))}
RankIn(rows, c, chats) ==
    Cardinality({d \in chats : LastOf(Of(rows, d)) > LastOf(Of(rows, c))})

(* A new message adds its chat to the list, or brings it to the top: no other chat enters,    *)
(* and no other comes before one it did not come before.                                      *)
LEMMA ListGrows ==
    ASSUME FiguresTypeOK, LogKnown, NEW new, NEW chat, new.id = stored + 1, new.chat = chat,
           NEW rows, \A m : m \in rows <=> m \in log \/ m = new,
           NEW line, NEW filter
    PROVE  /\ \A c \in ListedIn(rows, line, filter) : c # chat =>
                 /\ c \in ListedIn(log, line, filter)
                 /\ RankIn(log, c, ListedIn(log, line, filter)) \in Nat
                 /\ RankIn(log, c, ListedIn(log, line, filter)) <=
                       RankIn(rows, c, ListedIn(rows, line, filter))
                 /\ RankIn(rows, c, ListedIn(rows, line, filter)) \in Nat
           /\ \A c : c # chat => Of(rows, c) = Of(log, c)
           /\ LastOf(Of(rows, chat)) = stored + 1
<1>1. \A m : m \in rows <=> m \in log \/ m = new
    OBVIOUS
<1>2. \A c : c # chat => Of(rows, c) = Of(log, c)
    BY <1>1 DEF Of
<1>3. LastOf(Of(rows, chat)) = stored + 1
  <2>1. PICK n \in Nat : n = stored + 1
    BY FigureTypes
  <2>2. \A m \in Of(rows, chat) : m.id \in 1 .. n
    <3>1. \A m \in log : m.id \in 1 .. n
      BY <2>1, FigureTypes DEF LogKnown
    <3>2. new.id \in 1 .. n
      BY <2>1, FigureTypes
    <3> QED BY <1>1, <3>1, <3>2 DEF Of
  <2>3. new \in Of(rows, chat)
    BY <1>1 DEF Of
  <2>4. /\ LastOf(Of(rows, chat)) \in 1 .. n
        /\ \A m \in Of(rows, chat) : m.id <= LastOf(Of(rows, chat))
    BY <2>2, <2>3, LastIs
  <2> QED BY <2>1, <2>3, <2>4
<1>4. PICK chats, later : chats = Listed(line, filter) /\ later = ListedIn(rows, line, filter)
    OBVIOUS
<1>5. \A c : c \in later <=> ListedBy(Of(rows, c), c, line, filter)
    BY <1>4 DEF ListedIn, ListedBy, ChatsOf, On, Of
<1>6. \A c : c \in chats <=> ListedBy(Of(log, c), c, line, filter)
    BY <1>4, ListedIs
<1>7. \A c : c # chat => (c \in later <=> c \in chats)
    BY <1>2, <1>5, <1>6
<1>8. chat \in chats => chat \in later
  <2>1. Of(log, chat) \subseteq Of(rows, chat)
    BY <1>1 DEF Of
  <2> QED BY <1>5, <1>6, <2>1 DEF ListedBy, Unread, Flagged
<1>9. /\ IsFiniteSet(chats) /\ \A c \in chats : RankOf(c, chats) \in Nat /\ Newest(c) \in Nat
      /\ \A c \in chats : Newest(c) <= stored
  <2>1. \A c \in chats : Of(log, c) # {}
    BY <1>4, ListedHave
  <2> QED BY <2>1, RanksAre, NewestIs
<1>10. ASSUME NEW c \in later, c # chat
       PROVE  /\ c \in chats
              /\ RankIn(log, c, chats) \in Nat /\ RankIn(rows, c, later) \in Nat
              /\ RankIn(log, c, chats) <= RankIn(rows, c, later)
  <2>1. c \in chats
    BY <1>7, <1>10
  <2>2. PICK before, above :
           /\ before = {d \in chats : LastOf(Of(log, d)) > LastOf(Of(log, c))}
           /\ above = {d \in later : LastOf(Of(rows, d)) > LastOf(Of(rows, c))}
    OBVIOUS
  <2>3. LastOf(Of(rows, c)) = Newest(c) /\ Newest(c) < stored + 1
    <3>1. LastOf(Of(rows, c)) = Newest(c)
      BY <1>2, <1>10 DEF Newest
    <3> QED BY <1>9, <2>1, <3>1, FigureTypes
  <2>4. ASSUME NEW d \in before PROVE d \in above
    <3>1. d \in later
      BY <1>7, <1>8, <2>2
    <3>2. CASE d = chat
      BY <1>3, <2>2, <2>3, <3>1, <3>2, FigureTypes, <1>9, <2>1
    <3>3. CASE d # chat
      BY <1>2, <1>10, <2>2, <3>1, <3>3
    <3> QED BY <3>2, <3>3
  <2>5. IsFiniteSet(above)
    <3>1. above \in SUBSET (chats \union {chat})
      BY <1>7, <2>2
    <3>2. IsFiniteSet(chats \union {chat})
      BY ONLY <1>9, FS_AddElement
    <3> QED BY ONLY <3>1, <3>2, FS_Subset
  <2>6. before \in SUBSET above
    BY <2>4
  <2>7. /\ Cardinality(before) <= Cardinality(above)
        /\ Cardinality(before) \in Nat /\ Cardinality(above) \in Nat
    BY ONLY <2>5, <2>6, FS_Subset, FS_CardinalityType
  <2> QED BY <2>1, <2>2, <2>7 DEF RankIn
<1>11. chats = ListedIn(log, line, filter)
    BY <1>4 DEF Listed, ListedIn
<1> QED BY <1>2, <1>3, <1>4, <1>10, <1>11

LEMMA ViewOutgrown ==
    ASSUME FiguresTypeOK, LogKnown, ViewKnown, NEW chat \in Chats, NEW inbound \in BOOLEAN,
           MessageStored(chat, inbound)
    PROVE  ViewKnown'
<1>1. PICK new : new = [id |-> stored + 1, chat |-> chat, inbound |-> inbound,
                        readByUser |-> ~inbound, replyLater |-> FALSE, day |-> today]
    OBVIOUS
<1>2. /\ log' = log \union {new} /\ came' = came \union Noted({chat})
      /\ UNCHANGED <<reader, view, removed>> /\ new.id = stored + 1 /\ new.chat = chat
    BY <1>1 DEF MessageStored, readers
<1>3. CASE view.step = "closed"
    BY <1>2, <1>3 DEF ViewKnown
<1>4. CASE removed
    BY <1>2, <1>4 DEF ViewKnown
<1>5. CASE view.step # "closed" /\ ~removed
  <2>1. reader = "list" /\ view.page >= 1 /\ came' = came \union {chat}
    BY <1>2, <1>5 DEF ViewKnown, Noted
  <2>2. PICK line, filter, rows, chats, later :
           /\ line = view.line /\ filter = view.filter /\ rows = log'
           /\ chats = ListedIn(log, line, filter) /\ later = ListedIn(rows, line, filter)
    OBVIOUS
  <2>3. /\ \A c \in later : c # chat =>
              /\ c \in chats
              /\ RankIn(log, c, chats) \in Nat /\ RankIn(rows, c, later) \in Nat
              /\ RankIn(log, c, chats) <= RankIn(rows, c, later)
        /\ \A c : c # chat => Of(rows, c) = Of(log, c)
        /\ LastOf(Of(rows, chat)) = stored + 1
    <3>1. \A m : m \in rows <=> m \in log \/ m = new
      BY <1>2, <2>2
    <3> QED BY <1>2, <2>2, <3>1, ListGrows
  <2>4. Listed(view.line, view.filter) = chats /\ \A c : RankOf(c, chats) = RankIn(log, c, chats)
    BY <2>2 DEF Listed, ListedIn, RankOf, RankIn
  <2>5. Listed(view.line, view.filter)' = later
    BY <1>2, <2>2 DEF Listed, ListedIn
  <2>6. \A c, d : RankOf(c, d)' = RankIn(rows, c, d)
    BY <2>2 DEF RankOf, RankIn
  <2>7. PICK bound \in Nat : bound = Offset(view.page) + PageLimit
    <3>1. view.page \in Nat \ {0}
      BY <2>1, FigureTypes
    <3>2. Offset(view.page) \in Nat /\ PageLimit \in Nat
      BY ONLY <3>1, OffsetIs
    <3> QED BY ONLY <3>2
  <2>8. ASSUME NEW c \in later \ came', RankIn(rows, c, later) < bound \/ ~view.more
        PROVE  InView(c)
    <3>1. c # chat /\ c \in chats \ came
      BY <2>1, <2>3, <2>8
    <3>2. RankIn(log, c, chats) < bound \/ ~view.more
      BY <2>3, <2>7, <2>8, <3>1
    <3> QED BY <1>5, <2>4, <2>7, <3>1, <3>2 DEF ViewKnown
  <2>9. ASSUME NEW r \in view.rows
        PROVE  /\ Of(rows, r.chat) # {} /\ LastOf(Of(rows, r.chat)) >= r.at
               /\ Filled(r) => r.last >= r.at
    <3>1. /\ Of(log, r.chat) # {} /\ LastOf(Of(log, r.chat)) >= r.at
          /\ Filled(r) => r.last >= r.at
      BY <1>5 DEF ViewKnown
    <3>2. CASE r.chat = chat
      <4>1. Newest(chat) \in Nat /\ Newest(chat) <= stored /\ Newest(chat) >= r.at
        BY <3>1, <3>2, NewestIs DEF Newest
      <4>2. LastOf(Of(rows, r.chat)) >= r.at
        BY <2>3, <3>2, <4>1, FigureTypes
      <4>3. new \in Of(rows, r.chat)
        BY <1>2, <2>2, <3>2 DEF Of
      <4> QED BY <3>1, <4>2, <4>3
    <3>3. CASE r.chat # chat
      BY <2>3, <3>1, <3>3
    <3> QED BY <3>2, <3>3
  <2>10. came' # {}
    BY <2>1
  <2>11. (\A c \in Listed(view.line, view.filter) \ came :
             RankOf(c, Listed(view.line, view.filter)) < Offset(view.page) + PageLimit
                \/ ~view.more => InView(c))'
    BY <1>2, <2>5, <2>6, <2>7, <2>8 DEF InView
  <2> QED BY <1>2, <2>1, <2>2, <2>5, <2>6, <2>9, <2>10, <2>11 DEF ViewKnown, Filled
<1> QED BY <1>3, <1>4, <1>5

-----------------------------------------------------------------------------
(* The invariant. *)

LEMMA FiguresStarts ==
    ASSUME FiguresInit
    PROVE  FiguresInv
<1>1. PICK none : none = [p \in {} |-> 0]
    OBVIOUS
<1>2. /\ reader \in {"list", "figures"} /\ log = {} /\ today = 0 /\ stored = 0 /\ edits = 0
      /\ view = NoView /\ report = NoReport /\ came = {} /\ removed = FALSE
      /\ written = FALSE /\ wanted = [c \in Chats |-> FALSE] /\ cameSince = {}
    BY DEF FiguresInit
<1>3. view \in View /\ view.rows = {} /\ view.step = "closed"
    BY <1>2 DEF NoView, View, Filters
<1>4. none \in UNION {[phones -> 0 .. MaxMessages] : phones \in SUBSET Phones}
  <2>1. none \in [{} -> 0 .. MaxMessages]
    BY <1>1
  <2> QED BY <2>1
<1>5. report \in Report /\ report.step = "none"
  <2>1. [d \in Days |-> 0] \in [Days -> Nat] /\ NoDay \in Int /\ 0 \in Nat
    BY DEF NoDay
  <2>2. report.step = "none"
    BY <1>2 DEF NoReport
  <2>3. report = [step |-> "none", kind |-> "panel", line |-> EveryLine, since |-> 0,
                  until |-> NoDay, total |-> 0, contacts |-> 0,
                  volume |-> [d \in Days |-> 0], top |-> none, answered |-> 0, asking |-> 0]
    BY <1>1, <1>2 DEF NoReport
  <2>4. report \in Report
    BY ONLY <1>4, <2>1, <2>3 DEF Report
  <2> QED BY <2>2, <2>4
<1>6. FiguresTypeOK
  <2>1. today \in Days /\ stored \in 0 .. MaxMessages /\ edits \in 0 .. MaxEdits
    BY <1>2, WhatsappFiguresAssumption DEF Days
  <2>2. wanted \in [Chats -> BOOLEAN]
    BY <1>2
  <2> QED BY <1>2, <1>3, <1>5, <2>1, <2>2 DEF FiguresTypeOK
<1>7. LogKnown
    BY <1>2 DEF LogKnown, Of
<1>8. ViewKnown
    BY <1>3 DEF ViewKnown
<1>9. ReportKnown
    BY <1>5 DEF ReportKnown
<1> QED BY <1>6, <1>7, <1>8, <1>9 DEF FiguresInv

LEMMA ViewVoid ==
    ASSUME ViewKnown, removed', UNCHANGED <<reader, view>>
    PROVE  ViewKnown'
BY DEF ViewKnown

LEMMA FiguresSteps ==
    ASSUME FiguresInv, [FiguresNext]_figureVars
    PROVE  FiguresInv'
<1>1. FiguresTypeOK /\ LogKnown /\ ViewKnown /\ ReportKnown
    BY DEF FiguresInv
<1>2. CASE NextDay
  <2>1. FiguresTypeOK' /\ LogKnown'
    BY <1>1, <1>2, DayKeeps
  <2>2. UNCHANGED <<reader, log, view, report, came, removed, written>>
    BY <1>2 DEF NextDay, readers, shown
  <2>3. view.step = "closed" /\ ViewKnown'
    BY <1>1, <1>2, <2>2 DEF NextDay, ViewKnown
  <2>4. ReportKnown'
    BY <1>1, <2>2, ReportStays
  <2> QED BY <2>1, <2>3, <2>4 DEF FiguresInv
<1>3. CASE ScrollChats
    BY <1>1, <1>3, ScrollKeeps
<1>4. CASE FillChats
    BY <1>1, <1>4, FillKeeps
<1>5. CASE FiguresByDay
    BY <1>1, <1>5, VolumeKeeps
<1>6. CASE FiguresByContact
    BY <1>1, <1>6, ContactsKeep
<1>7. CASE ResponseRate
    BY <1>1, <1>7, RateKeeps
<1>8. ASSUME NEW c \in Chats, ReadChat(c) \/ FlagChat(c) \/ RemoveChat(c)
      PROVE  FiguresInv'
  <2>1. /\ FiguresTypeOK' /\ LogKnown' /\ removed' = TRUE /\ written' = TRUE
        /\ report.step # "done" /\ UNCHANGED <<reader, view, report>>
    BY <1>1, <1>8, ReadKeeps, FlagKeeps, RemoveKeeps
  <2>2. ViewKnown' /\ ReportKnown'
    BY <1>1, <2>1, ViewVoid, ReportVoid
  <2> QED BY <2>1, <2>2 DEF FiguresInv
<1>9. ASSUME NEW c \in Chats, NEW inbound \in BOOLEAN, MessageStored(c, inbound)
      PROVE  FiguresInv'
  <2>1. FiguresTypeOK' /\ LogKnown'
    BY <1>1, <1>9, StoreKeeps
  <2>2. /\ log \subseteq log' /\ UNCHANGED <<reader, report, removed>> /\ written'
        /\ report.step # "done"
    BY <1>9 DEF MessageStored, readers, Open
  <2>3. ReportKnown'
    BY <1>1, <2>1, <2>2, ReportOutgrown
  <2>4. ViewKnown'
    BY <1>1, <1>9, ViewOutgrown
  <2> QED BY <2>1, <2>3, <2>4 DEF FiguresInv
<1>10. ASSUME NEW line \in Lines \union {EveryLine}, NEW filter \in Filters,
              OpenChats(line, filter)
       PROVE  FiguresInv'
    BY <1>1, <1>10, OpenKeeps
<1>11. ASSUME NEW line \in Lines \union {EveryLine}, NEW kind \in {"panel", "sheet"},
              NEW since \in 0 .. today, NEW until \in (since .. MaxDay - 1) \union {NoDay},
              AskFigures(kind, line, since, until)
       PROVE  FiguresInv'
    BY <1>1, <1>11, AskReportKeeps
<1>12. CASE UNCHANGED figureVars
  <2>1. UNCHANGED <<reader, log, today, stored, edits, view, report, came, removed, written,
                    wanted, cameSince>>
    BY <1>12 DEF figureVars
  <2>2. FiguresTypeOK'
    BY <1>1, <2>1 DEF FiguresTypeOK
  <2>3. LogKnown'
    BY <1>1, <2>1 DEF LogKnown, Of
  <2>4. ReportKnown'
    BY <1>1, <2>1, ReportStays
  <2>5. ViewKnown'
    <3>1. (\A c, d : RankOf(c, d)' = RankOf(c, d)) /\ \A c : InView(c)' = InView(c)
      BY <2>1, ListStays DEF InView
    <3>2. Listed(view.line, view.filter)' = Listed(view.line, view.filter)
      BY <2>1 DEF Listed, ChatsOf, On, Of, Unread, Flagged
    <3> QED BY <1>1, <2>1, <3>1, <3>2 DEF ViewKnown, Filled
  <2> QED BY <2>2, <2>3, <2>4, <2>5 DEF FiguresInv
<1> QED BY <1>2, <1>3, <1>4, <1>5, <1>6, <1>7, <1>8, <1>9, <1>10, <1>11, <1>12 DEF FiguresNext

(* FiguresInv is inductive: a list of chats read page by page and a report read query by    *)
(* query know what they have seen, but for the messages, clicks and deletions in between    *)
(* (getChats and exportAnalyticsToExcel in whatsapp.service.ts).                            *)
THEOREM FiguresInvHolds == FiguresSpec => []FiguresInv
<1>1. FiguresInit => FiguresInv
    BY FiguresStarts
<1>2. FiguresInv /\ [FiguresNext]_figureVars => FiguresInv'
    BY FiguresSteps
<1> QED BY <1>1, <1>2, PTL DEF FiguresSpec

LEMMA FiguresMean ==
    ASSUME FiguresInv
    PROVE  PagesCoverTheList /\ FiguresAddUp /\ FlagFollowsClicks
BY PagesAre, FiguresAre, FlagsAre DEF FiguresInv

-----------------------------------------------------------------------------
(* MCWhatsapp.tla: a behaviour is one of a single part, and the others rest. *)

PartInv ==
    /\ ConnectionInv /\ MessagesInv /\ MediaInv /\ FiguresInv
    /\ part \in {"connections", "messages", "media", "figures"}

LEMMA PartInit == Init => PartInv
  BY ConnectionInvInit, MessagesInvInit, MediaStarts, FiguresStarts DEF Init, PartInv

LEMMA PartStep == PartInv /\ [Next]_vars => PartInv'
<1>1. SUFFICES ASSUME PartInv, [Next]_vars PROVE PartInv'
    OBVIOUS
<1>2. /\ [ConnectionNext]_connectionVars /\ [WhatsappMessagesNext]_messageVars
      /\ [MediaCacheNext]_mediaVars /\ [FiguresNext]_figureVars
      /\ part' = part
    BY <1>1 DEF Next, vars
<1>3. ConnectionInv'
    BY <1>1, <1>2, ConnectionInvStep DEF PartInv
<1>4. MessagesInv'
    BY <1>1, <1>2, MessagesInvStep DEF PartInv
<1>5. MediaInv'
    BY <1>1, <1>2, MediaSteps DEF PartInv
<1>6. FiguresInv'
    BY <1>1, <1>2, FiguresSteps DEF PartInv
<1> QED BY <1>1, <1>2, <1>3, <1>4, <1>5, <1>6 DEF PartInv

(* The part that is at work keeps its inductive invariant, and the others stay as they are. *)
THEOREM PartsKeepInv == Spec => []PartInv
  BY PartInit, PartStep, PTL DEF Spec

(* Every part keeps the types and the inductive invariant that TLC checks of it.           *)
THEOREM PartsAreAlwaysTyped == Spec => []WhatsappTypeOK
<1>1. PartInv => WhatsappTypeOK
    BY DEF PartInv, WhatsappTypeOK
<1> QED BY <1>1, PartsKeepInv, PTL

(* Connections and messages are what requests and webhooks made them (DefaultConnection,    *)
(* DeletedLeavesNothing, StatusHasCause, MessagesFollowWebhooks), in the composition that   *)
(* TLC checks.                                                                              *)
THEOREM ConnectionsAndMessagesHold ==
    Spec => [](/\ DefaultConnection /\ DeletedLeavesNothing /\ StatusHasCause
               /\ MessagesFollowWebhooks)
<1>1. PartInv => /\ DefaultConnection /\ DeletedLeavesNothing /\ StatusHasCause
                 /\ MessagesFollowWebhooks
    BY DefaultsAreOne, NothingIsLeft, CauseIsKnown, WebhooksAreFollowed DEF PartInv
<1> QED BY <1>1, PartsKeepInv, PTL

(* What requests read while others write is true: the bytes of the media cache are          *)
(* accounted for, the pages of the list of chats cover it, the figures add up, and "reply   *)
(* later" follows the clicks, in the composition that TLC checks.                           *)
THEOREM ReadsAreAlwaysTrue == Spec => []ReadsAreTrue
<1>1. MediaInv => MediaCacheAccounted
    BY DEF MediaInv
<1>2. PartInv => ReadsAreTrue
    BY <1>1, FiguresMean DEF PartInv, ReadsAreTrue
<1> QED BY <1>2, PartsKeepInv, PTL
=============================================================================
