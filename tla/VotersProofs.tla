---------------------------- MODULE VotersProofs ----------------------------
(***************************************************************************)
(* Voters.tla: every row of a spreadsheet is counted once and lands, and   *)
(* duplicates, counts of leaders, help records and places have the causes  *)
(* VotersInOrder names, for any number of voters, leaders, imports and     *)
(* requests and any spreadsheets.  VoterLists.tla: what pages, figures and *)
(* leaders' requests show and change.  Geocoder.tla: the pause between     *)
(* requests and the places of addresses, for any number of calls.          *)
(* HelpRecords.tla: records, their types, cabinet visits and imports agree,*)
(* whatever fails between two writes.  Rows.tla: figures by group add up to*)
(* the rows they count, and what is kept of a batch.                       *)
(***************************************************************************)
EXTENDS Voters, VoterLists, Geocoder, HelpRecords, FiniteSetTheorems, SequenceTheorems,
        WellFoundedInduction, TLAPS

-----------------------------------------------------------------------------
(* A set of naturals that is not empty has a least element. *)
LEMMA LeastNumber ==
    ASSUME NEW S \in SUBSET Nat, S # {}
    PROVE  \E n \in S : \A m \in S : ~(m < n)
<1>1. PICK R : R = OpToRel(<, Nat)
    BY Zenon
<1>2. IsWellFoundedOn(R, Nat)
    BY <1>1, NatLessThanWellFounded, Zenon
<1>3. PICK n \in S : \A m \in S : ~(<<m, n>> \in R)
    BY <1>2, WFMin
<1>4. \A i, k \in Nat : i < k => <<i, k>> \in R
    BY <1>1, Zenon DEF OpToRel
<1> QED BY <1>3, <1>4

-----------------------------------------------------------------------------
(* Rows.tla: figures, and rows of a batch. *)

(* Points under a function are pairs. *)
LEMMA UnderIs ==
    ASSUME NEW f
    PROVE  /\ \A x \in DOMAIN f : \A n \in 1 .. f[x] : <<x, n>> \in Under(f)
           /\ \A p \in Under(f) : /\ p[1] \in DOMAIN f /\ p[2] \in 1 .. f[p[1]]
                                  /\ p = <<p[1], p[2]>>
BY DEF Under

(* Rows counted by what they have in common add up to the rows: the points under the   *)
(* counts and the rows correspond one to one.                                          *)
LEMMA CountsAddUp ==
    ASSUME NEW R, IsFiniteSet(R), NEW D, NEW c, NEW f,
           \A r \in R : c[r] \in D,
           f = [d \in D |-> Cardinality({r \in R : c[r] = d})]
    PROVE  Total(f) = Cardinality(R)
<1>1. PICK of : of = [d \in D |-> {r \in R : c[r] = d}]
    OBVIOUS
<1>2. \A d \in D : IsFiniteSet(of[d]) /\ f[d] = Cardinality(of[d]) /\ of[d] \in SUBSET R
    BY <1>1, FS_Subset
<1>3. PICK h : h = [d \in D |-> CHOOSE g : g \in Bijection(1 .. f[d], of[d])]
    OBVIOUS
<1>4. \A d \in D : h[d] \in Bijection(1 .. f[d], of[d])
    BY <1>2, <1>3, FS_CardinalityType DEF ExistsBijection
<1>5. PICK B : B = [p \in Under(f) |-> h[p[1]][p[2]]]
    OBVIOUS
<1>6. \A p \in Under(f) : /\ p[1] \in D /\ p[2] \in 1 .. f[p[1]] /\ p = <<p[1], p[2]>>
                          /\ B[p] \in of[p[1]] /\ B[p] = h[p[1]][p[2]]
    BY <1>4, <1>5, UnderIs DEF Bijection, Injection
<1>7. B \in Injection(Under(f), R)
  <2>1. B \in [Under(f) -> R]
    BY <1>2, <1>5, <1>6
  <2>2. ASSUME NEW p \in Under(f), NEW q \in Under(f), B[p] = B[q] PROVE p = q
    <3>1. p[1] = c[B[p]] /\ q[1] = c[B[q]]
      BY <1>1, <1>6
    <3>2. p[1] = q[1] /\ h[p[1]][p[2]] = h[p[1]][q[2]]
      BY <1>6, <2>2, <3>1, ZenonT(40)
    <3>3. h[p[1]] \in Injection(1 .. f[p[1]], of[p[1]]) /\ p[2] \in 1 .. f[p[1]]
          /\ q[2] \in 1 .. f[p[1]]
      BY <1>4, <1>6, <3>2 DEF Bijection
    <3>4. p[2] = q[2]
      BY <3>2, <3>3 DEF Injection, IsInjective
    <3> QED BY <1>6, <3>2, <3>4
  <2> QED BY <2>1, <2>2 DEF Injection, IsInjective
<1>8. B \in Surjection(Under(f), R)
  <2>1. ASSUME NEW r \in R PROVE \E p \in Under(f) : B[p] = r
    <3>1. c[r] \in D /\ r \in of[c[r]]
      BY <1>1
    <3>2. PICK n \in 1 .. f[c[r]] : h[c[r]][n] = r
      BY <1>4, <3>1 DEF Bijection, Surjection
    <3>3. <<c[r], n>> \in Under(f)
      BY <3>1, UnderIs
    <3> QED BY <1>5, <3>2, <3>3
  <2>2. B \in [Under(f) -> R]
    BY <1>7 DEF Injection
  <2> QED BY <2>1, <2>2 DEF Surjection
<1>9. IsFiniteSet(Under(f)) /\ Cardinality(Under(f)) = Cardinality(R)
    BY <1>7, <1>8, FS_Injection
<1> QED BY <1>9 DEF Total

(* The same when some of them have nothing that is counted. *)
LEMMA CountsOfSome ==
    ASSUME NEW R, IsFiniteSet(R), NEW D, NEW c, NEW f,
           f = [d \in D |-> Cardinality({r \in R : c[r] = d})]
    PROVE  /\ Total(f) = Cardinality({r \in R : c[r] \in D})
           /\ Total(f) \in Nat /\ Total(f) <= Cardinality(R)
<1>1. PICK some : some = {r \in R : c[r] \in D}
    OBVIOUS
<1>2. some \in SUBSET R /\ \A r \in some : c[r] \in D
    BY <1>1
<1>3. IsFiniteSet(some) /\ Cardinality(some) <= Cardinality(R) /\ Cardinality(some) \in Nat
    BY <1>2, FS_Subset, FS_CardinalityType
<1>4. \A d \in D : {r \in R : c[r] = d} = {r \in some : c[r] = d}
    BY <1>1
<1>5. f = [d \in D |-> Cardinality({r \in some : c[r] = d})]
    BY <1>4
<1>6. Total(f) = Cardinality(some)
    BY <1>2, <1>3, <1>5, CountsAddUp
<1> QED BY <1>1, <1>3, <1>6
LEMMA KeptIs ==
    ASSUME NEW S, NEW batch \in Seq(S)
    PROVE  /\ Kept(batch) \in Seq(S) /\ Len(Kept(batch)) \in Nat
           /\ Len(Kept(batch)) <= Len(batch)
           /\ DOMAIN Kept(batch) = 1 .. Len(Kept(batch))
           /\ \A n \in DOMAIN Kept(batch) : \E b \in DOMAIN batch :
                 ~batch[b].refused /\ Kept(batch)[n] = batch[b]
           /\ \A b \in DOMAIN batch : ~batch[b].refused =>
                 \E n \in DOMAIN Kept(batch) : Kept(batch)[n] = batch[b]
           /\ \A n, m \in DOMAIN Kept(batch) : n # m => \E b, c \in DOMAIN batch :
                 b # c /\ Kept(batch)[n] = batch[b] /\ Kept(batch)[m] = batch[c]
<1>1. PICK good, size, order :
         /\ good = {n \in DOMAIN batch : ~batch[n].refused} /\ size = Cardinality(good)
         /\ order = [n \in 1 .. size |->
                       CHOOSE m \in good : Cardinality({k \in good : k < m}) = n - 1]
    OBVIOUS
<1>2. Len(batch) \in Nat /\ DOMAIN batch = 1 .. Len(batch)
    OBVIOUS
<1>3. IsFiniteSet(good) /\ size <= Len(batch) /\ good \in SUBSET Nat
  <2>1. IsFiniteSet(1 .. Len(batch)) /\ Cardinality(1 .. Len(batch)) = Len(batch)
    BY <1>2, FS_Interval, SMTT(40)
  <2>2. good \in SUBSET (1 .. Len(batch))
    BY <1>1, <1>2
  <2>3. Cardinality(good) <= Cardinality(1 .. Len(batch)) /\ IsFiniteSet(good)
    BY <2>1, <2>2, FS_Subset
  <2>4. good \in SUBSET Nat
    BY <1>2, <2>2
  <2> QED BY <1>1, <2>1, <2>3, <2>4
<1>4. size \in Nat /\ IsFiniteSet(1 .. size) /\ Cardinality(1 .. size) = size
    BY <1>1, <1>3, FS_CardinalityType, FS_Interval, SMTT(40)
<1>5. PICK rank : rank = [m \in good |-> Cardinality({k \in good : k < m}) + 1]
    OBVIOUS
<1>6. rank \in Injection(good, 1 .. size)
  <2>1. ASSUME NEW m \in good
        PROVE  /\ Cardinality({k \in good : k < m}) \in Nat /\ rank[m] \in 1 .. size
               /\ IsFiniteSet({k \in good : k < m})
    <3>1. PICK less, n : less = {k \in good : k < m} /\ n = Cardinality(less)
      OBVIOUS
    <3>2. less \in SUBSET good /\ m \in good \ less
      BY <1>3, <3>1
    <3>3. IsFiniteSet(less) /\ n \in Nat /\ n <= size /\ n # size
      BY <1>1, <1>3, <3>1, <3>2, FS_Subset, FS_CardinalityType
    <3>4. n + 1 \in 1 .. size
      BY ONLY <1>4, <3>3
    <3> QED BY <1>5, <3>1, <3>3, <3>4
  <2>2. ASSUME NEW l \in good, NEW m \in good, l < m PROVE rank[l] # rank[m]
    <3>1. PICK low, high : low = {k \in good : k < l} /\ high = {k \in good : k < m}
      OBVIOUS
    <3>2. low \in SUBSET high /\ l \in high \ low
      <4>1. \A k \in good : k < l => k < m
        BY <1>3, <2>2
      <4>2. l \in Nat /\ ~(l < l)
        BY <1>3
      <4> QED BY <2>2, <3>1, <4>1, <4>2
    <3>3. Cardinality(low) # Cardinality(high)
      BY <2>1, <3>1, <3>2, FS_Subset
    <3>4. Cardinality(low) \in Nat /\ Cardinality(high) \in Nat
      BY <2>1, <3>1
    <3> QED BY <1>5, <3>1, <3>3, <3>4
  <2>3. rank \in [good -> 1 .. size]
    BY <1>5, <2>1
  <2>4. \A l, m \in good : l # m => rank[l] # rank[m]
    BY <1>3, <2>2
  <2>5. IsInjective(rank)
    BY <2>3, <2>4 DEF IsInjective
  <2> QED BY <2>3, <2>5 DEF Injection
<1>7. \A n \in 1 .. size : \E m \in good : rank[m] = n
  <2>1. rank \in Surjection(good, 1 .. size)
    BY <1>1, <1>4, <1>6, FS_Injection
  <2> QED BY <2>1 DEF Surjection
<1>8. ASSUME NEW n \in 1 .. size PROVE order[n] \in good /\ rank[order[n]] = n
  <2>1. PICK m \in good : rank[m] = n
    BY <1>7
  <2>2. Cardinality({k \in good : k < m}) \in Nat
    <3>1. {k \in good : k < m} \in SUBSET good
      OBVIOUS
    <3> QED BY <1>3, <3>1, FS_Subset, FS_CardinalityType
  <2>3. Cardinality({k \in good : k < m}) = n - 1
    BY <1>5, <2>1, <2>2
  <2>4. /\ order[n] \in good
        /\ Cardinality({k \in good : k < order[n]}) = n - 1
    BY <1>1, <2>3
  <2> QED BY <1>5, <2>4
<1>9. order \in [1 .. size -> good] /\ IsInjective(order)
  <2>1. order \in [1 .. size -> good]
    BY <1>1, <1>8
  <2>2. \A n, m \in 1 .. size : order[n] = order[m] => n = m
    BY <1>8
  <2> QED BY <2>1, <2>2 DEF IsInjective
<1>10. \A b \in good : \E n \in 1 .. size : order[n] = b
  <2>1. ASSUME NEW b \in good PROVE order[rank[b]] = b /\ rank[b] \in 1 .. size
    <3>1. rank[b] \in 1 .. size /\ \A l, m \in good : rank[l] = rank[m] => l = m
      BY <1>6 DEF Injection, IsInjective
    <3> QED BY <1>8, <3>1
  <2> QED BY <2>1
<1>11. PICK kept : kept = [n \in 1 .. size |-> batch[order[n]]]
    OBVIOUS
<1>12. Kept(batch) = kept
    BY <1>1, <1>9, <1>11 DEF Kept
<1>13. \A n \in 1 .. size : order[n] \in DOMAIN batch /\ ~batch[order[n]].refused
                           /\ kept[n] = batch[order[n]] /\ kept[n] \in S
  <2>1. \A m \in good : m \in DOMAIN batch /\ ~batch[m].refused /\ batch[m] \in S
    BY <1>1, <1>2
  <2> QED BY ONLY <1>9, <1>11, <2>1
<1>14. kept \in Seq(S) /\ Len(kept) = size /\ DOMAIN kept = 1 .. size
    BY <1>4, <1>11, <1>13
<1>15. \A n \in 1 .. size : \E b \in DOMAIN batch : ~batch[b].refused /\ kept[n] = batch[b]
    BY <1>13
<1>16. \A b \in DOMAIN batch : ~batch[b].refused => \E n \in 1 .. size : kept[n] = batch[b]
  <2>1. ASSUME NEW b \in DOMAIN batch, ~batch[b].refused
        PROVE  \E n \in 1 .. size : kept[n] = batch[b]
    <3>1. b \in good
      BY <1>1, <2>1
    <3>2. PICK n \in 1 .. size : order[n] = b
      BY <1>10, <3>1
    <3> QED BY <1>13, <3>2
  <2> QED BY <2>1
<1>17. \A n, m \in 1 .. size : n # m => \E b, c \in DOMAIN batch :
          b # c /\ kept[n] = batch[b] /\ kept[m] = batch[c]
  <2>1. ASSUME NEW n \in 1 .. size, NEW m \in 1 .. size, n # m
        PROVE  \E b, c \in DOMAIN batch : b # c /\ kept[n] = batch[b] /\ kept[m] = batch[c]
    <3>1. order[n] # order[m]
      BY <1>9, <2>1 DEF IsInjective
    <3> QED BY <1>13, <3>1
  <2> QED BY <2>1
<1>18. PICK those, n : those = Kept(batch) /\ n = Len(Kept(batch))
    OBVIOUS
<1>19. those = kept /\ n = size
    BY <1>12, <1>14, <1>18
<1>20. those \in Seq(S) /\ n \in Nat /\ DOMAIN those = 1 .. n
    BY <1>4, <1>14, <1>19
<1>21. \A m \in DOMAIN those : \E b \in DOMAIN batch : ~batch[b].refused /\ those[m] = batch[b]
    BY ONLY <1>14, <1>15, <1>19
<1>22. \A b \in DOMAIN batch : ~batch[b].refused => \E m \in DOMAIN those : those[m] = batch[b]
    BY ONLY <1>14, <1>16, <1>19
<1>23. \A l, m \in DOMAIN those : l # m => \E b, c \in DOMAIN batch :
          b # c /\ those[l] = batch[b] /\ those[m] = batch[c]
    BY ONLY <1>14, <1>17, <1>19
<1>24. n <= Len(batch)
    BY <1>3, <1>19
<1> QED BY ONLY <1>18, <1>20, <1>21, <1>22, <1>23, <1>24

-----------------------------------------------------------------------------
(* Voters.tla: rows, imports and requests. *)

RowsCounted(i) ==
    LET job == import[i] IN
    /\ job.imported + job.skipped + job.duplicates + Len(job.batch) = job.at - 1
    /\ job.imported = Cardinality(job.mine)
Landed(i, k) ==
    \/ \E v \in 1 .. Count : voters[v].key = k
    \/ InBatch(i, k)
    \/ \E m \in Done(i) : import[i].file[m].key = k /\ import[i].file[m].refused
RowsLand(i) ==
    \A n \in Done(i) :
       import[i].file[n].named /\ import[i].file[n].key # NoKey => Landed(i, import[i].file[n].key)
ImportTells(i) == RowsCounted(i) /\ RowsLand(i) /\ IndexTells(i) /\ HelpTells(i)

LEMMA VotersTypes ==
    ASSUME VotersTypeOK
    PROVE  /\ voters \in Seq(Voter) /\ Count \in Nat /\ Count <= MaxVoters
           /\ DOMAIN voters = 1 .. Count /\ Len(voters) = Count
           /\ \A v \in 1 .. Count : v \in VoterIds /\ v \in Nat /\ voters[v] \in Voter
           /\ MaxVoters \in Nat \ {0} /\ MaxLeaders \in Nat \ {0} /\ BatchSize \in Nat \ {0}
           /\ MaxWork \in Nat /\ Pending = MaxVoters + 1 /\ Pending \in Nat
           /\ HereV \in SUBSET (1 .. Count) /\ IsFiniteSet(1 .. Count)
<1>1. voters \in Seq(Voter) /\ Count <= MaxVoters
    BY DEF VotersTypeOK
<1>2. Count \in Nat /\ DOMAIN voters = 1 .. Count /\ Len(voters) = Count
    BY <1>1 DEF Count
<1>3. /\ MaxVoters \in Nat \ {0} /\ MaxLeaders \in Nat \ {0} /\ BatchSize \in Nat \ {0}
      /\ MaxWork \in Nat
    BY VotersAssumption
<1>4. Pending = MaxVoters + 1 /\ Pending \in Nat
    BY <1>3 DEF Pending
<1>5. \A v \in 1 .. Count : v \in VoterIds /\ v \in Nat
    BY <1>1, <1>2, <1>3 DEF VoterIds
<1>6. \A v \in 1 .. Count : voters[v] \in Voter
    BY <1>1, <1>2
<1>7. HereV \in SUBSET (1 .. Count)
    BY DEF HereV
<1>8. IsFiniteSet(1 .. Count)
    BY <1>2, FS_Interval
<1> QED BY <1>1, <1>2, <1>3, <1>4, <1>5, <1>6, <1>7, <1>8

LEMMA LeaderRows ==
    ASSUME VotersTypeOK
    PROVE  /\ leaderRow \in Seq([name : LeaderNames, count : 0 .. MaxVoters])
           /\ Len(leaderRow) \in 0 .. MaxLeaders /\ Len(leaderRow) \in Nat
           /\ DOMAIN leaderRow = 1 .. Len(leaderRow)
           /\ DOMAIN leaderRow \in SUBSET LeaderIds
           /\ \A l \in DOMAIN leaderRow : /\ leaderRow[l].name \in LeaderNames
                                          /\ leaderRow[l].count \in 0 .. MaxVoters
<1>1. /\ leaderRow \in Seq([name : LeaderNames, count : 0 .. MaxVoters])
      /\ Len(leaderRow) <= MaxLeaders
    BY DEF VotersTypeOK
<1>2. Len(leaderRow) \in Nat /\ DOMAIN leaderRow = 1 .. Len(leaderRow)
    BY <1>1
<1>3. MaxLeaders \in Nat
    BY VotersAssumption
<1>4. Len(leaderRow) \in 0 .. MaxLeaders /\ DOMAIN leaderRow \in SUBSET LeaderIds
    BY <1>1, <1>2, <1>3 DEF LeaderIds
<1>5. PICK Rows : Rows = [name : LeaderNames, count : 0 .. MaxVoters]
    OBVIOUS
<1>6. \A l \in DOMAIN leaderRow : leaderRow[l] \in Rows
  <2>1. leaderRow \in Seq(Rows)
    BY <1>1, <1>5
  <2> QED BY ONLY <2>1, <1>2
<1>7. \A l \in DOMAIN leaderRow : /\ leaderRow[l].name \in LeaderNames
                                   /\ leaderRow[l].count \in 0 .. MaxVoters
    BY <1>5, <1>6
<1> QED BY <1>1, <1>2, <1>4, <1>7

LEMMA ImportTyped ==
    ASSUME VotersTypeOK, NEW i \in Imports
    PROVE  /\ import[i] \in ImportState /\ import[i].file \in Seq(Row)
           /\ import[i].at \in Nat /\ 1 <= import[i].at /\ Len(import[i].file) \in Nat
           /\ import[i].at <= Len(import[i].file) + 1
           /\ DOMAIN import[i].file = 1 .. Len(import[i].file)
           /\ \A n \in Done(i) : n \in Nat /\ n < import[i].at /\ n \in DOMAIN import[i].file
                                 /\ import[i].file[n] \in Row
           /\ import[i].batch \in Seq(Row) /\ Len(import[i].batch) \in Nat
           /\ DOMAIN import[i].batch = 1 .. Len(import[i].batch)
           /\ \A b \in DOMAIN import[i].batch : import[i].batch[b] \in Row
<1>1. PICK job, n : job = import[i] /\ n = Len(import[i].file)
    OBVIOUS
<1>2. job \in ImportState /\ job.at \in 1 .. n + 1
    BY <1>1 DEF VotersTypeOK
<1>3. job.file \in Seq(Row)
  <2>1. job.file \in Files \/ job.file = <<>>
    BY <1>2 DEF ImportState
  <2>2. <<>> \in Seq(Row)
    OBVIOUS
  <2> QED BY <2>1, <2>2, VotersAssumption
<1>4. n \in Nat /\ DOMAIN job.file = 1 .. n /\ \A m \in DOMAIN job.file : job.file[m] \in Row
    BY <1>1, <1>3
<1>5. job.at \in Nat /\ 1 <= job.at /\ job.at <= n + 1
    BY <1>2, <1>4
<1>6. \A m \in Done(i) : m \in Nat /\ m < job.at /\ m \in DOMAIN job.file
    BY <1>1, <1>4, <1>5 DEF Done
<1>7. job.batch \in Seq(Row)
    BY <1>2 DEF ImportState
<1>8. /\ Len(job.batch) \in Nat /\ DOMAIN job.batch = 1 .. Len(job.batch)
      /\ \A b \in DOMAIN job.batch : job.batch[b] \in Row
    BY <1>7
<1> QED BY <1>1, <1>2, <1>3, <1>4, <1>5, <1>6, <1>7, <1>8

LEMMA RequestTyped ==
    ASSUME VotersTypeOK, NEW j \in VoterJobs
    PROVE  /\ voterJob[j] \in VoterJobState /\ voterJob[j].id \in VoterIds
           /\ voterJob[j].copy \in Voter /\ voterJob[j].old \in 0 .. MaxLeaders
           /\ voterJob[j].leader \in 0 .. MaxLeaders
<1>1. voterJob[j] \in VoterJobState
    BY DEF VotersTypeOK
<1> QED BY <1>1 DEF VoterJobState

(* The row at work. *)
LEMMA OfImportIs ==
    ASSUME VotersTypeOK, NEW i \in Imports, Importing(i)
    PROVE  /\ import[i].at \in DOMAIN import[i].file /\ OfImport(i) = import[i].file[import[i].at]
           /\ OfImport(i) \in Row /\ import[i].step = "rows"
           /\ import[i].at <= Len(import[i].file) /\ Len(import[i].batch) < BatchSize
<1>1. /\ import[i].step = "rows" /\ import[i].at <= Len(import[i].file)
      /\ Len(import[i].batch) < BatchSize
    BY DEF Importing
<1>2. /\ import[i].at \in Nat /\ 1 <= import[i].at /\ Len(import[i].file) \in Nat
      /\ DOMAIN import[i].file = 1 .. Len(import[i].file) /\ import[i].file \in Seq(Row)
    BY ImportTyped
<1>3. import[i].at \in DOMAIN import[i].file
    BY <1>1, <1>2
<1> QED BY <1>1, <1>2, <1>3 DEF OfImport

(* The greatest of some numbers. *)
LEMMA Max2Is ==
    ASSUME NEW n \in Nat, NEW S \in SUBSET (0 .. n), S # {}
    PROVE  Max2(S) \in S /\ \A y \in S : y <= Max2(S)
<1>1. PICK bounds : bounds = {m \in Nat : \A y \in S : y <= m}
    OBVIOUS
<1>2. n \in bounds
    BY <1>1
<1>3. PICK m \in bounds : \A k \in bounds : ~(k < m)
    BY <1>1, <1>2, LeastNumber
<1>4. m \in Nat /\ \A y \in S : y <= m
    BY <1>1, <1>3
<1>5. m \in S
  <2>1. SUFFICES ASSUME m \notin S PROVE FALSE
    OBVIOUS
  <2>2. PICK y \in S : TRUE
    OBVIOUS
  <2>3. m - 1 \in Nat /\ \A z \in S : z <= m - 1
    BY <1>4, <2>1, <2>2
  <2>4. m - 1 \in bounds /\ m - 1 < m
    BY <1>1, <1>4, <2>3
  <2> QED BY <1>3, <2>4
<1> QED BY <1>4, <1>5 DEF Max2

-----------------------------------------------------------------------------
(* The invariant by its imports, and what a step leaves as it was. *)

LEMMA TellsOf ==
    ASSUME VotersInv, NEW i \in Imports
    PROVE  ImportTells(i)
<1>1. RowsCounted(i)
    BY DEF VotersInv, RowsAreCounted, RowsCounted
<1>2. RowsLand(i)
    BY DEF VotersInv, NamedRowsLand, RowsLand, Landed, InBatch, SameKey
<1> QED BY <1>1, <1>2 DEF VotersInv, ImportTells

LEMMA InvFrom ==
    ASSUME VotersTypeOK', \A i \in Imports : ImportTells(i)', NoneTwice', CopiesAreOfRows',
           PlacesAreRight', CountsAreComing'
    PROVE  VotersInv'
<1>1. RowsAreCounted'
    BY DEF ImportTells, RowsAreCounted, RowsCounted
<1>2. NamedRowsLand'
  <2>1. SUFFICES ASSUME NEW i \in Imports, NEW n \in Done(i)', import'[i].file[n].named,
                        import'[i].file[n].key # NoKey
                 PROVE  \/ \E v \in 1 .. Count' : voters'[v].key = import'[i].file[n].key
                        \/ \E b \in DOMAIN import'[i].batch :
                              import'[i].batch[b].key = import'[i].file[n].key
                        \/ \E m \in Done(i)' : SameKey(import'[i].file[m], import'[i].file[n])
                                               /\ import'[i].file[m].refused
    BY DEF NamedRowsLand
  <2>2. PICK k : k = import'[i].file[n].key
    OBVIOUS
  <2>3. Landed(i, k)'
    BY <2>1, <2>2 DEF ImportTells, RowsLand
  <2>4. \/ \E v \in 1 .. Count' : voters'[v].key = k
        \/ \E b \in DOMAIN import'[i].batch : import'[i].batch[b].key = k
        \/ \E m \in Done(i)' : import'[i].file[m].key = k /\ import'[i].file[m].refused
    BY <2>3 DEF Landed, InBatch
  <2> QED BY <2>1, <2>2, <2>4 DEF SameKey
<1> QED BY <1>1, <1>2 DEF VotersInv, ImportTells

LEMMA ImportStays ==
    ASSUME VotersInv, NEW i \in Imports, import'[i] = import[i], Count' \in Nat, Count <= Count',
           \A v \in 1 .. Count : /\ voters'[v].key = voters[v].key
                                 /\ voters'[v].spelled = voters[v].spelled,
           \A k \in crossed : k \in crossed',
           \A v \in 1 .. Count : voters'[v].here /\ ~voters[v].here /\ voters[v].key # NoKey =>
              voters[v].key \in crossed'
    PROVE  ImportTells(i)'
<1>1. ImportTells(i) /\ VotersTypeOK
    BY TellsOf DEF VotersInv
<1>2. PICK job : job = import[i]
    OBVIOUS
<1>3. import'[i] = job /\ Done(i)' = Done(i)
    BY <1>2 DEF Done
<1>4. Count \in Nat /\ \A v \in 1 .. Count : v \in 1 .. Count'
    BY <1>1, VotersTypes
<1>5. RowsCounted(i)'
    BY <1>1, <1>2, <1>3 DEF ImportTells, RowsCounted
<1>6. \A k : InBatch(i, k)' <=> InBatch(i, k)
    BY <1>2, <1>3 DEF InBatch
<1>7. \A k : Landed(i, k) => Landed(i, k)'
    BY <1>2, <1>3, <1>4, <1>6 DEF Landed
<1>8. RowsLand(i)'
    BY <1>1, <1>2, <1>3, <1>7 DEF ImportTells, RowsLand
<1>9. \A r : HasVoter(i, r) => HasVoter(i, r)'
    BY <1>2, <1>3, <1>4 DEF HasVoter
<1>10. IndexTells(i)'
  <2>1. IndexTells(i)
    BY <1>1 DEF ImportTells
  <2>2. job.since \in Nat /\ job.mine \in SUBSET VoterIds /\ \A v \in VoterIds : v \in Nat
    <3>1. job \in ImportState
      BY <1>1, <1>2, ImportTyped
    <3>2. job.since \in 0 .. MaxVoters /\ job.mine \in SUBSET VoterIds
      BY <3>1 DEF ImportState
    <3>3. MaxVoters \in Nat /\ VoterIds = 1 .. MaxVoters
      BY <1>1, VotersTypes DEF VoterIds
    <3> QED BY ONLY <3>2, <3>3
  <2>3. job.since <= Count' /\ \A v \in job.mine : v <= Count'
    <3>1. job.since <= Count /\ \A v \in job.mine : v <= Count
      BY <1>2, <2>1 DEF IndexTells
    <3> QED BY <1>4, <2>2, <3>1
  <2>4. job.step = "index" => job.at = 1 /\ job.batch = <<>> /\ job.mine = {}
    BY <1>2, <2>1 DEF IndexTells
  <2>5. ASSUME NEW k \in Keys
        PROVE  /\ job.index[k] \notin {0, Pending} =>
                     job.index[k] <= Count' /\ voters'[job.index[k]].key = k
               /\ job.index[k] = Pending =>
                     \E m \in Done(i) : job.file[m].key = k /\ HasVoter(i, job.file[m])'
               /\ job.step = "rows" /\ (job.index[k] = 0 \/ InBatch(i, k)) =>
                     k \in crossed' \/ \A v \in WithKey(k)' : v > job.since /\ v \notin job.mine
    <3>1. job.index[k] \in Nat
      <4>1. job.index \in [Keys -> 0 .. Pending]
        BY <1>1, <1>2, ImportTyped DEF ImportState
      <4> QED BY <1>1, <4>1, VotersTypes
    <3>2. job.index[k] \notin {0, Pending} =>
             job.index[k] <= Count' /\ voters'[job.index[k]].key = k
      <4>1. SUFFICES ASSUME job.index[k] \notin {0, Pending}
                     PROVE  job.index[k] <= Count' /\ voters'[job.index[k]].key = k
        OBVIOUS
      <4>2. job.index[k] <= Count /\ voters[job.index[k]].key = k
        BY <1>2, <2>1, <4>1 DEF IndexTells
      <4>3. job.index[k] \in 1 .. Count
        BY <1>4, <3>1, <4>1, <4>2
      <4> QED BY <1>4, <3>1, <4>2, <4>3
    <3>3. job.index[k] = Pending =>
             \E m \in Done(i) : job.file[m].key = k /\ HasVoter(i, job.file[m])'
      BY <1>2, <1>9, <2>1 DEF IndexTells
    <3>4. ASSUME job.step = "rows", job.index[k] = 0 \/ InBatch(i, k), k \notin crossed',
                 NEW v \in WithKey(k)'
          PROVE  v > job.since /\ v \notin job.mine
      <4>1. v \in 1 .. Count' /\ voters'[v].here /\ voters'[v].key = k
        BY DEF WithKey, HereV
      <4>2. CASE v \in 1 .. Count
        <5>1. k # NoKey
          BY VotersAssumption
        <5>2. voters[v].key = k /\ voters[v].here
          BY <3>4, <4>1, <4>2, <5>1
        <5>3. v \in WithKey(k)
          BY <4>2, <5>2 DEF WithKey, HereV
        <5>4. k \notin crossed
          BY <3>4
        <5> QED BY <1>2, <2>1, <3>4, <5>3, <5>4 DEF IndexTells
      <4>3. CASE v \notin 1 .. Count
        <5>1. v > Count
          BY <1>4, <4>1, <4>3
        <5>2. job.since <= Count /\ \A w \in job.mine : w <= Count
          BY <1>2, <2>1 DEF IndexTells
        <5>3. v > job.since
          BY <1>4, <2>2, <4>1, <5>1, <5>2
        <5>4. v \notin job.mine
          BY <1>4, <2>2, <4>1, <5>1, <5>2
        <5> QED BY <5>3, <5>4
      <4> QED BY <4>2, <4>3
    <3> QED BY <3>2, <3>3, <3>4
  <2>6. \A b \in DOMAIN job.batch :
           /\ \E m \in Done(i) : job.file[m] = job.batch[b]
           /\ job.batch[b].key # NoKey =>
                 /\ job.index[job.batch[b].key] = Pending
                 /\ \A c \in DOMAIN job.batch : job.batch[c].key = job.batch[b].key => c = b
    BY <1>2, <2>1 DEF IndexTells
  <2> QED BY <1>3, <1>6, <2>3, <2>4, <2>5, <2>6 DEF IndexTells, Pending
<1>11. HelpTells(i)'
  <2>1. Asked(i)' = Asked(i)
    BY <1>2, <1>3 DEF Asked
  <2>2. \A k : k # NoKey /\ GoneOrCrossed(k) => GoneOrCrossed(k)'
    <3>1. SUFFICES ASSUME NEW k, k # NoKey, GoneOrCrossed(k) PROVE GoneOrCrossed(k)'
      OBVIOUS
    <3>2. CASE k \in crossed
      BY <3>2 DEF GoneOrCrossed
    <3>3. CASE \E v \in 1 .. Count : voters[v].key = k /\ ~voters[v].here
      <4>1. PICK v \in 1 .. Count : voters[v].key = k /\ ~voters[v].here
        BY <3>3
      <4>2. voters'[v].key = k /\ (voters'[v].here => k \in crossed') /\ v \in 1 .. Count'
        BY <1>4, <3>1, <4>1
      <4> QED BY <4>2 DEF GoneOrCrossed
    <3> QED BY <3>1, <3>2, <3>3 DEF GoneOrCrossed
  <2>3. \A n : Excused(i, n) => Excused(i, n)'
    BY <1>2, <1>3, <2>2 DEF Excused
  <2> QED BY <1>1, <1>2, <1>3, <2>1, <2>3 DEF ImportTells, HelpTells
<1> QED BY <1>5, <1>8, <1>10, <1>11 DEF ImportTells

(* The rows keep their keys, spelling and place; one that comes back is crossed. *)
RowsKept == /\ Count' \in Nat /\ Count <= Count'
            /\ \A v \in 1 .. Count : /\ voters'[v].key = voters[v].key
                                     /\ voters'[v].spelled = voters[v].spelled
                                     /\ voters'[v].place = voters[v].place
BackIsCrossed ==
    /\ \A k \in crossed : k \in crossed'
    /\ \A v \in 1 .. Count : voters'[v].here /\ ~voters[v].here /\ voters[v].key # NoKey =>
          voters[v].key \in crossed'
KeyTells(i, k) ==
    LET job == import[i] IN
    /\ job.index[k] \notin {0, Pending} => job.index[k] <= Count /\ voters[job.index[k]].key = k
    /\ job.index[k] = Pending =>
          \E m \in Done(i) : job.file[m].key = k /\ HasVoter(i, job.file[m])
    /\ job.step = "rows" /\ (job.index[k] = 0 \/ InBatch(i, k)) =>
          k \in crossed \/ \A v \in WithKey(k) : v > job.since /\ v \notin job.mine
BatchTells(i) ==
    LET job == import[i] IN
    \A b \in DOMAIN job.batch :
       /\ \E m \in Done(i) : job.file[m] = job.batch[b]
       /\ job.batch[b].key # NoKey =>
             /\ job.index[job.batch[b].key] = Pending
             /\ \A c \in DOMAIN job.batch : job.batch[c].key = job.batch[b].key => c = b
OwnTells(i) ==
    LET job == import[i] IN
    /\ job.since <= Count /\ \A v \in job.mine : v <= Count
    /\ job.step = "index" => job.at = 1 /\ job.batch = <<>> /\ job.mine = {}

LEMMA IndexParts ==
    ASSUME VotersInv, NEW i \in Imports
    PROVE  /\ VotersTypeOK /\ ImportTells(i) /\ OwnTells(i) /\ BatchTells(i)
           /\ \A k \in Keys : KeyTells(i, k)
<1>1. VotersTypeOK /\ ImportTells(i)
    BY TellsOf DEF VotersInv
<1>2. IndexTells(i)
    BY <1>1 DEF ImportTells
<1>3. OwnTells(i) /\ BatchTells(i)
    BY <1>2 DEF IndexTells, OwnTells, BatchTells
<1>4. \A k \in Keys : KeyTells(i, k)
    BY <1>2 DEF IndexTells, KeyTells
<1> QED BY <1>1, <1>3, <1>4

LEMMA IndexFrom ==
    ASSUME NEW i, OwnTells(i)', BatchTells(i)', \A k \in Keys : KeyTells(i, k)'
    PROVE  IndexTells(i)'
BY DEF IndexTells, KeyTells, OwnTells, BatchTells

(* The imports when one of them moves. *)
LEMMA OneImport ==
    ASSUME VotersTypeOK, NEW i \in Imports, NEW new \in ImportState,
           import' = [import EXCEPT ![i] = new], new.at \in 1 .. Len(new.file) + 1,
           Len(new.batch) <= BatchSize
    PROVE  /\ import'[i] = new /\ \A m \in Imports : m # i => import'[m] = import[m]
           /\ import' \in [Imports -> ImportState]
           /\ \A m \in Imports : import'[m].at \in 1 .. Len(import'[m].file) + 1
                                 /\ Len(import'[m].batch) <= BatchSize
<1>1. import \in [Imports -> ImportState]
    BY DEF VotersTypeOK
<1>2. import' \in [Imports -> ImportState]
    BY <1>1
<1>3. import'[i] = new /\ \A m \in Imports : m # i => import'[m] = import[m]
    BY <1>1
<1>4. ASSUME NEW m \in Imports
      PROVE  import'[m].at \in 1 .. Len(import'[m].file) + 1 /\ Len(import'[m].batch) <= BatchSize
  <2>1. CASE m = i
    BY <1>3, <2>1
  <2>2. CASE m # i
    <3>1. import[m].at \in 1 .. Len(import[m].file) + 1 /\ Len(import[m].batch) <= BatchSize
      BY DEF VotersTypeOK
    <3> QED BY <1>3, <2>2, <3>1
  <2> QED BY <2>1, <2>2
<1> QED BY <1>2, <1>3, <1>4

(* What the rows of the table and the requests leave right. *)
LEMMA GoneStays ==
    ASSUME VotersTypeOK, RowsKept, BackIsCrossed, NEW k, k # NoKey, GoneOrCrossed(k)
    PROVE  GoneOrCrossed(k)'
<1>1. CASE k \in crossed
    BY <1>1 DEF GoneOrCrossed, BackIsCrossed
<1>2. CASE \E v \in 1 .. Count : voters[v].key = k /\ ~voters[v].here
  <2>1. PICK v \in 1 .. Count : voters[v].key = k /\ ~voters[v].here
    BY <1>2
  <2>2. v \in 1 .. Count'
    BY VotersTypes, <2>1 DEF RowsKept
  <2>3. voters'[v].key = k /\ (voters'[v].here => k \in crossed')
    BY <2>1 DEF RowsKept, BackIsCrossed
  <2> QED BY <2>2, <2>3 DEF GoneOrCrossed
<1> QED BY <1>1, <1>2 DEF GoneOrCrossed

LEMMA OthersStay ==
    ASSUME VotersInv, RowsKept, BackIsCrossed, NEW m \in Imports, import'[m] = import[m]
    PROVE  ImportTells(m)'
<1>1. /\ Count' \in Nat /\ Count <= Count'
      /\ \A v \in 1 .. Count : /\ voters'[v].key = voters[v].key
                               /\ voters'[v].spelled = voters[v].spelled
    BY DEF RowsKept
<1>2. /\ \A k \in crossed : k \in crossed'
      /\ \A v \in 1 .. Count : voters'[v].here /\ ~voters[v].here /\ voters[v].key # NoKey =>
            voters[v].key \in crossed'
    BY DEF BackIsCrossed
<1> QED BY <1>1, <1>2, ImportStays

LEMMA CopiesStay ==
    ASSUME VotersInv, RowsKept, voterJob' = voterJob
    PROVE  CopiesAreOfRows'
<1>1. VotersTypeOK /\ CopiesAreOfRows
    BY DEF VotersInv
<1>2. SUFFICES ASSUME NEW j \in VoterJobs, NEW job, job = voterJob[j]
               PROVE  /\ job.step \in {"find", "move", "edit", "remove"} => job.id <= Count'
                      /\ job.step \in {"move", "edit"} =>
                            /\ job.copy.here /\ job.copy.key = voters'[job.id].key
                            /\ job.copy.spelled = voters'[job.id].spelled
                            /\ job.copy.place = voters'[job.id].place
    BY DEF CopiesAreOfRows
<1>3. job.id \in VoterIds /\ Count \in Nat /\ Count' \in Nat /\ Count <= Count'
    BY <1>1, <1>2, RequestTyped, VotersTypes DEF RowsKept
<1>4. /\ job.step \in {"find", "move", "edit", "remove"} => job.id <= Count
      /\ job.step \in {"move", "edit"} =>
            /\ job.copy.here /\ job.copy.key = voters[job.id].key
            /\ job.copy.spelled = voters[job.id].spelled
            /\ job.copy.place = voters[job.id].place
    BY <1>1, <1>2 DEF CopiesAreOfRows
<1>5. job.id \in Nat /\ 1 <= job.id
    BY <1>1, <1>3, VotersTypes DEF VoterIds
<1>6. job.step \in {"find", "move", "edit", "remove"} => job.id \in 1 .. Count /\ job.id <= Count'
    BY <1>3, <1>4, <1>5
<1> QED BY <1>4, <1>6 DEF RowsKept

LEMMA PlaceStays ==
    ASSUME VotersTypeOK, RowsKept, NEW place, \E w \in 1 .. Count : voters[w].place = place
    PROVE  \E w \in 1 .. Count' : voters'[w].place = place
<1>1. PICK w \in 1 .. Count : voters[w].place = place
    OBVIOUS
<1>2. w \in 1 .. Count' /\ voters'[w].place = place
    BY <1>1, VotersTypes DEF RowsKept
<1> QED BY <1>2

(* PlacedRight, of a row and the table after the step. *)
PlacedNow(row) ==
    \/ row.found = row.place.state
    \/ \E w \in 1 .. Count' : voters'[w].place = [row.place EXCEPT !.state = row.found]

LEMMA PlacedStays ==
    ASSUME VotersTypeOK, RowsKept, NEW row, PlacedRight(row)
    PROVE  PlacedNow(row)
<1>1. CASE row.found = row.place.state
    BY <1>1 DEF PlacedNow
<1>2. CASE \E w \in 1 .. Count : voters[w].place = [row.place EXCEPT !.state = row.found]
    BY <1>2, PlaceStays DEF PlacedRight, PlacedNow
<1> QED BY <1>1, <1>2 DEF PlacedRight

LEMMA PlacesStay ==
    ASSUME VotersInv, RowsKept, geocoding' = geocoding,
           \A v \in 1 .. Count' : \/ v <= Count /\ voters'[v] = voters[v]
                                  \/ PlacedNow(voters'[v]),
           \A j \in VoterJobs : voterJob'[j].step \in {"move", "edit"} =>
              \/ voterJob[j].step \in {"move", "edit"} /\ voterJob'[j].copy = voterJob[j].copy
              \/ PlacedNow(voterJob'[j].copy)
    PROVE  PlacesAreRight'
<1>1. VotersTypeOK /\ PlacesAreRight
    BY DEF VotersInv
<1>2. ASSUME NEW v \in 1 .. Count' PROVE PlacedNow(voters'[v])
  <2>1. CASE v <= Count /\ voters'[v] = voters[v]
    <3>1. v \in 1 .. Count
      BY <1>1, <1>2, <2>1, VotersTypes DEF RowsKept
    <3>2. PlacedRight(voters[v])
      BY <1>1, <3>1 DEF PlacesAreRight
    <3>3. PICK row : row = voters[v]
      OBVIOUS
    <3>4. PlacedNow(row)
      BY <1>1, <3>2, <3>3, PlacedStays
    <3> QED BY <2>1, <3>3, <3>4
  <2> QED BY <2>1
<1>3. ASSUME NEW j \in VoterJobs, voterJob'[j].step \in {"move", "edit"}
      PROVE  PlacedNow(voterJob'[j].copy)
  <2>1. CASE voterJob[j].step \in {"move", "edit"} /\ voterJob'[j].copy = voterJob[j].copy
    <3>1. PICK row : row = voterJob[j].copy
      OBVIOUS
    <3>2. PlacedRight(row)
      BY <1>1, <2>1, <3>1 DEF PlacesAreRight
    <3>3. PlacedNow(row)
      BY <1>1, <3>2, PlacedStays
    <3> QED BY <2>1, <3>1, <3>3
  <2> QED BY <1>3, <2>1
<1>4. \A g \in geocoding' : \E w \in 1 .. Count' : voters'[w].place = g
  <2>1. SUFFICES ASSUME NEW g \in geocoding
                 PROVE  \E w \in 1 .. Count' : voters'[w].place = g
    OBVIOUS
  <2>2. \E w \in 1 .. Count : voters[w].place = g
    BY <1>1, <2>1 DEF PlacesAreRight
  <2> QED BY <1>1, <2>2, PlaceStays
<1> QED BY <1>2, <1>3, <1>4 DEF PlacesAreRight, PlacedRight, PlacedNow

(* A step of one import that leaves the tables as they are. *)
LEMMA ImportMoves ==
    ASSUME VotersInv, NEW i \in Imports, NEW new \in ImportState,
           import' = [import EXCEPT ![i] = new], new.at \in 1 .. Len(new.file) + 1,
           Len(new.batch) <= BatchSize, import[i].step = "rows" => new.step = "rows",
           ImportTells(i)', work' \in 0 .. MaxWork,
           UNCHANGED <<voters, leaderRow, voterJob, geocoding, uncounted, crossed>>
    PROVE  VotersInv'
<1>1. VotersTypeOK
    BY DEF VotersInv
<1>2. /\ import'[i] = new /\ \A m \in Imports : m # i => import'[m] = import[m]
      /\ import' \in [Imports -> ImportState]
      /\ \A m \in Imports : import'[m].at \in 1 .. Len(import'[m].file) + 1
                            /\ Len(import'[m].batch) <= BatchSize
    BY <1>1, OneImport
<1>3. VotersTypeOK'
  <2>1. /\ voters' \in Seq(Voter) /\ Count' <= MaxVoters
        /\ leaderRow' \in Seq([name : LeaderNames, count : 0 .. MaxVoters])
        /\ Len(leaderRow') <= MaxLeaders /\ voterJob' \in [VoterJobs -> VoterJobState]
        /\ geocoding' \subseteq [town : Towns, state : States]
        /\ uncounted' \subseteq LeaderIds /\ crossed' \subseteq Keys
    BY <1>1 DEF VotersTypeOK, Count
  <2> QED BY <1>2, <2>1 DEF VotersTypeOK
<1>4. RowsKept /\ BackIsCrossed
    BY <1>1, VotersTypes DEF RowsKept, BackIsCrossed, Count
<1>5. \A m \in Imports : ImportTells(m)'
    BY <1>2, <1>4, OthersStay
<1>6. NoneTwice'
    BY DEF VotersInv, NoneTwice, WithKey, HereV, Count
<1>7. CopiesAreOfRows'
    BY DEF VotersInv, CopiesAreOfRows, Count
<1>8. PlacesAreRight'
    BY DEF VotersInv, PlacesAreRight, PlacedRight, Count
<1>9. CountsAreComing'
  <2>1. CASE \E m \in Imports : import[m].step = "rows"
    <3>1. PICK m \in Imports : import[m].step = "rows"
      BY <2>1
    <3>2. import'[m].step = "rows"
      BY <1>2, <3>1
    <3> QED BY <3>2 DEF CountsAreComing
  <2>2. CASE ~\E m \in Imports : import[m].step = "rows"
    <3>1. \A l \in DOMAIN leaderRow :
            \/ l \in uncounted \/ leaderRow[l].count = Cardinality(VotersOf(l))
            \/ \E j \in VoterJobs : WillCount(j, l)
      BY <2>2 DEF VotersInv, CountsAreComing
    <3>2. \A l : VotersOf(l)' = VotersOf(l)
      BY DEF VotersOf, HereV, Count
    <3>3. \A j, l : WillCount(j, l)' <=> WillCount(j, l)
      BY DEF WillCount
    <3> QED BY <3>1, <3>2, <3>3 DEF CountsAreComing
  <2> QED BY <2>1, <2>2
<1> QED BY <1>3, <1>5, <1>6, <1>7, <1>8, <1>9, InvFrom

(* A row of the file is gone through. *)
RowDone(i) ==
    /\ import'[i].file = import[i].file /\ import'[i].at = import[i].at + 1
    /\ import'[i].step = import[i].step /\ import'[i].since = import[i].since

LEMMA DoneIs ==
    ASSUME VotersTypeOK, NEW i \in Imports, Importing(i), RowDone(i)
    PROVE  /\ Done(i)' = Done(i) \union {import[i].at} /\ import[i].at \notin Done(i)
           /\ import[i].at \in Done(i)' /\ IsFiniteSet(Done(i))
           /\ \A n \in Done(i) : n \in Done(i)'
<1>1. PICK at, next : at = import[i].at /\ next = at + 1
    OBVIOUS
<1>2. at \in Nat /\ 1 <= at
    BY <1>1, ImportTyped
<1>3. Done(i) = 1 .. at - 1 /\ Done(i)' = 1 .. next - 1
    BY <1>1 DEF Done, RowDone
<1>4. Done(i)' = Done(i) \union {at} /\ at \notin Done(i)
    BY ONLY <1>1, <1>2, <1>3
<1>5. IsFiniteSet(Done(i))
    BY <1>2, <1>3, FS_Interval
<1> QED BY <1>1, <1>4, <1>5

LEMMA RowLands ==
    ASSUME VotersInv, NEW i \in Imports, Importing(i), RowDone(i), RowsKept,
           \A b \in DOMAIN import[i].batch : \E c \in DOMAIN import'[i].batch :
              import'[i].batch[c] = import[i].batch[b],
           NEW r, r = OfImport(i), r.named /\ r.key # NoKey => Landed(i, r.key)'
    PROVE  RowsLand(i)'
<1>1. VotersTypeOK /\ RowsLand(i)
    BY TellsOf DEF VotersInv, ImportTells
<1>2. Done(i)' = Done(i) \union {import[i].at} /\ \A n \in Done(i) : n \in Done(i)'
    BY <1>1, DoneIs
<1>3. \A n : import'[i].file[n] = import[i].file[n]
    BY DEF RowDone
<1>4. \A k : Landed(i, k) => Landed(i, k)'
  <2>1. SUFFICES ASSUME NEW k, Landed(i, k) PROVE Landed(i, k)'
    OBVIOUS
  <2>2. CASE \E v \in 1 .. Count : voters[v].key = k
    <3>1. PICK v \in 1 .. Count : voters[v].key = k
      BY <2>2
    <3>2. v \in 1 .. Count' /\ voters'[v].key = k
      BY <1>1, <3>1, VotersTypes DEF RowsKept
    <3> QED BY <3>2 DEF Landed
  <2>3. CASE InBatch(i, k)
    BY <2>3 DEF InBatch, Landed
  <2>4. CASE \E m \in Done(i) : import[i].file[m].key = k /\ import[i].file[m].refused
    BY <1>2, <1>3, <2>4 DEF Landed
  <2> QED BY <2>1, <2>2, <2>3, <2>4 DEF Landed
<1>5. SUFFICES ASSUME NEW n \in Done(i)', NEW q, q = import[i].file[n], q.named, q.key # NoKey
               PROVE  Landed(i, q.key)'
  <2>1. \A n \in Done(i)' : \A q : q = import[i].file[n] /\ q.named /\ q.key # NoKey =>
           Landed(i, q.key)'
    BY <1>5
  <2>2. \A n \in Done(i)' : import'[i].file[n].named /\ import'[i].file[n].key # NoKey =>
           \E q : q = import'[i].file[n] /\ Landed(i, q.key)'
    BY <1>3, <2>1
  <2> QED BY <2>2 DEF RowsLand, Landed
<1>6. CASE n \in Done(i)
  <2>1. Landed(i, q.key)
    BY <1>1, <1>5, <1>6 DEF RowsLand
  <2> QED BY <1>4, <2>1
<1>7. CASE n = import[i].at
  <2>1. q = r
    BY <1>1, <1>5, <1>7, OfImportIs
  <2> QED BY <1>5, <2>1
<1> QED BY <1>2, <1>5, <1>6, <1>7

LEMMA RowHelps ==
    ASSUME VotersInv, NEW i \in Imports, Importing(i), RowDone(i), RowsKept, BackIsCrossed,
           NEW at, at = import[i].at,
           LET r == OfImport(i)
               was == import[i].helped + import[i].unhelped
               is == import'[i].helped + import'[i].unhelped
           IN  \/ ~(r.named /\ r.help) /\ is = was
               \/ r.named /\ r.help /\ (is = was + 1 \/ Excused(i, at)')
    PROVE  HelpTells(i)'
<1>1. VotersTypeOK /\ HelpTells(i)
    BY TellsOf DEF VotersInv, ImportTells
<1>2. PICK r : r = OfImport(i)
    OBVIOUS
<1>3. Done(i)' = Done(i) \union {at} /\ at \notin Done(i) /\ IsFiniteSet(Done(i))
    BY <1>1, <1>2, DoneIs
<1>4. \A n : import'[i].file[n] = import[i].file[n]
    BY DEF RowDone
<1>5. import[i].file[at] = r /\ r \in Row
    BY <1>1, <1>2, OfImportIs DEF OfImport
<1>6. \A n \in Done(i) : Excused(i, n) => Excused(i, n)'
    BY <1>1, <1>3, <1>4, GoneStays DEF Excused
<1>7. Asked(i)' = IF r.named /\ r.help THEN Asked(i) \union {at} ELSE Asked(i)
  <2>1. Asked(i)' = {n \in Done(i)' : import[i].file[n].named /\ import[i].file[n].help}
    BY <1>4 DEF Asked
  <2> QED BY <1>3, <1>5, <2>1 DEF Asked
<1>8. at \notin Asked(i) /\ IsFiniteSet(Asked(i)) /\ \A n \in Asked(i) : n \in Done(i)
  <2>1. Asked(i) \in SUBSET Done(i)
    BY DEF Asked
  <2> QED BY <1>3, <2>1, FS_Subset
<1>9. CASE \E n \in Asked(i) : Excused(i, n)
  <2>1. PICK n \in Asked(i) : Excused(i, n)
    BY <1>9
  <2>2. Excused(i, n)' /\ n \in Asked(i)'
    BY <1>6, <1>7, <1>8, <2>1
  <2> QED BY <2>2 DEF HelpTells
<1>10. CASE ~\E n \in Asked(i) : Excused(i, n)
  <2>1. PICK was, is : was = import[i].helped + import[i].unhelped
                       /\ is = import'[i].helped + import'[i].unhelped
    OBVIOUS
  <2>2. Cardinality(Asked(i)) = was
    BY <1>1, <1>10, <2>1 DEF HelpTells
  <2>3. CASE ~(r.named /\ r.help) /\ is = was
    BY <1>7, <2>1, <2>2, <2>3 DEF HelpTells
  <2>4. CASE r.named /\ r.help /\ is = was + 1
    <3>1. Cardinality(Asked(i) \union {at}) = Cardinality(Asked(i)) + 1
      BY <1>8, FS_AddElement
    <3>2. Cardinality(Asked(i)') = is
      BY <1>7, <2>2, <2>4, <3>1
    <3> QED BY <2>1, <3>2 DEF HelpTells
  <2>5. CASE r.named /\ r.help /\ Excused(i, at)'
    <3>1. at \in Asked(i)'
      BY <1>7, <2>5
    <3> QED BY <2>5, <3>1 DEF HelpTells
  <2> QED BY <1>2, <2>1, <2>3, <2>4, <2>5
<1> QED BY <1>9, <1>10

(* What the index says of a key that the row at work is not about. *)
LEMMA KeyStays ==
    ASSUME VotersInv, NEW i \in Imports, NEW k \in Keys, RowsKept, BackIsCrossed,
           import'[i].index[k] = import[i].index[k], import'[i].file = import[i].file,
           import'[i].step = import[i].step, import'[i].since = import[i].since,
           \A n \in Done(i) : n \in Done(i)',
           \A m \in Done(i) : HasVoter(i, import[i].file[m]) =>
              \E r : r = import[i].file[m] /\ HasVoter(i, r)',
           InBatch(i, k)' => InBatch(i, k),
           \A v \in import'[i].mine : v \in import[i].mine \/ v \notin WithKey(k)'
    PROVE  KeyTells(i, k)'
<1>1. VotersTypeOK /\ OwnTells(i) /\ KeyTells(i, k)
    BY IndexParts
<1>2. PICK job, new : job = import[i] /\ new = import'[i]
    OBVIOUS
<1>3. /\ new.index[k] = job.index[k] /\ new.file = job.file /\ new.step = job.step
      /\ new.since = job.since
    BY <1>2
<1>4. job.since \in Nat /\ job.mine \in SUBSET VoterIds /\ job.index[k] \in Nat
      /\ \A v \in VoterIds : v \in Nat
  <2>1. job \in ImportState
    BY <1>1, <1>2, ImportTyped
  <2>2. /\ job.since \in 0 .. MaxVoters /\ job.mine \in SUBSET VoterIds
        /\ job.index[k] \in 0 .. Pending
    BY <2>1 DEF ImportState
  <2>3. MaxVoters \in Nat /\ VoterIds = 1 .. MaxVoters /\ Pending \in Nat
    BY <1>1, VotersTypes DEF VoterIds
  <2> QED BY ONLY <2>2, <2>3
<1>5. Count \in Nat /\ Count' \in Nat /\ Count <= Count' /\ Pending \in Nat /\ Pending' = Pending
    BY <1>1, VotersTypes DEF RowsKept, Pending
<1>6. job.index[k] \notin {0, Pending} =>
         job.index[k] <= Count' /\ voters'[job.index[k]].key = k
  <2>1. SUFFICES ASSUME job.index[k] \notin {0, Pending}
                 PROVE  job.index[k] <= Count' /\ voters'[job.index[k]].key = k
    OBVIOUS
  <2>2. PICK v : v = job.index[k]
    OBVIOUS
  <2>3. v <= Count /\ voters[v].key = k
    BY <1>1, <1>2, <2>1, <2>2 DEF KeyTells
  <2>4. v \in 1 .. Count /\ v <= Count'
    BY ONLY <1>4, <1>5, <2>1, <2>2, <2>3
  <2>5. voters'[v].key = voters[v].key
    BY <2>4 DEF RowsKept
  <2> QED BY <2>2, <2>3, <2>4, <2>5
<1>7. job.index[k] = Pending => \E m \in Done(i)' : job.file[m].key = k /\ HasVoter(i, job.file[m])'
  <2>1. SUFFICES ASSUME job.index[k] = Pending
                 PROVE  \E m \in Done(i)' : job.file[m].key = k /\ HasVoter(i, job.file[m])'
    OBVIOUS
  <2>2. PICK m \in Done(i) : job.file[m].key = k /\ HasVoter(i, job.file[m])
    BY <1>1, <1>2, <2>1 DEF KeyTells
  <2>3. HasVoter(i, job.file[m])'
    BY <1>2, <2>2
  <2> QED BY <2>2, <2>3
<1>8. ASSUME job.step = "rows", job.index[k] = 0 \/ InBatch(i, k)', k \notin crossed',
             NEW v \in WithKey(k)'
      PROVE  v > job.since /\ v \notin new.mine
  <2>1. v \in 1 .. Count' /\ voters'[v].here /\ voters'[v].key = k
    BY DEF WithKey, HereV
  <2>2. v \notin new.mine \/ v \in job.mine
    BY <1>2, <1>8
  <2>3. CASE v \in 1 .. Count
    <3>1. k # NoKey
      BY VotersAssumption
    <3>2. voters[v].key = k /\ voters[v].here
      BY <1>8, <2>1, <2>3, <3>1 DEF RowsKept, BackIsCrossed
    <3>3. v \in WithKey(k)
      BY <2>3, <3>2 DEF WithKey, HereV
    <3>4. k \notin crossed
      BY <1>8 DEF BackIsCrossed
    <3>5. v > job.since /\ v \notin job.mine
      BY <1>1, <1>2, <1>8, <3>3, <3>4 DEF KeyTells
    <3> QED BY <2>2, <3>5
  <2>4. CASE v \notin 1 .. Count
    <3>1. v > Count
      BY <1>5, <2>1, <2>4
    <3>2. job.since <= Count /\ \A w \in job.mine : w <= Count
      BY <1>1, <1>2 DEF OwnTells
    <3>3. v > job.since
      BY <1>4, <1>5, <2>1, <3>1, <3>2
    <3>4. v \notin job.mine
      BY <1>4, <1>5, <2>1, <3>1, <3>2
    <3> QED BY <2>2, <3>3, <3>4
  <2> QED BY <2>3, <2>4
<1>9. /\ new.index[k] \notin {0, Pending'} =>
            new.index[k] <= Count' /\ voters'[new.index[k]].key = k
      /\ new.index[k] = Pending' =>
            \E m \in Done(i)' : new.file[m].key = k /\ HasVoter(i, new.file[m])'
      /\ new.step = "rows" /\ (new.index[k] = 0 \/ InBatch(i, k)') =>
            k \in crossed' \/ \A v \in WithKey(k)' : v > new.since /\ v \notin new.mine
  <2>1. new.index[k] \notin {0, Pending'} => new.index[k] <= Count' /\ voters'[new.index[k]].key = k
    BY <1>3, <1>5, <1>6
  <2>2. new.index[k] = Pending' =>
            \E m \in Done(i)' : new.file[m].key = k /\ HasVoter(i, new.file[m])'
    BY <1>3, <1>5, <1>7
  <2>3. new.step = "rows" /\ (new.index[k] = 0 \/ InBatch(i, k)') =>
            k \in crossed' \/ \A v \in WithKey(k)' : v > new.since /\ v \notin new.mine
    BY <1>3, <1>8
  <2> QED BY <2>1, <2>2, <2>3
<1> QED BY <1>2, <1>9 DEF KeyTells

(* The same rows and batch, or more of both. *)
LEMMA HasStays ==
    ASSUME VotersInv, NEW i \in Imports, RowsKept, NEW r, HasVoter(i, r),
           \A b \in DOMAIN import[i].batch : \E c \in DOMAIN import'[i].batch :
              import'[i].batch[c] = import[i].batch[b]
    PROVE  HasVoter(i, r)'
<1>1. VotersTypeOK
    BY DEF VotersInv
<1>2. CASE \E v \in 1 .. Count : voters[v].key = r.key /\ voters[v].spelled = r.spelled
  <2>1. PICK v \in 1 .. Count : voters[v].key = r.key /\ voters[v].spelled = r.spelled
    BY <1>2
  <2>2. v \in 1 .. Count' /\ voters'[v].key = r.key /\ voters'[v].spelled = r.spelled
    BY <1>1, <2>1, VotersTypes DEF RowsKept
  <2> QED BY <2>2 DEF HasVoter
<1>3. CASE r.refused
    BY <1>3 DEF HasVoter
<1>4. CASE \E b \in DOMAIN import[i].batch : import[i].batch[b] = r
    BY <1>4 DEF HasVoter
<1> QED BY <1>2, <1>3, <1>4 DEF HasVoter

(* A row that changes nothing but the count of what was done: the tables, the batch and
   what the index says stay. *)
LEMMA RowPasses ==
    ASSUME VotersInv, NEW i \in Imports, Importing(i), RowDone(i),
           UNCHANGED <<voters, crossed>>, import'[i].batch = import[i].batch,
           import'[i].mine = import[i].mine, import'[i].imported = import[i].imported,
           import'[i].skipped + import'[i].duplicates =
              import[i].skipped + import[i].duplicates + 1,
           import'[i].skipped \in Nat, import'[i].duplicates \in Nat,
           NEW r, r = OfImport(i), r.named /\ r.key # NoKey => r.refused \/ Landed(i, r.key),
           NEW at, at = import[i].at,
           LET was == import[i].helped + import[i].unhelped
               is == import'[i].helped + import'[i].unhelped
           IN  \/ ~(r.named /\ r.help) /\ is = was
               \/ r.named /\ r.help /\ (is = was + 1 \/ Excused(i, at)'),
           \A k \in Keys : import'[i].index[k] = import[i].index[k] \/ KeyTells(i, k)',
           BatchTells(i)'
    PROVE  ImportTells(i)'
<1>1. VotersTypeOK /\ ImportTells(i) /\ OwnTells(i) /\ BatchTells(i)
    BY IndexParts
<1>2. RowsKept /\ BackIsCrossed
    BY <1>1, VotersTypes DEF RowsKept, BackIsCrossed, Count
<1>3. RowsCounted(i)'
  <2>1. import[i] \in ImportState /\ at \in Nat /\ Len(import[i].batch) \in Nat
    BY <1>1, ImportTyped
  <2>2. import[i].imported \in Nat /\ import[i].skipped \in Nat /\ import[i].duplicates \in Nat
    BY <2>1 DEF ImportState
  <2>3. /\ import[i].imported + import[i].skipped + import[i].duplicates + Len(import[i].batch)
           = import[i].at - 1
        /\ import[i].imported = Cardinality(import[i].mine)
    BY <1>1 DEF ImportTells, RowsCounted
  <2>4. PICK a, b, c, d, b2, c2 :
           /\ a = import[i].imported /\ b = import[i].skipped /\ c = import[i].duplicates
           /\ d = Len(import[i].batch) /\ b2 = import'[i].skipped /\ c2 = import'[i].duplicates
    OBVIOUS
  <2>5. /\ a \in Nat /\ b \in Nat /\ c \in Nat /\ d \in Nat /\ b2 \in Nat /\ c2 \in Nat
        /\ a + b + c + d = at - 1 /\ b2 + c2 = b + c + 1 /\ at \in Nat
    BY <2>1, <2>2, <2>3, <2>4
  <2>6. a + b2 + c2 + d = (at + 1) - 1
    BY ONLY <2>5
  <2>7. /\ import'[i].imported + import'[i].skipped + import'[i].duplicates + Len(import'[i].batch)
           = import'[i].at - 1
    BY <2>4, <2>6 DEF RowDone
  <2>8. import'[i].imported = Cardinality(import'[i].mine)
    BY <2>3
  <2> QED BY <2>7, <2>8 DEF RowsCounted
<1>4. \A b \in DOMAIN import[i].batch : \E c \in DOMAIN import'[i].batch :
              import'[i].batch[c] = import[i].batch[b]
    OBVIOUS
<1>5. \A n \in Done(i) : n \in Done(i)'
    BY <1>1, DoneIs
<1>6. RowsLand(i)'
  <2>1. r.named /\ r.key # NoKey => Landed(i, r.key)'
    <3>1. Landed(i, r.key) => Landed(i, r.key)'
      BY <1>5 DEF Landed, InBatch, RowDone, Count
    <3>2. ASSUME r.refused PROVE Landed(i, r.key)'
      <4>1. at \in Done(i)' /\ import'[i].file[at] = r
        BY <1>1, DoneIs, OfImportIs DEF RowDone
      <4> QED BY <3>2, <4>1 DEF Landed
    <3> QED BY <3>1, <3>2
  <2> QED BY <1>2, <1>4, <2>1, RowLands
<1>7. HelpTells(i)'
    BY <1>2, RowHelps
<1>8. \A q : HasVoter(i, q) => HasVoter(i, q)'
    BY <1>2, <1>4, HasStays
<1>9. \A k \in Keys : KeyTells(i, k)'
  <2>1. SUFFICES ASSUME NEW k \in Keys, import'[i].index[k] = import[i].index[k]
                 PROVE  KeyTells(i, k)'
    OBVIOUS
  <2>2. InBatch(i, k)' => InBatch(i, k)
    BY DEF InBatch
  <2>3. /\ import'[i].file = import[i].file /\ import'[i].step = import[i].step
        /\ import'[i].since = import[i].since
    BY DEF RowDone
  <2>4. \A m \in Done(i) : HasVoter(i, import[i].file[m]) =>
              \E q : q = import[i].file[m] /\ HasVoter(i, q)'
    BY <1>8
  <2>5. \A v \in import'[i].mine : v \in import[i].mine \/ v \notin WithKey(k)'
    OBVIOUS
  <2> QED BY ONLY VotersInv, i \in Imports, k \in Keys, <1>2, <1>5, <2>1, <2>2, <2>3, <2>4, <2>5,
             KeyStays
<1>10. OwnTells(i)'
  <2>1. import'[i].step = "rows"
    BY <1>1, OfImportIs DEF RowDone
  <2> QED BY <1>1, <2>1 DEF OwnTells, RowDone, Count
<1>11. IndexTells(i)'
    BY <1>9, <1>10, IndexFrom
<1> QED BY <1>3, <1>6, <1>7, <1>11 DEF ImportTells

LEMMA KnownLands ==
    ASSUME VotersInv, NEW i \in Imports, NEW k \in Keys, import[i].index[k] # 0
    PROVE  Landed(i, k)
<1>1. VotersTypeOK /\ KeyTells(i, k)
    BY IndexParts
<1>2. CASE import[i].index[k] = Pending
  <2>1. PICK m \in Done(i) : import[i].file[m].key = k /\ HasVoter(i, import[i].file[m])
    BY <1>1, <1>2 DEF KeyTells
  <2> QED BY <2>1 DEF HasVoter, Landed, InBatch
<1>3. CASE import[i].index[k] # Pending
  <2>1. import[i].index[k] <= Count /\ voters[import[i].index[k]].key = k
    BY <1>1, <1>3 DEF KeyTells
  <2>2. import[i].index[k] \in 0 .. Pending
    BY <1>1, ImportTyped DEF ImportState
  <2>3. import[i].index[k] \in 1 .. Count
    BY <1>1, <2>1, <2>2, VotersTypes
  <2> QED BY <2>1, <2>3 DEF Landed
<1> QED BY <1>2, <1>3

(* The row that comes next, when the rest of the import is the same. *)
Bit == {0, 1}
Passed(job, dup, skip, help, unhelp, index) ==
    [job EXCEPT !.at = @ + 1, !.duplicates = @ + dup, !.skipped = @ + skip, !.helped = @ + help,
                !.unhelped = @ + unhelp, !.index = index]
PassedWell(job, new, dup, skip, help, unhelp, index) ==
    /\ new \in ImportState /\ new.at \in 1 .. Len(new.file) + 1
    /\ Len(new.batch) <= BatchSize /\ new.step = "rows"
    /\ new.file = job.file /\ new.at = job.at + 1
    /\ new.step = job.step /\ new.since = job.since
    /\ new.batch = job.batch /\ new.mine = job.mine
    /\ new.imported = job.imported /\ new.index = index
    /\ new.skipped = job.skipped + skip /\ new.skipped \in Nat
    /\ new.duplicates = job.duplicates + dup /\ new.duplicates \in Nat
    /\ new.skipped + new.duplicates = job.skipped + job.duplicates + (skip + dup)
    /\ new.helped + new.unhelped = job.helped + job.unhelped + (help + unhelp)
    /\ job.helped + job.unhelped \in Nat

LEMMA NextRow ==
    ASSUME VotersTypeOK, NEW i \in Imports, Importing(i), NEW dup \in Bit, NEW skip \in Bit,
           NEW help \in Bit, NEW unhelp \in Bit, NEW index \in [Keys -> 0 .. Pending],
           NEW new, new = Passed(import[i], dup, skip, help, unhelp, index)
    PROVE  PassedWell(import[i], new, dup, skip, help, unhelp, index)
<1>1. PICK job : job = import[i]
    OBVIOUS
<1>2. job \in ImportState
    BY <1>1, ImportTyped
<1>3. /\ job.at \in Nat /\ job.duplicates \in Nat /\ job.skipped \in Nat /\ job.helped \in Nat
      /\ job.unhelped \in Nat
    BY <1>2 DEF ImportState
<1>4. new = [job EXCEPT !.at = job.at + 1, !.duplicates = job.duplicates + dup,
               !.skipped = job.skipped + skip, !.helped = job.helped + help,
               !.unhelped = job.unhelped + unhelp, !.index = index]
    BY <1>1 DEF Passed
<1>5. /\ job.at + 1 \in Nat /\ job.duplicates + dup \in Nat /\ job.skipped + skip \in Nat
      /\ job.helped + help \in Nat /\ job.unhelped + unhelp \in Nat
    BY <1>3 DEF Bit
<1>6. new \in ImportState
  <2>1. PICK a, b, c, d, e : /\ a = job.at + 1 /\ b = job.duplicates + dup
                             /\ c = job.skipped + skip /\ d = job.helped + help
                             /\ e = job.unhelped + unhelp
    OBVIOUS
  <2>2. new = [job EXCEPT !.at = a, !.duplicates = b, !.skipped = c, !.helped = d, !.unhelped = e,
                 !.index = index]
    BY <1>4, <2>1
  <2>3. a \in Nat /\ b \in Nat /\ c \in Nat /\ d \in Nat /\ e \in Nat
    BY <1>5, <2>1
  <2> QED BY ONLY <1>2, <2>2, <2>3, index \in [Keys -> 0 .. Pending] DEF ImportState
<1>7. /\ new.file = job.file /\ new.at = job.at + 1
      /\ new.step = job.step /\ new.since = job.since
      /\ new.batch = job.batch /\ new.mine = job.mine
      /\ new.imported = job.imported /\ new.index = index
      /\ new.skipped = job.skipped + skip /\ new.duplicates = job.duplicates + dup
      /\ new.helped = job.helped + help /\ new.unhelped = job.unhelped + unhelp
    BY <1>2, <1>4 DEF ImportState
<1>8. job.at <= Len(job.file) /\ Len(job.batch) < BatchSize /\ job.step = "rows"
    BY <1>1, OfImportIs
<1>9. Len(job.file) \in Nat /\ Len(job.batch) \in Nat /\ BatchSize \in Nat /\ 1 <= job.at
    BY <1>1, ImportTyped, VotersTypes
<1>10. new.at \in 1 .. Len(new.file) + 1
  <2>1. PICK a, n : a = job.at /\ n = Len(job.file)
    OBVIOUS
  <2>2. a \in Nat /\ 1 <= a /\ n \in Nat /\ a <= n
    BY <1>1, <1>3, <1>8, <1>9, <2>1
  <2>3. a + 1 \in 1 .. n + 1
    BY ONLY <2>2
  <2> QED BY ONLY <1>7, <2>1, <2>3
<1>11. Len(new.batch) <= BatchSize
    BY ONLY <1>7, <1>8, <1>9
<1>12. /\ new.skipped + new.duplicates = job.skipped + job.duplicates + (skip + dup)
       /\ new.helped + new.unhelped = job.helped + job.unhelped + (help + unhelp)
       /\ job.helped + job.unhelped \in Nat
    BY ONLY <1>3, <1>7, dup \in Bit, skip \in Bit, help \in Bit, unhelp \in Bit
       DEF Bit
<1> QED BY <1>1, <1>5, <1>6, <1>7, <1>8, <1>10, <1>11, <1>12 DEF PassedWell

(* Such a step, which keeps the invariant. *)
Passes(i, dup, skip, help, unhelp, index) ==
    /\ Importing(i) /\ dup + skip = 1 /\ index \in [Keys -> 0 .. Pending]
    /\ import' = [import EXCEPT ![i] = Passed(import[i], dup, skip, help, unhelp, index)]
    /\ UNCHANGED <<voters, leaderRow, voterJob, geocoding, uncounted, crossed, work>>
    /\ OfImport(i).named /\ OfImport(i).key # NoKey =>
          OfImport(i).refused \/ Landed(i, OfImport(i).key)
    /\ \/ ~(OfImport(i).named /\ OfImport(i).help) /\ help + unhelp = 0
       \/ /\ OfImport(i).named /\ OfImport(i).help
          /\ \/ help + unhelp = 1
             \/ help + unhelp = 0 /\ \E at : at = import[i].at /\ Excused(i, at)'
    /\ \A k \in Keys : index[k] = import[i].index[k] \/ KeyTells(i, k)'
    /\ index = import[i].index \/ import[i].batch = <<>>

LEMMA PassStep ==
    ASSUME VotersInv, NEW i \in Imports, NEW dup \in Bit, NEW skip \in Bit, NEW help \in Bit,
           NEW unhelp \in Bit, NEW index, Passes(i, dup, skip, help, unhelp, index)
    PROVE  VotersInv'
<1> PICK r, at : r = OfImport(i) /\ at = import[i].at
    OBVIOUS
<1>0. /\ Importing(i) /\ dup + skip = 1 /\ index \in [Keys -> 0 .. Pending]
      /\ import' = [import EXCEPT ![i] = Passed(import[i], dup, skip, help, unhelp, index)]
      /\ UNCHANGED <<voters, leaderRow, voterJob, geocoding, uncounted, crossed, work>>
      /\ r.named /\ r.key # NoKey => r.refused \/ Landed(i, r.key)
      /\ \/ ~(r.named /\ r.help) /\ help + unhelp = 0
         \/ r.named /\ r.help /\ (help + unhelp = 1 \/ (help + unhelp = 0 /\ Excused(i, at)'))
      /\ \A k \in Keys : index[k] = import[i].index[k] \/ KeyTells(i, k)'
      /\ index = import[i].index \/ import[i].batch = <<>>
    BY DEF Passes
<1>1. VotersTypeOK /\ BatchTells(i)
    BY IndexParts
<1>2. PICK new : new = Passed(import[i], dup, skip, help, unhelp, index)
    OBVIOUS
<1>3. /\ new \in ImportState /\ new.at \in 1 .. Len(new.file) + 1
      /\ Len(new.batch) <= BatchSize /\ new.step = "rows"
      /\ new.file = import[i].file /\ new.at = import[i].at + 1
      /\ new.step = import[i].step /\ new.since = import[i].since
      /\ new.batch = import[i].batch /\ new.mine = import[i].mine
      /\ new.imported = import[i].imported /\ new.index = index
      /\ new.skipped = import[i].skipped + skip /\ new.skipped \in Nat
      /\ new.duplicates = import[i].duplicates + dup /\ new.duplicates \in Nat
      /\ new.skipped + new.duplicates = import[i].skipped + import[i].duplicates + (skip + dup)
      /\ new.helped + new.unhelped = import[i].helped + import[i].unhelped + (help + unhelp)
      /\ import[i].helped + import[i].unhelped \in Nat
  <2>1. PassedWell(import[i], new, dup, skip, help, unhelp, index)
    BY ONLY <1>1, <1>2, i \in Imports, <1>0, dup \in Bit, skip \in Bit,
            help \in Bit, unhelp \in Bit, NextRow
  <2> QED BY <2>1 DEF PassedWell
<1>4. import' = [import EXCEPT ![i] = new]
    BY <1>0, <1>2
<1>5. import'[i] = new
    BY <1>1, <1>4 DEF VotersTypeOK
<1>6. RowDone(i)
    BY <1>3, <1>5 DEF RowDone
<1>7. BatchTells(i)'
  <2>1. CASE import[i].batch = <<>>
    BY <1>3, <1>5, <2>1 DEF BatchTells
  <2>2. CASE index = import[i].index
    <3>1. \A n \in Done(i) : n \in Done(i)'
      BY <1>0, <1>1, <1>6, DoneIs
    <3>2. /\ import'[i].batch = import[i].batch /\ import'[i].file = import[i].file
          /\ import'[i].index = import[i].index
      BY <1>3, <1>5, <2>2
    <3>3. BatchTells(i)
      BY <1>1
    <3> QED BY ONLY <3>1, <3>2, <3>3 DEF BatchTells, Pending
  <2> QED BY <1>0, <2>1, <2>2
<1>8. PICK was, is : was = import[i].helped + import[i].unhelped
                     /\ is = import'[i].helped + import'[i].unhelped
    OBVIOUS
<1>9. \/ ~(r.named /\ r.help) /\ is = was
      \/ r.named /\ r.help /\ (is = was + 1 \/ Excused(i, at)')
  <2>1. is = was + (help + unhelp) /\ was \in Nat
    BY <1>3, <1>5, <1>8
  <2> QED BY <1>0, <2>1 DEF Bit
<1>10. /\ import'[i].skipped + import'[i].duplicates =
              import[i].skipped + import[i].duplicates + 1
       /\ import'[i].skipped \in Nat /\ import'[i].duplicates \in Nat
       /\ import'[i].batch = import[i].batch /\ import'[i].mine = import[i].mine
       /\ import'[i].imported = import[i].imported
  <2>1. skip + dup = 1
    BY <1>0 DEF Bit
  <2> QED BY <1>3, <1>5, <2>1
<1>11. \A k \in Keys : import'[i].index[k] = import[i].index[k] \/ KeyTells(i, k)'
    BY <1>0, <1>3, <1>5
<1>12. ImportTells(i)'
  <2>1. UNCHANGED <<voters, crossed>>
    BY <1>0
  <2>2. LET was1 == import[i].helped + import[i].unhelped
            is1 == import'[i].helped + import'[i].unhelped
        IN  \/ ~(r.named /\ r.help) /\ is1 = was1
            \/ r.named /\ r.help /\ (is1 = was1 + 1 \/ Excused(i, at)')
    BY <1>8, <1>9
  <2> QED BY <1>0, <1>6, <1>7, <1>10, <1>11, <2>1, <2>2, RowPasses
<1>13. work' \in 0 .. MaxWork
    BY <1>0, <1>1 DEF VotersTypeOK
<1> QED BY <1>0, <1>3, <1>4, <1>12, <1>13, ImportMoves

(* Every row that is not inserted is gone through in this way. *)
LEMMA PassedForms ==
    ASSUME NEW job \in ImportState
    PROVE  /\ [Next1(job) EXCEPT !.skipped = @ + 1] = Passed(job, 0, 1, 0, 0, job.index)
           /\ [Next1(job) EXCEPT !.duplicates = @ + 1] = Passed(job, 1, 0, 0, 0, job.index)
           /\ [[Next1(job) EXCEPT !.duplicates = @ + 1] EXCEPT !.helped = @ + 1] =
                 Passed(job, 1, 0, 1, 0, job.index)
           /\ [[Next1(job) EXCEPT !.duplicates = @ + 1] EXCEPT !.unhelped = @ + 1] =
                 Passed(job, 1, 0, 0, 1, job.index)
<1>1. /\ job.duplicates + 0 = job.duplicates /\ job.skipped + 0 = job.skipped
      /\ job.helped + 0 = job.helped /\ job.unhelped + 0 = job.unhelped
    BY DEF ImportState
<1>2. [Next1(job) EXCEPT !.skipped = @ + 1] = Passed(job, 0, 1, 0, 0, job.index)
    BY <1>1 DEF ImportState, Next1, Passed
<1>3. [Next1(job) EXCEPT !.duplicates = @ + 1] = Passed(job, 1, 0, 0, 0, job.index)
    BY <1>1 DEF ImportState, Next1, Passed
<1>4. [[Next1(job) EXCEPT !.duplicates = @ + 1] EXCEPT !.helped = @ + 1] =
                 Passed(job, 1, 0, 1, 0, job.index)
    BY <1>1 DEF ImportState, Next1, Passed
<1>5. [[Next1(job) EXCEPT !.duplicates = @ + 1] EXCEPT !.unhelped = @ + 1] =
                 Passed(job, 1, 0, 0, 1, job.index)
    BY <1>1 DEF ImportState, Next1, Passed
<1> QED BY <1>2, <1>3, <1>4, <1>5

LEMMA PassedPending ==
    ASSUME NEW job \in ImportState, NEW k
    PROVE  [Next1(job) EXCEPT !.skipped = @ + 1, !.index = IndexedPending(@, k)] =
              Passed(job, 0, 1, 0, 0, IndexedPending(job.index, k))
<1>1. /\ job.duplicates + 0 = job.duplicates /\ job.helped + 0 = job.helped
      /\ job.unhelped + 0 = job.unhelped
    BY DEF ImportState
<1>2. PICK index : index = IndexedPending(job.index, k)
    OBVIOUS
<1>3. [Next1(job) EXCEPT !.skipped = @ + 1, !.index = IndexedPending(@, k)] =
         [Next1(job) EXCEPT !.skipped = @ + 1, !.index = index]
    BY <1>2 DEF ImportState, Next1
<1>4. [Next1(job) EXCEPT !.skipped = @ + 1, !.index = index] = Passed(job, 0, 1, 0, 0, index)
    BY <1>1 DEF ImportState, Next1, Passed
<1> QED BY ONLY <1>2, <1>3, <1>4

LEMMA IndexTyped ==
    ASSUME VotersTypeOK, NEW i \in Imports
    PROVE  import[i].index \in [Keys -> 0 .. Pending]
BY ImportTyped DEF ImportState

LEMMA SkipUnnamedStep ==
    ASSUME VotersInv, NEW i \in Imports, SkipUnnamed(i)
    PROVE  VotersInv'
<1>1. VotersTypeOK /\ Importing(i) /\ ~OfImport(i).named
    BY DEF VotersInv, SkipUnnamed
<1>2. PICK job, r, at : job = import[i] /\ r = OfImport(i) /\ at = import[i].at
    OBVIOUS
<1>3. import' = [import EXCEPT ![i] = Passed(job, 0, 1, 0, 0, job.index)]
  <2>1. [Next1(job) EXCEPT !.skipped = @ + 1] = Passed(job, 0, 1, 0, 0, job.index)
    BY <1>1, <1>2, ImportTyped, PassedForms
  <2>2. import' = [import EXCEPT ![i] = [Next1(job) EXCEPT !.skipped = @ + 1]]
    BY <1>1, <1>2 DEF SkipUnnamed, Next1
  <2> QED BY <2>1, <2>2
<1>4. UNCHANGED <<voters, leaderRow, voterJob, geocoding, uncounted, crossed, work>>
    BY DEF SkipUnnamed
<1>5. 0 \in Bit /\ 1 \in Bit /\ 0 + 1 = 1 /\ 0 + 0 = 0
    BY DEF Bit
<1>6. job.index \in [Keys -> 0 .. Pending] /\ \A k \in Keys : job.index[k] = import[i].index[k]
    BY <1>1, <1>2, IndexTyped
<1>7. Passes(i, 0, 1, 0, 0, job.index)
    BY <1>1, <1>2, <1>3, <1>4, <1>5, <1>6 DEF Passes
<1> QED BY <1>5, <1>7, PassStep

LEMMA SkipDuplicateStep ==
    ASSUME VotersInv, NEW i \in Imports, SkipDuplicate(i)
    PROVE  VotersInv'
<1>1. /\ VotersTypeOK /\ Importing(i) /\ ~OfImport(i).help /\ OfImport(i).key # NoKey
      /\ import[i].index[OfImport(i).key] # 0
    BY DEF VotersInv, SkipDuplicate, Ready, KnownAt
<1>2. PICK job, r, at : job = import[i] /\ r = OfImport(i) /\ at = import[i].at
    OBVIOUS
<1>3. import' = [import EXCEPT ![i] = Passed(job, 1, 0, 0, 0, job.index)]
  <2>1. [Next1(job) EXCEPT !.duplicates = @ + 1] = Passed(job, 1, 0, 0, 0, job.index)
    BY <1>1, <1>2, ImportTyped, PassedForms
  <2>2. import' = [import EXCEPT ![i] = [Next1(job) EXCEPT !.duplicates = @ + 1]]
    BY <1>1, <1>2 DEF SkipDuplicate, Next1
  <2> QED BY <2>1, <2>2
<1>4. UNCHANGED <<voters, leaderRow, voterJob, geocoding, uncounted, crossed, work>>
    BY DEF SkipDuplicate
<1>5. 0 \in Bit /\ 1 \in Bit /\ 1 + 0 = 1 /\ 0 + 0 = 0
    BY DEF Bit
<1>6. job.index \in [Keys -> 0 .. Pending] /\ \A k \in Keys : job.index[k] = import[i].index[k]
    BY <1>1, <1>2, IndexTyped
<1>7. Landed(i, r.key)
  <2>1. r.key \in Keys
    BY <1>1, <1>2, OfImportIs DEF Row
  <2> QED BY <1>1, <1>2, <2>1, KnownLands
<1>8. Passes(i, 1, 0, 0, 0, job.index)
    BY <1>1, <1>2, <1>3, <1>4, <1>5, <1>6, <1>7 DEF Passes
<1> QED BY <1>5, <1>8, PassStep

LEMMA HelpDuplicateStep ==
    ASSUME VotersInv, NEW i \in Imports, HelpDuplicate(i)
    PROVE  VotersInv'
<1>1. /\ VotersTypeOK /\ Importing(i) /\ OfImport(i).help /\ OfImport(i).named
      /\ OfImport(i).key # NoKey /\ import[i].index[OfImport(i).key] # 0
    BY DEF VotersInv, HelpDuplicate, Ready, KnownAt
<1>2. PICK job, r, at : job = import[i] /\ r = OfImport(i) /\ at = import[i].at
    OBVIOUS
<1>3. \E help \in Bit, unhelp \in Bit :
         /\ import' = [import EXCEPT ![i] = Passed(job, 1, 0, help, unhelp, job.index)]
         /\ help + unhelp = 1
  <2>1. /\ [[Next1(job) EXCEPT !.duplicates = @ + 1] EXCEPT !.helped = @ + 1] =
                 Passed(job, 1, 0, 1, 0, job.index)
        /\ [[Next1(job) EXCEPT !.duplicates = @ + 1] EXCEPT !.unhelped = @ + 1] =
                 Passed(job, 1, 0, 0, 1, job.index)
    BY <1>1, <1>2, ImportTyped, PassedForms
  <2>2. PICK made \in BOOLEAN : Helps(i, [Next1(job) EXCEPT !.duplicates = @ + 1], made)
    BY <1>2 DEF HelpDuplicate
  <2>3. CASE made
    <3>1. import' = [import EXCEPT ![i] = Passed(job, 1, 0, 1, 0, job.index)]
      BY <2>1, <2>2, <2>3 DEF Helps
    <3> QED BY <3>1 DEF Bit
  <2>4. CASE ~made
    <3>1. import' = [import EXCEPT ![i] = Passed(job, 1, 0, 0, 1, job.index)]
      BY <2>1, <2>2, <2>4 DEF Helps
    <3> QED BY <3>1 DEF Bit
  <2> QED BY <2>3, <2>4
<1>4. UNCHANGED <<voters, leaderRow, voterJob, geocoding, uncounted, crossed, work>>
    BY DEF HelpDuplicate
<1>5. PICK help \in Bit, unhelp \in Bit :
         /\ import' = [import EXCEPT ![i] = Passed(job, 1, 0, help, unhelp, job.index)]
         /\ help + unhelp = 1
    BY <1>3
<1>6. job.index \in [Keys -> 0 .. Pending] /\ \A k \in Keys : job.index[k] = import[i].index[k]
    BY <1>1, <1>2, IndexTyped
<1>7. Landed(i, r.key)
  <2>1. r.key \in Keys
    BY <1>1, <1>2, OfImportIs DEF Row
  <2> QED BY <1>1, <1>2, <2>1, KnownLands
<1>8. 0 \in Bit /\ 1 \in Bit /\ 1 + 0 = 1
    BY DEF Bit
<1>9. Passes(i, 1, 0, help, unhelp, job.index)
    BY <1>1, <1>2, <1>4, <1>5, <1>6, <1>7, <1>8 DEF Passes
<1> QED BY <1>5, <1>8, <1>9, PassStep

LEMMA HelpPendingStep ==
    ASSUME VotersInv, NEW i \in Imports, HelpPending(i)
    PROVE  VotersInv'
<1>1. /\ VotersTypeOK /\ Importing(i) /\ OfImport(i).help /\ OfImport(i).named
      /\ OfImport(i).key # NoKey /\ import[i].index[OfImport(i).key] = Pending
      /\ import[i].batch = <<>>
    BY DEF VotersInv, HelpPending, Ready, KnownAt
<1>2. PICK job, r, k, at : job = import[i] /\ r = OfImport(i) /\ k = r.key /\ at = import[i].at
    OBVIOUS
<1>3. UNCHANGED <<voters, leaderRow, voterJob, geocoding, uncounted, crossed, work>>
    BY DEF HelpPending
<1>4. k \in Keys /\ r.spelled \in BOOLEAN /\ import[i].file[at] = r
    BY <1>1, <1>2, OfImportIs DEF Row
<1>5. 0 \in Bit /\ 1 \in Bit /\ 1 + 0 = 1 /\ 0 + 0 = 0 /\ 0 + 1 = 1
    BY DEF Bit
<1>6. job.index \in [Keys -> 0 .. Pending] /\ job \in ImportState
    BY <1>1, <1>2, IndexTyped, ImportTyped
<1>7. Landed(i, k)
  <2>1. Pending # 0
    BY <1>1, VotersTypes
  <2> QED BY <1>1, <1>2, <1>4, <2>1, KnownLands
<1>8. PICK found : found = {v \in WithKey(k) : voters[v].spelled = r.spelled}
    OBVIOUS
<1>9. \/ found = {} /\ import' = [import EXCEPT ![i] = [Next1(job) EXCEPT !.duplicates = @ + 1]]
      \/ \E v \in found, made \in BOOLEAN :
            Helps(i, [[Next1(job) EXCEPT !.duplicates = @ + 1] EXCEPT !.index[k] = v], made)
    BY <1>2, <1>8 DEF HelpPending
<1>10. PICK m \in Done(i) : import[i].file[m].key = k /\ HasVoter(i, import[i].file[m])
  <2>1. KeyTells(i, k)
    BY <1>4, IndexParts
  <2> QED BY <1>1, <1>2, <2>1 DEF KeyTells
<1>11. CASE found = {} /\ import' = [import EXCEPT ![i] =
                                       [Next1(job) EXCEPT !.duplicates = @ + 1]]
  <2>1. import' = [import EXCEPT ![i] = Passed(job, 1, 0, 0, 0, job.index)]
    BY <1>6, <1>11, PassedForms
  <2>2. import'[i].file = import[i].file /\ import'[i].at = import[i].at + 1
        /\ import'[i].step = import[i].step /\ import'[i].since = import[i].since
    BY <1>1, <1>2, <1>6, <2>1 DEF Passed, ImportState, VotersTypeOK
  <2>3. m \in Done(i)'
    BY <1>1, <1>10, <2>2, DoneIs DEF RowDone
  <2>4. Excused(i, at)'
    <3>1. PICK q : q = import[i].file[m]
      OBVIOUS
    <3>2. CASE q.refused \/ q.spelled # r.spelled
      <4>1. SameKey(q, r)
        BY <1>1, <1>2, <1>10, <3>1 DEF SameKey
      <4>2. import'[i].file[m] = q /\ import'[i].file[at] = r
        BY <1>4, <2>2, <3>1
      <4> QED BY <2>3, <3>2, <4>1, <4>2 DEF Excused
    <3>3. CASE ~q.refused /\ q.spelled = r.spelled
      <4>1. PICK v \in 1 .. Count : voters[v].key = k /\ voters[v].spelled = r.spelled
        BY <1>1, <1>10, <3>1, <3>3 DEF HasVoter
      <4>2. ~voters[v].here
        BY <1>8, <1>11, <4>1 DEF WithKey, HereV
      <4>3. GoneOrCrossed(k)'
        BY <1>3, <4>1, <4>2 DEF GoneOrCrossed, Count
      <4>4. import'[i].file[at] = r /\ k # NoKey
        BY <1>1, <1>2, <1>4, <2>2
      <4> QED BY <1>2, <4>3, <4>4 DEF Excused, GoneOrCrossed
    <3> QED BY <3>2, <3>3
  <2>5. Passes(i, 1, 0, 0, 0, job.index)
    BY <1>1, <1>2, <1>3, <1>5, <1>6, <1>7, <2>1, <2>4 DEF Passes
  <2> QED BY <1>5, <2>5, PassStep
<1>12. CASE \E v \in found, made \in BOOLEAN :
            Helps(i, [[Next1(job) EXCEPT !.duplicates = @ + 1] EXCEPT !.index[k] = v], made)
  <2>1. PICK v \in found, made \in BOOLEAN :
            Helps(i, [[Next1(job) EXCEPT !.duplicates = @ + 1] EXCEPT !.index[k] = v], made)
    BY <1>12
  <2>2. v \in 1 .. Count /\ voters[v].key = k
    BY <1>8 DEF WithKey, HereV
  <2>3. v \in 0 .. Pending /\ v # Pending /\ v # 0 /\ v <= Count
    BY <1>1, <2>2, VotersTypes
  <2>4. PICK index : index = [job.index EXCEPT ![k] = v]
    OBVIOUS
  <2>5. /\ index \in [Keys -> 0 .. Pending] /\ index[k] = v
        /\ \A c \in Keys : c # k => index[c] = import[i].index[c]
    BY <1>2, <1>4, <1>6, <2>3, <2>4
  <2>6. \E help \in Bit, unhelp \in Bit :
           /\ import' = [import EXCEPT ![i] = Passed(job, 1, 0, help, unhelp, index)]
           /\ help + unhelp = 1
    <3>1. PICK mid : mid = [[Next1(job) EXCEPT !.duplicates = @ + 1] EXCEPT !.index[k] = v]
      OBVIOUS
    <3>2. Helps(i, mid, made)
      BY <2>1, <3>1
    <3>3. mid = [[Next1(job) EXCEPT !.duplicates = @ + 1] EXCEPT !.index = index]
      BY <1>6, <2>4, <3>1 DEF ImportState, Next1
    <3>4. /\ job.skipped + 0 = job.skipped /\ job.helped + 0 = job.helped
          /\ job.unhelped + 0 = job.unhelped
      BY <1>6 DEF ImportState
    <3>5. CASE made
      <4>1. [mid EXCEPT !.helped = @ + 1] = Passed(job, 1, 0, 1, 0, index)
        BY <1>6, <3>3, <3>4 DEF ImportState, Next1, Passed
      <4>2. import' = [import EXCEPT ![i] = Passed(job, 1, 0, 1, 0, index)]
        BY <3>2, <3>5, <4>1 DEF Helps
      <4> QED BY <4>2 DEF Bit
    <3>6. CASE ~made
      <4>1. [mid EXCEPT !.unhelped = @ + 1] = Passed(job, 1, 0, 0, 1, index)
        BY <1>6, <3>3, <3>4 DEF ImportState, Next1, Passed
      <4>2. import' = [import EXCEPT ![i] = Passed(job, 1, 0, 0, 1, index)]
        BY <3>2, <3>6, <4>1 DEF Helps
      <4> QED BY <4>2 DEF Bit
    <3> QED BY <3>5, <3>6
  <2>7. PICK help \in Bit, unhelp \in Bit :
           /\ import' = [import EXCEPT ![i] = Passed(job, 1, 0, help, unhelp, index)]
           /\ help + unhelp = 1
    BY <2>6
  <2>8. KeyTells(i, k)'
    <3>1. import'[i].index = index /\ import'[i].batch = <<>>
      BY <1>1, <1>2, <1>6, <2>7 DEF Passed, ImportState, VotersTypeOK
    <3>2. ~InBatch(i, k)'
      BY <3>1 DEF InBatch
    <3> QED BY <1>3, <2>2, <2>3, <2>5, <3>1, <3>2 DEF KeyTells, Count, Pending
  <2>9. \A c \in Keys : index[c] = import[i].index[c] \/ KeyTells(i, c)'
    BY <2>5, <2>8
  <2>10. Passes(i, 1, 0, help, unhelp, index)
    BY <1>1, <1>2, <1>3, <1>5, <1>7, <2>5, <2>7, <2>9 DEF Passes
  <2> QED BY <1>5, <2>10, PassStep
<1> QED BY <1>9, <1>11, <1>12

(* HelpNew, when the database refuses the row. *)
LEMMA HelpRefused ==
    ASSUME VotersInv, NEW i \in Imports, Ready(i), ~KnownAt(i), OfImport(i).help,
           import[i].batch = <<>>, OfImport(i).refused, NEW job, job = import[i],
           import' = [import EXCEPT ![i] = [Next1(job) EXCEPT !.skipped = @ + 1,
                                   !.index = IndexedPending(@, OfImport(i).key)]],
           UNCHANGED <<voters, leaderRow, voterJob, geocoding, uncounted, crossed, work>>
    PROVE  VotersInv'
<1>1. VotersTypeOK /\ Importing(i) /\ OfImport(i).named
    BY DEF VotersInv, Ready
<1>2. PICK r, k, at : r = OfImport(i) /\ k = r.key /\ at = import[i].at
    OBVIOUS
<1>3. /\ k \in Keys \union {NoKey} /\ import[i].file[at] = r /\ r.refused /\ r.named /\ r.help
      /\ NoKey \notin Keys
    BY <1>1, <1>2, OfImportIs, VotersAssumption DEF Row
<1>4. 0 \in Bit /\ 1 \in Bit /\ 0 + 1 = 1 /\ 0 + 0 = 0
    BY DEF Bit
<1>5. job.index \in [Keys -> 0 .. Pending] /\ job \in ImportState
    BY <1>1, IndexTyped, ImportTyped
<1>6. PICK index : index = IndexedPending(job.index, k)
    OBVIOUS
<1>7. /\ index \in [Keys -> 0 .. Pending]
      /\ k # NoKey => index[k] = Pending
      /\ \A c \in Keys : c # k => index[c] = import[i].index[c]
  <2>1. Pending \in 0 .. Pending
    BY <1>1, VotersTypes
  <2> QED BY <1>3, <1>5, <1>6, <2>1 DEF IndexedPending
<1>8. import' = [import EXCEPT ![i] = Passed(job, 0, 1, 0, 0, index)]
    BY <1>2, <1>5, <1>6, PassedPending
<1>9. /\ import'[i].index = index /\ import'[i].batch = <<>> /\ import'[i].file = import[i].file
      /\ import'[i].at = import[i].at + 1 /\ import'[i].step = import[i].step
      /\ import'[i].since = import[i].since
  <2>1. import'[i] = Passed(job, 0, 1, 0, 0, index)
    BY <1>1, <1>8 DEF VotersTypeOK
  <2>2. PICK new : new = Passed(job, 0, 1, 0, 0, index)
    OBVIOUS
  <2>3. /\ new.index = index /\ new.batch = job.batch /\ new.file = job.file
        /\ new.at = job.at + 1 /\ new.step = job.step /\ new.since = job.since
    BY ONLY <1>5, <2>2 DEF Passed, ImportState
  <2> QED BY <2>1, <2>2, <2>3
<1>10. at \in Done(i)'
    BY <1>1, <1>2, <1>9, DoneIs DEF RowDone
<1>11. Excused(i, at)'
    BY <1>3, <1>9, <1>10 DEF Excused
<1>12. ASSUME k # NoKey PROVE KeyTells(i, k)'
  <2>1. import'[i].index[k] = Pending /\ Pending # 0 /\ Pending' = Pending
    BY <1>1, <1>3, <1>7, <1>9, <1>12, VotersTypes DEF Pending
  <2>2. ~InBatch(i, k)'
    BY <1>9 DEF InBatch
  <2>3. import'[i].file[at] = r /\ r.key = k /\ HasVoter(i, r)'
    BY <1>2, <1>3, <1>9 DEF HasVoter
  <2> QED BY <1>10, <2>1, <2>2, <2>3 DEF KeyTells, HasVoter
<1>13. \A c \in Keys : index[c] = import[i].index[c] \/ KeyTells(i, c)'
    BY <1>3, <1>7, <1>12
<1>14. Passes(i, 0, 1, 0, 0, index)
    BY <1>1, <1>2, <1>3, <1>4, <1>7, <1>8, <1>11, <1>13 DEF Passes
<1> QED BY <1>4, <1>14, PassStep

LEMMA PutInBatchStep ==
    ASSUME VotersInv, NEW i \in Imports, PutInBatch(i)
    PROVE  VotersInv'
<1>1. /\ VotersTypeOK /\ Importing(i) /\ ~OfImport(i).help /\ OfImport(i).named /\ ~KnownAt(i)
      /\ ImportTells(i) /\ OwnTells(i) /\ BatchTells(i)
    BY IndexParts DEF PutInBatch, Ready
<1>2. PICK job, r, k, at : job = import[i] /\ r = OfImport(i) /\ k = r.key /\ at = import[i].at
    OBVIOUS
<1>3. UNCHANGED <<voters, leaderRow, voterJob, geocoding, uncounted, crossed, work>>
    BY DEF PutInBatch
<1>4. /\ k \in Keys \union {NoKey} /\ job.file[at] = r /\ r \in Row /\ NoKey \notin Keys
      /\ job.step = "rows" /\ at \in DOMAIN job.file /\ at <= Len(job.file)
      /\ Len(job.batch) < BatchSize
    BY <1>1, <1>2, OfImportIs, VotersAssumption DEF Row
<1>5. /\ job \in ImportState /\ job.batch \in Seq(Row) /\ Len(job.batch) \in Nat
      /\ at \in Nat /\ 1 <= at /\ Len(job.file) \in Nat
    BY <1>1, <1>2, ImportTyped
<1>6. PICK index, batch : index = IndexedPending(job.index, k) /\ batch = Append(job.batch, r)
    OBVIOUS
<1>7. /\ index \in [Keys -> 0 .. Pending]
      /\ k # NoKey => index[k] = Pending
      /\ \A c \in Keys : c # k => index[c] = job.index[c]
  <2>1. Pending \in 0 .. Pending
    BY <1>1, VotersTypes
  <2>2. job.index \in [Keys -> 0 .. Pending]
    BY <1>1, <1>2, IndexTyped
  <2> QED BY <1>4, <1>6, <2>1, <2>2 DEF IndexedPending
<1>8. PICK size : size = Len(job.batch)
    OBVIOUS
<1>9. /\ batch \in Seq(Row) /\ Len(batch) = size + 1 /\ DOMAIN batch = 1 .. size + 1
      /\ batch[size + 1] = r /\ size \in Nat /\ DOMAIN job.batch = 1 .. size
      /\ \A b \in 1 .. size : batch[b] = job.batch[b] /\ b \in DOMAIN batch
    BY <1>4, <1>5, <1>6, <1>8
<1>10. PICK new, next : new = [job EXCEPT !.at = next, !.batch = batch, !.index = index]
                        /\ next = at + 1
    OBVIOUS
<1>11. import' = [import EXCEPT ![i] = new]
  <2>1. [Next1(job) EXCEPT !.batch = Append(@, r), !.index = IndexedPending(@, k)] = new
    BY <1>2, <1>5, <1>6, <1>10 DEF Next1, ImportState
  <2>2. import' = [import EXCEPT ![i] = [Next1(job) EXCEPT !.batch = Append(@, r),
                                           !.index = IndexedPending(@, k)]]
    BY <1>2 DEF PutInBatch
  <2> QED BY <2>1, <2>2
<1>12. /\ new.file = job.file /\ new.at = next /\ new.step = job.step /\ new.since = job.since
       /\ new.batch = batch /\ new.index = index /\ new.mine = job.mine
       /\ new.imported = job.imported /\ new.skipped = job.skipped
       /\ new.duplicates = job.duplicates /\ new.helped = job.helped
       /\ new.unhelped = job.unhelped
    BY ONLY <1>5, <1>10 DEF ImportState
<1>13. new \in ImportState
  <2>1. next \in Nat
    BY <1>5, <1>10
  <2> QED BY ONLY <1>5, <1>7, <1>9, <1>10, <2>1 DEF ImportState
<1>14. new.at \in 1 .. Len(new.file) + 1 /\ Len(new.batch) <= BatchSize
  <2>1. new.at \in 1 .. Len(new.file) + 1
    <3>1. PICK n : n = Len(job.file)
      OBVIOUS
    <3>2. at \in Nat /\ n \in Nat /\ 1 <= at /\ at <= n
      BY <1>4, <1>5, <3>1
    <3>3. next \in 1 .. n + 1
      BY ONLY <1>10, <3>2
    <3> QED BY ONLY <1>12, <3>1, <3>3
  <2>2. BatchSize \in Nat /\ size < BatchSize
    BY <1>1, <1>4, <1>8, VotersTypes
  <2>3. size + 1 <= BatchSize
    BY ONLY <1>9, <2>2
  <2> QED BY ONLY <1>9, <1>12, <2>1, <2>3
<1>15. import'[i] = new
    BY <1>1, <1>11 DEF VotersTypeOK
<1>16. RowDone(i) /\ RowsKept /\ BackIsCrossed
  <2>1. RowDone(i)
    BY <1>2, <1>10, <1>12, <1>15 DEF RowDone
  <2>2. RowsKept /\ BackIsCrossed
    BY <1>1, <1>3, VotersTypes DEF RowsKept, BackIsCrossed, Count
  <2> QED BY <2>1, <2>2
<1>17. \A b \in DOMAIN import[i].batch : \E c \in DOMAIN import'[i].batch :
              import'[i].batch[c] = import[i].batch[b]
    BY <1>2, <1>9, <1>12, <1>15
<1>18. \A c : InBatch(i, c)' <=> InBatch(i, c) \/ c = k
  <2>1. SUFFICES ASSUME NEW c PROVE InBatch(i, c)' <=> InBatch(i, c) \/ c = k
    OBVIOUS
  <2>2. InBatch(i, c)' <=> \E b \in 1 .. size + 1 : batch[b].key = c
    BY <1>9, <1>12, <1>15 DEF InBatch
  <2>3. InBatch(i, c) <=> \E b \in 1 .. size : batch[b].key = c
    BY <1>2, <1>9 DEF InBatch
  <2>4. \A b : b \in 1 .. size + 1 <=> b \in 1 .. size \/ b = size + 1
    BY ONLY <1>9
  <2> QED BY <1>2, <1>9, <2>2, <2>3, <2>4
<1>19. RowsCounted(i)'
  <2>1. /\ job.imported + job.skipped + job.duplicates + size = at - 1
        /\ job.imported = Cardinality(job.mine)
    BY <1>1, <1>2, <1>8 DEF ImportTells, RowsCounted
  <2>2. job.imported \in Nat /\ job.skipped \in Nat /\ job.duplicates \in Nat
    BY <1>5 DEF ImportState
  <2>3. job.imported + job.skipped + job.duplicates + (size + 1) = next - 1
    <3>1. size \in Nat /\ at \in Nat /\ next = at + 1
      BY <1>5, <1>9, <1>10
    <3>2. PICK a, b, c : a = job.imported /\ b = job.skipped /\ c = job.duplicates
      OBVIOUS
    <3>3. a \in Nat /\ b \in Nat /\ c \in Nat /\ a + b + c + size = at - 1
      BY <2>1, <2>2, <3>2
    <3>4. a + b + c + (size + 1) = next - 1
      BY ONLY <3>1, <3>3
    <3> QED BY <3>2, <3>4
  <2> QED BY <1>9, <1>12, <1>15, <2>1, <2>3 DEF RowsCounted
<1>20. RowsLand(i)'
  <2>1. r.named /\ r.key # NoKey => Landed(i, r.key)'
    BY <1>2, <1>18 DEF Landed
  <2> QED BY <1>1, <1>2, <1>16, <1>17, <2>1, RowLands
<1>21. HelpTells(i)'
    BY <1>1, <1>2, <1>12, <1>15, <1>16, RowHelps
<1>22. ASSUME NEW c \in Keys, c # k PROVE KeyTells(i, c)'
  <2>1. \A n \in Done(i) : n \in Done(i)'
    BY <1>1, <1>16, DoneIs
  <2>2. \A m \in Done(i) : HasVoter(i, import[i].file[m]) =>
              \E q : q = import[i].file[m] /\ HasVoter(i, q)'
    BY <1>16, <1>17, HasStays
  <2>3. InBatch(i, c)' => InBatch(i, c)
    BY <1>18, <1>22
  <2>4. \A v \in import'[i].mine : v \in import[i].mine \/ v \notin WithKey(c)'
    BY <1>2, <1>12, <1>15
  <2>5. import'[i].index[c] = import[i].index[c]
    BY <1>2, <1>7, <1>12, <1>15, <1>22
  <2>6. /\ import'[i].file = import[i].file /\ import'[i].step = import[i].step
        /\ import'[i].since = import[i].since
    BY <1>16 DEF RowDone
  <2> QED BY ONLY VotersInv, i \in Imports, c \in Keys, <1>16, <2>1, <2>2, <2>3, <2>4, <2>5, <2>6,
                  KeyStays
<1>23. ASSUME k \in Keys PROVE KeyTells(i, k)'
  <2>1. index[k] = Pending /\ Pending' = Pending /\ Pending # 0
    BY <1>1, <1>4, <1>7, <1>23, VotersTypes DEF Pending
  <2>2. at \in Done(i)' /\ new.file[at] = r /\ r.key = k
    BY <1>1, <1>2, <1>4, <1>12, <1>16, DoneIs
  <2>3. HasVoter(i, r)'
    <3>1. size + 1 \in DOMAIN batch
      BY ONLY <1>9
    <3> QED BY <1>9, <1>12, <1>15, <3>1 DEF HasVoter
  <2>4. k \in crossed \/ \A v \in WithKey(k) : v > job.since /\ v \notin job.mine
    <3>1. job.index[k] = 0
      BY <1>1, <1>2, <1>4, <1>23 DEF KnownAt
    <3> QED BY <1>2, <1>4, <1>23, <3>1, IndexParts DEF KeyTells
  <2>5. k \in crossed' \/ \A v \in WithKey(k)' : v > new.since /\ v \notin new.mine
    BY <1>3, <1>12, <2>4 DEF WithKey, HereV, Count
  <2>6. \E m \in Done(i)' : new.file[m].key = k /\ HasVoter(i, new.file[m])'
    <3>1. HasVoter(i, new.file[at])'
      BY <2>2, <2>3
    <3> QED BY <2>2, <3>1
  <2> QED BY <1>12, <1>15, <2>1, <2>5, <2>6 DEF KeyTells
<1>24. OwnTells(i)'
    BY <1>1, <1>2, <1>3, <1>4, <1>12, <1>15 DEF OwnTells, Count
<1>25. BatchTells(i)'
  <2>1. SUFFICES ASSUME NEW b \in 1 .. size + 1
                 PROVE  /\ \E m \in Done(i)' : job.file[m] = batch[b]
                        /\ batch[b].key # NoKey =>
                              /\ index[batch[b].key] = Pending
                              /\ \A c \in 1 .. size + 1 : batch[c].key = batch[b].key => c = b
    BY <1>9, <1>12, <1>15 DEF BatchTells, Pending
  <2>2. \A n \in Done(i) : n \in Done(i)'
    BY <1>1, <1>16, DoneIs
  <2>3. at \in Done(i)'
    BY <1>1, <1>2, <1>16, DoneIs
  <2>4. \A c \in 1 .. size + 1 : c \in 1 .. size \/ c = size + 1
    BY ONLY <1>9
  <2>5. \A c \in 1 .. size : /\ \E m \in Done(i) : job.file[m] = batch[c]
                             /\ batch[c].key # NoKey =>
                                  /\ job.index[batch[c].key] = Pending
                                  /\ \A d \in 1 .. size : batch[d].key = batch[c].key => d = c
    BY <1>1, <1>2, <1>9 DEF BatchTells
  <2>6. k # NoKey => \A c \in 1 .. size : batch[c].key # k
    <3>1. k # NoKey => job.index[k] = 0 /\ Pending # 0
      BY <1>1, <1>2, VotersTypes DEF KnownAt
    <3> QED BY <2>5, <3>1
  <2>7. \A c \in 1 .. size : batch[c].key \in Keys \union {NoKey}
    <3>1. \A c \in 1 .. size : batch[c] \in Row
      BY ONLY <1>5, <1>9
    <3> QED BY <3>1 DEF Row
  <2>8. CASE b = size + 1
    <3>1. batch[b] = r /\ batch[b].key = k
      BY <1>2, <1>9, <2>8
    <3>2. \E m \in Done(i)' : job.file[m] = batch[b]
      BY <1>4, <2>3, <3>1
    <3>3. k # NoKey => index[k] = Pending
      BY <1>7
    <3>4. k # NoKey => \A c \in 1 .. size + 1 : batch[c].key = k => c = b
      BY <2>4, <2>6, <2>8
    <3> QED BY <3>1, <3>2, <3>3, <3>4
  <2>9. CASE b \in 1 .. size
    <3>1. \E m \in Done(i)' : job.file[m] = batch[b]
      BY <2>2, <2>5, <2>9
    <3>2. ASSUME batch[b].key # NoKey
          PROVE  /\ index[batch[b].key] = Pending
                 /\ \A c \in 1 .. size + 1 : batch[c].key = batch[b].key => c = b
      <4>1. job.index[batch[b].key] = Pending /\ batch[b].key \in Keys
        BY <2>5, <2>7, <2>9, <3>2
      <4>2. batch[b].key # k
        BY <2>6, <2>9, <3>2
      <4>3. index[batch[b].key] = Pending
        BY <1>7, <4>1, <4>2
      <4>4. \A c \in 1 .. size + 1 : batch[c].key = batch[b].key => c = b
        BY <1>2, <1>9, <2>4, <2>5, <2>9, <3>2, <4>2
      <4> QED BY <4>3, <4>4
    <3> QED BY <3>1, <3>2
  <2> QED BY <2>4, <2>8, <2>9
<1>26. ImportTells(i)'
  <2>1. \A c \in Keys : KeyTells(i, c)'
    BY <1>22, <1>23
  <2>2. IndexTells(i)'
    BY <1>24, <1>25, <2>1, IndexFrom
  <2> QED BY <1>19, <1>20, <1>21, <2>2 DEF ImportTells
<1>27. work' \in 0 .. MaxWork
    BY <1>1, <1>3 DEF VotersTypeOK
<1>28. import[i].step = "rows" => new.step = "rows"
    BY <1>2, <1>12
<1> QED BY <1>3, <1>11, <1>13, <1>14, <1>26, <1>27, <1>28, ImportMoves

(* The index is made of the voters there are. *)
LEMMA ImportIndexStep ==
    ASSUME VotersInv, NEW i \in Imports, ImportIndex(i)
    PROVE  VotersInv'
<1>1. VotersTypeOK /\ ImportTells(i) /\ OwnTells(i)
    BY IndexParts
<1>2. PICK job : job = import[i]
    OBVIOUS
<1>3. /\ UNCHANGED <<voters, leaderRow, voterJob, geocoding, uncounted, crossed, work>>
      /\ job.step = "index"
    BY <1>2 DEF ImportIndex
<1>4. job.at = 1 /\ job.batch = <<>> /\ job.mine = {} /\ job \in ImportState
    BY <1>1, <1>2, <1>3, ImportTyped DEF OwnTells
<1>5. PICK index : index = [k \in Keys |-> Max2({0} \union WithKey(k))]
    OBVIOUS
<1>6. ASSUME NEW k \in Keys
      PROVE  /\ index[k] \in 0 .. Count
             /\ index[k] # 0 => index[k] \in WithKey(k)
             /\ index[k] = 0 => WithKey(k) = {}
  <2>1. PICK those : those = {0} \union WithKey(k)
    OBVIOUS
  <2>2. Count \in Nat /\ HereV \in SUBSET (1 .. Count)
    BY <1>1, VotersTypes
  <2>3. WithKey(k) \in SUBSET (1 .. Count)
    BY <2>2 DEF WithKey
  <2>4. those \in SUBSET (0 .. Count) /\ those # {}
    BY <2>1, <2>2, <2>3
  <2>5. Max2(those) \in those /\ \A y \in those : y <= Max2(those)
    BY <2>2, <2>4, Max2Is
  <2>6. index[k] = Max2(those)
    BY <1>5, <2>1
  <2>7. index[k] \in 0 .. Count /\ (index[k] # 0 => index[k] \in WithKey(k))
    BY <2>1, <2>4, <2>5, <2>6
  <2>8. index[k] = 0 => WithKey(k) = {}
    <3>1. SUFFICES ASSUME index[k] = 0, NEW v \in WithKey(k) PROVE FALSE
      OBVIOUS
    <3>2. v <= 0 /\ v \in 1 .. Count
      BY <2>1, <2>3, <2>5, <2>6, <3>1
    <3> QED BY <2>2, <3>2
  <2> QED BY <2>7, <2>8
<1>7. index \in [Keys -> 0 .. Pending] /\ Count \in 0 .. MaxVoters /\ Pending' = Pending
  <2>1. \A k \in Keys : index[k] \in 0 .. Pending
    BY <1>1, <1>6, VotersTypes
  <2>2. index \in [Keys -> 0 .. Pending]
    BY <1>5, <2>1
  <2>3. Count \in 0 .. MaxVoters
    BY <1>1, VotersTypes
  <2>4. Pending' = Pending
    BY DEF Pending
  <2> QED BY <2>2, <2>3, <2>4
<1>8. PICK new : new = [job EXCEPT !.step = "rows", !.since = Count, !.index = index]
    OBVIOUS
<1>9. import' = [import EXCEPT ![i] = new]
    BY <1>1, <1>2, <1>4, <1>5, <1>8 DEF ImportIndex, VotersTypeOK
<1>10. /\ new.file = job.file /\ new.at = job.at /\ new.step = "rows" /\ new.since = Count
       /\ new.batch = <<>> /\ new.index = index /\ new.mine = {}
       /\ new.imported = job.imported /\ new.skipped = job.skipped
       /\ new.duplicates = job.duplicates /\ new.helped = job.helped
       /\ new.unhelped = job.unhelped
    BY ONLY <1>4, <1>8 DEF ImportState
<1>11. new \in ImportState
    BY ONLY <1>4, <1>7, <1>8 DEF ImportState
<1>12. new.at \in 1 .. Len(new.file) + 1 /\ Len(new.batch) <= BatchSize
    BY <1>1, <1>2, <1>4, <1>10 DEF VotersTypeOK
<1>13. import'[i] = new /\ Done(i)' = Done(i)
    BY <1>1, <1>2, <1>9, <1>10 DEF VotersTypeOK, Done
<1>14. RowsCounted(i)'
    BY <1>1, <1>2, <1>4, <1>10, <1>13 DEF ImportTells, RowsCounted
<1>15. RowsLand(i)'
    BY <1>1, <1>2, <1>3, <1>4, <1>10, <1>13 DEF ImportTells, RowsLand, Landed, InBatch, Count
<1>16. HelpTells(i)'
  <2>1. Asked(i)' = Asked(i)
    BY <1>2, <1>10, <1>13 DEF Asked
  <2>2. \A n : Excused(i, n) => Excused(i, n)'
    BY <1>2, <1>3, <1>10, <1>13 DEF Excused, GoneOrCrossed, Count
  <2> QED BY <1>1, <1>2, <1>10, <1>13, <2>1, <2>2 DEF ImportTells, HelpTells
<1>17. ASSUME NEW k \in Keys PROVE KeyTells(i, k)'
  <2>1. index[k] # Pending /\ index[k] <= Count
    BY <1>1, <1>6, VotersTypes
  <2>2. index[k] # 0 => voters[index[k]].key = k
    BY <1>6 DEF WithKey
  <2>3. ~InBatch(i, k)'
    BY <1>10, <1>13 DEF InBatch
  <2>4. WithKey(k)' = WithKey(k)
    BY <1>3 DEF WithKey, HereV, Count
  <2> QED BY <1>3, <1>6, <1>7, <1>10, <1>13, <2>1, <2>2, <2>3, <2>4 DEF KeyTells, Count
<1>18. OwnTells(i)'
    BY <1>1, <1>3, <1>10, <1>13, VotersTypes DEF OwnTells, Count
<1>19. BatchTells(i)'
    BY <1>10, <1>13 DEF BatchTells
<1>20. ImportTells(i)'
  <2>1. IndexTells(i)'
    BY <1>17, <1>18, <1>19, IndexFrom
  <2> QED BY <1>14, <1>15, <1>16, <2>1 DEF ImportTells
<1>21. work' \in 0 .. MaxWork
    BY <1>1, <1>3 DEF VotersTypeOK
<1> QED BY <1>3, <1>9, <1>10, <1>11, <1>12, <1>20, <1>21, ImportMoves

LEMMA ImportStartsStep ==
    ASSUME VotersInv, NEW i \in Imports, NEW file \in Files, ImportStarts(i, file)
    PROVE  VotersInv'
<1>1. VotersTypeOK /\ MaxVoters \in Nat /\ BatchSize \in Nat /\ MaxWork \in Nat
    BY VotersTypes DEF VotersInv
<1>2. UNCHANGED <<voters, leaderRow, voterJob, geocoding, uncounted, crossed>>
      /\ import[i] = IdleImport /\ work' \in 0 .. MaxWork
    BY <1>1 DEF ImportStarts, VotersTypeOK
<1>3. PICK leaderOf : leaderOf = [n \in LeaderNames |->
                         Max2({0} \union {l \in 1 .. Len(leaderRow) : leaderRow[l].name = n})]
    OBVIOUS
<1>4. leaderOf \in [LeaderNames -> 0 .. MaxLeaders]
  <2>1. SUFFICES ASSUME NEW n \in LeaderNames, NEW those,
                        those = {0} \union {l \in 1 .. Len(leaderRow) : leaderRow[l].name = n}
                 PROVE  Max2(those) \in 0 .. MaxLeaders
    BY <1>3
  <2>2. Len(leaderRow) \in 0 .. MaxLeaders /\ MaxLeaders \in Nat
    BY <1>1, LeaderRows, VotersTypes
  <2>3. those \in SUBSET (0 .. MaxLeaders) /\ those # {}
    BY <2>1, <2>2
  <2> QED BY <2>2, <2>3, Max2Is
<1>5. PICK new : new = [IdleImport EXCEPT !.step = "index", !.file = file, !.leaderOf = leaderOf]
    OBVIOUS
<1>6. import' = [import EXCEPT ![i] = new]
    BY <1>3, <1>5 DEF ImportStarts
<1>7. /\ new.file = file /\ new.at = 1 /\ new.step = "index" /\ new.since = 0
      /\ new.batch = <<>> /\ new.mine = {} /\ new.imported = 0 /\ new.skipped = 0
      /\ new.duplicates = 0 /\ new.helped = 0 /\ new.unhelped = 0
      /\ new.index = [k \in Keys |-> 0]
    BY <1>5 DEF IdleImport
<1>8. new \in ImportState
  <2>1. [k \in Keys |-> 0] \in [Keys -> 0 .. Pending] /\ 0 \in 0 .. MaxVoters
    BY <1>1, VotersTypes
  <2>2. <<>> \in Seq(Row) /\ {} \in SUBSET VoterIds /\ 0 \in Nat /\ 1 \in Nat
    OBVIOUS
  <2> QED BY <1>4, <1>5, <2>1, <2>2 DEF IdleImport, ImportState
<1>9. new.at \in 1 .. Len(new.file) + 1 /\ Len(new.batch) <= BatchSize
  <2>1. file \in Seq(Row)
    BY VotersAssumption
  <2>2. Len(file) \in Nat
    BY <2>1
  <2>3. 1 \in 1 .. Len(file) + 1
    BY <2>2
  <2>4. Len(<<>>) = 0 /\ 0 <= BatchSize
    BY <1>1
  <2> QED BY <1>7, <2>3, <2>4
<1>10. import'[i] = new /\ Done(i)' = {}
    BY <1>1, <1>6, <1>7 DEF VotersTypeOK, Done
<1>11. ImportTells(i)'
  <2>1. RowsCounted(i)'
    <3>1. Cardinality({}) = 0 /\ Len(<<>>) = 0
      BY FS_EmptySet
    <3>2. 0 + 0 + 0 + 0 = 1 - 1
      OBVIOUS
    <3>3. PICK job : job = import'[i]
      OBVIOUS
    <3>4. /\ job.imported = 0 /\ job.skipped = 0 /\ job.duplicates = 0 /\ Len(job.batch) = 0
          /\ job.at = 1 /\ Cardinality(job.mine) = 0
      BY <1>7, <1>10, <3>1, <3>3
    <3> QED BY <3>2, <3>3, <3>4 DEF RowsCounted
  <2>2. RowsLand(i)'
    BY <1>10 DEF RowsLand
  <2>3. HelpTells(i)'
    <3>1. Cardinality({}) = 0 /\ Asked(i)' = {}
      BY <1>10, FS_EmptySet DEF Asked
    <3> QED BY <1>7, <1>10, <3>1 DEF HelpTells
  <2>4. OwnTells(i)'
    <3>1. 0 <= Count'
      BY <1>1, <1>2, VotersTypes DEF Count
    <3> QED BY <1>7, <1>10, <3>1 DEF OwnTells
  <2>5. BatchTells(i)'
    BY <1>7, <1>10 DEF BatchTells
  <2>6. ASSUME NEW k \in Keys PROVE KeyTells(i, k)'
    <3>1. import'[i].index[k] = 0 /\ Pending' # 0
      BY <1>1, <1>7, <1>10, VotersTypes DEF Pending
    <3> QED BY <1>7, <1>10, <3>1 DEF KeyTells
  <2>7. IndexTells(i)'
    BY <2>4, <2>5, <2>6, IndexFrom
  <2> QED BY <2>1, <2>2, <2>3, <2>7 DEF ImportTells
<1>12. import[i].step # "rows"
    BY <1>2 DEF IdleImport
<1> QED BY <1>2, <1>6, <1>8, <1>9, <1>11, <1>12, ImportMoves

-----------------------------------------------------------------------------
(* Rows are added to the table. *)

LEMMA RowsAdded ==
    ASSUME VotersTypeOK, NEW added \in Seq(Voter), NEW n, n = Len(added),
           voters' = voters \o added, Count + n <= MaxVoters,
           \A k \in crossed : k \in crossed'
    PROVE  /\ voters' \in Seq(Voter) /\ Count' = Count + n /\ Count' \in Nat /\ Count' <= MaxVoters
           /\ n \in Nat /\ RowsKept /\ BackIsCrossed
           /\ \A v \in 1 .. Count : voters'[v] = voters[v]
           /\ \A m \in 1 .. n : voters'[Count + m] = added[m] /\ Count + m \in 1 .. Count'
           /\ \A v \in 1 .. Count' : v \in 1 .. Count \/ \E m \in 1 .. n : v = Count + m
<1>1. voters \in Seq(Voter) /\ Count \in Nat /\ Len(voters) = Count
    BY VotersTypes
<1>2. n \in Nat
    OBVIOUS
<1>3. voters' \in Seq(Voter) /\ Len(voters') = Count + n
  <2>1. voters' = voters \o added /\ added \in Seq(Voter) /\ n = Len(added)
    OBVIOUS
  <2>2. /\ voters \o added \in Seq(Voter)
        /\ Len(voters \o added) = Len(voters) + Len(added)
    BY ONLY <1>1, <2>1, ConcatProperties
  <2> QED BY ONLY <1>1, <2>1, <2>2
<1>4. Count' = Count + n /\ Count' \in Nat /\ Count' <= MaxVoters
    BY <1>1, <1>2, <1>3 DEF Count
<1>5. \A v \in 1 .. Count : voters'[v] = voters[v]
    BY <1>1
<1>6. \A m \in 1 .. n : voters'[Count + m] = added[m]
    BY <1>1, <1>2
<1>7. \A m \in 1 .. n : Count + m \in 1 .. Count'
    BY ONLY <1>1, <1>2, <1>4
<1>8. \A v \in 1 .. Count' : v \in 1 .. Count \/ \E m \in 1 .. n : v = Count + m
  <2>1. SUFFICES ASSUME NEW v \in 1 .. Count', v \notin 1 .. Count
                 PROVE  \E m \in 1 .. n : v = Count + m
    OBVIOUS
  <2>2. v - Count \in 1 .. n /\ v = Count + (v - Count)
    BY ONLY <1>1, <1>2, <1>4, <2>1
  <2> QED BY <2>2
<1>9. RowsKept /\ BackIsCrossed
  <2>1. Count <= Count'
    BY ONLY <1>1, <1>2, <1>4
  <2> QED BY <1>4, <1>5, <2>1 DEF RowsKept, BackIsCrossed
<1> QED BY <1>2, <1>3, <1>4, <1>5, <1>6, <1>7, <1>8, <1>9

(* An import that inserts rows. *)
LEMMA Inserts ==
    ASSUME VotersInv, NEW i \in Imports, NEW new \in ImportState,
           import' = [import EXCEPT ![i] = new], new.at \in 1 .. Len(new.file) + 1,
           Len(new.batch) <= BatchSize, new.step = "rows", ImportTells(i)',
           voters' \in Seq(Voter), Count' <= MaxVoters, RowsKept, BackIsCrossed,
           \A v \in 1 .. Count' : \/ v <= Count /\ voters'[v] = voters[v]
                                  \/ PlacedNow(voters'[v]),
           \A k \in crossed' : k \in Keys, NoneTwice',
           UNCHANGED <<leaderRow, voterJob, geocoding, uncounted, work>>
    PROVE  VotersInv'
<1>1. VotersTypeOK
    BY DEF VotersInv
<1>2. /\ import'[i] = new /\ \A m \in Imports : m # i => import'[m] = import[m]
      /\ import' \in [Imports -> ImportState]
      /\ \A m \in Imports : import'[m].at \in 1 .. Len(import'[m].file) + 1
                            /\ Len(import'[m].batch) <= BatchSize
    BY <1>1, OneImport
<1>3. VotersTypeOK'
  <2>1. /\ leaderRow' \in Seq([name : LeaderNames, count : 0 .. MaxVoters])
        /\ Len(leaderRow') <= MaxLeaders /\ voterJob' \in [VoterJobs -> VoterJobState]
        /\ geocoding' \subseteq [town : Towns, state : States]
        /\ uncounted' \subseteq LeaderIds /\ work' \in 0 .. MaxWork
    BY <1>1 DEF VotersTypeOK
  <2>2. crossed' \subseteq Keys
    OBVIOUS
  <2> QED BY <1>2, <2>1, <2>2 DEF VotersTypeOK
<1>4. \A m \in Imports : ImportTells(m)'
    BY <1>2, OthersStay
<1>5. CopiesAreOfRows'
    BY CopiesStay
<1>6. PlacesAreRight'
  <2>1. \A j \in VoterJobs : voterJob'[j].step \in {"move", "edit"} =>
              \/ voterJob[j].step \in {"move", "edit"} /\ voterJob'[j].copy = voterJob[j].copy
              \/ PlacedNow(voterJob'[j].copy)
    OBVIOUS
  <2> QED BY <2>1, PlacesStay
<1>7. CountsAreComing'
    BY <1>2 DEF CountsAreComing
<1> QED BY <1>3, <1>4, <1>5, <1>6, <1>7, InvFrom

LEMMA AsVoterIs ==
    ASSUME VotersTypeOK, NEW i \in Imports, NEW r \in Row, NEW new, new = AsVoter(i, r)
    PROVE  /\ new \in Voter /\ new.here /\ new.key = r.key /\ new.spelled = r.spelled
           /\ new.found = new.place.state
<1>1. LeaderOf(i, r) \in 0 .. MaxLeaders
  <2>1. import[i].leaderOf \in [LeaderNames -> 0 .. MaxLeaders]
    BY ImportTyped DEF ImportState
  <2>2. r.leader \in LeaderNames \union {NoLeader} /\ MaxLeaders \in Nat
    BY VotersTypes DEF Row
  <2> QED BY <2>1, <2>2 DEF LeaderOf
<1>2. PICK l : l = LeaderOf(i, r)
    OBVIOUS
<1>3. new = [here |-> TRUE, key |-> r.key, spelled |-> r.spelled, leader |-> l,
             place |-> [town |-> r.town, state |-> r.state], found |-> r.state, placed |-> FALSE]
    BY <1>2 DEF AsVoter
<1>4. r.key \in Keys \union {NoKey} /\ r.spelled \in BOOLEAN /\ r.town \in Towns
      /\ r.state \in States
    BY DEF Row
<1>5. new \in Voter
    BY <1>1, <1>2, <1>3, <1>4 DEF Voter
<1>6. new.here /\ new.key = r.key /\ new.spelled = r.spelled /\ new.found = new.place.state
    BY ONLY <1>3
<1> QED BY <1>5, <1>6

(* None of the keys that are inserted is twice in the table, but for the crossed ones. *)
LEMMA NoneTwiceThen ==
    ASSUME VotersInv, RowsKept, BackIsCrossed,
           \A k \in Keys : k \notin crossed' =>
              /\ \A v, w \in 1 .. Count' :
                    v > Count /\ w > Count /\ voters'[v].key = k /\ voters'[w].key = k => v = w
              /\ \A v \in 1 .. Count' : v > Count /\ voters'[v].key = k => WithKey(k) = {}
    PROVE  NoneTwice'
<1>1. VotersTypeOK /\ NoneTwice
    BY DEF VotersInv
<1>2. Count \in Nat /\ Count' \in Nat
    BY <1>1, VotersTypes DEF RowsKept
<1>3. SUFFICES ASSUME NEW k \in Keys \ crossed', NEW v \in WithKey(k)', NEW w \in WithKey(k)'
               PROVE  v = w
    BY DEF NoneTwice
<1>4. /\ v \in 1 .. Count' /\ voters'[v].here /\ voters'[v].key = k
      /\ w \in 1 .. Count' /\ voters'[w].here /\ voters'[w].key = k
    BY DEF WithKey, HereV
<1>5. \A u \in 1 .. Count' : u \in 1 .. Count \/ u > Count
    BY <1>2
<1>6. \A u \in 1 .. Count : voters'[u].here /\ voters'[u].key = k => u \in WithKey(k)
  <2>1. SUFFICES ASSUME NEW u \in 1 .. Count, voters'[u].here, voters'[u].key = k
                 PROVE  u \in WithKey(k)
    OBVIOUS
  <2>2. voters[u].key = k /\ voters[u].here
    BY <2>1, VotersAssumption DEF RowsKept, BackIsCrossed
  <2> QED BY <2>2 DEF WithKey, HereV
<1>7. k \in Keys \ crossed
    BY DEF BackIsCrossed
<1>8. CASE v \in 1 .. Count /\ w \in 1 .. Count
    BY <1>1, <1>4, <1>6, <1>7, <1>8 DEF NoneTwice
<1>9. CASE v > Count \/ w > Count
    BY <1>4, <1>5, <1>6, <1>9
<1> QED BY <1>4, <1>5, <1>8, <1>9

(* A new voter with a help record is inserted alone. *)
HelpInserts(i) ==
    LET r == OfImport(i)
        job == Next1(import[i])
    IN
    /\ Ready(i) /\ ~KnownAt(i) /\ r.help /\ import[i].batch = <<>> /\ Count < MaxVoters
    /\ voters' = Append(voters, AsVoter(i, r))
    /\ crossed' = crossed \union Crossing(i, <<r>>)
    /\ \E made \in BOOLEAN :
          Helps(i, [job EXCEPT !.imported = @ + 1, !.mine = @ \union {Count + 1},
                      !.index = IF r.key = NoKey THEN @
                                ELSE [@ EXCEPT ![r.key] = Count + 1]], made)
    /\ UNCHANGED <<leaderRow, voterJob, geocoding, uncounted, work>>

LEMMA HelpInsertsStep ==
    ASSUME VotersInv, NEW i \in Imports, HelpInserts(i)
    PROVE  VotersInv'
<1>1. /\ VotersTypeOK /\ Importing(i) /\ OfImport(i).help /\ OfImport(i).named /\ ~KnownAt(i)
      /\ ImportTells(i) /\ OwnTells(i) /\ BatchTells(i) /\ Count < MaxVoters
    BY IndexParts DEF HelpInserts, Ready
<1>2. PICK job, r, k, at, count : /\ job = import[i] /\ r = OfImport(i) /\ k = r.key
                                  /\ at = import[i].at /\ count = Count + 1
    OBVIOUS
<1>3. UNCHANGED <<leaderRow, voterJob, geocoding, uncounted, work>> /\ job.batch = <<>>
    BY <1>2 DEF HelpInserts
<1>4. /\ k \in Keys \union {NoKey} /\ job.file[at] = r /\ r \in Row /\ NoKey \notin Keys
      /\ job.step = "rows" /\ at \in DOMAIN job.file /\ at <= Len(job.file)
    BY <1>1, <1>2, OfImportIs, VotersAssumption DEF Row
<1>5. /\ job \in ImportState /\ at \in Nat /\ 1 <= at /\ Len(job.file) \in Nat
      /\ job.mine \in SUBSET VoterIds /\ job.since \in 0 .. MaxVoters
  <2>1. job \in ImportState /\ at \in Nat /\ 1 <= at /\ Len(job.file) \in Nat
    BY <1>1, <1>2, ImportTyped
  <2> QED BY <2>1 DEF ImportState
<1>6. PICK index, mine : /\ index = IF k = NoKey THEN job.index ELSE [job.index EXCEPT ![k] = count]
                         /\ mine = job.mine \union {count}
    OBVIOUS
<1>7. /\ Count \in Nat /\ count \in Nat /\ count = Count + 1 /\ count <= MaxVoters
      /\ count \in VoterIds /\ count \in 0 .. Pending /\ count # Pending /\ count # 0
      /\ MaxVoters \in Nat
  <2>1. Count \in Nat /\ MaxVoters \in Nat /\ Pending = MaxVoters + 1
    BY <1>1, VotersTypes
  <2>2. count = Count + 1 /\ Count < MaxVoters
    BY <1>1, <1>2
  <2>3. count \in 1 .. MaxVoters /\ count \in 0 .. Pending /\ count # Pending
    BY ONLY <2>1, <2>2
  <2> QED BY <2>1, <2>2, <2>3 DEF VoterIds
<1>8. /\ index \in [Keys -> 0 .. Pending]
      /\ k # NoKey => index[k] = count
      /\ \A c \in Keys : c # k => index[c] = job.index[c]
  <2>1. job.index \in [Keys -> 0 .. Pending]
    BY <1>1, <1>2, IndexTyped
  <2> QED BY <1>4, <1>6, <1>7, <2>1
<1>9. PICK x, y : x = AsVoter(i, r) /\ y = <<x>>
    OBVIOUS
<1>10. /\ x \in Voter /\ x.here /\ x.key = k /\ x.spelled = r.spelled /\ x.found = x.place.state
    BY <1>1, <1>2, <1>4, <1>9, AsVoterIs
<1>11. y \in Seq(Voter) /\ Len(y) = 1 /\ y[1] = x
    BY <1>9, <1>10
<1>12. voters' = voters \o y
  <2>1. voters' = Append(voters, x)
    BY <1>2, <1>9 DEF HelpInserts
  <2>2. voters \in Seq(Voter)
    BY <1>1, VotersTypes
  <2> QED BY <1>9, <1>10, <2>1, <2>2
<1>13. \A c \in crossed : c \in crossed'
    BY DEF HelpInserts
<1>14. /\ voters' \in Seq(Voter) /\ Count' = count /\ Count' \in Nat /\ Count' <= MaxVoters
       /\ RowsKept /\ BackIsCrossed
       /\ \A v \in 1 .. Count : voters'[v] = voters[v]
       /\ voters'[count] = x /\ count \in 1 .. Count'
       /\ \A v \in 1 .. Count' : v \in 1 .. Count \/ v = count
  <2>1. 1 = Len(y) /\ Count + 1 <= MaxVoters
    BY <1>7, <1>11
  <2>2. /\ voters' \in Seq(Voter) /\ Count' = Count + 1 /\ Count' \in Nat /\ Count' <= MaxVoters
        /\ RowsKept /\ BackIsCrossed
        /\ \A v \in 1 .. Count : voters'[v] = voters[v]
        /\ \A m \in 1 .. 1 : voters'[Count + m] = y[m] /\ Count + m \in 1 .. Count'
        /\ \A v \in 1 .. Count' : v \in 1 .. Count \/ \E m \in 1 .. 1 : v = Count + m
    BY <1>1, <1>11, <1>12, <1>13, <2>1, RowsAdded, ZenonT(40)
  <2>3. voters'[Count + 1] = y[1] /\ Count + 1 \in 1 .. Count'
    BY <2>2
  <2>4. \A v \in 1 .. Count' : v \in 1 .. Count \/ v = Count + 1
    BY <2>2
  <2> QED BY <1>7, <1>11, <2>2, <2>3, <2>4
<1>15. \E a, b : /\ import' = [import EXCEPT ![i] = [[Next1(job) EXCEPT !.imported = @ + 1,
                      !.mine = mine, !.index = index] EXCEPT !.helped = a, !.unhelped = b]]
                 /\ a \in Nat /\ b \in Nat /\ a + b = job.helped + job.unhelped + 1
  <2>1. PICK made \in BOOLEAN :
           Helps(i, [Next1(job) EXCEPT !.imported = @ + 1, !.mine = @ \union {Count + 1},
                      !.index = IF k = NoKey THEN @ ELSE [@ EXCEPT ![k] = Count + 1]], made)
    BY <1>2 DEF HelpInserts
  <2>2. PICK mid : mid = [Next1(job) EXCEPT !.imported = @ + 1, !.mine = @ \union {Count + 1},
                      !.index = IF k = NoKey THEN @ ELSE [@ EXCEPT ![k] = Count + 1]]
    OBVIOUS
  <2>3. mid = [Next1(job) EXCEPT !.imported = @ + 1, !.mine = mine, !.index = index]
    BY <1>2, <1>5, <1>6, <2>2 DEF Next1, ImportState
  <2>4. Helps(i, mid, made)
    BY <2>1, <2>2
  <2>5. mid.helped = job.helped /\ mid.unhelped = job.unhelped /\ job.helped \in Nat
        /\ job.unhelped \in Nat
    BY <1>5, <2>3 DEF Next1, ImportState
  <2>6. CASE made
    <3>1. import' = [import EXCEPT ![i] = [mid EXCEPT !.helped = @ + 1]]
      BY <2>4, <2>6 DEF Helps
    <3>2. PICK a, b : a = job.helped + 1 /\ b = job.unhelped
      OBVIOUS
    <3>3. [mid EXCEPT !.helped = @ + 1] = [mid EXCEPT !.helped = a, !.unhelped = b]
      BY <1>5, <2>3, <2>5, <3>2 DEF Next1, ImportState
    <3>4. a \in Nat /\ b \in Nat /\ a + b = job.helped + job.unhelped + 1
      BY <2>5, <3>2
    <3> QED BY <2>3, <3>1, <3>3, <3>4
  <2>7. CASE ~made
    <3>1. import' = [import EXCEPT ![i] = [mid EXCEPT !.unhelped = @ + 1]]
      BY <2>4, <2>7 DEF Helps
    <3>2. PICK a, b : a = job.helped /\ b = job.unhelped + 1
      OBVIOUS
    <3>3. [mid EXCEPT !.unhelped = @ + 1] = [mid EXCEPT !.helped = a, !.unhelped = b]
      BY <1>5, <2>3, <2>5, <3>2 DEF Next1, ImportState
    <3>4. a \in Nat /\ b \in Nat /\ a + b = job.helped + job.unhelped + 1
      BY <2>5, <3>2
    <3> QED BY <2>3, <3>1, <3>3, <3>4
  <2> QED BY <2>6, <2>7
<1>16. PICK a, b : /\ import' = [import EXCEPT ![i] = [[Next1(job) EXCEPT !.imported = @ + 1,
                      !.mine = mine, !.index = index] EXCEPT !.helped = a, !.unhelped = b]]
                   /\ a \in Nat /\ b \in Nat /\ a + b = job.helped + job.unhelped + 1
    BY <1>15
<1>17. PICK next, imported : next = at + 1 /\ imported = job.imported + 1
    OBVIOUS
<1>18. PICK new : new = [job EXCEPT !.at = next, !.imported = imported, !.mine = mine,
                           !.index = index, !.helped = a, !.unhelped = b]
    OBVIOUS
<1>19. import' = [import EXCEPT ![i] = new]
  <2>1. [[Next1(job) EXCEPT !.imported = @ + 1, !.mine = mine, !.index = index]
            EXCEPT !.helped = a, !.unhelped = b] = new
    BY <1>2, <1>5, <1>17, <1>18 DEF Next1, ImportState
  <2> QED BY <1>16, <2>1
<1>20. /\ new.file = job.file /\ new.at = next /\ new.step = job.step /\ new.since = job.since
       /\ new.batch = job.batch /\ new.index = index /\ new.mine = mine
       /\ new.imported = imported /\ new.skipped = job.skipped
       /\ new.duplicates = job.duplicates /\ new.helped = a /\ new.unhelped = b
    BY ONLY <1>5, <1>18 DEF ImportState
<1>21. new \in ImportState
  <2>1. next \in Nat /\ imported \in Nat
    BY <1>5, <1>17 DEF ImportState
  <2>2. mine \in SUBSET VoterIds
    BY <1>5, <1>6, <1>7
  <2> QED BY ONLY <1>5, <1>8, <1>16, <1>18, <2>1, <2>2 DEF ImportState
<1>22. new.at \in 1 .. Len(new.file) + 1 /\ Len(new.batch) <= BatchSize
  <2>1. new.at \in 1 .. Len(new.file) + 1
    <3>1. PICK n : n = Len(job.file)
      OBVIOUS
    <3>2. at \in Nat /\ n \in Nat /\ 1 <= at /\ at <= n
      BY <1>4, <1>5, <3>1
    <3>3. next \in 1 .. n + 1
      BY ONLY <1>17, <3>2
    <3> QED BY ONLY <1>20, <3>1, <3>3
  <2>2. Len(job.batch) <= BatchSize
    BY <1>1, <1>2 DEF VotersTypeOK
  <2> QED BY ONLY <1>20, <2>1, <2>2
<1>23. import'[i] = new
    BY <1>1, <1>19 DEF VotersTypeOK
<1>24. RowDone(i)
    BY <1>2, <1>17, <1>20, <1>23 DEF RowDone
<1>25. \A c : ~InBatch(i, c) /\ ~InBatch(i, c)'
    BY <1>2, <1>3, <1>20, <1>23 DEF InBatch
<1>26. RowsCounted(i)'
  <2>1. /\ job.imported + job.skipped + job.duplicates + Len(job.batch) = at - 1
        /\ job.imported = Cardinality(job.mine)
    BY <1>1, <1>2 DEF ImportTells, RowsCounted
  <2>2. job.imported \in Nat /\ job.skipped \in Nat /\ job.duplicates \in Nat
    BY <1>5 DEF ImportState
  <2>3. imported + job.skipped + job.duplicates + 0 = next - 1
    <3>1. PICK a2, b2, c2 : a2 = job.imported /\ b2 = job.skipped /\ c2 = job.duplicates
      OBVIOUS
    <3>2. a2 \in Nat /\ b2 \in Nat /\ c2 \in Nat /\ a2 + b2 + c2 + 0 = at - 1 /\ at \in Nat
      BY <1>3, <1>5, <2>1, <2>2, <3>1
    <3>3. (a2 + 1) + b2 + c2 + 0 = (at + 1) - 1
      BY ONLY <3>2
    <3> QED BY ONLY <1>17, <3>1, <3>3
  <2>4. imported = Cardinality(mine)
    <3>1. IsFiniteSet(job.mine)
      <4>1. IsFiniteSet(VoterIds)
        BY <1>7, FS_Interval DEF VoterIds
      <4> QED BY <1>5, <4>1, FS_Subset
    <3>2. count \notin job.mine
      <4>1. \A v \in job.mine : v <= Count
        BY <1>1, <1>2 DEF OwnTells
      <4> QED BY <1>7, <4>1
    <3>3. Cardinality(mine) = Cardinality(job.mine) + 1
      BY <1>6, <3>1, <3>2, FS_AddElement
    <3> QED BY <1>17, <2>1, <3>3
  <2>5. Len(new.batch) = 0
    BY <1>3, <1>20
  <2> QED BY <1>20, <1>23, <2>3, <2>4, <2>5 DEF RowsCounted
<1>27. \A c \in DOMAIN import[i].batch : \E d \in DOMAIN import'[i].batch :
              import'[i].batch[d] = import[i].batch[c]
    BY <1>2, <1>3
<1>28. RowsLand(i)'
  <2>1. Landed(i, r.key)'
    BY <1>2, <1>10, <1>14 DEF Landed
  <2> QED BY <1>1, <1>2, <1>14, <1>24, <1>27, <2>1, RowLands
<1>29. HelpTells(i)'
    BY <1>1, <1>2, <1>14, <1>16, <1>20, <1>23, <1>24, RowHelps
<1>30. ASSUME NEW c \in Keys, c # k PROVE KeyTells(i, c)'
  <2>1. \A n \in Done(i) : n \in Done(i)'
    BY <1>1, <1>24, DoneIs
  <2>2. \A m \in Done(i) : HasVoter(i, import[i].file[m]) =>
              \E q : q = import[i].file[m] /\ HasVoter(i, q)'
    BY <1>14, <1>27, HasStays
  <2>3. InBatch(i, c)' => InBatch(i, c)
    BY <1>25
  <2>4. \A v \in import'[i].mine : v \in import[i].mine \/ v \notin WithKey(c)'
    <3>1. count \notin WithKey(c)'
      BY <1>10, <1>14, <1>30 DEF WithKey
    <3> QED BY <1>2, <1>6, <1>20, <1>23, <3>1
  <2>5. import'[i].index[c] = import[i].index[c]
    BY <1>2, <1>8, <1>20, <1>23, <1>30
  <2>6. /\ import'[i].file = import[i].file /\ import'[i].step = import[i].step
        /\ import'[i].since = import[i].since
    BY <1>24 DEF RowDone
  <2> QED BY ONLY VotersInv, i \in Imports, c \in Keys, <1>14, <2>1, <2>2, <2>3, <2>4, <2>5, <2>6,
                  KeyStays
<1>31. ASSUME k \in Keys PROVE KeyTells(i, k)'
  <2>1. index[k] = count /\ count # Pending /\ count # 0 /\ Pending' = Pending
    BY <1>4, <1>7, <1>8, <1>31 DEF Pending
  <2>2. count <= Count' /\ voters'[count].key = k
    BY <1>7, <1>10, <1>14
  <2> QED BY <1>20, <1>23, <1>25, <2>1, <2>2 DEF KeyTells
<1>32. OwnTells(i)'
  <2>1. /\ job.since <= Count /\ \A v \in job.mine : v <= Count
    BY <1>1, <1>2 DEF OwnTells
  <2>2. job.since \in Nat /\ \A v \in job.mine : v \in Nat
    BY <1>5, <1>7 DEF VoterIds
  <2>3. job.since <= count /\ \A v \in mine : v <= count
    BY <1>6, <1>7, <2>1, <2>2
  <2> QED BY <1>4, <1>14, <1>20, <1>23, <2>3 DEF OwnTells
<1>33. BatchTells(i)'
    BY <1>3, <1>20, <1>23 DEF BatchTells
<1>34. ImportTells(i)'
  <2>1. \A c \in Keys : KeyTells(i, c)'
    BY <1>30, <1>31
  <2>2. IndexTells(i)'
    BY <1>32, <1>33, <2>1, IndexFrom
  <2> QED BY <1>26, <1>28, <1>29, <2>2 DEF ImportTells
<1>35. NoneTwice'
  <2>1. ASSUME NEW c \in Keys, c \notin crossed'
        PROVE  /\ \A v, w \in 1 .. Count' :
                    v > Count /\ w > Count /\ voters'[v].key = c /\ voters'[w].key = c => v = w
               /\ \A v \in 1 .. Count' : v > Count /\ voters'[v].key = c => WithKey(c) = {}
    <3>1. \A v \in 1 .. Count' : v > Count => v = count
      BY <1>7, <1>14
    <3>2. ASSUME NEW v \in 1 .. Count', v > Count, voters'[v].key = c PROVE WithKey(c) = {}
      <4>1. c = k
        BY <1>10, <1>14, <3>1, <3>2
      <4>2. job.index[k] = 0
        BY <1>1, <1>2, <1>4, <2>1, <4>1 DEF KnownAt
      <4>3. c \notin crossed
        BY <1>13, <2>1
      <4>4. \A w \in WithKey(c) : w > job.since /\ w \notin job.mine
        BY <1>2, <1>4, <2>1, <4>1, <4>2, <4>3, IndexParts DEF KeyTells
      <4>5. c \notin Crossing(i, <<r>>)
        BY <1>2, <2>1 DEF HelpInserts
      <4>6. \E n \in DOMAIN <<r>> : <<r>>[n].key = c
        <5>1. 1 \in DOMAIN <<r>> /\ <<r>>[1] = r
          OBVIOUS
        <5> QED BY <1>2, <4>1, <5>1
      <4> QED BY <1>2, <2>1, <4>4, <4>5, <4>6 DEF Crossing
    <3> QED BY <3>1, <3>2
  <2> QED BY <1>14, <2>1, NoneTwiceThen
<1>36. \A c \in crossed' : c \in Keys
    BY <1>1 DEF HelpInserts, Crossing, VotersTypeOK
<1>37. \A v \in 1 .. Count' : \/ v <= Count /\ voters'[v] = voters[v]
                              \/ PlacedNow(voters'[v])
    BY <1>7, <1>10, <1>14 DEF PlacedNow
<1>38. new.step = "rows"
    BY <1>4, <1>20
<1> QED BY <1>3, <1>14, <1>19, <1>21, <1>22, <1>34, <1>35, <1>36, <1>37, <1>38, Inserts

LEMMA HelpNewStep ==
    ASSUME VotersInv, NEW i \in Imports, HelpNew(i)
    PROVE  VotersInv'
<1>1. PICK r : r = OfImport(i)
    OBVIOUS
<1>2. CASE r.refused
  <2>1. /\ Ready(i) /\ ~KnownAt(i) /\ r.help /\ import[i].batch = <<>>
        /\ import' = [import EXCEPT ![i] = [Next1(import[i]) EXCEPT !.skipped = @ + 1,
                                              !.index = IndexedPending(@, r.key)]]
        /\ UNCHANGED <<voters, leaderRow, voterJob, geocoding, uncounted, crossed, work>>
    BY <1>1, <1>2 DEF HelpNew
  <2> QED BY <1>1, <1>2, <2>1, HelpRefused
<1>3. CASE ~r.refused
  <2>1. HelpInserts(i)
    BY <1>1, <1>3 DEF HelpNew, HelpInserts
  <2> QED BY <2>1, HelpInsertsStep
<1> QED BY <1>2, <1>3

(* The batch is inserted, but for the rows that the database refuses. *)
LEMMA FlushStep ==
    ASSUME VotersInv, NEW i \in Imports, Flush(i)
    PROVE  VotersInv'
<1>1. /\ VotersTypeOK /\ ImportTells(i) /\ OwnTells(i) /\ BatchTells(i)
      /\ \A k \in Keys : KeyTells(i, k)
    BY IndexParts
<1>2. PICK job, kept, n : job = import[i] /\ kept = Kept(job.batch) /\ n = Len(kept)
    OBVIOUS
<1>3. /\ UNCHANGED <<leaderRow, voterJob, geocoding, uncounted, work>>
      /\ job.step = "rows" /\ Count + n <= MaxVoters
      /\ voters' = voters \o [m \in DOMAIN kept |-> AsVoter(i, kept[m])]
      /\ import' = [import EXCEPT ![i] = [job EXCEPT !.batch = <<>>, !.imported = @ + n,
                                          !.mine = @ \union (Count + 1 .. Count + n),
                                          !.skipped = @ + (Len(job.batch) - n)]]
      /\ crossed' = crossed \union Crossing(i, kept)
    BY <1>2 DEF Flush
<1>4. /\ job \in ImportState /\ job.batch \in Seq(Row) /\ Len(job.batch) \in Nat
      /\ job.imported \in Nat /\ job.skipped \in Nat /\ job.duplicates \in Nat
      /\ job.mine \in SUBSET VoterIds /\ job.since \in 0 .. MaxVoters /\ job.at \in Nat
      /\ \A b \in DOMAIN job.batch : job.batch[b] \in Row
  <2>1. /\ job \in ImportState /\ job.batch \in Seq(Row) /\ Len(job.batch) \in Nat
        /\ job.at \in Nat /\ \A b \in DOMAIN job.batch : job.batch[b] \in Row
    BY <1>1, <1>2, ImportTyped
  <2> QED BY <2>1 DEF ImportState
<1>5. /\ kept \in Seq(Row) /\ n \in Nat /\ n <= Len(job.batch) /\ DOMAIN kept = 1 .. n
      /\ \A m \in DOMAIN kept : \E b \in DOMAIN job.batch :
            ~job.batch[b].refused /\ kept[m] = job.batch[b]
      /\ \A b \in DOMAIN job.batch : ~job.batch[b].refused =>
            \E m \in DOMAIN kept : kept[m] = job.batch[b]
      /\ \A l, m \in DOMAIN kept : l # m => \E b, c \in DOMAIN job.batch :
            b # c /\ kept[l] = job.batch[b] /\ kept[m] = job.batch[c]
  <2>1. PICK batch : batch = job.batch
    OBVIOUS
  <2>2. batch \in Seq(Row) /\ kept = Kept(batch) /\ n = Len(kept)
    BY <1>2, <1>4, <2>1
  <2>3. /\ kept \in Seq(Row) /\ n \in Nat /\ n <= Len(batch) /\ DOMAIN kept = 1 .. n
        /\ \A m \in DOMAIN kept : \E b \in DOMAIN batch :
              ~batch[b].refused /\ kept[m] = batch[b]
        /\ \A b \in DOMAIN batch : ~batch[b].refused =>
              \E m \in DOMAIN kept : kept[m] = batch[b]
    BY ONLY <2>2, KeptIs
  <2>4. \A l, m \in DOMAIN kept : l # m => \E b, c \in DOMAIN batch :
              b # c /\ kept[l] = batch[b] /\ kept[m] = batch[c]
    BY ONLY <2>2, KeptIs
  <2> QED BY <2>1, <2>3, <2>4
<1>6. PICK rows : rows = [m \in 1 .. n |-> AsVoter(i, kept[m])]
    OBVIOUS
<1>7. \A m \in 1 .. n : /\ rows[m] \in Voter /\ rows[m].here /\ rows[m].key = kept[m].key
                        /\ rows[m].spelled = kept[m].spelled
                        /\ rows[m].found = rows[m].place.state
                        /\ kept[m].key \in Keys \union {NoKey}
  <2>1. SUFFICES ASSUME NEW m \in 1 .. n, NEW r, r = kept[m], NEW x, x = rows[m]
                 PROVE  /\ x \in Voter /\ x.here /\ x.key = r.key /\ x.spelled = r.spelled
                        /\ x.found = x.place.state /\ r.key \in Keys \union {NoKey}
    OBVIOUS
  <2>2. r \in Row
    BY <1>4, <1>5, <2>1
  <2>3. x = AsVoter(i, r)
    BY <1>6, <2>1
  <2>4. r.key \in Keys \union {NoKey}
    BY <2>2 DEF Row
  <2> QED BY <1>1, <2>2, <2>3, <2>4, AsVoterIs
<1>8. rows \in Seq(Voter) /\ Len(rows) = n
    BY <1>5, <1>6, <1>7
<1>9. voters' = voters \o rows
    BY <1>3, <1>5, <1>6
<1>10. \A c \in crossed : c \in crossed'
    BY <1>3
<1>11. /\ voters' \in Seq(Voter) /\ Count' = Count + n /\ Count' \in Nat /\ Count' <= MaxVoters
       /\ RowsKept /\ BackIsCrossed /\ Count \in Nat
       /\ \A v \in 1 .. Count : voters'[v] = voters[v]
       /\ \A m \in 1 .. n : voters'[Count + m] = rows[m] /\ Count + m \in 1 .. Count'
       /\ \A v \in 1 .. Count' : v \in 1 .. Count \/ \E m \in 1 .. n : v = Count + m
  <2>1. Count \in Nat /\ n = Len(rows)
    BY <1>1, <1>8, VotersTypes
  <2>2. /\ voters' \in Seq(Voter) /\ Count' = Count + n /\ Count' \in Nat /\ Count' <= MaxVoters
        /\ RowsKept /\ BackIsCrossed
        /\ \A v \in 1 .. Count : voters'[v] = voters[v]
        /\ \A m \in 1 .. n : voters'[Count + m] = rows[m] /\ Count + m \in 1 .. Count'
        /\ \A v \in 1 .. Count' : v \in 1 .. Count \/ \E m \in 1 .. n : v = Count + m
    BY ONLY <1>1, <1>3, <1>8, <1>9, <1>10, <2>1, RowsAdded
  <2> QED BY <2>1, <2>2
<1>12. PICK imported, skipped, mine :
          /\ imported = job.imported + n /\ skipped = job.skipped + (Len(job.batch) - n)
          /\ mine = job.mine \union (Count + 1 .. Count + n)
    OBVIOUS
<1>13. PICK new : new = [job EXCEPT !.batch = <<>>, !.imported = imported, !.mine = mine,
                           !.skipped = skipped]
    OBVIOUS
<1>14. import' = [import EXCEPT ![i] = new]
    BY <1>3, <1>12, <1>13
<1>15. /\ new.file = job.file /\ new.at = job.at /\ new.step = job.step /\ new.since = job.since
       /\ new.batch = <<>> /\ new.index = job.index /\ new.mine = mine
       /\ new.imported = imported /\ new.skipped = skipped
       /\ new.duplicates = job.duplicates /\ new.helped = job.helped
       /\ new.unhelped = job.unhelped
    BY ONLY <1>4, <1>13 DEF ImportState
<1>16. PICK size : size = Len(job.batch)
    OBVIOUS
<1>17. imported \in Nat /\ skipped \in Nat /\ size \in Nat /\ n <= size
       /\ skipped = job.skipped + (size - n)
  <2>1. PICK a, b : a = job.imported /\ b = job.skipped
    OBVIOUS
  <2>2. a \in Nat /\ b \in Nat /\ size \in Nat /\ n <= size /\ n \in Nat
    BY <1>4, <1>5, <1>16, <2>1
  <2>3. a + n \in Nat /\ b + (size - n) \in Nat
    BY ONLY <2>2
  <2> QED BY <1>12, <1>16, <2>1, <2>2, <2>3
<1>18. new \in ImportState
  <2>1. mine \in SUBSET VoterIds
    <3>1. \A v \in Count + 1 .. Count + n : v \in 1 .. MaxVoters
      BY <1>1, <1>3, <1>5, <1>11, VotersTypes, SMTT(40)
    <3> QED BY <1>4, <1>12, <3>1 DEF VoterIds
  <2>2. <<>> \in Seq(Row)
    OBVIOUS
  <2> QED BY ONLY <1>4, <1>13, <1>17, <2>1, <2>2 DEF ImportState
<1>19. new.at \in 1 .. Len(new.file) + 1 /\ Len(new.batch) <= BatchSize
  <2>1. new.at \in 1 .. Len(new.file) + 1
    BY <1>1, <1>2, <1>15 DEF VotersTypeOK
  <2>2. 0 <= BatchSize /\ Len(<<>>) = 0
    BY <1>1, VotersTypes
  <2> QED BY ONLY <1>15, <2>1, <2>2
<1>20. import'[i] = new /\ Done(i)' = Done(i)
    BY <1>1, <1>2, <1>14, <1>15 DEF VotersTypeOK, Done
<1>21. \A c : ~InBatch(i, c)'
    BY <1>15, <1>20 DEF InBatch
<1>22. RowsCounted(i)'
  <2>1. /\ job.imported + job.skipped + job.duplicates + size = job.at - 1
        /\ job.imported = Cardinality(job.mine)
    BY <1>1, <1>2, <1>16 DEF ImportTells, RowsCounted
  <2>2. imported + skipped + job.duplicates + 0 = job.at - 1
    <3>1. PICK a, b, c, d : /\ a = job.imported /\ b = job.skipped /\ c = job.duplicates
                            /\ d = job.at
      OBVIOUS
    <3>2. /\ a \in Nat /\ b \in Nat /\ c \in Nat /\ d \in Nat /\ size \in Nat /\ n \in Nat
          /\ a + b + c + size = d - 1
      BY <1>4, <1>5, <1>17, <2>1, <3>1
    <3>3. (a + n) + (b + (size - n)) + c + 0 = d - 1
      BY ONLY <3>2
    <3> QED BY ONLY <1>12, <1>16, <3>1, <3>3
  <2>3. imported = Cardinality(mine)
    <3>1. PICK fresh : fresh = Count + 1 .. Count + n
      OBVIOUS
    <3>2. IsFiniteSet(job.mine)
      <4>1. IsFiniteSet(VoterIds)
        BY <1>1, VotersTypes, FS_Interval DEF VoterIds
      <4> QED BY <1>4, <4>1, FS_Subset
    <3>3. IsFiniteSet(fresh) /\ Cardinality(fresh) = n
      <4>1. PICK a, b : a = Count + 1 /\ b = Count + n
        OBVIOUS
      <4>2. a \in Int /\ b \in Int /\ b - a + 1 = n /\ n \in Nat /\ (a > b => n = 0)
        BY <1>5, <1>11, <4>1
      <4>3. fresh = a .. b
        BY <3>1, <4>1
      <4>4. IsFiniteSet(fresh) /\ Cardinality(fresh) = IF a > b THEN 0 ELSE b - a + 1
        BY <4>2, <4>3, FS_Interval
      <4> QED BY <4>2, <4>4
    <3>4. job.mine \cap fresh = {}
      <4>1. \A v \in job.mine : v <= Count /\ v \in Nat
        BY <1>1, <1>2, <1>4 DEF OwnTells, VoterIds
      <4>2. \A v \in fresh : v > Count
        BY <1>5, <1>11, <3>1
      <4> QED BY <1>11, <4>1, <4>2
    <3>5. Cardinality({}) = 0
      BY FS_EmptySet
    <3>6. Cardinality(mine) = Cardinality(job.mine) + Cardinality(fresh)
                                 - Cardinality(job.mine \cap fresh)
      BY <1>12, <3>1, <3>2, <3>3, FS_Union
    <3>7. Cardinality(job.mine) \in Nat
      BY <3>2, FS_CardinalityType
    <3>8. Cardinality(mine) = Cardinality(job.mine) + n
      <4>1. PICK x, y : x = Cardinality(mine) /\ y = Cardinality(job.mine)
        OBVIOUS
      <4>2. y \in Nat /\ n \in Nat /\ x = y + n - 0
        BY <1>5, <3>3, <3>4, <3>5, <3>6, <3>7, <4>1
      <4>3. x = y + n
        BY ONLY <4>2
      <4> QED BY <4>1, <4>3
    <3> QED BY <1>12, <2>1, <3>8
  <2>4. Len(new.batch) = 0
    BY <1>15
  <2> QED BY <1>15, <1>20, <2>2, <2>3, <2>4 DEF RowsCounted
<1>23. \A b \in DOMAIN job.batch : ~job.batch[b].refused =>
          \E v \in 1 .. Count' : /\ voters'[v].key = job.batch[b].key
                                 /\ voters'[v].spelled = job.batch[b].spelled
  <2>1. SUFFICES ASSUME NEW b \in DOMAIN job.batch, ~job.batch[b].refused
                 PROVE  \E v \in 1 .. Count' : /\ voters'[v].key = job.batch[b].key
                                               /\ voters'[v].spelled = job.batch[b].spelled
    OBVIOUS
  <2>2. PICK m \in 1 .. n : kept[m] = job.batch[b]
    BY <1>5, <2>1
  <2>3. voters'[Count + m] = rows[m] /\ Count + m \in 1 .. Count'
    BY <1>11
  <2> QED BY <1>7, <2>2, <2>3
<1>24. RowsLand(i)'
  <2>1. ASSUME NEW k, Landed(i, k) PROVE Landed(i, k)'
    <3>1. CASE \E v \in 1 .. Count : voters[v].key = k
      <4>1. PICK v \in 1 .. Count : voters[v].key = k
        BY <3>1
      <4>2. v \in 1 .. Count' /\ voters'[v].key = k
        BY <1>1, <1>11, <4>1 DEF RowsKept
      <4> QED BY <4>2 DEF Landed
    <3>2. CASE InBatch(i, k)
      <4>1. PICK b \in DOMAIN job.batch : job.batch[b].key = k
        BY <1>2, <3>2 DEF InBatch
      <4>2. CASE job.batch[b].refused
        <5>1. PICK m \in Done(i) : job.file[m] = job.batch[b]
          BY <1>1, <1>2 DEF BatchTells
        <5>2. m \in Done(i)' /\ import'[i].file[m].key = k /\ import'[i].file[m].refused
          BY <1>15, <1>20, <4>1, <4>2, <5>1
        <5> QED BY <5>2 DEF Landed
      <4>3. CASE ~job.batch[b].refused
        BY <1>23, <4>1, <4>3 DEF Landed
      <4> QED BY <4>2, <4>3
    <3>3. CASE \E m \in Done(i) : import[i].file[m].key = k /\ import[i].file[m].refused
      BY <1>2, <1>15, <1>20, <3>3 DEF Landed
    <3> QED BY <2>1, <3>1, <3>2, <3>3 DEF Landed
  <2>2. import'[i].file = import[i].file
    BY <1>2, <1>15, <1>20
  <2>3. \A m \in Done(i) : import[i].file[m].named /\ import[i].file[m].key # NoKey =>
           Landed(i, import[i].file[m].key)
    BY <1>1 DEF ImportTells, RowsLand
  <2>4. SUFFICES ASSUME NEW m \in Done(i), NEW k, k = import[i].file[m].key,
                        import[i].file[m].named, k # NoKey
                 PROVE  Landed(i, k)'
    <3>1. \A m \in Done(i) : \A k : k = import[i].file[m].key /\ import[i].file[m].named
                                    /\ k # NoKey => Landed(i, k)'
      BY <2>4
    <3>2. \A m \in Done(i)' : import'[i].file[m].named /\ import'[i].file[m].key # NoKey =>
             \E k : k = import'[i].file[m].key /\ Landed(i, k)'
      BY <1>20, <2>2, <3>1
    <3> QED BY <3>2 DEF RowsLand, Landed
  <2> QED BY <2>1, <2>3, <2>4
<1>25. HelpTells(i)'
  <2>1. Asked(i)' = Asked(i)
    BY <1>2, <1>15, <1>20 DEF Asked
  <2>2. \A m : Excused(i, m) => Excused(i, m)'
    <3>1. \A k : k # NoKey /\ GoneOrCrossed(k) => GoneOrCrossed(k)'
      BY <1>1, <1>11, GoneStays
    <3>2. import'[i].file = import[i].file /\ Done(i)' = Done(i)
      BY <1>2, <1>15, <1>20
    <3> QED BY ONLY <3>1, <3>2 DEF Excused
  <2> QED BY <1>1, <1>2, <1>15, <1>20, <2>1, <2>2 DEF ImportTells, HelpTells
<1>26. \A r : HasVoter(i, r) => HasVoter(i, r)'
  <2>1. SUFFICES ASSUME NEW r, HasVoter(i, r) PROVE HasVoter(i, r)'
    OBVIOUS
  <2>2. CASE r.refused
    BY <2>2 DEF HasVoter
  <2>3. CASE ~r.refused /\ \E b \in DOMAIN job.batch : job.batch[b] = r
    BY <1>23, <2>3 DEF HasVoter
  <2>4. CASE \E v \in 1 .. Count : voters[v].key = r.key /\ voters[v].spelled = r.spelled
    <3>1. PICK v \in 1 .. Count : voters[v].key = r.key /\ voters[v].spelled = r.spelled
      BY <2>4
    <3>2. v \in 1 .. Count' /\ voters'[v].key = r.key /\ voters'[v].spelled = r.spelled
      BY <1>11, <3>1 DEF RowsKept
    <3> QED BY <3>2 DEF HasVoter
  <2> QED BY <1>2, <2>1, <2>2, <2>3, <2>4 DEF HasVoter
<1>27. \A k \in Keys, m \in 1 .. n : rows[m].key = k => job.index[k] = Pending /\ InBatch(i, k)
  <2>1. SUFFICES ASSUME NEW k \in Keys, NEW m \in 1 .. n, rows[m].key = k
                 PROVE  job.index[k] = Pending /\ InBatch(i, k)
    OBVIOUS
  <2>2. PICK b \in DOMAIN job.batch : kept[m] = job.batch[b]
    BY <1>5
  <2>3. job.batch[b].key = k /\ k # NoKey
    BY <1>7, <2>1, <2>2, VotersAssumption
  <2> QED BY <1>1, <1>2, <2>3 DEF BatchTells, InBatch
<1>28. ASSUME NEW k \in Keys, job.index[k] # Pending PROVE KeyTells(i, k)'
  <2>1. \A m \in Done(i) : m \in Done(i)'
    BY <1>20
  <2>2. \A m \in Done(i) : HasVoter(i, import[i].file[m]) =>
              \E q : q = import[i].file[m] /\ HasVoter(i, q)'
    BY <1>26
  <2>3. InBatch(i, k)' => InBatch(i, k)
    BY <1>21
  <2>4. \A v \in import'[i].mine : v \in import[i].mine \/ v \notin WithKey(k)'
    <3>1. SUFFICES ASSUME NEW v \in Count + 1 .. Count + n PROVE v \notin WithKey(k)'
      BY <1>2, <1>12, <1>15, <1>20
    <3>2. v \in 1 .. Count' /\ v \notin 1 .. Count
      BY <1>5, <1>11, <3>1
    <3>3. PICK m \in 1 .. n : v = Count + m
      BY <1>11, <3>2
    <3>4. voters'[v].key # k
      BY <1>11, <1>27, <1>28, <3>3
    <3> QED BY <3>4 DEF WithKey
  <2>5. /\ import'[i].index[k] = import[i].index[k] /\ import'[i].file = import[i].file
        /\ import'[i].step = import[i].step /\ import'[i].since = import[i].since
    BY <1>2, <1>15, <1>20
  <2> QED BY ONLY VotersInv, i \in Imports, k \in Keys, <1>11, <2>1, <2>2, <2>3, <2>4, <2>5,
             KeyStays
<1>29. ASSUME NEW k \in Keys, job.index[k] = Pending PROVE KeyTells(i, k)'
  <2>1. Pending' = Pending /\ Pending # 0
    BY <1>1, VotersTypes DEF Pending
  <2>2. PICK m \in Done(i) : job.file[m].key = k /\ HasVoter(i, job.file[m])
    BY <1>1, <1>2, <1>29 DEF KeyTells
  <2>3. m \in Done(i)' /\ HasVoter(i, new.file[m])' /\ new.file[m].key = k
    BY <1>15, <1>20, <1>26, <2>2
  <2> QED BY <1>15, <1>20, <1>21, <1>29, <2>1, <2>3 DEF KeyTells
<1>30. OwnTells(i)'
  <2>1. job.since <= Count /\ \A v \in job.mine : v <= Count
    BY <1>1, <1>2 DEF OwnTells
  <2>2. job.since \in Nat /\ \A v \in job.mine : v \in Nat
    BY <1>1, <1>4, VotersTypes DEF VoterIds
  <2>3. job.since <= Count' /\ \A v \in mine : v <= Count'
    BY <1>5, <1>11, <1>12, <2>1, <2>2
  <2> QED BY <1>3, <1>15, <1>20, <2>3 DEF OwnTells
<1>31. BatchTells(i)'
    BY <1>15, <1>20 DEF BatchTells
<1>32. ImportTells(i)'
  <2>1. \A k \in Keys : KeyTells(i, k)'
    BY <1>28, <1>29
  <2>2. IndexTells(i)'
    BY <1>30, <1>31, <2>1, IndexFrom
  <2> QED BY <1>22, <1>24, <1>25, <2>2 DEF ImportTells
<1>33. NoneTwice'
  <2>1. ASSUME NEW k \in Keys, k \notin crossed'
        PROVE  /\ \A v, w \in 1 .. Count' :
                    v > Count /\ w > Count /\ voters'[v].key = k /\ voters'[w].key = k => v = w
               /\ \A v \in 1 .. Count' : v > Count /\ voters'[v].key = k => WithKey(k) = {}
    <3>1. \A v \in 1 .. Count' : v > Count => \E m \in 1 .. n : v = Count + m
      BY <1>11
    <3>2. ASSUME NEW v \in 1 .. Count', v > Count, voters'[v].key = k PROVE WithKey(k) = {}
      <4>1. PICK m \in 1 .. n : v = Count + m
        BY <3>1, <3>2
      <4>2. rows[m].key = k /\ kept[m].key = k
        BY <1>7, <1>11, <3>2, <4>1
      <4>3. InBatch(i, k)
        BY <1>27, <4>2
      <4>4. k \notin crossed
        BY <1>10, <2>1
      <4>5. \A w \in WithKey(k) : w > job.since /\ w \notin job.mine
        BY <1>1, <1>2, <1>3, <4>3, <4>4 DEF KeyTells
      <4>6. k \notin Crossing(i, kept)
        BY <1>3, <2>1
      <4> QED BY <1>2, <1>5, <4>2, <4>5, <4>6 DEF Crossing
    <3>3. ASSUME NEW v \in 1 .. Count', NEW w \in 1 .. Count', v > Count, w > Count,
                 voters'[v].key = k, voters'[w].key = k
          PROVE  v = w
      <4>1. PICK l \in 1 .. n, m \in 1 .. n : v = Count + l /\ w = Count + m
        BY <3>1, <3>3
      <4>2. kept[l].key = k /\ kept[m].key = k
        BY <1>7, <1>11, <3>3, <4>1
      <4>3. l = m
        <5>1. SUFFICES ASSUME l # m PROVE FALSE
          OBVIOUS
        <5>2. PICK b, c \in DOMAIN job.batch :
                 b # c /\ kept[l] = job.batch[b] /\ kept[m] = job.batch[c]
          <6>1. l \in DOMAIN kept /\ m \in DOMAIN kept
            BY <1>5
          <6>2. \A x, y \in DOMAIN kept : x # y => \E b, c \in DOMAIN job.batch :
                   b # c /\ kept[x] = job.batch[b] /\ kept[y] = job.batch[c]
            BY <1>5
          <6> QED BY ONLY <5>1, <6>1, <6>2, Zenon
        <5>3. job.batch[b].key = k /\ job.batch[c].key = k /\ k # NoKey
          BY <4>2, <5>2, VotersAssumption
        <5>4. c = b
          BY <1>1, <1>2, <5>3 DEF BatchTells
        <5> QED BY <5>2, <5>4
      <4> QED BY <4>1, <4>3
    <3> QED BY <3>2, <3>3
  <2> QED BY <1>11, <2>1, NoneTwiceThen
<1>34. \A c \in crossed' : c \in Keys
    BY <1>1, <1>3 DEF Crossing, VotersTypeOK
<1>35. \A v \in 1 .. Count' : \/ v <= Count /\ voters'[v] = voters[v]
                              \/ PlacedNow(voters'[v])
    BY <1>7, <1>11 DEF PlacedNow
<1>36. new.step = "rows"
    BY <1>3, <1>15
<1> QED BY <1>3, <1>11, <1>14, <1>18, <1>19, <1>32, <1>33, <1>34, <1>35, <1>36, Inserts

-----------------------------------------------------------------------------
(* A request moves. *)

LEMMA IdleJobIs ==
    IdleVoterJob \in VoterJobState /\ NewVoter \in Voter /\ IdleVoterJob.step = "idle"
<1>1. NoPlace \in [town : Towns, state : States]
    BY VotersAssumption DEF NoPlace
<1>2. PICK place : place = NoPlace
    OBVIOUS
<1>3. place \in [town : Towns, state : States] /\ place.state \in States
    BY <1>1, <1>2
<1>4. NewVoter = [here |-> FALSE, key |-> NoKey, spelled |-> FALSE, leader |-> 0, place |-> place,
                  found |-> place.state, placed |-> FALSE]
    BY <1>2 DEF NewVoter
<1>5. 0 \in 0 .. MaxLeaders /\ 1 \in VoterIds
    BY VotersAssumption DEF VoterIds
<1>6. NewVoter \in Voter
    BY <1>3, <1>4, <1>5 DEF Voter
<1> QED BY <1>5, <1>6 DEF IdleVoterJob, VoterJobState

(* CopiesAreOfRows, of one request and the table after the step. *)
CopyNow(job) ==
    /\ job.step \in {"find", "move", "edit", "remove"} => job.id <= Count'
    /\ job.step \in {"move", "edit"} =>
          /\ job.copy.here /\ job.copy.key = voters'[job.id].key
          /\ job.copy.spelled = voters'[job.id].spelled
          /\ job.copy.place = voters'[job.id].place

LEMMA CopyStays ==
    ASSUME VotersInv, RowsKept, NEW j \in VoterJobs
    PROVE  CopyNow(voterJob[j])
<1>1. VotersTypeOK /\ CopiesAreOfRows
    BY DEF VotersInv
<1>2. PICK job : job = voterJob[j]
    OBVIOUS
<1>3. job.id \in VoterIds /\ Count \in Nat /\ Count' \in Nat /\ Count <= Count'
    BY <1>1, <1>2, RequestTyped, VotersTypes DEF RowsKept
<1>4. /\ job.step \in {"find", "move", "edit", "remove"} => job.id <= Count
      /\ job.step \in {"move", "edit"} =>
            /\ job.copy.here /\ job.copy.key = voters[job.id].key
            /\ job.copy.spelled = voters[job.id].spelled
            /\ job.copy.place = voters[job.id].place
    BY <1>1, <1>2 DEF CopiesAreOfRows
<1>5. job.id \in Nat /\ 1 <= job.id
    BY <1>1, <1>3, VotersTypes DEF VoterIds
<1>6. job.step \in {"find", "move", "edit", "remove"} => job.id \in 1 .. Count /\ job.id <= Count'
    BY <1>3, <1>4, <1>5
<1>7. CopyNow(job)
    BY <1>4, <1>6 DEF RowsKept, CopyNow
<1> QED BY <1>2, <1>7

LEMMA RequestMoves ==
    ASSUME VotersInv, NEW j \in VoterJobs, NEW new \in VoterJobState,
           voterJob' = [voterJob EXCEPT ![j] = new],
           voters' \in Seq(Voter), Count' <= MaxVoters, RowsKept, BackIsCrossed,
           \A v \in 1 .. Count' : \/ v <= Count /\ voters'[v] = voters[v]
                                  \/ PlacedNow(voters'[v]),
           \A k \in crossed' : k \in Keys, NoneTwice', UNCHANGED <<import, geocoding>>,
           CopyNow(new), new.step \in {"move", "edit"} => PlacedNow(new.copy),
           leaderRow' \in Seq([name : LeaderNames, count : 0 .. MaxVoters]),
           Len(leaderRow') <= MaxLeaders, \A l \in uncounted' : l \in LeaderIds,
           work' \in 0 .. MaxWork, CountsAreComing'
    PROVE  VotersInv'
<1>1. VotersTypeOK /\ PlacesAreRight
    BY DEF VotersInv
<1>2. /\ voterJob' \in [VoterJobs -> VoterJobState] /\ voterJob'[j] = new
      /\ \A m \in VoterJobs : m # j => voterJob'[m] = voterJob[m]
    BY <1>1 DEF VotersTypeOK
<1>3. VotersTypeOK'
  <2>1. /\ import' \in [Imports -> ImportState]
        /\ \A i \in Imports :
              /\ import'[i].at \in 1 .. Len(import'[i].file) + 1
              /\ Len(import'[i].batch) <= BatchSize
        /\ geocoding' \subseteq [town : Towns, state : States]
    BY <1>1 DEF VotersTypeOK
  <2>2. uncounted' \subseteq LeaderIds /\ crossed' \subseteq Keys
    OBVIOUS
  <2> QED BY <1>2, <2>1, <2>2 DEF VotersTypeOK
<1>4. \A m \in Imports : ImportTells(m)'
    BY OthersStay
<1>5. CopiesAreOfRows'
  <2>1. ASSUME NEW m \in VoterJobs PROVE CopyNow(voterJob'[m])
    <3>1. CASE m = j
      BY <1>2, <3>1
    <3>2. CASE m # j
      BY <1>2, <3>2, CopyStays
    <3> QED BY <3>1, <3>2
  <2> QED BY <2>1 DEF CopiesAreOfRows, CopyNow
<1>6. PlacesAreRight'
  <2>1. \A m \in VoterJobs : voterJob'[m].step \in {"move", "edit"} =>
              \/ voterJob[m].step \in {"move", "edit"} /\ voterJob'[m].copy = voterJob[m].copy
              \/ PlacedNow(voterJob'[m].copy)
    BY <1>2
  <2> QED BY <2>1, PlacesStay
<1> QED BY <1>3, <1>4, <1>5, <1>6, InvFrom

(* What a step of one request may do to the leaders' counts. *)
LEMMA CountsThen ==
    ASSUME VotersInv, NEW j \in VoterJobs, UNCHANGED <<import, leaderRow>>,
           \A m \in VoterJobs : m # j => voterJob'[m] = voterJob[m],
           \A l \in uncounted : l \in uncounted',
           \A l \in DOMAIN leaderRow :
              \/ VotersOf(l)' = VotersOf(l)
                 /\ (WillCount(j, l) => l \in uncounted' \/ WillCount(j, l)')
              \/ l \in uncounted' \/ WillCount(j, l)'
    PROVE  CountsAreComing'
<1>1. CountsAreComing
    BY DEF VotersInv
<1>2. CASE \E i \in Imports : import[i].step = "rows"
    BY <1>2 DEF CountsAreComing
<1>3. CASE ~\E i \in Imports : import[i].step = "rows"
  <2>1. SUFFICES ASSUME NEW l \in DOMAIN leaderRow
                 PROVE  \/ l \in uncounted' \/ leaderRow[l].count = Cardinality(VotersOf(l)')
                        \/ \E m \in VoterJobs : WillCount(m, l)'
    BY DEF CountsAreComing
  <2>2. \/ l \in uncounted \/ leaderRow[l].count = Cardinality(VotersOf(l))
        \/ \E m \in VoterJobs : WillCount(m, l)
    BY <1>1, <1>3 DEF CountsAreComing
  <2>3. \A m \in VoterJobs : m # j /\ WillCount(m, l) => WillCount(m, l)'
    BY DEF WillCount
  <2> QED BY <2>2, <2>3
<1> QED BY <1>2, <1>3

(* A step of one request that leaves the tables as they are. *)
LEMMA RequestOnly ==
    ASSUME VotersInv, NEW j \in VoterJobs, NEW new \in VoterJobState,
           voterJob' = [voterJob EXCEPT ![j] = new],
           UNCHANGED <<voters, leaderRow, import, geocoding, crossed>>,
           \A l \in uncounted : l \in uncounted', \A l \in uncounted' : l \in LeaderIds,
           work' \in 0 .. MaxWork, CopyNow(new),
           new.step \in {"move", "edit"} => PlacedNow(new.copy),
           \A l \in DOMAIN leaderRow : WillCount(j, l) => l \in uncounted' \/ WillCount(j, l)'
    PROVE  VotersInv'
<1>1. VotersTypeOK
    BY DEF VotersInv
<1>2. \A m \in VoterJobs : m # j => voterJob'[m] = voterJob[m]
    BY <1>1 DEF VotersTypeOK
<1>3. RowsKept /\ BackIsCrossed
    BY <1>1, VotersTypes DEF RowsKept, BackIsCrossed, Count
<1>4. NoneTwice'
    BY DEF VotersInv, NoneTwice, WithKey, HereV, Count
<1>5. \A l : VotersOf(l)' = VotersOf(l)
    BY DEF VotersOf, HereV, Count
<1>6. CountsAreComing'
    BY <1>2, <1>5, CountsThen
<1>7. /\ voters' \in Seq(Voter) /\ Count' <= MaxVoters /\ Count' = Count
      /\ leaderRow' \in Seq([name : LeaderNames, count : 0 .. MaxVoters])
      /\ Len(leaderRow') <= MaxLeaders /\ crossed' \subseteq Keys
    BY <1>1 DEF VotersTypeOK, Count
<1>8. \A v \in 1 .. Count' : v <= Count /\ voters'[v] = voters[v]
    BY <1>1, <1>7, VotersTypes
<1>9. \A k \in crossed' : k \in Keys
    BY <1>7
<1> QED BY <1>3, <1>4, <1>6, <1>7, <1>8, <1>9, RequestMoves

LEMMA RowPlaced ==
    ASSUME VotersInv, UNCHANGED voters, NEW v \in 1 .. Count
    PROVE  PlacedNow(voters[v])
<1>1. PICK row : row = voters[v]
    OBVIOUS
<1>2. PlacedRight(row)
    BY <1>1 DEF VotersInv, PlacesAreRight
<1> QED BY <1>1, <1>2 DEF PlacedRight, PlacedNow, Count

LEMMA UpdateVoterStep ==
    ASSUME VotersInv, NEW j \in VoterJobs, NEW v \in VoterIds, NEW names \in BOOLEAN,
           NEW l \in 0 .. MaxLeaders, UpdateVoter(j, v, names, l)
    PROVE  VotersInv'
<1>1. VotersTypeOK
    BY DEF VotersInv
<1>2. PICK step, row : /\ step = (IF names THEN "find" ELSE "edit") /\ row = voters[v]
    OBVIOUS
<1>3. PICK new : new = [step |-> step, id |-> v, copy |-> row, old |-> row.leader, leader |-> l]
    OBVIOUS
<1>4. Edits(j, new) /\ v \in HereV
    BY <1>2, <1>3 DEF UpdateVoter
<1>5. v \in 1 .. Count /\ row.here /\ row \in Voter /\ Count \in Nat /\ MaxWork \in Nat
    BY <1>1, <1>2, <1>4, VotersTypes DEF HereV
<1>6. step \in {"find", "edit"}
    BY <1>2
<1>7. new \in VoterJobState
  <2>1. row.leader \in 0 .. MaxLeaders
    BY <1>5 DEF Voter
  <2> QED BY <1>3, <1>5, <1>6, <2>1 DEF VoterJobState
<1>8. /\ voterJob[j].step = "idle" /\ voterJob' = [voterJob EXCEPT ![j] = new]
      /\ UNCHANGED <<voters, leaderRow, import, geocoding, uncounted, crossed>>
      /\ work < MaxWork /\ work' = work + 1
    BY <1>4 DEF Edits
<1>9. work' \in 0 .. MaxWork
    BY <1>1, <1>5, <1>8 DEF VotersTypeOK
<1>10. CopyNow(new)
    BY <1>2, <1>3, <1>5, <1>8 DEF CopyNow, Count
<1>11. PlacedNow(new.copy)
    BY <1>2, <1>3, <1>5, <1>8, RowPlaced
<1>12. \A m : ~WillCount(j, m)
    BY <1>8 DEF WillCount
<1>13. \A m \in uncounted' : m \in LeaderIds
    BY <1>1, <1>8 DEF VotersTypeOK
<1> QED BY <1>7, <1>8, <1>9, <1>10, <1>11, <1>12, <1>13, RequestOnly

LEMMA RemoveVoterStep ==
    ASSUME VotersInv, NEW j \in VoterJobs, NEW v \in VoterIds, RemoveVoter(j, v)
    PROVE  VotersInv'
<1>1. VotersTypeOK
    BY DEF VotersInv
<1>2. PICK row : row = voters[v]
    OBVIOUS
<1>3. PICK new : new = [IdleVoterJob EXCEPT !.step = "remove", !.id = v, !.copy = row,
                                            !.old = row.leader]
    OBVIOUS
<1>4. Edits(j, new) /\ v \in HereV
    BY <1>2, <1>3 DEF RemoveVoter
<1>5. v \in 1 .. Count /\ row \in Voter /\ Count \in Nat /\ MaxWork \in Nat
    BY <1>1, <1>2, <1>4, VotersTypes DEF HereV
<1>6. new \in VoterJobState /\ new.step = "remove" /\ new.id = v
  <2>1. row.leader \in 0 .. MaxLeaders
    BY <1>5 DEF Voter
  <2> QED BY <1>3, <1>5, <2>1, IdleJobIs DEF VoterJobState
<1>7. /\ voterJob[j].step = "idle" /\ voterJob' = [voterJob EXCEPT ![j] = new]
      /\ UNCHANGED <<voters, leaderRow, import, geocoding, uncounted, crossed>>
      /\ work < MaxWork /\ work' = work + 1
    BY <1>4 DEF Edits
<1>8. work' \in 0 .. MaxWork
    BY <1>1, <1>5, <1>7 DEF VotersTypeOK
<1>9. CopyNow(new)
    BY <1>5, <1>6, <1>7 DEF CopyNow, Count
<1>10. \A m : ~WillCount(j, m)
    BY <1>7 DEF WillCount
<1>11. \A m \in uncounted' : m \in LeaderIds
    BY <1>1, <1>7 DEF VotersTypeOK
<1>12. new.step \notin {"move", "edit"}
    BY <1>6
<1> QED BY <1>6, <1>7, <1>8, <1>9, <1>10, <1>11, <1>12, RequestOnly

LEMMA FindVoterStep ==
    ASSUME VotersInv, NEW j \in VoterJobs, FindVoter(j)
    PROVE  VotersInv'
<1>1. VotersTypeOK /\ CopiesAreOfRows
    BY DEF VotersInv
<1>2. PICK job, row : job = voterJob[j] /\ row = voters[job.id]
    OBVIOUS
<1>3. PICK new : new = IF row.here THEN [job EXCEPT !.step = "move", !.copy = row] ELSE IdleVoterJob
    OBVIOUS
<1>4. /\ job.step = "find" /\ voterJob' = [voterJob EXCEPT ![j] = new]
      /\ UNCHANGED <<voters, leaderRow, import, geocoding, uncounted, crossed, work>>
    BY <1>2, <1>3 DEF FindVoter
<1>5. job \in VoterJobState /\ job.id \in 1 .. Count /\ Count \in Nat
  <2>1. job.id <= Count
    BY <1>1, <1>2, <1>4 DEF CopiesAreOfRows
  <2>2. job.id \in VoterIds /\ job \in VoterJobState /\ Count \in Nat
    BY <1>1, <1>2, RequestTyped, VotersTypes
  <2> QED BY <1>1, <2>1, <2>2, VotersTypes DEF VoterIds
<1>6. row \in Voter
    BY <1>1, <1>2, <1>5, VotersTypes
<1>7. /\ new \in VoterJobState
      /\ row.here => new.step = "move" /\ new.copy = row /\ new.id = job.id
      /\ ~row.here => new.step = "idle"
  <2>1. CASE row.here
    BY <1>3, <1>5, <1>6, <2>1 DEF VoterJobState
  <2>2. CASE ~row.here
    BY <1>3, <2>2, IdleJobIs
  <2> QED BY <2>1, <2>2
<1>8. work' \in 0 .. MaxWork
    BY <1>1, <1>4 DEF VotersTypeOK
<1>9. CopyNow(new)
  <2>1. CASE row.here
    BY <1>2, <1>4, <1>5, <1>7, <2>1 DEF CopyNow, Count
  <2>2. CASE ~row.here
    BY <1>7, <2>2 DEF CopyNow
  <2> QED BY <2>1, <2>2
<1>10. new.step \in {"move", "edit"} => PlacedNow(new.copy)
    BY <1>2, <1>4, <1>5, <1>7, RowPlaced
<1>11. \A m : ~WillCount(j, m)
    BY <1>2, <1>4 DEF WillCount
<1>12. \A m \in uncounted' : m \in LeaderIds
    BY <1>1, <1>4 DEF VotersTypeOK
<1> QED BY <1>4, <1>7, <1>8, <1>9, <1>10, <1>11, <1>12, RequestOnly

LEMMA VoterJobFailsStep ==
    ASSUME VotersInv, NEW j \in VoterJobs, VoterJobFails(j)
    PROVE  VotersInv'
<1>1. VotersTypeOK
    BY DEF VotersInv
<1>2. PICK job : job = voterJob[j]
    OBVIOUS
<1>3. /\ voterJob' = [voterJob EXCEPT ![j] = IdleVoterJob]
      /\ UNCHANGED <<voters, leaderRow, import, geocoding, crossed, work>>
      /\ uncounted' = uncounted \union
           (IF job.step \in {"syncOld", "syncNew"} THEN {job.old, job.leader} \ {0} ELSE {})
    BY <1>2 DEF VoterJobFails
<1>4. job.old \in 0 .. MaxLeaders /\ job.leader \in 0 .. MaxLeaders /\ MaxLeaders \in Nat
    BY <1>1, <1>2, RequestTyped, VotersTypes
<1>5. \A l \in uncounted' : l \in LeaderIds
    BY <1>1, <1>3, <1>4 DEF VotersTypeOK, LeaderIds
<1>6. work' \in 0 .. MaxWork
    BY <1>1, <1>3 DEF VotersTypeOK
<1>7. CopyNow(IdleVoterJob) /\ IdleVoterJob.step \notin {"move", "edit"}
    BY IdleJobIs DEF CopyNow
<1>8. \A l \in DOMAIN leaderRow : WillCount(j, l) => l \in uncounted'
  <2>1. \A l \in DOMAIN leaderRow : l # 0
    BY <1>1, LeaderRows
  <2> QED BY <1>2, <1>3, <2>1 DEF WillCount
<1>9. \A l \in uncounted : l \in uncounted'
    BY <1>3
<1> QED BY <1>3, <1>5, <1>6, <1>7, <1>8, <1>9, IdleJobIs, RequestOnly

LEMMA VotersOfIs ==
    ASSUME VotersTypeOK, NEW l
    PROVE  Cardinality(VotersOf(l)) \in 0 .. MaxVoters /\ IsFiniteSet(VotersOf(l))
<1>1. /\ IsFiniteSet(1 .. Count) /\ Count \in Nat /\ Count <= MaxVoters /\ MaxVoters \in Nat
      /\ HereV \in SUBSET (1 .. Count)
    BY VotersTypes
<1>2. VotersOf(l) \in SUBSET (1 .. Count)
    BY <1>1 DEF VotersOf
<1>3. Cardinality(1 .. Count) = Count
    BY <1>1, FS_Interval
<1>4. IsFiniteSet(VotersOf(l)) /\ Cardinality(VotersOf(l)) <= Count
    BY <1>1, <1>2, <1>3, FS_Subset
<1>5. Cardinality(VotersOf(l)) \in Nat
    BY <1>4, FS_CardinalityType
<1> QED BY <1>1, <1>4, <1>5

(* syncLeaderVotersCount *)
LEMMA SyncedIs ==
    ASSUME VotersTypeOK, NEW of, NEW rows, rows = Synced(leaderRow, of)
    PROVE  /\ rows \in Seq([name : LeaderNames, count : 0 .. MaxVoters])
           /\ Len(rows) = Len(leaderRow) /\ DOMAIN rows = DOMAIN leaderRow
           /\ \A l \in DOMAIN leaderRow :
                 /\ l \in of => rows[l].count = Cardinality(VotersOf(l))
                 /\ l \notin of => rows[l] = leaderRow[l]
<1>1. PICK n, Rows : n = Len(leaderRow) /\ Rows = [name : LeaderNames, count : 0 .. MaxVoters]
    OBVIOUS
<1>2. n \in Nat /\ DOMAIN leaderRow = 1 .. n /\ \A l \in 1 .. n : leaderRow[l] \in Rows
  <2>1. leaderRow \in Seq(Rows) /\ n \in Nat /\ DOMAIN leaderRow = 1 .. n
    BY <1>1, LeaderRows
  <2> QED BY ONLY <2>1
<1>3. \A l \in 1 .. n : rows[l] = IF l \in of THEN [leaderRow[l] EXCEPT !.count =
                                                       Cardinality(VotersOf(l))]
                                  ELSE leaderRow[l]
    BY <1>2 DEF Synced
<1>4. \A l \in 1 .. n : /\ rows[l] \in Rows
                        /\ l \in of => rows[l].count = Cardinality(VotersOf(l))
                        /\ l \notin of => rows[l] = leaderRow[l]
  <2>1. SUFFICES ASSUME NEW l \in 1 .. n, NEW row, row = leaderRow[l], NEW c,
                        c = Cardinality(VotersOf(l))
                 PROVE  /\ rows[l] \in Rows
                        /\ l \in of => rows[l].count = c
                        /\ l \notin of => rows[l] = row
    OBVIOUS
  <2>2. c \in 0 .. MaxVoters /\ row \in Rows
    BY <1>2, <2>1, VotersOfIs
  <2>3. rows[l] = IF l \in of THEN [row EXCEPT !.count = c] ELSE row
    BY <1>3, <2>1
  <2> QED BY <1>1, <2>2, <2>3
<1>5. rows = [l \in 1 .. n |-> rows[l]] /\ DOMAIN rows = 1 .. n
    BY <1>2 DEF Synced
<1>6. rows \in Seq(Rows) /\ Len(rows) = n
    BY ONLY <1>2, <1>4, <1>5
<1> QED BY <1>1, <1>2, <1>4, <1>5, <1>6

LEMMA SyncCountStep ==
    ASSUME VotersInv, NEW j \in VoterJobs, SyncCount(j)
    PROVE  VotersInv'
<1>1. VotersTypeOK /\ CountsAreComing
    BY DEF VotersInv
<1>2. PICK job, l : job = voterJob[j] /\ l = IF job.step = "syncOld" THEN job.old ELSE job.leader
    OBVIOUS
<1>3. PICK new, more : /\ more = ToSync(job) \ {0, l}
                       /\ new = IF more # {} THEN [job EXCEPT !.step = "syncNew"] ELSE IdleVoterJob
    OBVIOUS
<1>4. /\ job.step \in {"syncOld", "syncNew"}
      /\ leaderRow' = Synced(leaderRow, {l}) /\ uncounted' = uncounted \ {l}
      /\ voterJob' = [voterJob EXCEPT ![j] = new]
      /\ UNCHANGED <<voters, import, geocoding, crossed, work>>
    BY <1>2, <1>3 DEF SyncCount
<1>5. job \in VoterJobState
    BY <1>1, <1>2, RequestTyped
<1>6. /\ new \in VoterJobState /\ new.step \in {"syncNew", "idle"}
      /\ more # {} => new.step = "syncNew" /\ new.leader = job.leader
  <2>1. CASE more # {}
    BY <1>3, <1>5, <2>1 DEF VoterJobState
  <2>2. CASE more = {}
    BY <1>3, <2>2, IdleJobIs
  <2> QED BY <2>1, <2>2
<1>7. /\ leaderRow' \in Seq([name : LeaderNames, count : 0 .. MaxVoters])
      /\ Len(leaderRow') = Len(leaderRow) /\ DOMAIN leaderRow' = DOMAIN leaderRow
      /\ \A m \in DOMAIN leaderRow :
            /\ m \in {l} => leaderRow'[m].count = Cardinality(VotersOf(m))
            /\ m \notin {l} => leaderRow'[m] = leaderRow[m]
    BY <1>1, <1>4, SyncedIs, ZenonT(40)
<1>8. CountsAreComing'
  <2>1. CASE \E i \in Imports : import[i].step = "rows"
    BY <1>4, <2>1 DEF CountsAreComing
  <2>2. CASE ~\E i \in Imports : import[i].step = "rows"
    <3>1. SUFFICES ASSUME NEW m \in DOMAIN leaderRow
                   PROVE  \/ m \in uncounted' \/ leaderRow'[m].count = Cardinality(VotersOf(m)')
                          \/ \E q \in VoterJobs : WillCount(q, m)'
      BY <1>7 DEF CountsAreComing
    <3>2. VotersOf(m)' = VotersOf(m) /\ m # 0
      BY <1>1, <1>4, LeaderRows DEF VotersOf, HereV, Count
    <3>3. CASE m = l
      BY <1>7, <3>2, <3>3
    <3>4. CASE m # l
      <4>1. \/ m \in uncounted \/ leaderRow[m].count = Cardinality(VotersOf(m))
            \/ \E q \in VoterJobs : WillCount(q, m)
        BY <1>1, <2>2 DEF CountsAreComing
      <4>2. ASSUME NEW q \in VoterJobs, WillCount(q, m) PROVE WillCount(q, m)'
        <5>1. CASE q # j
          BY <1>1, <1>4, <4>2, <5>1 DEF WillCount, VotersTypeOK
        <5>2. CASE q = j
          <6>1. m \in ToSync(job) /\ m = job.leader
            BY <1>2, <3>4, <4>2, <5>2 DEF WillCount, ToSync
          <6>2. more # {}
            BY <1>3, <3>2, <3>4, <6>1
          <6>3. voterJob'[j] = new
            BY <1>1, <1>4 DEF VotersTypeOK
          <6> QED BY <1>6, <5>2, <6>1, <6>2, <6>3 DEF WillCount
        <5> QED BY <5>1, <5>2
      <4> QED BY <1>4, <1>7, <3>2, <3>4, <4>1, <4>2
    <3> QED BY <3>3, <3>4
  <2> QED BY <2>1, <2>2
<1>9. RowsKept /\ BackIsCrossed
    BY <1>1, <1>4, VotersTypes DEF RowsKept, BackIsCrossed, Count
<1>10. NoneTwice'
    BY <1>4 DEF VotersInv, NoneTwice, WithKey, HereV, Count
<1>11. /\ voters' \in Seq(Voter) /\ Count' <= MaxVoters /\ Count' = Count
       /\ \A k \in crossed' : k \in Keys
       /\ \A m \in uncounted' : m \in LeaderIds
       /\ work' \in 0 .. MaxWork /\ Len(leaderRow') <= MaxLeaders
    BY <1>1, <1>4, <1>7 DEF VotersTypeOK, Count
<1>12. \A v \in 1 .. Count' : v <= Count /\ voters'[v] = voters[v]
    BY <1>1, <1>4, <1>11, VotersTypes
<1>13. CopyNow(new) /\ new.step \notin {"move", "edit"}
    BY <1>6 DEF CopyNow
<1> QED BY <1>4, <1>6, <1>7, <1>8, <1>9, <1>10, <1>11, <1>12, <1>13, RequestMoves

LEMMA CreateVoterStep ==
    ASSUME VotersInv, NEW j \in VoterJobs, NEW k \in Keys \union {NoKey}, NEW l \in 0 .. MaxLeaders,
           NEW placed \in BOOLEAN, CreateVoter(j, k, l, NoPlace, placed)
    PROVE  VotersInv'
<1>1. VotersTypeOK
    BY DEF VotersInv
<1>2. PICK place, row, y :
         /\ place = NoPlace /\ y = <<row>>
         /\ row = [here |-> TRUE, key |-> k, spelled |-> TRUE, leader |-> l, place |-> place,
                   found |-> place.state, placed |-> placed]
    OBVIOUS
<1>3. PICK new : new = IF l = 0 THEN voterJob[j]
                       ELSE [IdleVoterJob EXCEPT !.step = "syncNew", !.leader = l]
    OBVIOUS
<1>4. /\ Count < MaxVoters /\ work < MaxWork /\ work' = work + 1 /\ voterJob[j].step = "idle"
      /\ voters' = Append(voters, row)
      /\ crossed' = IF k = NoKey THEN crossed ELSE crossed \union {k}
      /\ voterJob' = IF l = 0 THEN voterJob
                   ELSE [voterJob EXCEPT ![j] = [IdleVoterJob EXCEPT !.step = "syncNew",
                                                                     !.leader = l]]
      /\ UNCHANGED <<leaderRow, import, geocoding, uncounted>>
    BY <1>2 DEF CreateVoter
<1>5. place \in [town : Towns, state : States] /\ place.state \in States
  <2>1. NoPlace \in [town : Towns, state : States]
    BY VotersAssumption DEF NoPlace
  <2> QED BY <1>2, <2>1
<1>6. row \in Voter /\ row.here /\ row.key = k /\ row.leader = l /\ row.found = row.place.state
    BY <1>2, <1>5 DEF Voter
<1>7. y \in Seq(Voter) /\ Len(y) = 1 /\ y[1] = row
    BY <1>2, <1>6
<1>8. Count \in Nat /\ MaxVoters \in Nat /\ MaxWork \in Nat /\ voters \in Seq(Voter)
    BY <1>1, VotersTypes
<1>9. voters' = voters \o y
  <2>1. voters' = Append(voters, row) /\ voters \in Seq(Voter) /\ row \in Voter /\ y = <<row>>
    BY <1>2, <1>4, <1>6, <1>8
  <2> QED BY ONLY <2>1
<1>10. \A c \in crossed : c \in crossed'
    BY <1>4
<1>11. /\ voters' \in Seq(Voter) /\ Count' = Count + 1 /\ Count' \in Nat /\ Count' <= MaxVoters
       /\ RowsKept /\ BackIsCrossed
       /\ \A v \in 1 .. Count : voters'[v] = voters[v]
       /\ voters'[Count + 1] = row /\ Count + 1 \in 1 .. Count'
       /\ \A v \in 1 .. Count' : v \in 1 .. Count \/ v = Count + 1
  <2>1. PICK n : n = 1
    OBVIOUS
  <2>2. y \in Seq(Voter) /\ n = Len(y) /\ Count + n <= MaxVoters
    BY <1>4, <1>7, <1>8, <2>1
  <2>3. /\ voters' \in Seq(Voter) /\ Count' = Count + n /\ Count' \in Nat /\ Count' <= MaxVoters
        /\ RowsKept /\ BackIsCrossed
        /\ \A v \in 1 .. Count : voters'[v] = voters[v]
        /\ \A m \in 1 .. n : voters'[Count + m] = y[m] /\ Count + m \in 1 .. Count'
        /\ \A v \in 1 .. Count' : v \in 1 .. Count \/ \E m \in 1 .. n : v = Count + m
    BY ONLY <1>1, <1>9, <1>10, <2>2, RowsAdded
  <2>4. voters'[Count + 1] = y[1] /\ Count + 1 \in 1 .. Count'
    BY <2>1, <2>3
  <2>5. \A v \in 1 .. Count' : v \in 1 .. Count \/ v = Count + 1
    BY <2>1, <2>3
  <2> QED BY <1>7, <2>1, <2>3, <2>4, <2>5
<1>12. /\ new \in VoterJobState /\ new.step \in {"idle", "syncNew"}
       /\ l # 0 => new.step = "syncNew" /\ new.leader = l
  <2>1. CASE l = 0
    BY <1>1, <1>3, <1>4, <2>1, RequestTyped
  <2>2. CASE l # 0
    BY <1>3, <2>2, IdleJobIs DEF VoterJobState
  <2> QED BY <2>1, <2>2
<1>13. voterJob' = [voterJob EXCEPT ![j] = new]
    BY <1>1, <1>3, <1>4 DEF VotersTypeOK
<1>14. voterJob'[j] = new /\ \A m \in VoterJobs : m # j => voterJob'[m] = voterJob[m]
    BY <1>1, <1>13 DEF VotersTypeOK
<1>15. CountsAreComing'
  <2>1. ASSUME NEW m \in DOMAIN leaderRow
        PROVE  \/ VotersOf(m)' = VotersOf(m)
                  /\ (WillCount(j, m) => m \in uncounted' \/ WillCount(j, m)')
               \/ m \in uncounted' \/ WillCount(j, m)'
    <3>1. m # 0
      BY <1>1, LeaderRows
    <3>2. ~WillCount(j, m)
      BY <1>4 DEF WillCount
    <3>3. CASE m = l
      BY <1>12, <1>14, <3>1, <3>3 DEF WillCount
    <3>4. CASE m # l
      <4>1. \A v : v \in VotersOf(m)' <=> v \in VotersOf(m)
        <5>1. SUFFICES ASSUME NEW v PROVE v \in VotersOf(m)' <=> v \in VotersOf(m)
          OBVIOUS
        <5>2. v \in VotersOf(m) <=> v \in 1 .. Count /\ voters[v].here /\ voters[v].leader = m
          BY DEF VotersOf, HereV
        <5>3. v \in VotersOf(m)' <=> v \in 1 .. Count' /\ voters'[v].here /\ voters'[v].leader = m
          BY DEF VotersOf, HereV
        <5>4. v \in 1 .. Count => v \in 1 .. Count'
          BY <1>8, <1>11
        <5> QED BY <1>6, <1>11, <3>4, <5>2, <5>3, <5>4
      <4>2. VotersOf(m)' = VotersOf(m)
        BY <4>1
      <4> QED BY <3>2, <4>2
    <3> QED BY <3>3, <3>4
  <2>2. \A m \in uncounted : m \in uncounted'
    BY <1>4
  <2> QED BY <1>4, <1>14, <2>1, <2>2, CountsThen
<1>16. NoneTwice'
  <2>1. ASSUME NEW c \in Keys, c \notin crossed'
        PROVE  /\ \A v, w \in 1 .. Count' :
                    v > Count /\ w > Count /\ voters'[v].key = c /\ voters'[w].key = c => v = w
               /\ \A v \in 1 .. Count' : v > Count /\ voters'[v].key = c => WithKey(c) = {}
    <3>1. c # k
      BY <1>4, <2>1, VotersAssumption
    <3>2. \A v \in 1 .. Count' : v > Count => voters'[v].key # c
      BY <1>6, <1>8, <1>11, <3>1
    <3> QED BY <3>2
  <2> QED BY <1>11, <2>1, NoneTwiceThen
<1>17. /\ leaderRow' \in Seq([name : LeaderNames, count : 0 .. MaxVoters])
       /\ Len(leaderRow') <= MaxLeaders
       /\ \A c \in crossed' : c \in Keys
       /\ \A m \in uncounted' : m \in LeaderIds
    BY <1>1, <1>4 DEF VotersTypeOK
<1>18. work' \in 0 .. MaxWork
    BY <1>1, <1>4, <1>8 DEF VotersTypeOK
<1>19. \A v \in 1 .. Count' : \/ v <= Count /\ voters'[v] = voters[v]
                              \/ PlacedNow(voters'[v])
    BY <1>6, <1>8, <1>11 DEF PlacedNow
<1>20. CopyNow(new) /\ new.step \notin {"move", "edit"}
    BY <1>12 DEF CopyNow
<1> QED BY <1>4, <1>11, <1>12, <1>13, <1>15, <1>16, <1>17, <1>18, <1>19, <1>20, RequestMoves

LEMMA RowSaved ==
    ASSUME VotersTypeOK, NEW id \in 1 .. Count, NEW row \in Voter,
           voters' = [voters EXCEPT ![id] = row]
    PROVE  /\ voters' \in Seq(Voter) /\ Count' = Count /\ Count' \in Nat /\ Count' <= MaxVoters
           /\ voters'[id] = row /\ \A v \in 1 .. Count : v # id => voters'[v] = voters[v]
<1>1. /\ voters \in Seq(Voter) /\ Count \in Nat /\ Count <= MaxVoters /\ Count = Len(voters)
      /\ id \in 1 .. Len(voters)
    BY VotersTypes
<1>2. /\ voters' \in Seq(Voter) /\ Len(voters') = Len(voters) /\ voters'[id] = row
      /\ \A v \in 1 .. Len(voters) : v # id => voters'[v] = voters[v]
    BY ONLY <1>1, row \in Voter, voters' = [voters EXCEPT ![id] = row]
<1>3. Count' = Len(voters')
    BY DEF Count
<1> QED BY <1>1, <1>2, <1>3

LEMMA SaveVoterStep ==
    ASSUME VotersInv, NEW j \in VoterJobs, SaveVoter(j)
    PROVE  VotersInv'
<1>1. VotersTypeOK
    BY DEF VotersInv
<1>2. PICK job, was, id : job = voterJob[j] /\ id = job.id /\ was = voters[id]
    OBVIOUS
<1>3. PICK new : new = IF job.step = "move" THEN [job.copy EXCEPT !.leader = job.leader]
                       ELSE job.copy
    OBVIOUS
<1>4. PICK moved : moved = IF was.here THEN IF was.leader = new.leader THEN {}
                                            ELSE {was.leader, new.leader}
                           ELSE {new.leader}
    OBVIOUS
<1>5. PICK next : next = IF job.step = "edit" THEN IdleVoterJob
                         ELSE IF job.old # 0 THEN [job EXCEPT !.step = "syncOld"]
                         ELSE IF job.leader # 0 THEN [job EXCEPT !.step = "syncNew"]
                         ELSE IdleVoterJob
    OBVIOUS
<1>6. /\ job.step \in {"move", "edit"} /\ voters' = [voters EXCEPT ![id] = new]
      /\ uncounted' = uncounted \union
           (moved \ (IF job.step = "move" THEN {0, job.old, job.leader} ELSE {0}))
      /\ crossed' = IF was.here \/ job.copy.key = NoKey THEN crossed
                    ELSE crossed \union {job.copy.key}
      /\ voterJob' = [voterJob EXCEPT ![j] = next]
      /\ UNCHANGED <<leaderRow, import, geocoding, work>>
    BY <1>2, <1>3, <1>4, <1>5 DEF SaveVoter
<1>7. /\ job \in VoterJobState /\ job.copy \in Voter /\ job.leader \in 0 .. MaxLeaders
      /\ job.old \in 0 .. MaxLeaders /\ id \in VoterIds
    BY <1>1, <1>2, RequestTyped
<1>8. /\ id <= Count /\ job.copy.here /\ job.copy.key = was.key
      /\ job.copy.spelled = was.spelled /\ job.copy.place = was.place
    BY <1>2, <1>6 DEF VotersInv, CopiesAreOfRows
<1>9. id \in 1 .. Count /\ Count \in Nat /\ MaxLeaders \in Nat /\ was \in Voter
    BY <1>1, <1>2, <1>7, <1>8, VotersTypes DEF VoterIds
<1>10. /\ new \in Voter /\ new.here /\ new.key = was.key /\ new.spelled = was.spelled
       /\ new.place = was.place /\ new.found = job.copy.found
       /\ job.step = "move" => new.leader = job.leader
  <2>1. CASE job.step = "move"
    <3>1. new = [job.copy EXCEPT !.leader = job.leader]
      BY <1>3, <2>1
    <3>2. new \in Voter
      BY <1>7, <3>1 DEF Voter
    <3>3. /\ new.here = job.copy.here /\ new.key = job.copy.key
          /\ new.spelled = job.copy.spelled /\ new.place = job.copy.place
          /\ new.found = job.copy.found /\ new.leader = job.leader
      BY <1>7, <3>1 DEF Voter
    <3> QED BY <1>8, <3>2, <3>3
  <2>2. CASE job.step # "move"
    BY <1>3, <1>7, <1>8, <2>2
  <2> QED BY <2>1, <2>2
<1>11. /\ voters' \in Seq(Voter) /\ Count' = Count /\ Count' \in Nat /\ Count' <= MaxVoters
       /\ voters'[id] = new /\ \A v \in 1 .. Count : v # id => voters'[v] = voters[v]
    BY <1>1, <1>6, <1>9, <1>10, RowSaved
<1>12. RowsKept
    BY <1>2, <1>10, <1>11 DEF RowsKept
<1>13. BackIsCrossed
  <2>1. \A k \in crossed : k \in crossed'
    BY <1>6
  <2>2. ASSUME NEW v \in 1 .. Count, voters'[v].here, ~voters[v].here, voters[v].key # NoKey
        PROVE  voters[v].key \in crossed'
    <3>1. v = id
      BY <1>11, <2>2
    <3> QED BY <1>2, <1>6, <1>8, <2>2, <3>1
  <2> QED BY <2>1, <2>2 DEF BackIsCrossed
<1>14. next \in VoterJobState /\ next.step \notin {"find", "move", "edit", "remove"}
  <2>1. next = IdleVoterJob \/ next = [job EXCEPT !.step = "syncOld"]
           \/ next = [job EXCEPT !.step = "syncNew"]
    BY <1>5
  <2> QED BY <1>7, <2>1, IdleJobIs DEF VoterJobState
<1>15. /\ \A k \in crossed' : k \in Keys
       /\ work' \in 0 .. MaxWork
       /\ leaderRow' \in Seq([name : LeaderNames, count : 0 .. MaxVoters])
       /\ Len(leaderRow') <= MaxLeaders
  <2>1. job.copy.key \in Keys \union {NoKey} /\ \A k \in crossed : k \in Keys
    BY <1>1, <1>7 DEF Voter, VotersTypeOK
  <2> QED BY <1>1, <1>6, <2>1 DEF VotersTypeOK
<1>16. \A l \in uncounted' : l \in LeaderIds
  <2>1. was.leader \in 0 .. MaxLeaders /\ new.leader \in 0 .. MaxLeaders
    BY <1>9, <1>10 DEF Voter
  <2>2. \A l \in moved : l \in 0 .. MaxLeaders
    BY <1>4, <2>1
  <2>3. \A l \in uncounted' : l \in uncounted \/ (l \in moved /\ l # 0)
    BY <1>6
  <2>4. \A l \in uncounted : l \in LeaderIds
    BY <1>1 DEF VotersTypeOK
  <2> QED BY <1>9, <2>2, <2>3, <2>4 DEF LeaderIds
<1>17. NoneTwice'
  <2>1. \A v \in 1 .. Count' : ~(v > Count)
    BY <1>11
  <2> QED BY <1>12, <1>13, <2>1, NoneTwiceThen
<1>18. PlacedNow(new)
  <2>1. PlacedRight(job.copy)
    BY <1>2, <1>6 DEF VotersInv, PlacesAreRight
  <2>2. PlacedRight(new)
    BY <1>8, <1>10, <2>1 DEF PlacedRight
  <2> QED BY <1>1, <1>12, <2>2, PlacedStays
<1>19. \A v \in 1 .. Count' : \/ v <= Count /\ voters'[v] = voters[v]
                              \/ PlacedNow(voters'[v])
  <2>1. SUFFICES ASSUME NEW v \in 1 .. Count'
                 PROVE  \/ (v <= Count /\ voters'[v] = voters[v]) \/ PlacedNow(voters'[v])
    OBVIOUS
  <2>2. CASE v = id
    BY <1>11, <1>18, <2>2
  <2>3. CASE v # id
    BY <1>11, <2>3
  <2> QED BY <2>2, <2>3
<1>20. voterJob'[j] = next /\ \A m \in VoterJobs : m # j => voterJob'[m] = voterJob[m]
    BY <1>1, <1>6 DEF VotersTypeOK
<1>21. CountsAreComing'
  <2>1. ASSUME NEW l \in DOMAIN leaderRow
        PROVE  \/ VotersOf(l)' = VotersOf(l)
                  /\ (WillCount(j, l) => l \in uncounted' \/ WillCount(j, l)')
               \/ l \in uncounted' \/ WillCount(j, l)'
    <3>1. l # 0
      BY <1>1, LeaderRows
    <3>2. ~WillCount(j, l)
      BY <1>2, <1>6 DEF WillCount
    <3>3. CASE l \notin moved
      <4>1. \A v : v \in VotersOf(l)' <=> v \in VotersOf(l)
        <5>1. SUFFICES ASSUME NEW v PROVE v \in VotersOf(l)' <=> v \in VotersOf(l)
          OBVIOUS
        <5>2. v \in VotersOf(l) <=> v \in 1 .. Count /\ voters[v].here /\ voters[v].leader = l
          BY DEF VotersOf, HereV
        <5>3. v \in VotersOf(l)' <=> v \in 1 .. Count' /\ voters'[v].here /\ voters'[v].leader = l
          BY DEF VotersOf, HereV
        <5>4. CASE v = id
          BY <1>2, <1>4, <1>9, <1>10, <1>11, <3>3, <5>2, <5>3, <5>4
        <5>5. CASE v # id
          BY <1>11, <5>2, <5>3, <5>5
        <5> QED BY <5>4, <5>5
      <4>2. VotersOf(l)' = VotersOf(l)
        BY <4>1
      <4> QED BY <3>2, <4>2
    <3>4. CASE l \in moved /\ l \notin uncounted'
      <4>1. job.step = "move" /\ l \in {job.old, job.leader}
        BY <1>6, <3>1, <3>4
      <4>2. /\ job.old # 0 => next = [job EXCEPT !.step = "syncOld"]
            /\ job.old = 0 => l = job.leader /\ next = [job EXCEPT !.step = "syncNew"]
        BY <1>5, <3>1, <4>1
      <4>3. /\ job.old # 0 =>
                  next.step = "syncOld" /\ next.old = job.old /\ next.leader = job.leader
            /\ job.old = 0 => next.step = "syncNew" /\ next.leader = l
        BY <1>7, <4>2 DEF VoterJobState
      <4>4. WillCount(j, l)'
        BY <1>20, <4>1, <4>3 DEF WillCount
      <4> QED BY <4>4
    <3> QED BY <3>3, <3>4
  <2>2. \A l \in uncounted : l \in uncounted'
    BY <1>6
  <2> QED BY <1>6, <1>20, <2>1, <2>2, CountsThen
<1>22. CopyNow(next) /\ next.step \notin {"move", "edit"}
    BY <1>14 DEF CopyNow
<1> QED BY <1>6, <1>11, <1>12, <1>13, <1>14, <1>15, <1>16, <1>17, <1>19, <1>21, <1>22, RequestMoves

LEMMA DeleteVoterStep ==
    ASSUME VotersInv, NEW j \in VoterJobs, DeleteVoter(j)
    PROVE  VotersInv'
<1>1. VotersTypeOK
    BY DEF VotersInv
<1>2. PICK job, was, id, new, next :
         /\ job = voterJob[j] /\ id = job.id /\ was = voters[id]
         /\ new = [was EXCEPT !.here = FALSE]
         /\ next = IF job.old # 0 THEN [job EXCEPT !.step = "syncOld"] ELSE IdleVoterJob
    OBVIOUS
<1>3. /\ job.step = "remove" /\ voters' = [voters EXCEPT ![id].here = FALSE]
      /\ uncounted' = uncounted \union (IF was.here THEN {was.leader} \ {0, job.old} ELSE {})
      /\ voterJob' = [voterJob EXCEPT ![j] = next]
      /\ UNCHANGED <<leaderRow, import, geocoding, crossed, work>>
    BY <1>2 DEF DeleteVoter
<1>4. /\ job \in VoterJobState /\ job.old \in 0 .. MaxLeaders /\ id \in VoterIds
    BY <1>1, <1>2, RequestTyped
<1>5. id <= Count
    BY <1>2, <1>3 DEF VotersInv, CopiesAreOfRows
<1>6. id \in 1 .. Count /\ Count \in Nat /\ MaxLeaders \in Nat /\ was \in Voter
    BY <1>1, <1>2, <1>4, <1>5, VotersTypes DEF VoterIds
<1>7. new \in Voter /\ ~new.here
    BY <1>2, <1>6 DEF Voter
<1>8. /\ new.key = was.key /\ new.spelled = was.spelled /\ new.place = was.place
      /\ new.found = was.found
    BY <1>2, <1>6 DEF Voter
<1>9. voters' = [voters EXCEPT ![id] = new]
    BY <1>1, <1>2, <1>3, <1>6, VotersTypes
<1>10. /\ voters' \in Seq(Voter) /\ Count' = Count /\ Count' \in Nat /\ Count' <= MaxVoters
       /\ voters'[id] = new /\ \A v \in 1 .. Count : v # id => voters'[v] = voters[v]
    BY <1>1, <1>6, <1>7, <1>9, RowSaved
<1>11. RowsKept
  <2>1. SUFFICES ASSUME NEW v \in 1 .. Count
                 PROVE  /\ voters'[v].key = voters[v].key /\ voters'[v].spelled = voters[v].spelled
                        /\ voters'[v].place = voters[v].place
    BY <1>6, <1>10 DEF RowsKept
  <2>2. CASE v = id
    BY <1>2, <1>8, <1>10, <2>2
  <2>3. CASE v # id
    BY <1>10, <2>3
  <2> QED BY <2>2, <2>3
<1>12. BackIsCrossed
    BY <1>3, <1>7, <1>10 DEF BackIsCrossed
<1>13. next \in VoterJobState /\ next.step \notin {"find", "move", "edit", "remove"}
  <2>1. next = IdleVoterJob \/ next = [job EXCEPT !.step = "syncOld"]
    BY <1>2
  <2> QED BY <1>4, <2>1, IdleJobIs DEF VoterJobState
<1>14. /\ \A k \in crossed' : k \in Keys
       /\ work' \in 0 .. MaxWork
       /\ leaderRow' \in Seq([name : LeaderNames, count : 0 .. MaxVoters])
       /\ Len(leaderRow') <= MaxLeaders
    BY <1>1, <1>3 DEF VotersTypeOK
<1>15. \A l \in uncounted' : l \in LeaderIds
  <2>1. was.leader \in 0 .. MaxLeaders
    BY <1>6 DEF Voter
  <2>2. \A l \in uncounted' : l \in uncounted \/ (l = was.leader /\ l # 0)
    BY <1>3
  <2>3. \A l \in uncounted : l \in LeaderIds
    BY <1>1 DEF VotersTypeOK
  <2> QED BY <1>6, <2>1, <2>2, <2>3 DEF LeaderIds
<1>16. NoneTwice'
  <2>1. \A v \in 1 .. Count' : ~(v > Count)
    BY <1>10
  <2> QED BY <1>11, <1>12, <2>1, NoneTwiceThen
<1>17. PlacedNow(new)
  <2>1. PlacedRight(was)
    BY <1>2, <1>6 DEF VotersInv, PlacesAreRight
  <2>2. PlacedRight(new)
    BY <1>8, <2>1 DEF PlacedRight
  <2> QED BY <1>1, <1>11, <2>2, PlacedStays
<1>18. \A v \in 1 .. Count' : \/ v <= Count /\ voters'[v] = voters[v]
                              \/ PlacedNow(voters'[v])
  <2>1. SUFFICES ASSUME NEW v \in 1 .. Count'
                 PROVE  \/ (v <= Count /\ voters'[v] = voters[v]) \/ PlacedNow(voters'[v])
    OBVIOUS
  <2>2. CASE v = id
    BY <1>10, <1>17, <2>2
  <2>3. CASE v # id
    BY <1>10, <2>3
  <2> QED BY <2>2, <2>3
<1>19. voterJob'[j] = next /\ \A m \in VoterJobs : m # j => voterJob'[m] = voterJob[m]
    BY <1>1, <1>3 DEF VotersTypeOK
<1>20. CountsAreComing'
  <2>1. ASSUME NEW l \in DOMAIN leaderRow
        PROVE  \/ VotersOf(l)' = VotersOf(l)
                  /\ (WillCount(j, l) => l \in uncounted' \/ WillCount(j, l)')
               \/ l \in uncounted' \/ WillCount(j, l)'
    <3>1. l # 0
      BY <1>1, LeaderRows
    <3>2. ~WillCount(j, l)
      BY <1>2, <1>3 DEF WillCount
    <3>3. CASE ~was.here \/ l # was.leader
      <4>1. \A v : v \in VotersOf(l)' <=> v \in VotersOf(l)
        <5>1. SUFFICES ASSUME NEW v PROVE v \in VotersOf(l)' <=> v \in VotersOf(l)
          OBVIOUS
        <5>2. v \in VotersOf(l) <=> v \in 1 .. Count /\ voters[v].here /\ voters[v].leader = l
          BY DEF VotersOf, HereV
        <5>3. v \in VotersOf(l)' <=> v \in 1 .. Count' /\ voters'[v].here /\ voters'[v].leader = l
          BY DEF VotersOf, HereV
        <5>4. CASE v = id
          BY <1>2, <1>6, <1>7, <1>10, <3>3, <5>2, <5>3, <5>4
        <5>5. CASE v # id
          BY <1>10, <5>2, <5>3, <5>5
        <5> QED BY <5>4, <5>5
      <4>2. VotersOf(l)' = VotersOf(l)
        BY <4>1
      <4> QED BY <3>2, <4>2
    <3>4. CASE was.here /\ l = was.leader /\ l \notin uncounted'
      <4>1. l = job.old
        BY <1>3, <3>1, <3>4
      <4>2. next = [job EXCEPT !.step = "syncOld"]
        BY <1>2, <3>1, <4>1
      <4>3. next.step = "syncOld" /\ next.old = job.old
        BY <1>4, <4>2 DEF VoterJobState
      <4>4. WillCount(j, l)'
        BY <1>19, <4>1, <4>3 DEF WillCount
      <4> QED BY <4>4
    <3> QED BY <3>3, <3>4
  <2>2. \A l \in uncounted : l \in uncounted'
    BY <1>3
  <2> QED BY <1>3, <1>19, <2>1, <2>2, CountsThen
<1>21. CopyNow(next) /\ next.step \notin {"move", "edit"}
    BY <1>13 DEF CopyNow
<1> QED BY <1>3, <1>10, <1>11, <1>12, <1>13, <1>14, <1>15, <1>16, <1>18, <1>20, <1>21, RequestMoves

LEMMA ImportSame ==
    ASSUME VotersInv, NEW i \in Imports, NEW new, import'[i] = new, UNCHANGED <<voters, crossed>>,
           new.file = import[i].file, new.at = import[i].at, new.index = import[i].index,
           new.batch = import[i].batch, new.imported = import[i].imported,
           new.skipped = import[i].skipped, new.duplicates = import[i].duplicates,
           new.helped = import[i].helped, new.unhelped = import[i].unhelped,
           new.since = import[i].since, new.mine = import[i].mine,
           new.step = import[i].step \/ new.step \notin {"index", "rows"}
    PROVE  ImportTells(i)'
<1>1. /\ VotersTypeOK /\ ImportTells(i) /\ OwnTells(i) /\ BatchTells(i)
      /\ \A k \in Keys : KeyTells(i, k)
    BY IndexParts
<1>2. Done(i)' = Done(i) /\ Count' = Count
    BY DEF Done, Count
<1>3. \A k : InBatch(i, k)' <=> InBatch(i, k)
    BY DEF InBatch
<1>4. \A k : WithKey(k)' = WithKey(k)
    BY DEF WithKey, HereV, Count
<1>5. \A r : HasVoter(i, r) => HasVoter(i, r)'
    BY <1>2 DEF HasVoter
<1>6. RowsCounted(i)'
    BY <1>1 DEF ImportTells, RowsCounted
<1>7. RowsLand(i)'
  <2>1. \A k : Landed(i, k) => Landed(i, k)'
    BY <1>2, <1>3 DEF Landed
  <2> QED BY <1>1, <1>2, <2>1 DEF ImportTells, RowsLand
<1>8. OwnTells(i)'
    BY <1>1, <1>2 DEF OwnTells
<1>9. BatchTells(i)'
    BY <1>1, <1>2 DEF BatchTells
<1>10. ASSUME NEW k \in Keys PROVE KeyTells(i, k)'
  <2>1. KeyTells(i, k)
    BY <1>1
  <2>2. new.index[k] \notin {0, Pending} => new.index[k] <= Count /\ voters[new.index[k]].key = k
    BY <2>1 DEF KeyTells
  <2>3. new.index[k] = Pending =>
          \E m \in Done(i) : new.file[m].key = k /\ HasVoter(i, new.file[m])
    BY <2>1 DEF KeyTells
  <2>4. ASSUME NEW m \in Done(i), HasVoter(i, new.file[m])
        PROVE  \E r : r = new.file[m] /\ HasVoter(i, r)'
    BY <1>5, <2>4
  <2>5. import'[i].index[k] = Pending =>
          \E m \in Done(i)' : import'[i].file[m].key = k /\ HasVoter(i, import[i].file[m])'
    BY <1>2, <2>3, <2>4
  <2>6. new.step = "rows" /\ (new.index[k] = 0 \/ InBatch(i, k)') =>
          k \in crossed \/ \A v \in WithKey(k) : v > new.since /\ v \notin new.mine
    BY <1>3, <2>1 DEF KeyTells
  <2> QED BY <1>2, <1>4, <2>2, <2>5, <2>6 DEF KeyTells
<1>11. IndexTells(i)'
    BY <1>8, <1>9, <1>10, IndexFrom
<1>12. HelpTells(i)'
  <2>1. Asked(i)' = Asked(i)
    BY <1>2 DEF Asked
  <2>2. \A k : GoneOrCrossed(k)' <=> GoneOrCrossed(k)
    BY <1>2 DEF GoneOrCrossed
  <2>3. \A n : Excused(i, n) => Excused(i, n)'
    BY <1>2, <2>2 DEF Excused
  <2> QED BY <1>1, <2>1, <2>3 DEF ImportTells, HelpTells
<1> QED BY <1>6, <1>7, <1>11, <1>12 DEF ImportTells

LEMMA LeadersMove ==
    ASSUME VotersInv, NEW i \in Imports, NEW new \in ImportState,
           import' = [import EXCEPT ![i] = new], new.at \in 1 .. Len(new.file) + 1,
           Len(new.batch) <= BatchSize, ImportTells(i)',
           UNCHANGED <<voters, voterJob, crossed, work>>,
           leaderRow' \in Seq([name : LeaderNames, count : 0 .. MaxVoters]),
           Len(leaderRow') <= MaxLeaders, \A l \in uncounted' : l \in LeaderIds,
           \A place \in geocoding' :
              place \in geocoding \/ \E w \in 1 .. Count : voters[w].place = place,
           CountsAreComing'
    PROVE  VotersInv'
<1>1. VotersTypeOK
    BY DEF VotersInv
<1>2. /\ import'[i] = new /\ \A m \in Imports : m # i => import'[m] = import[m]
      /\ import' \in [Imports -> ImportState]
      /\ \A m \in Imports : import'[m].at \in 1 .. Len(import'[m].file) + 1
                            /\ Len(import'[m].batch) <= BatchSize
    BY <1>1, OneImport
<1>3. RowsKept /\ BackIsCrossed
    BY <1>1, VotersTypes DEF RowsKept, BackIsCrossed, Count
<1>4. \A m \in Imports : ImportTells(m)'
  <2>1. ASSUME NEW m \in Imports PROVE ImportTells(m)'
    <3>1. CASE m = i
      BY <3>1
    <3>2. CASE m # i
      BY <1>2, <1>3, <3>2, OthersStay
    <3> QED BY <3>1, <3>2
  <2> QED BY <2>1
<1>5. geocoding' \subseteq [town : Towns, state : States]
  <2>1. \A w \in 1 .. Count : voters[w].place \in [town : Towns, state : States]
    BY <1>1, VotersTypes DEF Voter
  <2>2. \A g \in geocoding : g \in [town : Towns, state : States]
    BY <1>1 DEF VotersTypeOK
  <2> QED BY <2>1, <2>2
<1>6. VotersTypeOK'
    BY <1>1, <1>2, <1>5 DEF VotersTypeOK, Count
<1>7. NoneTwice'
    BY DEF VotersInv, NoneTwice, WithKey, HereV, Count
<1>8. CopiesAreOfRows'
    BY <1>3, CopiesStay
<1>9. PlacesAreRight'
  <2>1. PlacesAreRight
    BY DEF VotersInv
  <2>2. Count' = Count
    BY DEF Count
  <2>3. \A row : PlacedRight(row) => PlacedRight(row)'
    BY <2>2 DEF PlacedRight
  <2>4. \A v \in 1 .. Count' : PlacedRight(voters[v])'
    BY <2>1, <2>2, <2>3 DEF PlacesAreRight
  <2>5. \A j \in VoterJobs : voterJob'[j].step \in {"move", "edit"} =>
                                PlacedRight(voterJob[j].copy)'
    BY <2>1, <2>3 DEF PlacesAreRight
  <2>6. \A place \in geocoding' : \E w \in 1 .. Count' : voters'[w].place = place
    BY <2>1, <2>2 DEF PlacesAreRight
  <2> QED BY <2>4, <2>5, <2>6 DEF PlacesAreRight
<1> QED BY <1>4, <1>6, <1>7, <1>8, <1>9, InvFrom

LEMMA ImportLeaderStep ==
    ASSUME VotersInv, NEW i \in Imports, ImportLeader(i)
    PROVE  VotersInv'
<1>1. VotersTypeOK
    BY DEF VotersInv
<1>2. PICK job, name, n, new :
         /\ job = import[i] /\ name = OfImport(i).leader /\ n = Len(leaderRow) + 1
         /\ new = [job EXCEPT !.leaderOf = [job.leaderOf EXCEPT ![name] = n]]
    OBVIOUS
<1>3. /\ Importing(i) /\ name # NoLeader /\ Len(leaderRow) < MaxLeaders
      /\ leaderRow' = Append(leaderRow, [name |-> name, count |-> 0])
      /\ import' = [import EXCEPT ![i].leaderOf[name] = n]
      /\ UNCHANGED <<voters, voterJob, geocoding, uncounted, crossed, work>>
    BY <1>2 DEF ImportLeader, NeedsLeader
<1>4. /\ job \in ImportState /\ job.at \in 1 .. Len(job.file) + 1 /\ Len(job.batch) <= BatchSize
      /\ job.step = "rows"
    BY <1>1, <1>2, <1>3, ImportTyped, OfImportIs DEF VotersTypeOK
<1>5. name \in LeaderNames
    BY <1>1, <1>2, <1>3, OfImportIs DEF Row
<1>6. /\ n \in 0 .. MaxLeaders /\ n <= MaxLeaders /\ MaxVoters \in Nat
      /\ leaderRow \in Seq([name : LeaderNames, count : 0 .. MaxVoters])
    BY <1>1, <1>2, <1>3, LeaderRows, VotersAssumption
<1>7. import' = [import EXCEPT ![i] = new]
    BY <1>1, <1>2, <1>3, <1>4 DEF VotersTypeOK, ImportState
<1>8. new \in ImportState
  <2>1. job.leaderOf \in [LeaderNames -> 0 .. MaxLeaders]
    BY <1>4 DEF ImportState
  <2>2. [job.leaderOf EXCEPT ![name] = n] \in [LeaderNames -> 0 .. MaxLeaders]
    BY <1>5, <1>6, <2>1
  <2> QED BY <1>2, <1>4, <2>2 DEF ImportState
<1>9. /\ new.file = job.file /\ new.at = job.at /\ new.index = job.index
      /\ new.batch = job.batch /\ new.imported = job.imported
      /\ new.skipped = job.skipped /\ new.duplicates = job.duplicates
      /\ new.helped = job.helped /\ new.unhelped = job.unhelped
      /\ new.since = job.since /\ new.mine = job.mine /\ new.step = job.step
    BY <1>2, <1>4 DEF ImportState
<1>10. import'[i] = new
    BY <1>1, <1>7 DEF VotersTypeOK
<1>11. ImportTells(i)'
    BY <1>2, <1>3, <1>9, <1>10, ImportSame
<1>12. /\ leaderRow' \in Seq([name : LeaderNames, count : 0 .. MaxVoters])
       /\ Len(leaderRow') <= MaxLeaders
  <2>1. PICK row : row = [name |-> name, count |-> 0]
    OBVIOUS
  <2>2. row \in [name : LeaderNames, count : 0 .. MaxVoters]
    BY <1>5, <1>6, <2>1
  <2>3. leaderRow' = Append(leaderRow, row)
    BY <1>3, <2>1
  <2>4. Len(leaderRow') = Len(leaderRow) + 1
    BY <1>6, <2>2, <2>3
  <2> QED BY <1>2, <1>6, <2>2, <2>3, <2>4
<1>13. CountsAreComing'
    BY <1>4, <1>9, <1>10 DEF CountsAreComing
<1>14. \A l \in uncounted' : l \in LeaderIds
    BY <1>1, <1>3 DEF VotersTypeOK
<1> QED BY <1>3, <1>4, <1>7, <1>8, <1>9, <1>11, <1>12, <1>13, <1>14, LeadersMove

LEMMA ImportEndsStep ==
    ASSUME VotersInv, NEW i \in Imports, ImportEnds(i)
    PROVE  VotersInv'
<1>1. VotersTypeOK
    BY DEF VotersInv
<1>2. PICK job, new, of :
         job = import[i] /\ new = [job EXCEPT !.step = "done"] /\ of = DOMAIN leaderRow
    OBVIOUS
<1>3. /\ job.step = "rows" /\ import' = [import EXCEPT ![i].step = "done"]
      /\ leaderRow' = Synced(leaderRow, of) /\ uncounted' = {}
      /\ geocoding' = geocoding \union {voters[v].place : v \in {w \in HereV : ~voters[w].placed}}
      /\ UNCHANGED <<voters, voterJob, crossed, work>>
    BY <1>2 DEF ImportEnds
<1>4. /\ job \in ImportState /\ job.at \in 1 .. Len(job.file) + 1 /\ Len(job.batch) <= BatchSize
    BY <1>1, <1>2, ImportTyped DEF VotersTypeOK
<1>5. import' = [import EXCEPT ![i] = new]
    BY <1>1, <1>2, <1>3, <1>4 DEF VotersTypeOK, ImportState
<1>6. new \in ImportState
    BY <1>2, <1>4 DEF ImportState
<1>7. /\ new.file = job.file /\ new.at = job.at /\ new.index = job.index
      /\ new.batch = job.batch /\ new.imported = job.imported
      /\ new.skipped = job.skipped /\ new.duplicates = job.duplicates
      /\ new.helped = job.helped /\ new.unhelped = job.unhelped
      /\ new.since = job.since /\ new.mine = job.mine /\ new.step = "done"
    BY <1>2, <1>4 DEF ImportState
<1>8. import'[i] = new
    BY <1>1, <1>5 DEF VotersTypeOK
<1>9. ImportTells(i)'
    BY <1>2, <1>3, <1>7, <1>8, ImportSame
<1>10. /\ leaderRow' \in Seq([name : LeaderNames, count : 0 .. MaxVoters])
       /\ Len(leaderRow') = Len(leaderRow) /\ DOMAIN leaderRow' = DOMAIN leaderRow
       /\ \A l \in DOMAIN leaderRow :
             /\ l \in of => leaderRow'[l].count = Cardinality(VotersOf(l))
             /\ l \notin of => leaderRow'[l] = leaderRow[l]
    BY <1>1, <1>3, SyncedIs
<1>11. CountsAreComing'
  <2>1. ASSUME NEW l \in DOMAIN leaderRow'
        PROVE  leaderRow'[l].count = Cardinality(VotersOf(l)')
    <3>1. VotersOf(l)' = VotersOf(l)
      BY <1>3 DEF VotersOf, HereV, Count
    <3> QED BY <1>2, <1>10, <2>1, <3>1
  <2> QED BY <2>1 DEF CountsAreComing
<1>12. \A place \in geocoding' :
          place \in geocoding \/ \E w \in 1 .. Count : voters[w].place = place
    BY <1>3 DEF HereV
<1>13. \A l \in uncounted' : l \in LeaderIds
    BY <1>3
<1>14. Len(leaderRow') <= MaxLeaders
    BY <1>1, <1>10 DEF VotersTypeOK
<1> QED BY <1>3, <1>4, <1>5, <1>6, <1>7, <1>9, <1>10, <1>11, <1>12, <1>13, <1>14, LeadersMove

LEMMA ImportFailsStep ==
    ASSUME VotersInv, NEW i \in Imports, ImportFails(i)
    PROVE  VotersInv'
<1>1. VotersTypeOK
    BY DEF VotersInv
<1>2. PICK job, new : job = import[i] /\ new = [job EXCEPT !.step = "failed"]
    OBVIOUS
<1>3. /\ import' = [import EXCEPT ![i].step = "failed"]
      /\ uncounted' = uncounted \union DOMAIN leaderRow
      /\ UNCHANGED <<voters, leaderRow, voterJob, geocoding, crossed, work>>
    BY DEF ImportFails
<1>4. /\ job \in ImportState /\ job.at \in 1 .. Len(job.file) + 1 /\ Len(job.batch) <= BatchSize
    BY <1>1, <1>2, ImportTyped DEF VotersTypeOK
<1>5. import' = [import EXCEPT ![i] = new]
    BY <1>1, <1>2, <1>3, <1>4 DEF VotersTypeOK, ImportState
<1>6. new \in ImportState
    BY <1>2, <1>4 DEF ImportState
<1>7. /\ new.file = job.file /\ new.at = job.at /\ new.index = job.index
      /\ new.batch = job.batch /\ new.imported = job.imported
      /\ new.skipped = job.skipped /\ new.duplicates = job.duplicates
      /\ new.helped = job.helped /\ new.unhelped = job.unhelped
      /\ new.since = job.since /\ new.mine = job.mine /\ new.step = "failed"
    BY <1>2, <1>4 DEF ImportState
<1>8. import'[i] = new
    BY <1>1, <1>5 DEF VotersTypeOK
<1>9. ImportTells(i)'
    BY <1>2, <1>3, <1>7, <1>8, ImportSame
<1>10. CountsAreComing'
    BY <1>3 DEF CountsAreComing
<1>11. \A l \in uncounted' : l \in LeaderIds
    BY <1>1, <1>3, LeaderRows DEF VotersTypeOK
<1>12. /\ leaderRow' \in Seq([name : LeaderNames, count : 0 .. MaxVoters])
       /\ Len(leaderRow') <= MaxLeaders
    BY <1>1, <1>3 DEF VotersTypeOK
<1> QED BY <1>3, <1>4, <1>5, <1>6, <1>7, <1>9, <1>10, <1>11, <1>12, LeadersMove

LEMMA GeocodeStep ==
    ASSUME VotersInv, NEW town, NEW found \in BOOLEAN, town \in geocoding, Geocode(town, found)
    PROVE  VotersInv'
<1>1. VotersTypeOK
    BY DEF VotersInv
<1>2. PICK those : those = {v \in HereV : ~voters[v].placed /\ voters[v].place.town = town.town}
    OBVIOUS
<1>3. /\ geocoding' = geocoding \ {town}
      /\ voters' = [v \in DOMAIN voters |->
                      IF found /\ v \in those
                      THEN [voters[v] EXCEPT !.placed = TRUE, !.found = town.state] ELSE voters[v]]
      /\ UNCHANGED <<leaderRow, import, voterJob, uncounted, crossed, work>>
    BY <1>2 DEF Geocode
<1>4. /\ town \in [town : Towns, state : States] /\ town.state \in States
      /\ voters \in Seq(Voter) /\ DOMAIN voters = 1 .. Count /\ Count \in Nat
      /\ Count = Len(voters) /\ Count <= MaxVoters
    BY <1>1, VotersTypes DEF VotersTypeOK
<1>5. ASSUME NEW v \in 1 .. Count
      PROVE  /\ voters'[v] \in Voter /\ voters'[v].here = voters[v].here
             /\ voters'[v].key = voters[v].key /\ voters'[v].spelled = voters[v].spelled
             /\ voters'[v].leader = voters[v].leader /\ voters'[v].place = voters[v].place
             /\ \/ voters'[v] = voters[v]
                \/ voters'[v].found = town.state /\ voters[v].place.town = town.town
  <2>1. voters[v] \in Voter
    BY <1>1, VotersTypes
  <2>2. CASE found /\ v \in those
    <3>1. voters'[v] = [voters[v] EXCEPT !.placed = TRUE, !.found = town.state]
      BY <1>3, <1>4, <2>2
    <3>2. voters[v].place.town = town.town
      BY <1>2, <2>2
    <3>3. PICK row, new : row = voters[v] /\ new = voters'[v]
      OBVIOUS
    <3>4. row \in Voter /\ new = [row EXCEPT !.placed = TRUE, !.found = town.state]
      BY <2>1, <3>1, <3>3
    <3>5. /\ new \in Voter /\ new.here = row.here /\ new.key = row.key
          /\ new.spelled = row.spelled /\ new.leader = row.leader /\ new.place = row.place
          /\ new.found = town.state
      BY <1>4, <3>4 DEF Voter
    <3> QED BY <3>2, <3>3, <3>5
  <2>3. CASE ~(found /\ v \in those)
    <3>1. voters'[v] = voters[v]
      BY <1>3, <1>4, <2>3
    <3> QED BY <2>1, <3>1
  <2> QED BY <2>2, <2>3
<1>6. /\ voters' \in Seq(Voter) /\ Len(voters') = Count
  <2>1. voters' \in [1 .. Count -> Voter]
    BY <1>3, <1>4, <1>5
  <2> QED BY <1>4, <2>1, SeqDef
<1>7. Count' = Count /\ Count' \in Nat /\ Count' <= MaxVoters
    BY <1>4, <1>6 DEF Count
<1>8. RowsKept /\ BackIsCrossed
  <2>1. \A v \in 1 .. Count : /\ voters'[v].key = voters[v].key
                              /\ voters'[v].spelled = voters[v].spelled
                              /\ voters'[v].place = voters[v].place
    BY <1>5
  <2>2. \A v \in 1 .. Count : voters'[v].here /\ ~voters[v].here => FALSE
    BY <1>5
  <2>3. RowsKept
    BY <1>4, <1>7, <2>1 DEF RowsKept
  <2>4. BackIsCrossed
    BY <1>3, <2>2 DEF BackIsCrossed
  <2> QED BY <2>3, <2>4
<1>9. \A m \in Imports : ImportTells(m)'
    BY <1>3, <1>8, OthersStay
<1>10. NoneTwice'
  <2>1. \A v \in 1 .. Count' : ~(v > Count)
    BY <1>4, <1>7
  <2> QED BY <1>8, <2>1, NoneTwiceThen
<1>11. CopiesAreOfRows'
    BY <1>3, <1>8, CopiesStay
<1>12. PlacesAreRight'
  <2>1. PlacesAreRight
    BY DEF VotersInv
  <2>2. \A row : PlacedRight(row) => PlacedNow(row)
    BY <1>1, <1>8, PlacedStays
  <2>3. ASSUME NEW v \in 1 .. Count PROVE PlacedNow(voters'[v])
    <3>1. CASE voters'[v] = voters[v]
      BY <2>1, <2>2, <3>1 DEF PlacesAreRight
    <3>2. CASE voters'[v].found = town.state /\ voters[v].place.town = town.town
      <4>1. PICK w \in 1 .. Count : voters[w].place = town
        BY <2>1 DEF PlacesAreRight
      <4>2. PICK place, new : place = voters[v].place /\ new = voters'[v]
        OBVIOUS
      <4>3. voters[v] \in Voter
        BY <1>1, VotersTypes
      <4>4. /\ place \in [town : Towns, state : States] /\ place.town = town.town
            /\ new.place = place /\ new.found = town.state
        BY <1>5, <3>2, <4>2, <4>3 DEF Voter
      <4>5. [place EXCEPT !.state = town.state] = town
        BY <1>4, <4>4
      <4>6. w \in 1 .. Count' /\ voters'[w].place = town
        BY <1>5, <1>7, <4>1
      <4> QED BY <4>2, <4>4, <4>5, <4>6 DEF PlacedNow
    <3> QED BY <1>5, <3>1, <3>2
  <2>4. \A v \in 1 .. Count' : PlacedRight(voters[v])'
    BY <1>7, <2>3 DEF PlacedNow, PlacedRight
  <2>5. ASSUME NEW j \in VoterJobs, voterJob'[j].step \in {"move", "edit"}
        PROVE  PlacedRight(voterJob[j].copy)'
    <3>1. PlacedNow(voterJob'[j].copy)
      BY <1>3, <2>1, <2>2, <2>5 DEF PlacesAreRight
    <3> QED BY <3>1 DEF PlacedNow, PlacedRight
  <2>6. ASSUME NEW place \in geocoding' PROVE \E w \in 1 .. Count' : voters'[w].place = place
    <3>1. \E w \in 1 .. Count : voters[w].place = place
      BY <1>3, <2>1, <2>6 DEF PlacesAreRight
    <3> QED BY <1>1, <1>8, <3>1, PlaceStays
  <2> QED BY <2>4, <2>5, <2>6 DEF PlacesAreRight
<1>13. CountsAreComing'
  <2>1. ASSUME NEW l PROVE VotersOf(l)' = VotersOf(l)
    <3>1. \A v : v \in VotersOf(l)' <=> v \in VotersOf(l)
      <4>1. SUFFICES ASSUME NEW v PROVE v \in VotersOf(l)' <=> v \in VotersOf(l)
        OBVIOUS
      <4>2. v \in VotersOf(l) <=> v \in 1 .. Count /\ voters[v].here /\ voters[v].leader = l
        BY DEF VotersOf, HereV
      <4>3. v \in VotersOf(l)' <=> v \in 1 .. Count' /\ voters'[v].here /\ voters'[v].leader = l
        BY DEF VotersOf, HereV
      <4> QED BY <1>5, <1>7, <4>2, <4>3
    <3> QED BY <3>1
  <2>2. \A j, l : WillCount(j, l)' <=> WillCount(j, l)
    BY <1>3 DEF WillCount
  <2>3. CountsAreComing
    BY DEF VotersInv
  <2> QED BY <1>3, <2>1, <2>2, <2>3 DEF CountsAreComing
<1>14. VotersTypeOK'
  <2>1. geocoding' \subseteq [town : Towns, state : States]
    BY <1>1, <1>3 DEF VotersTypeOK
  <2> QED BY <1>1, <1>3, <1>6, <1>7, <2>1 DEF VotersTypeOK
<1> QED BY <1>9, <1>10, <1>11, <1>12, <1>13, <1>14, InvFrom

LEMMA VotersInvInit == VotersInit => VotersInv
<1> SUFFICES ASSUME VotersInit PROVE VotersInv
    OBVIOUS
<1>1. PICK row, lead : /\ row = [NewVoter EXCEPT !.here = TRUE, !.leader = 1]
                       /\ lead = [name |-> CHOOSE n \in LeaderNames : TRUE, count |-> 1]
    OBVIOUS
<1>2. /\ leaderRow = <<lead>> /\ voters = <<row>> /\ import = [i \in Imports |-> IdleImport]
      /\ voterJob = [j \in VoterJobs |-> IdleVoterJob] /\ geocoding = {}
      /\ uncounted = {} /\ crossed = {} /\ work = 0
    BY <1>1 DEF VotersInit
<1>3. /\ MaxVoters \in Nat \ {0} /\ MaxLeaders \in Nat \ {0} /\ BatchSize \in Nat \ {0}
      /\ MaxWork \in Nat
    BY VotersAssumption
<1>4. row \in Voter /\ row.here /\ row.leader = 1 /\ row.found = row.place.state /\ row.key = NoKey
  <2>1. NewVoter \in Voter
    BY IdleJobIs
  <2>2. row \in Voter /\ row.here /\ row.leader = 1
    <3>1. PICK new : new = NewVoter
      OBVIOUS
    <3>2. new \in Voter /\ row = [new EXCEPT !.here = TRUE, !.leader = 1] /\ 1 \in 0 .. MaxLeaders
      BY <1>1, <1>3, <2>1, <3>1
    <3> QED BY ONLY <3>2 DEF Voter
  <2>3. row.found = NewVoter.found /\ row.place = NewVoter.place /\ row.key = NewVoter.key
    BY <1>1, <2>1 DEF Voter
  <2>4. NewVoter.found = NewVoter.place.state /\ NewVoter.key = NoKey
    BY DEF NewVoter
  <2> QED BY <2>2, <2>3, <2>4
<1>5. lead \in [name : LeaderNames, count : 0 .. MaxVoters] /\ lead.count = 1
  <2>1. (CHOOSE n \in LeaderNames : TRUE) \in LeaderNames
    BY VotersAssumption
  <2> QED BY <1>1, <1>3, <2>1
<1>6. /\ voters \in Seq(Voter) /\ Count = 1 /\ voters[1] = row
      /\ leaderRow \in Seq([name : LeaderNames, count : 0 .. MaxVoters])
      /\ Len(leaderRow) = 1 /\ leaderRow[1] = lead /\ DOMAIN leaderRow = 1 .. 1
    BY <1>2, <1>4, <1>5 DEF Count
<1>7. HereV = {1} /\ \A v \in 1 .. Count : v = 1
    BY <1>4, <1>6 DEF HereV
<1>8. IdleImport \in ImportState
  <2>1. [n \in LeaderNames |-> 0] \in [LeaderNames -> 0 .. MaxLeaders]
    BY <1>3
  <2>2. [k \in Keys |-> 0] \in [Keys -> 0 .. Pending] /\ 0 \in 0 .. MaxVoters
    BY <1>3 DEF Pending
  <2>3. <<>> \in Seq(Row) /\ <<>> \in Files \union {<<>>}
    OBVIOUS
  <2> QED BY <2>1, <2>2, <2>3 DEF IdleImport, ImportState
<1>9. /\ IdleImport.step = "idle" /\ IdleImport.at = 1 /\ IdleImport.batch = <<>>
      /\ IdleImport.mine = {} /\ IdleImport.since = 0 /\ IdleImport.imported = 0
      /\ IdleImport.skipped = 0 /\ IdleImport.duplicates = 0 /\ IdleImport.helped = 0
      /\ IdleImport.unhelped = 0 /\ IdleImport.file = <<>>
      /\ \A k \in Keys : IdleImport.index[k] = 0
    BY DEF IdleImport
<1>10. VotersTypeOK
  <2>1. import \in [Imports -> ImportState] /\ \A i \in Imports : import[i] = IdleImport
    BY <1>2, <1>8
  <2>2. voterJob \in [VoterJobs -> VoterJobState]
    BY <1>2, IdleJobIs
  <2>3. \A i \in Imports : /\ import[i].at \in 1 .. Len(import[i].file) + 1
                           /\ Len(import[i].batch) <= BatchSize
    BY <1>3, <1>9, <2>1
  <2>4. work \in 0 .. MaxWork /\ Count <= MaxVoters /\ Len(leaderRow) <= MaxLeaders
    BY <1>2, <1>3, <1>6
  <2> QED BY <1>2, <1>6, <2>1, <2>2, <2>3, <2>4 DEF VotersTypeOK
<1>11. ASSUME NEW i \in Imports
       PROVE  RowsCounted(i) /\ IndexTells(i) /\ HelpTells(i) /\ Done(i) = {}
  <2>1. import[i] = IdleImport
    BY <1>2
  <2>2. Done(i) = {}
    BY <1>9, <2>1 DEF Done
  <2>3. Len(import[i].batch) = 0 /\ DOMAIN import[i].batch = {}
    BY <1>9, <2>1
  <2>4. RowsCounted(i)
    <3>1. Cardinality(import[i].mine) = 0
      BY <1>9, <2>1, FS_EmptySet
    <3> QED BY <1>9, <2>1, <2>3, <3>1 DEF RowsCounted
  <2>5. 0 # Pending /\ 0 <= Count
    BY <1>3, <1>6 DEF Pending
  <2>6. IndexTells(i)
    BY <1>9, <2>1, <2>3, <2>5 DEF IndexTells
  <2>7. HelpTells(i)
    <3>1. Asked(i) = {}
      BY <2>2 DEF Asked
    <3>2. Cardinality(Asked(i)) = 0
      BY <3>1, FS_EmptySet
    <3> QED BY <1>9, <2>1, <3>2 DEF HelpTells
  <2> QED BY <2>2, <2>4, <2>6, <2>7
<1>12. RowsAreCounted
    BY <1>11 DEF RowsCounted, RowsAreCounted
<1>13. NamedRowsLand
    BY <1>11 DEF NamedRowsLand
<1>14. NoneTwice
    BY <1>7 DEF NoneTwice, WithKey
<1>15. CopiesAreOfRows
    BY <1>2, IdleJobIs DEF CopiesAreOfRows
<1>16. PlacesAreRight
  <2>1. \A v \in 1 .. Count : PlacedRight(voters[v])
    BY <1>4, <1>6, <1>7 DEF PlacedRight
  <2> QED BY <1>2, <2>1, IdleJobIs DEF PlacesAreRight
<1>17. CountsAreComing
  <2>1. ASSUME NEW l \in DOMAIN leaderRow PROVE leaderRow[l].count = Cardinality(VotersOf(l))
    <3>1. l = 1
      BY <1>6
    <3>2. VotersOf(l) = {1}
      BY <1>4, <1>6, <1>7, <3>1 DEF VotersOf
    <3>3. Cardinality(VotersOf(l)) = 1
      BY <3>2, FS_Singleton
    <3> QED BY <1>5, <1>6, <3>1, <3>3
  <2> QED BY <2>1 DEF CountsAreComing
<1> QED BY <1>10, <1>11, <1>12, <1>13, <1>14, <1>15, <1>16, <1>17 DEF VotersInv

LEMMA VotersInvStep ==
    ASSUME VotersInv, [VotersNext]_voterVars
    PROVE  VotersInv'
<1>1. CASE VotersNext
  <2>1. ASSUME NEW i \in Imports,
               \/ ImportIndex(i) \/ SkipUnnamed(i) \/ SkipDuplicate(i) \/ PutInBatch(i)
               \/ ImportLeader(i) \/ Flush(i) \/ HelpDuplicate(i) \/ HelpPending(i) \/ HelpNew(i)
               \/ ImportEnds(i) \/ ImportFails(i) \/ \E file \in Files : ImportStarts(i, file)
        PROVE  VotersInv'
    BY <2>1, ImportIndexStep, SkipUnnamedStep, SkipDuplicateStep, PutInBatchStep,
       ImportLeaderStep, FlushStep, HelpDuplicateStep, HelpPendingStep, HelpNewStep,
       ImportEndsStep, ImportFailsStep, ImportStartsStep
  <2>2. ASSUME NEW j \in VoterJobs,
               \/ FindVoter(j) \/ SaveVoter(j) \/ DeleteVoter(j) \/ SyncCount(j)
               \/ VoterJobFails(j)
               \/ \E k \in Keys \union {NoKey}, l \in 0 .. MaxLeaders, placed \in BOOLEAN :
                     CreateVoter(j, k, l, NoPlace, placed)
               \/ \E v \in VoterIds :
                     \/ RemoveVoter(j, v)
                     \/ \E names \in BOOLEAN, l \in 0 .. MaxLeaders : UpdateVoter(j, v, names, l)
        PROVE  VotersInv'
    BY <2>2, FindVoterStep, SaveVoterStep, DeleteVoterStep, SyncCountStep, VoterJobFailsStep,
       CreateVoterStep, RemoveVoterStep, UpdateVoterStep
  <2>3. ASSUME NEW town \in geocoding, NEW found \in BOOLEAN, Geocode(town, found)
        PROVE  VotersInv'
    BY <2>3, GeocodeStep
  <2> QED BY <1>1, <2>1, <2>2, <2>3 DEF VotersNext
<1>2. CASE UNCHANGED voterVars
  <2>1. UNCHANGED <<voters, leaderRow, import, voterJob, geocoding, uncounted, crossed, work>>
    BY <1>2 DEF voterVars
  <2>2. VotersTypeOK
    BY DEF VotersInv
  <2>3. RowsKept /\ BackIsCrossed
    BY <2>1, <2>2, VotersTypes DEF RowsKept, BackIsCrossed, Count
  <2>4. \A m \in Imports : ImportTells(m)'
    BY <2>1, <2>3, OthersStay
  <2>5. VotersTypeOK'
    BY <2>1, <2>2 DEF VotersTypeOK, Count
  <2>6. NoneTwice'
    BY <2>1 DEF VotersInv, NoneTwice, WithKey, HereV, Count
  <2>7. CopiesAreOfRows' /\ PlacesAreRight'
    BY <2>1 DEF VotersInv, CopiesAreOfRows, PlacesAreRight, PlacedRight, Count
  <2>8. CountsAreComing'
    <3>1. \A l : VotersOf(l)' = VotersOf(l)
      BY <2>1 DEF VotersOf, HereV, Count
    <3>2. \A j, l : WillCount(j, l)' <=> WillCount(j, l)
      BY <2>1 DEF WillCount
    <3>3. CountsAreComing
      BY DEF VotersInv
    <3> QED BY <2>1, <3>1, <3>2, <3>3 DEF CountsAreComing
  <2> QED BY <2>4, <2>5, <2>6, <2>7, <2>8, InvFrom
<1> QED BY <1>1, <1>2

LEMMA VotersFollow ==
    ASSUME VotersInv
    PROVE  VotersInOrder
<1>1. VotersTypeOK /\ RowsAreCounted /\ NamedRowsLand
    BY DEF VotersInv
<1>2. HelpIsCounted
  <2>1. ASSUME NEW i \in Imports, NEW n \in Asked(i), Excused(i, n)
        PROVE  \/ import[i].file[n].refused
               \/ \E m \in Done(i) : /\ SameKey(import[i].file[m], import[i].file[n])
                                     /\ \/ import[i].file[m].refused
                                        \/ import[i].file[m].spelled # import[i].file[n].spelled
               \/ \E v \in 1 .. Count : voters[v].key = import[i].file[n].key /\ ~voters[v].here
               \/ import[i].file[n].key \in crossed
    BY <2>1 DEF Excused, GoneOrCrossed
  <2>2. \A i \in Imports : HelpTells(i)
    BY DEF VotersInv
  <2> QED BY <2>1, <2>2 DEF HelpTells, HelpIsCounted, Asked
<1>3. DuplicatesHaveCause
  <2>1. SUFFICES ASSUME NEW k \in Keys, k \notin crossed PROVE ~(Cardinality(WithKey(k)) > 1)
    BY DEF DuplicatesHaveCause
  <2>2. \A v, w \in WithKey(k) : v = w
    BY <2>1 DEF VotersInv, NoneTwice
  <2>3. CASE WithKey(k) = {}
    <3>1. Cardinality(WithKey(k)) = 0
      BY <2>3, FS_EmptySet
    <3> QED BY <3>1
  <2>4. CASE WithKey(k) # {}
    <3>1. PICK v : WithKey(k) = {v}
      BY <2>2, <2>4
    <3>2. Cardinality(WithKey(k)) = 1
      BY <3>1, FS_Singleton
    <3> QED BY <3>2
  <2> QED BY <2>3, <2>4
<1>4. CountHasCause
    BY DEF VotersInv, CountsAreComing, CountHasCause, WillCount
<1>5. PlaceHasCause
    BY DEF VotersInv, PlacesAreRight, PlacedRight, PlaceHasCause, HereV
<1> QED BY <1>1, <1>2, <1>3, <1>4, <1>5 DEF VotersInOrder

\* The rows, the imports, the requests and the geocoding keep the invariant.
THEOREM VotersInvHolds == VotersSpec => []VotersInv
<1>1. VotersInv /\ [VotersNext]_voterVars => VotersInv'
    BY VotersInvStep
<1> QED BY <1>1, VotersInvInit, PTL DEF VotersSpec

\* Every row of a spreadsheet is counted once and lands, help records, duplicates, counts of
\* leaders and places all have the causes the properties name.
THEOREM VotersAlwaysInOrder == VotersSpec => []VotersInOrder
<1>1. VotersInv => VotersInOrder
    BY VotersFollow
<1> QED BY <1>1, VotersInvHolds, PTL

-----------------------------------------------------------------------------
(* VoterLists.tla: rows, and which voters a page shows. *)

LEMMA ListsTypes ==
    ASSUME ListsTypeOK
    PROVE  /\ voter \in [VoterNos -> VoterRow] /\ inserted \in 0 .. ListVoters
           /\ ListVoters \in Nat /\ PerPage \in Nat \ {0} /\ ListLeaders \in Nat
           /\ \A v \in VoterNos : v \in Nat /\ voter[v] \in VoterRow /\ voter[v].at \in Nat
           /\ Here \in SUBSET VoterNos /\ IsFiniteSet(VoterNos)
           /\ own.step \in {"idle", "edit", "remove"} /\ own.id \in VoterNos
           /\ own.leader \in LeaderNos
           /\ paging \in Paging /\ paging.page \in Nat
           /\ given \in [VoterNos -> Holders] /\ crossing \in SUBSET VoterNos
           /\ taken \in SUBSET (LeaderNos \X VoterNos)
<1>1. voter \in [VoterNos -> VoterRow] /\ inserted \in 0 .. ListVoters
    BY DEF ListsTypeOK
<1>2. ListVoters \in Nat /\ PerPage \in Nat \ {0} /\ ListLeaders \in Nat
    BY VoterListsAssumption
<1>3. \A v \in VoterNos : v \in Nat /\ voter[v] \in VoterRow
    BY <1>1, <1>2 DEF VoterNos
<1>4. \A v \in VoterNos : voter[v].at \in Nat
    BY <1>2, <1>3 DEF VoterRow
<1>5. Here \in SUBSET VoterNos
    BY DEF Here
<1>6. IsFiniteSet(VoterNos)
    BY <1>2, FS_Interval DEF VoterNos
<1>7. /\ own.step \in {"idle", "edit", "remove"} /\ own.id \in VoterNos
      /\ own.leader \in LeaderNos
    BY DEF ListsTypeOK
<1>8. paging \in Paging /\ paging.page \in Nat
    BY DEF ListsTypeOK, Paging
<1>9. /\ given \in [VoterNos -> Holders] /\ crossing \in SUBSET VoterNos
      /\ taken \in SUBSET (LeaderNos \X VoterNos)
    BY DEF ListsTypeOK
<1> QED BY <1>1, <1>2, <1>3, <1>4, <1>5, <1>6, <1>7, <1>8, <1>9

(* A query shows a voter that has no equal if fewer come before it than it asks for. *)
LEMMA FirstsAre ==
    ASSUME ListsTypeOK, NEW vs \in SUBSET VoterNos, NEW n \in Nat, NEW first \in Firsts(vs, n),
           NEW v \in vs, \A w \in vs : voter[w].at = voter[v].at => w = v
    PROVE  /\ first \in SUBSET vs
           /\ v \in first <=> Cardinality(Newer(vs, v)) < n
           /\ v \notin first => Cardinality(first) = n /\ first \in SUBSET Newer(vs, v)
<1>1. /\ first \in SUBSET vs /\ Cardinality(first) = Min({n, Cardinality(vs)})
      /\ \A w \in first, u \in vs \ first : voter[w].at >= voter[u].at
    BY DEF Firsts
<1>2. IsFiniteSet(vs) /\ IsFiniteSet(first) /\ IsFiniteSet(Newer(vs, v))
  <2>1. IsFiniteSet(vs)
    BY ListsTypes, FS_Subset
  <2>2. Newer(vs, v) \in SUBSET vs
    BY DEF Newer
  <2> QED BY <1>1, <2>1, <2>2, FS_Subset
<1>3. PICK all, rank, size : all = Cardinality(vs) /\ rank = Cardinality(Newer(vs, v))
                             /\ size = Cardinality(first)
    OBVIOUS
<1>4. all \in Nat /\ rank \in Nat /\ size \in Nat
    BY <1>2, <1>3, FS_CardinalityType
<1>5. size = IF n <= all THEN n ELSE all
    BY <1>1, <1>3, <1>4 DEF Min
<1>6. \A w \in vs : voter[w].at \in Nat
    BY ListsTypes
<1>7. CASE v \in first
  <2>1. Newer(vs, v) \in SUBSET (first \ {v})
    <3>1. \A w \in Newer(vs, v) : w \in vs /\ voter[w].at > voter[v].at
      BY DEF Newer
    <3>2. \A w \in Newer(vs, v) : w \in first /\ w # v
      BY <1>1, <1>6, <1>7, <3>1
    <3> QED BY <3>2
  <2>2. IsFiniteSet(first \ {v}) /\ Cardinality(first \ {v}) = size - 1
    BY <1>2, <1>3, <1>7, FS_RemoveElement
  <2>3. rank <= size - 1
    BY <1>3, <2>1, <2>2, FS_Subset
  <2>4. rank < n
    BY ONLY <1>4, <1>5, <2>3, n \in Nat
  <2> QED BY <1>1, <1>3, <1>7, <2>4
<1>8. CASE v \notin first
  <2>1. first \in SUBSET Newer(vs, v)
    <3>1. \A w \in first : w \in vs /\ voter[w].at >= voter[v].at /\ voter[w].at # voter[v].at
      BY <1>1, <1>8
    <3>2. \A w \in first : voter[w].at > voter[v].at
      BY <1>6, <3>1
    <3> QED BY <3>1, <3>2 DEF Newer
  <2>2. size # all
    BY <1>1, <1>2, <1>3, <1>8, FS_Subset
  <2>3. size = n
    BY <1>5, <2>2
  <2>4. size <= rank
    BY <1>2, <1>3, <2>1, FS_Subset
  <2>5. ~(rank < n)
    BY ONLY <1>4, <2>3, <2>4
  <2> QED BY <1>1, <1>3, <1>8, <2>1, <2>3, <2>5
<1> QED BY <1>7, <1>8

(* A page shows such a voter if as many come before it as the pages before it have. *)
LEMMA PageIs ==
    ASSUME ListsTypeOK, NEW vs \in SUBSET VoterNos, NEW b \in Nat, NEW k \in Nat,
           NEW before \in Firsts(vs, b), NEW data \in Firsts(vs \ before, k),
           NEW v \in vs, \A w \in vs : voter[w].at = voter[v].at => w = v
    PROVE  /\ Cardinality(Newer(vs, v)) \in Nat
           /\ v \in data <=> /\ b <= Cardinality(Newer(vs, v))
                             /\ Cardinality(Newer(vs, v)) < b + k
<1>1. PICK rank : rank = Cardinality(Newer(vs, v))
    OBVIOUS
<1>2. IsFiniteSet(Newer(vs, v)) /\ rank \in Nat
  <2>1. IsFiniteSet(vs)
    BY ListsTypes, FS_Subset
  <2>2. Newer(vs, v) \in SUBSET vs
    BY DEF Newer
  <2>3. IsFiniteSet(Newer(vs, v))
    BY <2>1, <2>2, FS_Subset
  <2> QED BY <1>1, <2>3, FS_CardinalityType
<1>3. /\ v \in before <=> rank < b
      /\ v \notin before => Cardinality(before) = b /\ before \in SUBSET Newer(vs, v)
    BY <1>1, FirstsAre
<1>4. CASE v \in before
  <2>1. v \notin data
    BY <1>4 DEF Firsts
  <2>2. ~(b <= rank)
    BY ONLY <1>2, <1>3, <1>4, b \in Nat
  <2> QED BY <1>1, <1>2, <2>1, <2>2
<1>5. CASE v \notin before
  <2>1. PICK rest : rest = vs \ before
    OBVIOUS
  <2>2. rest \in SUBSET VoterNos /\ v \in rest
        /\ \A w \in rest : voter[w].at = voter[v].at => w = v
    BY <1>5, <2>1
  <2>3. v \in data <=> Cardinality(Newer(rest, v)) < k
    BY <2>1, <2>2, FirstsAre
  <2>4. Newer(rest, v) = Newer(vs, v) \ before
    BY <2>1 DEF Newer
  <2>5. Cardinality(Newer(vs, v) \ before) = rank - b
    <3>1. Newer(vs, v) \intersect before = before
      BY <1>3, <1>5
    <3>2. Cardinality(Newer(vs, v) \ before)
             = Cardinality(Newer(vs, v)) - Cardinality(Newer(vs, v) \intersect before)
      BY <1>2, FS_Difference
    <3> QED BY <1>1, <1>3, <1>5, <3>1, <3>2
  <2>6. b <= rank
    BY ONLY <1>2, <1>3, <1>5, b \in Nat
  <2>7. v \in data <=> rank - b < k
    BY <2>3, <2>4, <2>5
  <2>8. rank - b < k <=> rank < b + k
    BY <1>2
  <2> QED BY <1>1, <1>2, <2>6, <2>7, <2>8
<1> QED BY <1>4, <1>5

(* The rows of some pages, and of one more. *)
LEMMA RowsOfPages ==
    ASSUME NEW full \in Nat, NEW size \in Nat
    PROVE  (full + 1) * size = full * size + size /\ full * size \in Nat
OBVIOUS

(* A page is got: the pages gone through still show the voters that come first. *)
LEMMA GotPage ==
    ASSUME ListsInv, NEW scope \in Scopes, NEW wanted \in SUBSET LeaderNos,
           GetPage(scope, wanted, paging.page + 1), UNCHANGED voter
    PROVE  /\ paging' \in Paging /\ \A s \in paging.seen' : s[2] \in 1 .. paging.page'
           /\ paging.step' = "count" /\ paging.page' = paging.page + 1
           /\ paging.scope' = scope /\ paging.wanted' = wanted
           /\ \A v \in ListOf(scope, wanted) :
                 /\ \A w \in ListOf(scope, wanted) : voter[w].at = voter[v].at => w = v
                 /\ (\E s \in paging.seen : s[1] = v)
                       <=> Cardinality(Newer(ListOf(scope, wanted), v)) < paging.page * PerPage
                 /\ \A s, t \in paging.seen : s[1] = v /\ t[1] = v => s = t
                 => /\ (\E s \in paging.seen' : s[1] = v)
                          <=> Cardinality(Newer(ListOf(scope, wanted), v))
                                 < paging.page' * PerPage
                    /\ \A s, t \in paging.seen' : s[1] = v /\ t[1] = v => s = t
<1>1. PICK vs, p, k, seen : /\ vs = ListOf(scope, wanted) /\ p = paging.page /\ k = PerPage
                            /\ seen = paging.seen
    OBVIOUS
<1>2. ListsTypeOK
    BY DEF ListsInv
<1>3. /\ p \in Nat /\ k \in Nat \ {0} /\ paging \in Paging
      /\ \A s \in seen : s \in VoterNos \X Nat /\ s[2] \in 1 .. p
    BY <1>1, <1>2, ListsTypes DEF ListsTypeOK, Paging
<1>4. PICK next, b : next = p + 1 /\ b = Skipped(next)
    OBVIOUS
<1>5. next \in Nat \ {0} /\ b = p * k /\ b \in Nat /\ next * k = b + k
  <2>1. b = (next - 1) * k
    BY <1>1, <1>4 DEF Skipped
  <2>2. next - 1 = p /\ next \in Nat \ {0} /\ next = p + 1
    BY ONLY <1>3, <1>4
  <2>3. (p + 1) * k = p * k + k /\ p * k \in Nat
    BY <1>3, RowsOfPages
  <2> QED BY ONLY <2>1, <2>2, <2>3
<1>6. vs \in SUBSET VoterNos
    BY <1>1 DEF ListOf, Scoped, Here
<1>17. GetPage(scope, wanted, next)
    BY <1>1, <1>4
<1>7. PICK before \in Firsts(vs, b) : \E data \in Firsts(vs \ before, k) :
          paging' = [step |-> "count", scope |-> scope, wanted |-> wanted, page |-> next,
                     seen |-> seen \union {<<v, next>> : v \in data}, total |-> paging.total]
    BY ONLY <1>1, <1>4, <1>17 DEF GetPage
<1>8. PICK data \in Firsts(vs \ before, k) :
          paging' = [step |-> "count", scope |-> scope, wanted |-> wanted, page |-> next,
                     seen |-> seen \union {<<v, next>> : v \in data}, total |-> paging.total]
    BY <1>7
<1>9. PICK new : new = seen \union {<<v, next>> : v \in data}
    OBVIOUS
<1>10. /\ paging.step' = "count" /\ paging.scope' = scope /\ paging.wanted' = wanted
       /\ paging.page' = next /\ paging.seen' = new /\ paging.total' = paging.total
       /\ paging' = [step |-> "count", scope |-> scope, wanted |-> wanted, page |-> next,
                     seen |-> new, total |-> paging.total]
    BY <1>8, <1>9
<1>11. data \in SUBSET vs
    BY DEF Firsts
<1>12. \A s \in new : s \in VoterNos \X Nat /\ s[2] \in 1 .. next
  <2>1. ASSUME NEW s \in new PROVE s \in VoterNos \X Nat /\ s[2] \in 1 .. next
    <3>1. CASE s \in seen
      <4>1. s \in VoterNos \X Nat /\ s[2] \in 1 .. p
        BY <1>3, <3>1
      <4> QED BY <1>3, <1>4, <4>1
    <3>2. CASE s \notin seen
      <4>1. PICK v \in data : s = <<v, next>>
        BY <1>9, <3>2
      <4> QED BY <1>5, <1>6, <1>11, <4>1
    <3> QED BY <3>1, <3>2
  <2> QED BY <2>1
<1>13. paging' \in Paging
  <2>1. new \in SUBSET (VoterNos \X Nat) /\ paging.total \in 0 .. ListVoters
    BY <1>3, <1>12 DEF Paging
  <2> QED BY <1>5, <1>10, <2>1 DEF Paging
<1>14. ASSUME NEW v \in vs, \A w \in vs : voter[w].at = voter[v].at => w = v,
              (\E s \in seen : s[1] = v) <=> Cardinality(Newer(vs, v)) < p * k,
              \A s, t \in seen : s[1] = v /\ t[1] = v => s = t
       PROVE  /\ (\E s \in new : s[1] = v) <=> Cardinality(Newer(vs, v)) < next * k
              /\ \A s, t \in new : s[1] = v /\ t[1] = v => s = t
  <2>1. PICK rank : rank = Cardinality(Newer(vs, v))
    OBVIOUS
  <2>2. rank \in Nat /\ (v \in data <=> b <= rank /\ rank < b + k)
    <3>1. before \in Firsts(vs, b) /\ data \in Firsts(vs \ before, k) /\ v \in vs /\ k \in Nat
      BY <1>3
    <3>2. \A w \in vs : voter[w].at = voter[v].at => w = v
      BY <1>14
    <3>3. /\ Cardinality(Newer(vs, v)) \in Nat
          /\ v \in data <=> /\ b <= Cardinality(Newer(vs, v))
                            /\ Cardinality(Newer(vs, v)) < b + k
      <4>1. b \in Nat
        BY <1>5
      <4> QED BY ONLY <1>2, <1>6, <3>1, <3>2, <4>1, PageIs, Zenon
    <3> QED BY ONLY <2>1, <3>3
  <2>3. \A s \in new : s[1] = v /\ s \notin seen => v \in data /\ s = <<v, next>>
    BY <1>9
  <2>4. v \in data => <<v, next>> \in new /\ <<v, next>>[1] = v
    BY <1>9
  <2>5. \A s \in seen : s \in new
    BY <1>9
  <2>6. (\E s \in seen : s[1] = v) <=> rank < b
    BY <1>5, <1>14, <2>1
  <2>7. (\E s \in new : s[1] = v) <=> (\E s \in seen : s[1] = v) \/ v \in data
    BY <2>3, <2>4, <2>5
  <2>8. (\E s \in new : s[1] = v) <=> rank < b + k
    <3>1. rank < b => rank < b + k
      BY ONLY <1>3, <1>5, <2>2
    <3>2. rank < b + k => rank < b \/ b <= rank
      BY ONLY <1>3, <1>5, <2>2
    <3> QED BY <2>2, <2>6, <2>7, <3>1, <3>2
  <2>9. ~(rank < b /\ b <= rank)
    BY ONLY <1>5, <2>2
  <2>10. ~((\E s \in seen : s[1] = v) /\ v \in data)
    BY <2>2, <2>6, <2>9
  <2>11. \A s, t \in new : s[1] = v /\ t[1] = v => s = t
    BY <1>14, <2>3, <2>10
  <2> QED BY <1>5, <2>1, <2>8, <2>11
<1>15. \A s \in paging.seen' : s[2] \in 1 .. paging.page'
    BY <1>10, <1>12
<1>16. \A v \in vs :
          /\ \A w \in vs : voter[w].at = voter[v].at => w = v
          /\ (\E s \in seen : s[1] = v) <=> Cardinality(Newer(vs, v)) < p * k
          /\ \A s, t \in seen : s[1] = v /\ t[1] = v => s = t
          => /\ (\E s \in new : s[1] = v) <=> Cardinality(Newer(vs, v)) < next * k
             /\ \A s, t \in new : s[1] = v /\ t[1] = v => s = t
    BY <1>14
<1> QED BY <1>1, <1>4, <1>10, <1>13, <1>15, <1>16

(* What follows of the pages. *)
LEMMA PagesFollow == ListsInv => PagesShowEachOnce
<1> SUFFICES ASSUME ListsInv PROVE PagesShowEachOnce
    OBVIOUS
<1> SUFFICES ASSUME paging.step = "shown", ~fewer,
                    NEW v \in ListOf(paging.scope, paging.wanted), ~grown,
                    \A w \in ListOf(paging.scope, paging.wanted) :
                       voter[w].at = voter[v].at => w = v
             PROVE  /\ paging.page * PerPage >= paging.total =>
                          Cardinality({s \in paging.seen : s[1] = v}) # 0
                    /\ ~(Cardinality({s \in paging.seen : s[1] = v}) > 1)
    BY DEF PagesShowEachOnce
<1>1. PICK vs, times : /\ vs = ListOf(paging.scope, paging.wanted)
                       /\ times = {s \in paging.seen : s[1] = v}
    OBVIOUS
<1>2. vs \in SUBSET VoterNos /\ IsFiniteSet(vs)
  <2>1. vs \in SUBSET VoterNos
    BY <1>1 DEF ListOf, Scoped, Here
  <2> QED BY <2>1, ListsTypes, FS_Subset DEF ListsInv
<1>3. IsFiniteSet(times)
  <2>1. paging \in Paging /\ \A s \in paging.seen : s[2] \in 1 .. paging.page
    BY DEF ListsInv, ListsTypeOK
  <2>2. IsFiniteSet(VoterNos) /\ IsFiniteSet(1 .. paging.page)
    <3>1. IsFiniteSet(VoterNos) /\ paging.page \in Int
      BY ListsTypes DEF ListsInv
    <3> QED BY <3>1, FS_Interval
  <2>3. IsFiniteSet(VoterNos \X (1 .. paging.page))
    BY <2>2, FS_Product
  <2>4. times \in SUBSET (VoterNos \X (1 .. paging.page))
    BY <1>1, <2>1 DEF Paging
  <2> QED BY <2>3, <2>4, FS_Subset
<1>4. /\ (\E s \in paging.seen : s[1] = v) <=> Cardinality(Newer(vs, v)) < paging.page * PerPage
      /\ \A s, t \in paging.seen : s[1] = v /\ t[1] = v => s = t
      /\ paging.total = Cardinality(vs)
    BY <1>1 DEF ListsInv, PagesAreFirst
<1>5. ~(Cardinality(times) > 1)
  <2>1. CASE times = {}
    BY <2>1, FS_EmptySet
  <2>2. CASE times # {}
    <3>1. PICK s \in times : TRUE
      BY <2>2
    <3>2. times = {s}
      BY <1>1, <1>4, <3>1
    <3>3. Cardinality(times) = 1
      BY <3>2, FS_Singleton
    <3> QED BY <3>3
  <2> QED BY <2>1, <2>2
<1>6. ASSUME paging.page * PerPage >= paging.total PROVE Cardinality(times) # 0
  <2>1. PICK rank, all, far : /\ rank = Cardinality(Newer(vs, v)) /\ all = Cardinality(vs)
                              /\ far = paging.page * PerPage
    OBVIOUS
  <2>2. far \in Nat
    BY <2>1, ListsTypes DEF ListsInv
  <2>3. v \notin Newer(vs, v) /\ Newer(vs, v) \in SUBSET vs
    <3>1. voter[v].at \in Nat
      BY <1>1, <1>2, ListsTypes DEF ListsInv
    <3> QED BY <3>1 DEF Newer
  <2>4. IsFiniteSet(Newer(vs, v)) /\ rank <= all /\ rank # all
    BY <1>1, <1>2, <2>1, <2>3, FS_Subset
  <2>5. rank \in Nat /\ all \in Nat
    BY <1>2, <2>1, <2>4, FS_CardinalityType
  <2>6. rank < far
    BY ONLY <1>4, <1>6, <2>1, <2>2, <2>4, <2>5
  <2>7. times # {}
    BY <1>1, <1>4, <2>1, <2>6
  <2> QED BY <1>3, <2>7, FS_EmptySet
<1> QED BY <1>1, <1>5, <1>6

-----------------------------------------------------------------------------
(* What a step leaves as it was. *)

LEMMA PagesStay ==
    ASSUME ListsInv, UNCHANGED <<asks, paging, fewer, grown>>, 
           \A v \in VoterNos : /\ voter'[v].here = voter[v].here
                               /\ voter'[v].leader = voter[v].leader
                               /\ voter'[v].at = voter[v].at
    PROVE  PagesAreFirst'
<1>1. PICK vs : vs = ListOf(paging.scope, paging.wanted)
    OBVIOUS
<1>2. vs \in SUBSET VoterNos
    BY <1>1 DEF ListOf, Scoped, Here
<1>3. Here' = Here
    BY DEF Here
<1>4. ListOf(paging.scope, paging.wanted)' = vs
  <2>1. \A v \in Here : voter'[v].leader = voter[v].leader
    BY DEF Here
  <2> QED BY <1>1, <1>3, <2>1 DEF ListOf, Scoped
<1>5. \A v \in vs : Newer(vs, v)' = Newer(vs, v)
    BY <1>2 DEF Newer
<1>6. PagesAreFirst
    BY DEF ListsInv
<1>7. \A v, w \in vs : voter'[w].at = voter'[v].at <=> voter[w].at = voter[v].at
    BY <1>2
<1>8. /\ paging.step # "none" => asks' = "pages"
      /\ paging.step = "none" => paging = NoPages
      /\ paging.step = "shown" /\ ~fewer /\ ~grown => paging.total = Cardinality(vs)
    BY <1>1, <1>6 DEF PagesAreFirst
<1>9. ASSUME paging.step # "none", ~fewer, ~grown, NEW v \in vs,
             \A w \in vs : voter'[w].at = voter'[v].at => w = v
      PROVE  /\ (\E s \in paging.seen : s[1] = v)
                   <=> Cardinality(Newer(vs, v)') < paging.page * PerPage
             /\ \A s, t \in paging.seen : s[1] = v /\ t[1] = v => s = t
  <2>1. \A w \in vs : voter[w].at = voter[v].at => w = v
    BY <1>7, <1>9
  <2> QED BY <1>1, <1>5, <1>6, <1>9, <2>1 DEF PagesAreFirst
<1> QED BY <1>4, <1>8, <1>9 DEF PagesAreFirst

LEMMA PagesOver ==
    ASSUME ListsInv, UNCHANGED <<asks, paging>>,
           fewer' = TRUE \/ grown' = TRUE \/ paging.step = "none"
    PROVE  PagesAreFirst'
  BY DEF ListsInv, PagesAreFirst

LEMMA OwnStays ==
    ASSUME ListsInv, UNCHANGED <<asks, inserted, own, given, crossing, taken>>,
           \A v \in VoterNos : /\ voter'[v].here = voter[v].here
                               /\ voter'[v].leader = voter[v].leader
    PROVE  OwnRequests' /\ LeaderTouchesOwn'
<1>1. Here' = Here
    BY DEF Here
<1>2. \A v \in Here : voter'[v].leader = voter[v].leader
    BY DEF Here
<1> QED BY <1>1, <1>2 DEF ListsInv, OwnRequests, LeaderTouchesOwn

-----------------------------------------------------------------------------
(* The office. *)

LEMMA InsertVotersStep ==
    ASSUME ListsInv, NEW n \in 1 .. 2, NEW l \in Holders,
           NEW h \in Neighborhoods \union {NoHood}, InsertVoters(n, l, h)
    PROVE  ListsInv'
<1>1. PICK new, first : new = inserted + 1 .. inserted + n /\ first = inserted + 1
    OBVIOUS
<1>2. ListsTypeOK /\ OwnRequests /\ LeaderTouchesOwn
    BY DEF ListsInv
<1>3. /\ inserted \in 0 .. ListVoters /\ inserted' = inserted + n /\ inserted + n <= ListVoters
      /\ ListVoters \in Nat
      /\ UNCHANGED <<asks, leaders, own, paging, fewer, crossing, taken, changes>>
      /\ grown' = TRUE
    BY <1>2, ListsTypes DEF InsertVoters
<1>4. PICK row : row = [here |-> TRUE, leader |-> l, at |-> first, hood |-> h, placed |-> FALSE]
    OBVIOUS
<1>5. first \in 0 .. ListVoters /\ row \in VoterRow /\ row.leader = l
  <2>1. first \in 0 .. ListVoters
    BY <1>1, <1>3
  <2> QED BY <1>4, <2>1 DEF VoterRow
<1>6. /\ voter' = [v \in VoterNos |-> IF v \in new THEN row ELSE voter[v]]
      /\ given' = [v \in VoterNos |-> IF v \in new THEN l ELSE given[v]]
    BY <1>1, <1>4 DEF InsertVoters
<1>7. voter' \in [VoterNos -> VoterRow] /\ given' \in [VoterNos -> Holders]
    BY <1>2, <1>5, <1>6, ListsTypes
<1>8. inserted' \in 0 .. ListVoters /\ inserted <= inserted'
    BY <1>3
<1>9. ListsTypeOK'
    BY <1>2, <1>3, <1>7, <1>8 DEF ListsTypeOK
<1>10. \A v \in VoterNos : v \in new <=> ~(v <= inserted) /\ v <= inserted'
    BY <1>1, <1>3 DEF VoterNos
<1>11. \A v \in VoterNos : v <= inserted => voter'[v] = voter[v] /\ given'[v] = given[v]
    BY <1>6, <1>10
<1>12. \A v \in Here' : v \in new \/ v \in Here
    BY <1>6 DEF Here
<1>13. \A v \in VoterNos : v <= inserted => v <= inserted'
    BY <1>3, <1>8 DEF VoterNos
<1>14. OwnRequests'
  <2>1. \A v \in Here' : v <= inserted'
    <3>1. \A v \in Here' : v \in VoterNos
      BY DEF Here
    <3>2. \A v \in Here : v <= inserted
      BY <1>2 DEF OwnRequests
    <3> QED BY <1>10, <1>12, <1>13, <3>1, <3>2
  <2>2. own.step # "idle" => /\ asks = "requests" /\ own.id <= inserted'
                             /\ given'[own.id] = own.leader \/ own.id \in crossing
    <3>1. own.id \in VoterNos
      BY <1>2, ListsTypes
    <3> QED BY <1>2, <1>11, <1>13, <3>1 DEF OwnRequests
  <2>3. \A t \in taken : t[2] <= inserted' /\ t[2] \notin Here'
    <3>1. ASSUME NEW t \in taken PROVE t[2] <= inserted' /\ t[2] \notin Here'
      <4>1. t[2] \in VoterNos
        BY <1>2, ListsTypes
      <4>2. t[2] <= inserted /\ t[2] \notin Here
        BY <1>2 DEF OwnRequests
      <4> QED BY <1>10, <1>12, <1>13, <4>1, <4>2
    <3> QED BY <3>1
  <2> QED BY <1>3, <2>1, <2>2, <2>3 DEF OwnRequests
<1>15. LeaderTouchesOwn'
  <2>1. ASSUME NEW v \in Here', voter'[v].leader # given'[v] PROVE v \in crossing
    <3>1. v \in VoterNos
      BY DEF Here
    <3>2. v \notin new
      BY <1>5, <1>6, <2>1, <3>1
    <3>3. v \in Here /\ voter'[v] = voter[v] /\ given'[v] = given[v]
      BY <1>6, <1>12, <3>1, <3>2
    <3> QED BY <1>2, <2>1, <3>3 DEF LeaderTouchesOwn
  <2>2. ASSUME NEW m \in LeaderNos, NEW v \in VoterNos, <<m, v>> \in taken, given'[v] # m
        PROVE  v \in crossing
    <3>1. v <= inserted
      <4>1. PICK t \in taken : t = <<m, v>>
        BY <2>2
      <4>2. t[2] = v
        BY <4>1
      <4> QED BY <1>2, <4>2 DEF OwnRequests
    <3>2. given'[v] = given[v]
      BY <1>11, <3>1
    <3> QED BY <1>2, <2>2, <3>2 DEF LeaderTouchesOwn
  <2> QED BY <1>3, <2>1, <2>2 DEF LeaderTouchesOwn
<1> QED BY <1>3, <1>9, <1>14, <1>15, PagesOver DEF ListsInv

LEMMA MoveListedStep ==
    ASSUME ListsInv, NEW v \in VoterNos, NEW l \in Holders, MoveListed(v, l)
    PROVE  ListsInv'
<1>1. ListsTypeOK /\ OwnRequests /\ LeaderTouchesOwn
    BY DEF ListsInv
<1>2. /\ v \in Here /\ voter' = [voter EXCEPT ![v].leader = l]
      /\ given' = [given EXCEPT ![v] = l] /\ fewer' = TRUE
      /\ crossing' = IF own.step # "idle" /\ own.id = v THEN crossing \union {v} ELSE crossing
      /\ UNCHANGED <<asks, inserted, leaders, own, paging, grown, taken>>
      /\ changes < MaxChanges /\ changes' = changes + 1
    BY DEF MoveListed, Changes
<1>3. PICK row : row = [voter[v] EXCEPT !.leader = l]
    OBVIOUS
<1>4. row \in VoterRow /\ row.leader = l /\ row.here
  <2>1. voter[v] \in VoterRow
    BY <1>1, ListsTypes
  <2> QED BY <1>2, <1>3, <2>1 DEF VoterRow, Here
<1>5. voter' = [voter EXCEPT ![v] = row]
    BY <1>2, <1>3
<1>6. /\ voter' \in [VoterNos -> VoterRow] /\ voter'[v] = row
      /\ \A w \in VoterNos \ {v} : voter'[w] = voter[w]
      /\ given' \in [VoterNos -> Holders] /\ given'[v] = l
      /\ \A w \in VoterNos \ {v} : given'[w] = given[w]
    BY <1>1, <1>2, <1>4, <1>5, ListsTypes
<1>7. /\ crossing' \in SUBSET VoterNos /\ \A w \in crossing : w \in crossing'
      /\ own.step # "idle" /\ own.id = v => v \in crossing'
    BY <1>1, <1>2, ListsTypes
<1>8. ListsTypeOK'
  <2>1. changes' \in 0 .. MaxChanges
    <3>1. changes \in 0 .. MaxChanges /\ MaxChanges \in Nat
      BY <1>1, VoterListsAssumption DEF ListsTypeOK
    <3> QED BY ONLY <1>2, <3>1
  <2>2. fewer' \in BOOLEAN /\ crossing' \subseteq VoterNos
    BY <1>2, <1>7
  <2> QED BY <1>1, <1>2, <1>6, <2>1, <2>2 DEF ListsTypeOK
<1>9. Here' = Here
  <2>1. \A w \in VoterNos : voter'[w].here <=> voter[w].here
    <3>1. voter[v].here /\ voter'[v].here
      BY <1>2, <1>4, <1>6 DEF Here
    <3> QED BY <1>6, <3>1
  <2> QED BY <2>1 DEF Here
<1>10. OwnRequests'
  <2>1. own.step # "idle" => given'[own.id] = own.leader \/ own.id \in crossing'
    <3>1. own.id \in VoterNos
      BY <1>1, ListsTypes
    <3> QED BY <1>1, <1>6, <1>7, <3>1 DEF OwnRequests
  <2> QED BY <1>1, <1>2, <1>9, <2>1 DEF OwnRequests
<1>11. LeaderTouchesOwn'
  <2>1. ASSUME NEW w \in Here, voter'[w].leader # given'[w] PROVE w \in crossing'
    <3>1. w \in VoterNos /\ w # v
      BY <1>4, <1>6, <2>1 DEF Here
    <3> QED BY <1>1, <1>6, <1>7, <2>1, <3>1 DEF LeaderTouchesOwn
  <2>2. ASSUME NEW m \in LeaderNos, NEW w \in VoterNos, <<m, w>> \in taken, given'[w] # m
        PROVE  w \in crossing'
    <3>1. w # v
      <4>1. PICK t \in taken : t = <<m, w>>
        BY <2>2
      <4>2. t[2] = w /\ t[2] \notin Here
        BY <1>1, <4>1 DEF OwnRequests
      <4> QED BY <1>2, <4>2
    <3> QED BY <1>1, <1>6, <1>7, <2>2, <3>1 DEF LeaderTouchesOwn
  <2> QED BY <1>2, <1>9, <2>1, <2>2 DEF LeaderTouchesOwn
<1> QED BY <1>2, <1>8, <1>10, <1>11, PagesOver DEF ListsInv

(* A voter's row is gone: those that are left are as they were. *)
LEMMA VoterGone ==
    ASSUME ListsTypeOK, NEW v \in VoterNos, voter' = [voter EXCEPT ![v].here = FALSE]
    PROVE  /\ voter' \in [VoterNos -> VoterRow] /\ Here' = Here \ {v}
           /\ \A w \in Here' : voter'[w] = voter[w]
<1>1. PICK row : row = [voter[v] EXCEPT !.here = FALSE]
    OBVIOUS
<1>2. row \in VoterRow /\ ~row.here
  <2>1. voter[v] \in VoterRow
    BY ListsTypes
  <2> QED BY <1>1, <2>1 DEF VoterRow
<1>3. /\ voter' = [voter EXCEPT ![v] = row] /\ voter \in [VoterNos -> VoterRow]
    BY <1>1, ListsTypes
<1>4. /\ voter' \in [VoterNos -> VoterRow] /\ voter'[v] = row
      /\ \A w \in VoterNos \ {v} : voter'[w] = voter[w]
    BY <1>2, <1>3
<1>5. Here' = Here \ {v}
    BY <1>2, <1>4 DEF Here
<1> QED BY <1>4, <1>5 DEF Here

LEMMA RemoveListedStep ==
    ASSUME ListsInv, NEW v \in VoterNos, RemoveListed(v)
    PROVE  ListsInv'
<1>1. ListsTypeOK /\ OwnRequests /\ LeaderTouchesOwn
    BY DEF ListsInv
<1>2. /\ voter' = [voter EXCEPT ![v].here = FALSE] /\ fewer' = TRUE
      /\ UNCHANGED <<asks, inserted, leaders, own, paging, grown, given, crossing, taken>>
      /\ changes < MaxChanges /\ changes' = changes + 1
    BY DEF RemoveListed, Changes, history
<1>3. /\ voter' \in [VoterNos -> VoterRow] /\ Here' = Here \ {v}
      /\ \A w \in Here' : voter'[w] = voter[w]
    BY <1>1, <1>2, VoterGone
<1>4. ListsTypeOK'
  <2>1. changes' \in 0 .. MaxChanges
    <3>1. changes \in 0 .. MaxChanges /\ MaxChanges \in Nat
      BY <1>1, VoterListsAssumption DEF ListsTypeOK
    <3> QED BY ONLY <1>2, <3>1
  <2> QED BY <1>1, <1>2, <1>3, <2>1 DEF ListsTypeOK
<1>5. OwnRequests' /\ LeaderTouchesOwn'
    BY <1>1, <1>2, <1>3 DEF OwnRequests, LeaderTouchesOwn
<1> QED BY <1>2, <1>4, <1>5, PagesOver DEF ListsInv

LEMMA RemoveLeaderStep ==
    ASSUME ListsInv, NEW l \in LeaderNos, RemoveLeader(l)
    PROVE  ListsInv'
<1>1. ListsTypeOK
    BY DEF ListsInv
<1>2. /\ leaders' = leaders \ {l}
      /\ UNCHANGED <<asks, voter, inserted, own, paging, fewer, grown, given, crossing, taken>>
      /\ changes < MaxChanges /\ changes' = changes + 1
    BY DEF RemoveLeader, Changes, history, pages
<1>3. ListsTypeOK'
  <2>1. changes' \in 0 .. MaxChanges
    <3>1. changes \in 0 .. MaxChanges /\ MaxChanges \in Nat
      BY <1>1, VoterListsAssumption DEF ListsTypeOK
    <3> QED BY ONLY <1>2, <3>1
  <2> QED BY <1>1, <1>2, <2>1 DEF ListsTypeOK
<1> QED BY <1>2, <1>3, OwnStays, PagesStay DEF ListsInv

LEMMA PlaceHoodStep ==
    ASSUME ListsInv, NEW h \in Neighborhoods, PlaceHood(h)
    PROVE  ListsInv'
<1>1. ListsTypeOK
    BY DEF ListsInv
<1>2. /\ voter' = [v \in VoterNos |-> IF v \in GeocodePending /\ voter[v].hood = h
                                      THEN [voter[v] EXCEPT !.placed = TRUE] ELSE voter[v]]
      /\ UNCHANGED <<asks, inserted, leaders, own, paging, fewer, grown, given, crossing, taken>>
      /\ changes < MaxChanges /\ changes' = changes + 1
    BY DEF PlaceHood, Changes, history, pages
<1>3. ASSUME NEW v \in VoterNos
      PROVE  /\ voter'[v] \in VoterRow /\ voter'[v].here = voter[v].here
             /\ voter'[v].leader = voter[v].leader /\ voter'[v].at = voter[v].at
  <2>1. PICK row : row = [voter[v] EXCEPT !.placed = TRUE]
    OBVIOUS
  <2>2. voter[v] \in VoterRow
    BY <1>1, ListsTypes
  <2>3. /\ row \in VoterRow /\ row.here = voter[v].here
        /\ row.leader = voter[v].leader /\ row.at = voter[v].at
    BY <2>1, <2>2 DEF VoterRow
  <2>4. voter'[v] = row \/ voter'[v] = voter[v]
    BY <1>2, <2>1
  <2> QED BY <2>2, <2>3, <2>4
<1>4. voter' \in [VoterNos -> VoterRow]
    BY <1>2, <1>3
<1>5. ListsTypeOK'
  <2>1. changes' \in 0 .. MaxChanges
    <3>1. changes \in 0 .. MaxChanges /\ MaxChanges \in Nat
      BY <1>1, VoterListsAssumption DEF ListsTypeOK
    <3> QED BY ONLY <1>2, <3>1
  <2> QED BY <1>1, <1>2, <1>4, <2>1 DEF ListsTypeOK
<1> QED BY <1>2, <1>3, <1>5, OwnStays, PagesStay DEF ListsInv

-----------------------------------------------------------------------------
(* Requests of a leader. *)

LEMMA LeaderAsksStep ==
    ASSUME ListsInv, NEW l \in LeaderNos, NEW v \in VoterNos, NEW step \in {"edit", "remove"},
           LeaderAsks(l, v, step)
    PROVE  ListsInv'
<1>1. ListsTypeOK /\ OwnRequests /\ LeaderTouchesOwn
    BY DEF ListsInv
<1>2. /\ own' = [step |-> step, id |-> v, leader |-> l] /\ v \in OwnVoters(l)
      /\ asks = "requests"
      /\ UNCHANGED <<asks, voter, inserted, leaders, paging, fewer, grown, given, crossing,
                     taken, changes>>
    BY DEF LeaderAsks, history, pages
<1>3. v \in Here /\ voter[v].leader = l
  <2>1. l # NoScope
    BY VoterListsAssumption DEF NoScope, LeaderNos
  <2> QED BY <1>2, <2>1 DEF OwnVoters, Scoped
<1>4. given[v] = l \/ v \in crossing
    BY <1>1, <1>3 DEF LeaderTouchesOwn
<1>5. /\ own'.step = step /\ own'.id = v /\ own'.leader = l
      /\ own' \in [step : {"idle", "edit", "remove"}, id : VoterNos, leader : LeaderNos]
    BY <1>2
<1>6. ListsTypeOK'
    BY <1>1, <1>2, <1>5 DEF ListsTypeOK
<1>7. Here' = Here
    BY <1>2 DEF Here
<1>8. OwnRequests'
    BY <1>1, <1>2, <1>3, <1>4, <1>5, <1>7 DEF OwnRequests
<1>9. LeaderTouchesOwn'
    BY <1>1, <1>2, <1>7 DEF LeaderTouchesOwn
<1> QED BY <1>2, <1>6, <1>8, <1>9, PagesStay DEF ListsInv

(* The pages are of another behaviour than the requests. *)
LEMMA NoPagesOfRequests ==
    ASSUME ListsInv, own.step # "idle"
    PROVE  paging.step = "none"
  BY DEF ListsInv, OwnRequests, PagesAreFirst

LEMMA NoRequestIs == ASSUME ListsTypeOK
    PROVE /\ NoRequest \in [step : {"idle", "edit", "remove"}, id : VoterNos, leader : LeaderNos]
          /\ NoRequest.step = "idle"
  BY VoterListsAssumption DEF NoRequest, VoterNos, LeaderNos

LEMMA LeaderSavesStep ==
    ASSUME ListsInv, LeaderSaves
    PROVE  ListsInv'
<1>1. ListsTypeOK /\ OwnRequests /\ LeaderTouchesOwn
    BY DEF ListsInv
<1>2. /\ own.step = "edit" /\ own' = NoRequest
      /\ voter' = IF own.id \in Here THEN [voter EXCEPT ![own.id].leader = own.leader] ELSE voter
      /\ UNCHANGED <<asks, inserted, leaders, paging, fewer, grown, given, crossing, taken,
                     changes>>
    BY DEF LeaderSaves, history, pages
<1>3. PICK v, l : v = own.id /\ l = own.leader
    OBVIOUS
<1>4. v \in VoterNos /\ l \in LeaderNos /\ (given[v] = l \/ v \in crossing)
    BY <1>1, <1>2, <1>3, ListsTypes DEF OwnRequests
<1>5. PICK row : row = [voter[v] EXCEPT !.leader = l]
    OBVIOUS
<1>6. row \in VoterRow /\ row.leader = l /\ row.here = voter[v].here
  <2>1. voter[v] \in VoterRow
    BY <1>1, <1>4, ListsTypes
  <2>2. l \in Holders
    BY <1>4 DEF Holders
  <2> QED BY <1>5, <2>1, <2>2 DEF VoterRow
<1>7. voter' = IF v \in Here THEN [voter EXCEPT ![v] = row] ELSE voter
    BY <1>2, <1>3, <1>5
<1>8. /\ voter' \in [VoterNos -> VoterRow]
      /\ v \in Here => voter'[v] = row
      /\ \A w \in VoterNos \ {v} : voter'[w] = voter[w]
      /\ v \notin Here => voter' = voter
    BY <1>1, <1>4, <1>6, <1>7, ListsTypes
<1>9. Here' = Here
  <2>1. \A w \in VoterNos : voter'[w].here = voter[w].here
    BY <1>6, <1>8
  <2> QED BY <2>1 DEF Here
<1>10. ListsTypeOK'
    BY <1>1, <1>2, <1>8, NoRequestIs DEF ListsTypeOK
<1>11. OwnRequests'
    BY <1>1, <1>2, <1>9, NoRequestIs DEF OwnRequests
<1>12. LeaderTouchesOwn'
  <2>1. ASSUME NEW w \in Here, voter'[w].leader # given[w] PROVE w \in crossing
    <3>1. CASE w = v
      BY <1>4, <1>6, <1>8, <2>1, <3>1
    <3>2. CASE w # v
      BY <1>1, <1>8, <2>1, <3>2 DEF LeaderTouchesOwn, Here
    <3> QED BY <3>1, <3>2
  <2> QED BY <1>1, <1>2, <1>9, <2>1 DEF LeaderTouchesOwn
<1>13. paging.step = "none"
    BY <1>2, NoPagesOfRequests
<1> QED BY <1>2, <1>10, <1>11, <1>12, <1>13, PagesOver DEF ListsInv

LEMMA LeaderDeletesStep ==
    ASSUME ListsInv, LeaderDeletes
    PROVE  ListsInv'
<1>1. ListsTypeOK /\ OwnRequests /\ LeaderTouchesOwn
    BY DEF ListsInv
<1>2. /\ own.step = "remove" /\ own' = NoRequest
      /\ voter' = [voter EXCEPT ![own.id].here = FALSE]
      /\ taken' = IF own.id \in Here THEN taken \union {<<own.leader, own.id>>} ELSE taken
      /\ UNCHANGED <<asks, inserted, leaders, paging, fewer, grown, given, crossing, changes>>
    BY DEF LeaderDeletes, pages
<1>3. PICK v, l : v = own.id /\ l = own.leader
    OBVIOUS
<1>4. /\ v \in VoterNos /\ l \in LeaderNos /\ (given[v] = l \/ v \in crossing)
      /\ v <= inserted
    BY <1>1, <1>2, <1>3, ListsTypes DEF OwnRequests
<1>5. /\ voter' \in [VoterNos -> VoterRow] /\ Here' = Here \ {v}
      /\ \A w \in Here' : voter'[w] = voter[w]
    BY <1>1, <1>2, <1>3, <1>4, VoterGone
<1>6. \A t \in taken' : t \in taken \/ t = <<l, v>>
    BY <1>2, <1>3
<1>7. taken' \in SUBSET (LeaderNos \X VoterNos)
    BY <1>1, <1>4, <1>6, ListsTypes
<1>8. ListsTypeOK'
    BY <1>1, <1>2, <1>5, <1>7, NoRequestIs DEF ListsTypeOK
<1>9. OwnRequests'
  <2>1. \A t \in taken' : t[2] <= inserted /\ t[2] \notin Here'
    <3>1. ASSUME NEW t \in taken' PROVE t[2] <= inserted /\ t[2] \notin Here'
      <4>1. CASE t \in taken
        BY <1>1, <1>5, <4>1 DEF OwnRequests
      <4>2. CASE t = <<l, v>>
        BY <1>4, <1>5, <4>2
      <4> QED BY <1>6, <4>1, <4>2
    <3> QED BY <3>1
  <2>2. \A w \in Here' : w <= inserted
    BY <1>1, <1>5 DEF OwnRequests
  <2> QED BY <1>2, <2>1, <2>2, NoRequestIs, <1>1 DEF OwnRequests
<1>10. LeaderTouchesOwn'
  <2>1. ASSUME NEW w \in Here', voter'[w].leader # given[w] PROVE w \in crossing
    BY <1>1, <1>5, <2>1 DEF LeaderTouchesOwn
  <2>2. ASSUME NEW m \in LeaderNos, NEW w \in VoterNos, <<m, w>> \in taken', given[w] # m
        PROVE  w \in crossing
    <3>1. CASE <<m, w>> \in taken
      BY <1>1, <2>2, <3>1 DEF LeaderTouchesOwn
    <3>2. CASE <<m, w>> \notin taken
      <4>1. m = l /\ w = v
        BY <1>6, <2>2, <3>2
      <4> QED BY <1>4, <2>2, <4>1
    <3> QED BY <3>1, <3>2
  <2> QED BY <1>2, <2>1, <2>2 DEF LeaderTouchesOwn
<1>11. paging.step = "none"
    BY <1>2, NoPagesOfRequests
<1> QED BY <1>2, <1>8, <1>9, <1>10, <1>11, PagesOver DEF ListsInv

-----------------------------------------------------------------------------
(* Pages. *)

LEMMA FirstPageStep ==
    ASSUME ListsInv, NEW scope \in Scopes, NEW wanted \in SUBSET LeaderNos,
           FirstPage(scope, wanted)
    PROVE  ListsInv'
<1>1. ListsTypeOK /\ PagesAreFirst
    BY DEF ListsInv
<1>2. /\ asks = "pages" /\ paging.step = "none" /\ GetPage(scope, wanted, 1)
      /\ fewer' = FALSE /\ grown' = FALSE
      /\ UNCHANGED <<asks, voter, inserted, leaders, own, given, crossing, taken, changes>>
    BY DEF FirstPage, history
<1>3. paging.page = 0 /\ paging.seen = {}
    BY <1>1, <1>2 DEF PagesAreFirst, NoPages
<1>4. paging.page + 1 = 1
    BY <1>3
<1>5. PICK vs : vs = ListOf(scope, wanted)
    OBVIOUS
<1>6. /\ paging' \in Paging /\ \A s \in paging.seen' : s[2] \in 1 .. paging.page'
      /\ paging.step' = "count" /\ paging.scope' = scope /\ paging.wanted' = wanted
      /\ \A v \in vs :
            /\ \A w \in vs : voter[w].at = voter[v].at => w = v
            /\ (\E s \in paging.seen : s[1] = v)
                  <=> Cardinality(Newer(vs, v)) < paging.page * PerPage
            /\ \A s, t \in paging.seen : s[1] = v /\ t[1] = v => s = t
            => /\ (\E s \in paging.seen' : s[1] = v)
                     <=> Cardinality(Newer(vs, v)) < paging.page' * PerPage
               /\ \A s, t \in paging.seen' : s[1] = v /\ t[1] = v => s = t
    BY <1>2, <1>4, <1>5, GotPage
<1>7. ASSUME NEW v \in vs, \A w \in vs : voter[w].at = voter[v].at => w = v
      PROVE  /\ (\E s \in paging.seen' : s[1] = v)
                   <=> Cardinality(Newer(vs, v)) < paging.page' * PerPage
             /\ \A s, t \in paging.seen' : s[1] = v /\ t[1] = v => s = t
  <2>1. ~(Cardinality(Newer(vs, v)) < paging.page * PerPage)
    <3>1. vs \in SUBSET VoterNos
      BY <1>5 DEF ListOf, Scoped, Here
    <3>2. Newer(vs, v) \in SUBSET VoterNos
      BY <3>1 DEF Newer
    <3>3. IsFiniteSet(Newer(vs, v))
      BY <1>1, <3>2, ListsTypes, FS_Subset
    <3>4. Cardinality(Newer(vs, v)) \in Nat
      BY <3>3, FS_CardinalityType
    <3>5. paging.page * PerPage = 0
      BY <1>3, VoterListsAssumption
    <3> QED BY <3>4, <3>5
  <2>2. /\ ~(\E s \in paging.seen : s[1] = v)
        /\ \A s, t \in paging.seen : s[1] = v /\ t[1] = v => s = t
    BY <1>3
  <2> QED BY <1>6, <1>7, <2>1, <2>2
<1>8. ListOf(paging.scope, paging.wanted)' = vs
    BY <1>2, <1>5, <1>6 DEF ListOf, Scoped, Here
<1>9. \A v \in vs : Newer(vs, v)' = Newer(vs, v)
    BY <1>2 DEF Newer
<1>10. PagesAreFirst'
    BY <1>2, <1>6, <1>7, <1>8, <1>9 DEF PagesAreFirst
<1>11. ListsTypeOK'
    BY <1>1, <1>2, <1>6 DEF ListsTypeOK
<1> QED BY <1>2, <1>10, <1>11, OwnStays DEF ListsInv

LEMMA NextPageStep ==
    ASSUME ListsInv, NextPage
    PROVE  ListsInv'
<1>1. ListsTypeOK /\ PagesAreFirst
    BY DEF ListsInv
<1>2. PICK scope, wanted : scope = paging.scope /\ wanted = paging.wanted
    OBVIOUS
<1>3. /\ paging.step = "shown" /\ GetPage(scope, wanted, paging.page + 1)
      /\ UNCHANGED <<asks, voter, inserted, leaders, own, fewer, grown, given, crossing, taken,
                     changes>>
    BY <1>2 DEF NextPage, history
<1>4. scope \in Scopes /\ wanted \in SUBSET LeaderNos
    BY <1>1, <1>2 DEF ListsTypeOK, Paging
<1>5. PICK vs : vs = ListOf(scope, wanted)
    OBVIOUS
<1>6. /\ paging' \in Paging /\ \A s \in paging.seen' : s[2] \in 1 .. paging.page'
      /\ paging.step' = "count" /\ paging.scope' = scope /\ paging.wanted' = wanted
      /\ \A v \in vs :
            /\ \A w \in vs : voter[w].at = voter[v].at => w = v
            /\ (\E s \in paging.seen : s[1] = v)
                  <=> Cardinality(Newer(vs, v)) < paging.page * PerPage
            /\ \A s, t \in paging.seen : s[1] = v /\ t[1] = v => s = t
            => /\ (\E s \in paging.seen' : s[1] = v)
                     <=> Cardinality(Newer(vs, v)) < paging.page' * PerPage
               /\ \A s, t \in paging.seen' : s[1] = v /\ t[1] = v => s = t
    BY <1>3, <1>4, <1>5, GotPage
<1>7. ASSUME ~fewer, ~grown, NEW v \in vs, \A w \in vs : voter[w].at = voter[v].at => w = v
      PROVE  /\ (\E s \in paging.seen' : s[1] = v)
                   <=> Cardinality(Newer(vs, v)) < paging.page' * PerPage
             /\ \A s, t \in paging.seen' : s[1] = v /\ t[1] = v => s = t
  <2>1. /\ (\E s \in paging.seen : s[1] = v)
              <=> Cardinality(Newer(vs, v)) < paging.page * PerPage
        /\ \A s, t \in paging.seen : s[1] = v /\ t[1] = v => s = t
    BY <1>1, <1>2, <1>3, <1>5, <1>7 DEF PagesAreFirst
  <2> QED BY <1>6, <1>7, <2>1
<1>8. ListOf(paging.scope, paging.wanted)' = vs
    BY <1>3, <1>5, <1>6 DEF ListOf, Scoped, Here
<1>9. \A v \in vs : Newer(vs, v)' = Newer(vs, v)
    BY <1>3 DEF Newer
<1>10. asks' = "pages"
    BY <1>1, <1>3 DEF PagesAreFirst
<1>11. PagesAreFirst'
    BY <1>3, <1>6, <1>7, <1>8, <1>9, <1>10 DEF PagesAreFirst
<1>12. ListsTypeOK'
    BY <1>1, <1>3, <1>6 DEF ListsTypeOK
<1> QED BY <1>3, <1>11, <1>12, OwnStays DEF ListsInv

LEMMA CountPagesStep ==
    ASSUME ListsInv, CountPages
    PROVE  ListsInv'
<1>1. ListsTypeOK /\ PagesAreFirst
    BY DEF ListsInv
<1>2. PICK vs, n : vs = ListOf(paging.scope, paging.wanted) /\ n = Cardinality(vs)
    OBVIOUS
<1>3. /\ paging.step = "count" /\ paging' = [paging EXCEPT !.step = "shown", !.total = n]
      /\ UNCHANGED <<asks, voter, inserted, leaders, own, fewer, grown, given, crossing, taken,
                     changes>>
    BY <1>2 DEF CountPages, history
<1>4. vs \in SUBSET VoterNos
    BY <1>2 DEF ListOf, Scoped, Here
<1>5. n \in 0 .. ListVoters
  <2>1. ListVoters \in Nat /\ IsFiniteSet(VoterNos)
    BY <1>1, ListsTypes
  <2>2. Cardinality(VoterNos) = ListVoters
    BY <2>1, FS_Interval, VoterListsAssumption DEF VoterNos
  <2>3. IsFiniteSet(vs) /\ n <= Cardinality(VoterNos)
    BY <1>2, <1>4, <2>1, FS_Subset
  <2>4. n \in Nat
    BY <1>2, <2>3, FS_CardinalityType
  <2> QED BY <2>1, <2>2, <2>3, <2>4
<1>6. /\ paging' \in Paging /\ paging'.step = "shown" /\ paging'.total = n
      /\ paging'.scope = paging.scope /\ paging'.wanted = paging.wanted
      /\ paging'.page = paging.page /\ paging'.seen = paging.seen
  <2>1. paging \in Paging
    BY <1>1 DEF ListsTypeOK
  <2> QED BY <1>3, <1>5, <2>1 DEF Paging
<1>7. ListOf(paging.scope, paging.wanted)' = vs
    BY <1>2, <1>3, <1>6 DEF ListOf, Scoped, Here
<1>8. \A v \in vs : Newer(vs, v)' = Newer(vs, v)
    BY <1>3 DEF Newer
<1>9. asks' = "pages"
    BY <1>1, <1>3 DEF PagesAreFirst
<1>10. ASSUME ~fewer, ~grown, NEW v \in vs, \A w \in vs : voter[w].at = voter[v].at => w = v
       PROVE  /\ (\E s \in paging.seen : s[1] = v)
                    <=> Cardinality(Newer(vs, v)) < paging.page * PerPage
              /\ \A s, t \in paging.seen : s[1] = v /\ t[1] = v => s = t
    BY <1>1, <1>2, <1>3, <1>10 DEF PagesAreFirst
<1>11. PagesAreFirst'
    BY <1>2, <1>3, <1>6, <1>7, <1>8, <1>9, <1>10 DEF PagesAreFirst
<1>12. ListsTypeOK'
    BY <1>1, <1>3, <1>6 DEF ListsTypeOK
<1> QED BY <1>3, <1>11, <1>12, OwnStays DEF ListsInv

-----------------------------------------------------------------------------
(* The invariant, and what the run checks of it. *)

LEMMA ListsInvInit == ListsInit => ListsInv
<1> SUFFICES ASSUME ListsInit PROVE ListsInv
    OBVIOUS
<1>1. /\ asks \in {"pages", "requests"}
      /\ voter = [v \in VoterNos |-> Nobody] /\ inserted = 0 /\ leaders = LeaderNos
      /\ own = NoRequest /\ paging = NoPages /\ fewer = FALSE /\ grown = FALSE
      /\ given = [v \in VoterNos |-> 0] /\ crossing = {} /\ taken = {} /\ changes = 0
    BY DEF ListsInit
<1>2. Nobody \in VoterRow /\ ~Nobody.here
  <2>1. 0 \in 0 .. ListVoters /\ 0 \in Holders
    BY VoterListsAssumption DEF Holders
  <2> QED BY <2>1 DEF Nobody, VoterRow
<1>3. Here = {}
    BY <1>1, <1>2 DEF Here
<1>4. /\ NoRequest \in [step : {"idle", "edit", "remove"}, id : VoterNos, leader : LeaderNos]
      /\ NoRequest.step = "idle"
    BY VoterListsAssumption DEF NoRequest, VoterNos, LeaderNos
<1>5. NoPages \in Paging /\ NoPages.step = "none" /\ NoPages.seen = {}
  <2>1. 0 \in 0 .. ListVoters
    BY VoterListsAssumption
  <2> QED BY <2>1 DEF NoPages, Paging, Scopes
<1>6. ListsTypeOK
  <2>1. voter \in [VoterNos -> VoterRow]
    BY <1>1, <1>2
  <2>2. 0 \in 0 .. ListVoters /\ 0 \in 0 .. MaxChanges
    BY VoterListsAssumption
  <2>3. given \in [VoterNos -> Holders]
    BY <1>1 DEF Holders
  <2> QED BY <1>1, <1>4, <1>5, <2>1, <2>2, <2>3 DEF ListsTypeOK
<1>7. OwnRequests
    BY <1>1, <1>3, <1>4 DEF OwnRequests
<1>8. LeaderTouchesOwn
    BY <1>1, <1>3 DEF LeaderTouchesOwn
<1>9. PagesAreFirst
    BY <1>1, <1>5 DEF PagesAreFirst
<1> QED BY <1>6, <1>7, <1>8, <1>9 DEF ListsInv

LEMMA ListsInvStep == ListsInv /\ [ListsNext]_listVars => ListsInv'
<1> SUFFICES ASSUME ListsInv, [ListsNext]_listVars PROVE ListsInv'
    OBVIOUS
<1>1. CASE LeaderSaves
    BY <1>1, LeaderSavesStep
<1>2. CASE LeaderDeletes
    BY <1>2, LeaderDeletesStep
<1>3. CASE CountPages
    BY <1>3, CountPagesStep
<1>4. CASE NextPage
    BY <1>4, NextPageStep
<1>5. ASSUME NEW n \in 1 .. 2, NEW l \in Holders, NEW h \in Neighborhoods \union {NoHood},
             InsertVoters(n, l, h)
      PROVE  ListsInv'
    BY <1>5, InsertVotersStep
<1>6. ASSUME NEW h \in Neighborhoods, PlaceHood(h) PROVE ListsInv'
    BY <1>6, PlaceHoodStep
<1>7. ASSUME NEW l \in LeaderNos, RemoveLeader(l) PROVE ListsInv'
    BY <1>7, RemoveLeaderStep
<1>8. ASSUME NEW v \in VoterNos, RemoveListed(v) PROVE ListsInv'
    BY <1>8, RemoveListedStep
<1>9. ASSUME NEW v \in VoterNos, NEW l \in Holders, MoveListed(v, l) PROVE ListsInv'
    BY <1>9, MoveListedStep
<1>10. ASSUME NEW v \in VoterNos, NEW l \in LeaderNos, NEW step \in {"edit", "remove"},
              LeaderAsks(l, v, step)
       PROVE  ListsInv'
    BY <1>10, LeaderAsksStep
<1>11. CASE FirstPage(NoScope, {}) \/ FirstPage(NoScope, {1}) \/ FirstPage(1, {})
  <2>1. 1 \in LeaderNos
    BY VoterListsAssumption DEF LeaderNos
  <2>2. /\ NoScope \in Scopes /\ 1 \in Scopes
        /\ {} \in SUBSET LeaderNos /\ {1} \in SUBSET LeaderNos
    BY <2>1 DEF Scopes
  <2> QED BY <1>11, <2>2, FirstPageStep
<1>12. CASE UNCHANGED listVars
  <2>1. UNCHANGED <<asks, voter, inserted, leaders, own, paging, fewer, grown, given, crossing,
                    taken, changes>>
    BY <1>12 DEF listVars
  <2>2. ListsTypeOK'
    BY <2>1 DEF ListsInv, ListsTypeOK
  <2> QED BY <2>1, <2>2, OwnStays, PagesStay DEF ListsInv
<1> QED BY <1>1, <1>2, <1>3, <1>4, <1>5, <1>6, <1>7, <1>8, <1>9, <1>10, <1>11, <1>12
        DEF ListsNext

(* The scope of a leader, in each of the queries. *)
LEMMA ScopeFollows == ListsTypeOK => ScopeHolds
<1> SUFFICES ASSUME ListsTypeOK PROVE ScopeHolds
    OBVIOUS
<1>1. \A v \in Here : voter[v].leader \in Holders
    BY ListsTypes DEF VoterRow
<1>2. NoScope \notin LeaderNos /\ NoLeaderId \notin Holders /\ NoScope # NoLeaderId
    BY VoterListsAssumption DEF NoScope, NoLeaderId, LeaderNos, Holders
<1>3. ASSUME NEW scope \in Scopes, NEW wanted \in {{}, {1}}
      PROVE  /\ scope \in LeaderNos =>
                  /\ \A v \in ListOf(scope, wanted) \union Heatmap(scope) :
                        voter[v].leader = scope
                  /\ DOMAIN Ranking(scope) \subseteq {scope}
             /\ DOMAIN Spreadsheet(scope, wanted) = ListOf(scope, wanted)
             /\ ListStats(scope, wanted).total = Cardinality(ListOf(scope, wanted))
             /\ wanted = {} => ListStats(scope, wanted).of = ByHood(scope)
             /\ scope = NoLeaderId => ListOf(scope, wanted) \union Heatmap(scope) = {}
  <2>1. scope # NoScope => \A v \in Scoped(Here, scope) : v \in Here /\ voter[v].leader = scope
    BY DEF Scoped
  <2>2. /\ \A v \in ListOf(scope, wanted) : v \in Scoped(Here, scope)
        /\ \A v \in Heatmap(scope) : v \in Scoped(Here, scope)
    BY DEF ListOf, Heatmap
  <2>3. scope \in LeaderNos =>
           \A v \in ListOf(scope, wanted) \union Heatmap(scope) : voter[v].leader = scope
    BY <1>2, <2>1, <2>2
  <2>4. scope \in LeaderNos => DOMAIN Ranking(scope) \subseteq {scope}
    BY <1>2, <2>1 DEF Ranking
  <2>5. scope = NoLeaderId => ListOf(scope, wanted) \union Heatmap(scope) = {}
    BY <1>1, <1>2, <2>1, <2>2
  <2>6. DOMAIN Spreadsheet(scope, wanted) = ListOf(scope, wanted)
    BY DEF Spreadsheet
  <2>7. ListStats(scope, wanted).total = Cardinality(ListOf(scope, wanted))
    BY DEF ListStats
  <2>8. ASSUME wanted = {} PROVE ListStats(scope, wanted).of = ByHood(scope)
    <3>1. PICK vs, named : /\ vs = Scoped(Here, scope)
                           /\ named = {v \in vs : voter[v].hood # NoHood}
      OBVIOUS
    <3>2. ListOf(scope, wanted) = vs
      BY <2>8, <3>1 DEF ListOf
    <3>3. {voter[v].hood : v \in named} = {voter[v].hood : v \in vs} \ {NoHood}
      BY <3>1
    <3>4. \A h \in {voter[v].hood : v \in named} :
             {v \in named : voter[v].hood = h} = {v \in vs : voter[v].hood = h}
      BY <3>1
    <3>5. ListStats(scope, wanted).of = [h \in {voter[v].hood : v \in named} |->
                                            Cardinality({v \in named : voter[v].hood = h})]
      BY <3>1, <3>2 DEF ListStats
    <3>6. ByHood(scope) = [h \in {voter[v].hood : v \in named} |->
                              Cardinality({v \in vs : voter[v].hood = h})]
      BY <3>1, <3>3 DEF ByHood
    <3> QED BY <3>4, <3>5, <3>6
  <2> QED BY <2>3, <2>4, <2>5, <2>6, <2>7, <2>8
<1>4. Here = Heatmap(NoScope) \union GeocodePending \union {v \in Here : voter[v].hood = NoHood}
    BY DEF Heatmap, GeocodePending, Scoped
<1>5. Cardinality(GeocodeGroups) <= Cardinality(GeocodePending)
  <2>1. GeocodePending \in SUBSET VoterNos
    BY DEF GeocodePending, Here
  <2>2. IsFiniteSet(GeocodePending)
    BY <2>1, ListsTypes, FS_Subset
  <2>3. PICK f : f = [v \in GeocodePending |-> voter[v].hood]
    OBVIOUS
  <2>4. f \in Surjection(GeocodePending, GeocodeGroups)
    BY <2>3 DEF Surjection, GeocodeGroups
  <2> QED BY <2>2, <2>4, FS_Surjection
<1> QED BY <1>3, <1>4, <1>5 DEF ScopeHolds

LEMMA ListsFollow == ListsInv => ListsAreTrue
  BY PagesFollow, ScopeFollows DEF ListsInv, ListsAreTrue

(* What the pages have shown when voters come between them, and what a leader's request   *)
(* knows of the voter it will write: the invariant behind the lists.                      *)
THEOREM ListsInvHolds == ListsSpec => []ListsInv
<1>1. ListsInv /\ [ListsNext]_listVars => ListsInv'
    BY ListsInvStep
<1> QED BY <1>1, ListsInvInit, PTL DEF ListsSpec

(* Whoever goes through the pages sees each voter once, no leader sees or changes another's *)
(* voters, and the figures are of the same voters: for any number of voters and leaders and *)
(* pages of any size (VotersService, scopeSql, findAllPaginated).                           *)
THEOREM ListsAreAlwaysTrue == ListsSpec => []ListsAreTrue
<1> QED BY ListsInvHolds, ListsFollow, PTL

(* Figures by neighborhood add up to the voters they are of. *)
LEMMA HoodsAddUp ==
    ASSUME ListsTypeOK
    PROVE  FiguresAddUp
<1>1. PICK Of : Of = [v \in VoterNos |-> voter[v].hood]
    OBVIOUS
<1>2. IsFiniteSet(VoterNos) /\ Here \subseteq VoterNos
  <2>1. ListVoters \in Nat
    BY VoterListsAssumption
  <2> QED BY <2>1, FS_Interval DEF VoterNos, Here
<1>3. ASSUME NEW R, R \subseteq VoterNos, NEW D,
             NEW f, f = [h \in D |-> Cardinality({v \in R : voter[v].hood = h})]
      PROVE  /\ IsFiniteSet(R) /\ \A v \in R : Of[v] = voter[v].hood
             /\ f = [h \in D |-> Cardinality({v \in R : Of[v] = h})]
  <2>1. IsFiniteSet(R) /\ \A v \in R : Of[v] = voter[v].hood
    BY <1>1, <1>2, <1>3, FS_Subset
  <2>2. \A h : {v \in R : voter[v].hood = h} = {v \in R : Of[v] = h}
    BY <2>1
  <2> QED BY <1>3, <2>1, <2>2
<1>4. ASSUME NEW scope, NEW wanted
      PROVE  LET stats == ListStats(scope, wanted) IN stats.withNeighborhood = Total(stats.of)
  <2>1. PICK named : named = {v \in ListOf(scope, wanted) : voter[v].hood # NoHood}
    OBVIOUS
  <2>2. PICK D, f : /\ D = {voter[v].hood : v \in named}
                    /\ f = [h \in D |-> Cardinality({v \in named : voter[v].hood = h})]
    OBVIOUS
  <2>3. named \subseteq VoterNos
    BY <1>2, <2>1 DEF ListOf, Scoped
  <2>4. IsFiniteSet(named) /\ f = [h \in D |-> Cardinality({v \in named : Of[v] = h})]
        /\ \A v \in named : Of[v] = voter[v].hood
    BY <1>3, <2>2, <2>3
  <2>5. \A v \in named : Of[v] \in D
    BY <2>2, <2>4
  <2>6. Total(f) = Cardinality(named)
    BY ONLY <2>4, <2>5, CountsAddUp
  <2>7. ListStats(scope, wanted).withNeighborhood = Cardinality(named)
        /\ ListStats(scope, wanted).of = f
    BY <2>1, <2>2 DEF ListStats
  <2> QED BY <2>6, <2>7
<1>5. ASSUME NEW scope
      PROVE  Total(Aggregated(scope)) <= Cardinality(Heatmap(scope))
  <2>1. PICK R, D, f : /\ R = Heatmap(scope) /\ D = {voter[v].hood : v \in R} \ {NoHood}
                       /\ f = [h \in D |-> Cardinality({v \in R : voter[v].hood = h})]
    OBVIOUS
  <2>2. R \subseteq VoterNos
    BY <1>2, <2>1 DEF Heatmap, Scoped
  <2>3. IsFiniteSet(R) /\ f = [h \in D |-> Cardinality({v \in R : Of[v] = h})]
    BY <1>3, <2>1, <2>2, ZenonT(40)
  <2>4. IsFiniteSet(R)
    BY <2>3
  <2>5. ASSUME NEW E, NEW c, f = [h \in E |-> Cardinality({r \in R : c[r] = h})]
        PROVE  /\ Total(f) = Cardinality({r \in R : c[r] \in E})
               /\ Total(f) \in Nat /\ Total(f) <= Cardinality(R)
    BY ONLY <2>4, <2>5, CountsOfSome, SMTT(40)
  <2>6. Aggregated(scope) = f
    BY <2>1 DEF Aggregated
  <2>7. Total(f) <= Cardinality(R)
    BY ONLY <2>3, <2>5
  <2> QED BY ONLY <2>1, <2>6, <2>7
<1> QED BY <1>4, <1>5 DEF FiguresAddUp

(* The figures of the neighborhoods add up in every state. *)
THEOREM FiguresAlwaysAddUp == ListsSpec => []FiguresAddUp
<1>1. ListsInv => FiguresAddUp
    BY HoodsAddUp DEF ListsInv
<1> QED BY <1>1, ListsInvHolds, PTL

-----------------------------------------------------------------------------
(* Geocoder.tla: attempts and requests. *)

LEMMA GeocoderTypes ==
    ASSUME GeocoderTypeOK
    PROVE  /\ clock \in 0 .. GeoTime /\ lastRequestTime \in 0 .. GeoTime
           /\ GeoTime \in Nat /\ Gap \in Nat /\ 0 < Gap
           /\ cache \in [Queries -> {"", "found", "none"}]
           /\ caller \in [Callers -> CallerState]
           /\ requests \in Seq(Request)
           /\ Len(requests) \in Nat /\ DOMAIN requests = 1 .. Len(requests)
           /\ \A i \in DOMAIN requests : requests[i] \in Request
<1>1. requests \in Seq(Request)
    BY DEF GeocoderTypeOK
<1>2. /\ Len(requests) \in Nat /\ DOMAIN requests = 1 .. Len(requests)
      /\ \A i \in DOMAIN requests : requests[i] \in Request
    BY <1>1
<1>3. GeoTime \in Nat /\ Gap \in Nat /\ 0 < Gap
    BY GeocoderAssumption
<1>4. /\ clock \in 0 .. GeoTime /\ lastRequestTime \in 0 .. GeoTime
      /\ cache \in [Queries -> {"", "found", "none"}] /\ caller \in [Callers -> CallerState]
    BY DEF GeocoderTypeOK
<1> QED BY <1>1, <1>2, <1>3, <1>4

LEMMA AddressIs ==
    ASSUME NEW a \in Addresses
    PROVE  /\ Len(a) \in Nat \ {0} /\ DOMAIN a = 1 .. Len(a)
           /\ \A n \in DOMAIN a : a[n] \in Queries
<1>1. a \in Seq(STRING) /\ a # <<>>
    BY GeocoderAssumption
<1>2. Len(a) \in Nat \ {0} /\ DOMAIN a = 1 .. Len(a)
    BY <1>1
<1>3. \A n \in DOMAIN a : a[n] \in ToSet(a)
    BY DEF ToSet
<1> QED BY <1>2, <1>3 DEF Queries

LEMMA CallerIs ==
    ASSUME GeocoderInv, NEW c \in Callers, caller[c].step # "idle"
    PROVE  /\ caller[c] \in CallerState
           /\ caller[c].address \in Addresses /\ caller[c].at \in DOMAIN caller[c].address
           /\ Query(c) = caller[c].address[caller[c].at] /\ Query(c) \in Queries
<1>1. caller[c] \in CallerState
    BY GeocoderTypes DEF GeocoderInv
<1>2. caller[c].address \in Addresses /\ caller[c].at \in DOMAIN caller[c].address
    BY DEF GeocoderInv, CallerTries
<1> QED BY <1>1, <1>2, AddressIs DEF Query

(* After an attempt that is over: the place, the next attempt, or none. *)
LEMMA TriedIs ==
    ASSUME NEW job \in CallerState, job.address \in Addresses, job.at \in DOMAIN job.address,
           \A n \in Placed(job) : job.at <= n, \A n \in job.failed : n <= job.at,
           NEW found \in BOOLEAN, found <=> job.at \in Placed(job)
    PROVE  /\ Tried(job, found) \in CallerState
           /\ Tried(job, found).step \in {"try", "found", "none"}
           /\ Tried(job, found).address = job.address
           /\ Tried(job, found).at \in DOMAIN job.address
           /\ Placed(Tried(job, found)) = Placed(job)
           /\ Tried(job, found).step = "try" =>
                 /\ \A n \in Placed(job) : Tried(job, found).at <= n
                 /\ \A n \in Tried(job, found).failed : n < Tried(job, found).at
           /\ Tried(job, found).step = "found" =>
                 /\ Tried(job, found).at \in Placed(job)
                 /\ \A n \in Placed(job) : Tried(job, found).at <= n
           /\ Tried(job, found).step = "none" => Placed(job) = {}
<1>1. PICK a, n, new : a = job.address /\ n = Len(job.address) /\ new = Tried(job, found)
    OBVIOUS
<1>2. /\ a \in Addresses /\ n \in Nat \ {0} /\ DOMAIN a = 1 .. n /\ job.at \in 1 .. n
      /\ job.at \in Nat
    BY <1>1, AddressIs
<1>3. \A k \in Placed(job) : k \in 1 .. n /\ k \in Nat
    BY <1>1, <1>2 DEF Placed
<1>4. CASE ~found /\ job.at < n
  <2>a. PICK next : next = job.at + 1
    OBVIOUS
  <2>b. next \in Nat
    BY <1>2, <2>a
  <2>1. new = [job EXCEPT !.step = "try", !.at = next]
    BY <1>1, <1>4, <2>a DEF Tried
  <2>2. /\ new \in CallerState /\ new.step = "try" /\ new.at = next
        /\ new.address = job.address /\ new.failed = job.failed
    BY <2>b, <2>1 DEF CallerState
  <2>3. new.at \in 1 .. n /\ \A k \in job.failed : k < new.at
    <3>1. \A k \in job.failed : k \in Nat /\ k <= job.at
      BY DEF CallerState
    <3> QED BY <1>2, <1>4, <2>a, <2>2, <3>1
  <2>4. \A k \in Placed(job) : new.at <= k
    <3>1. \A k \in Placed(job) : job.at <= k /\ k # job.at
      BY <1>4
    <3> QED BY <1>2, <1>3, <2>a, <2>2, <3>1
  <2>5. Placed(new) = Placed(job)
    BY <2>2 DEF Placed
  <2> QED BY <1>1, <1>2, <2>2, <2>3, <2>4, <2>5
<1>5. CASE found
  <2>1. new = [job EXCEPT !.step = "found"]
    BY <1>1, <1>5 DEF Tried
  <2>2. /\ new \in CallerState /\ new.step = "found" /\ new.at = job.at
        /\ new.address = job.address /\ new.failed = job.failed
    BY <2>1 DEF CallerState
  <2>3. Placed(new) = Placed(job)
    BY <2>2 DEF Placed
  <2> QED BY <1>1, <1>5, <2>2, <2>3
<1>6. CASE ~found /\ ~(job.at < n)
  <2>1. new = [job EXCEPT !.step = "none"]
    BY <1>1, <1>6 DEF Tried
  <2>2. /\ new \in CallerState /\ new.step = "none" /\ new.at = job.at
        /\ new.address = job.address /\ new.failed = job.failed
    BY <2>1 DEF CallerState
  <2>3. Placed(new) = Placed(job)
    BY <2>2 DEF Placed
  <2>4. Placed(job) = {}
    <3>1. \A k \in Placed(job) : job.at <= k /\ k # job.at
      BY <1>6
    <3> QED BY <1>2, <1>3, <1>6, <3>1
  <2> QED BY <1>1, <2>2, <2>3, <2>4
<1> QED BY <1>4, <1>5, <1>6

(* A caller that does nothing: requests that go out and answers that come do not disturb it. *)
LEMMA CallerStays ==
    ASSUME GeocoderInv, NEW c \in Callers, caller'[c] = caller[c],
           Len(requests') \in Nat, Len(requests) <= Len(requests'),
           DOMAIN requests' = 1 .. Len(requests'),
           \A i \in DOMAIN requests :
              requests'[i].query = requests[i].query /\ requests'[i].at = requests[i].at
    PROVE  CallerTries(c)'
<1>1. PICK job, n, m : job = caller[c] /\ n = Len(requests) /\ m = Len(requests')
    OBVIOUS
<1>2. /\ n \in Nat /\ DOMAIN requests = 1 .. n /\ m \in Nat /\ n <= m
      /\ DOMAIN requests' = 1 .. m /\ job \in CallerState
    BY <1>1, GeocoderTypes DEF GeocoderInv
<1>3. job.out \in Nat
    BY <1>2 DEF CallerState
<1>4. CallerTries(c)
    BY DEF GeocoderInv
<1>5. \A i \in DOMAIN requests : i \in DOMAIN requests'
    BY <1>2
<1>6. \A i \in DOMAIN requests' : i <= n => i \in DOMAIN requests
    BY <1>2
<1>7. caller'[c] = job /\ Query(c)' = Query(c)
    BY <1>1 DEF Query
<1>8. /\ job.step # "idle" => job.address \in Addresses /\ job.at \in DOMAIN job.address
      /\ job.step \in {"try", "pause", "fetch"} =>
            /\ \A k \in Placed(job) : job.at <= k
            /\ \A k \in job.failed : k < job.at
    BY <1>1, <1>4 DEF CallerTries
<1>9. job.step = "pause" =>
          /\ job.out <= m
          /\ \A i \in DOMAIN requests' : i <= job.out => requests'[i].at + Gap <= job.until
          /\ \A i \in job.known : i \in DOMAIN requests' /\ requests'[i].query # Query(c)
  <2>1. SUFFICES ASSUME job.step = "pause"
                 PROVE  /\ job.out <= m
                        /\ \A i \in DOMAIN requests' :
                              i <= job.out => requests'[i].at + Gap <= job.until
                        /\ \A i \in job.known :
                              i \in DOMAIN requests' /\ requests'[i].query # Query(c)
    OBVIOUS
  <2>2. /\ job.out <= n
        /\ \A i \in DOMAIN requests : i <= job.out => requests[i].at + Gap <= job.until
        /\ \A i \in job.known : i \in DOMAIN requests /\ requests[i].query # Query(c)
    BY <1>1, <1>4, <2>1 DEF CallerTries
  <2>3. job.out <= m
    BY <1>2, <1>3, <2>2
  <2>4. \A i \in DOMAIN requests' : i <= job.out => i <= n
    BY <1>2, <1>3, <2>2
  <2> QED BY <1>5, <1>6, <2>2, <2>3, <2>4
<1>10. job.step = "fetch" =>
          job.request \in DOMAIN requests' /\ requests'[job.request].query = Query(c)
    BY <1>1, <1>4, <1>5 DEF CallerTries
<1> QED BY <1>1, <1>7, <1>8, <1>9, <1>10 DEF CallerTries

(* Who moves, moves its own entry. *)
LEMMA CallerMoves ==
    ASSUME GeocoderTypeOK, NEW c \in Callers, NEW new \in CallerState,
           caller' = [caller EXCEPT ![c] = new]
    PROVE  /\ caller' \in [Callers -> CallerState] /\ caller'[c] = new
           /\ \A d \in Callers \ {c} : caller'[d] = caller[d]
  BY GeocoderTypes

(* A step of caller c that sends nothing keeps what is said of the requests. *)
LEMMA RequestsStay ==
    ASSUME GeocoderInv, NEW c \in Callers, NEW new \in CallerState,
           caller' = [caller EXCEPT ![c] = new], CallerTries(c)',
           new.step = "found" => new.at \in Placed(new) /\ \A n \in Placed(new) : new.at <= n,
           new.step = "none" => Placed(new) = {},
           UNCHANGED <<clock, lastRequestTime, cache, requests>>
    PROVE  GeocoderInv'
<1>1. GeocoderTypeOK /\ RequestsAreKept /\ GeocoderIsFair
    BY DEF GeocoderInv
<1>2. /\ caller' \in [Callers -> CallerState] /\ caller'[c] = new
      /\ \A d \in Callers \ {c} : caller'[d] = caller[d]
    BY <1>1, CallerMoves
<1>3. GeocoderTypeOK' /\ RequestsAreKept'
    BY <1>1, <1>2 DEF GeocoderTypeOK, RequestsAreKept
<1>4. GeocoderIsFair'
  <2>1. \A d \in Callers :
           /\ caller'[d].step = "found" =>
                 /\ caller'[d].at \in Placed(caller'[d])
                 /\ \A n \in Placed(caller'[d]) : caller'[d].at <= n
           /\ caller'[d].step = "none" => Placed(caller'[d]) = {}
    BY <1>1, <1>2 DEF GeocoderIsFair
  <2> QED BY <1>1, <2>1 DEF GeocoderIsFair
<1>5. ASSUME NEW d \in Callers PROVE CallerTries(d)'
  <2>1. CASE d = c
    BY <2>1
  <2>2. CASE d # c
    <3>1. PICK n : n = Len(requests)
      OBVIOUS
    <3>2. n \in Nat /\ DOMAIN requests = 1 .. n /\ Len(requests') = n
      BY <1>1, <3>1, GeocoderTypes
    <3>3. n <= n
      BY <3>2
    <3> QED BY <1>2, <2>2, <3>1, <3>2, <3>3, CallerStays
  <2> QED BY <2>1, <2>2
<1> QED BY <1>3, <1>4, <1>5 DEF GeocoderInv

LEMMA GeocodeAddressStep ==
    ASSUME GeocoderInv, NEW c \in Callers, NEW a \in Addresses, GeocodeAddress(c, a)
    PROVE  GeocoderInv'
<1>1. PICK new : new = [Waiting EXCEPT !.step = "try", !.address = a]
    OBVIOUS
<1>2. caller' = [caller EXCEPT ![c] = new]
    BY <1>1 DEF GeocodeAddress
<1>3. /\ new = [step |-> "try", address |-> a, at |-> 1, until |-> 0, out |-> 0, known |-> {},
                request |-> 0, failed |-> {}]
    BY <1>1 DEF Waiting
<1>4. new \in CallerState
  <2>1. 0 \in 0 .. GeoTime + Gap
    BY GeocoderAssumption
  <2> QED BY <1>3, <2>1 DEF CallerState
<1>5. UNCHANGED <<clock, lastRequestTime, cache, requests>>
    BY DEF GeocodeAddress
<1>6. caller'[c] = new
    BY <1>2, <1>4, CallerMoves DEF GeocoderInv
<1>7. /\ new.step = "try" /\ new.address = a /\ new.at = 1 /\ new.failed = {}
    BY <1>3
<1>8. new.at \in DOMAIN new.address /\ \A n \in Placed(new) : new.at <= n
  <2>1. Len(a) \in Nat \ {0} /\ DOMAIN a = 1 .. Len(a)
    BY AddressIs
  <2>2. \A n \in Placed(new) : n \in 1 .. Len(a)
    BY <1>7, <2>1 DEF Placed
  <2> QED BY <1>7, <2>1, <2>2
<1>9. CallerTries(c)'
    BY <1>6, <1>7, <1>8 DEF CallerTries
<1> QED BY <1>2, <1>4, <1>5, <1>7, <1>9, RequestsStay

LEMMA LookUpStep ==
    ASSUME GeocoderInv, NEW c \in Callers, LookUp(c)
    PROVE  GeocoderInv'
<1>0. UNCHANGED <<clock, lastRequestTime, cache, requests>>
    BY DEF LookUp
<1>1. PICK job, q, n : job = caller[c] /\ q = Query(c) /\ n = Len(requests)
    OBVIOUS
<1>2. /\ job \in CallerState /\ job.step = "try" /\ job.address \in Addresses
      /\ job.at \in DOMAIN job.address /\ q = job.address[job.at] /\ q \in Queries
    BY <1>1, CallerIs DEF LookUp
<1>3. /\ \A k \in Placed(job) : job.at <= k
      /\ \A k \in job.failed : k < job.at
    BY <1>1, <1>2 DEF GeocoderInv, CallerTries
<1>4. job.at \in Nat /\ job.failed \in SUBSET Nat
    BY <1>2 DEF CallerState
<1>5. job.at \notin job.failed /\ \A k \in job.failed : k <= job.at
    BY <1>3, <1>4
<1>6. q \in Places <=> job.at \in Placed(job)
    BY <1>2, <1>5 DEF Placed
<1>7. CASE IsCached(q)
  <2>1. PICK found \in BOOLEAN : found = (cache[q] = "found")
    OBVIOUS
  <2>2. found <=> job.at \in Placed(job)
    BY <1>2, <1>6, <1>7, <2>1 DEF IsCached, GeocoderInv, RequestsAreKept
  <2>3. PICK new : new = Tried(job, found)
    OBVIOUS
  <2>4. caller' = [caller EXCEPT ![c] = new]
    <3>1. caller' = [caller EXCEPT ![c] = Tried(@, cache[q] = "found")]
      BY <1>1, <1>7 DEF LookUp
    <3>2. Tried(caller[c], cache[q] = "found") = new
      BY <1>1, <2>1, <2>3
    <3> QED BY <3>1, <3>2
  <2>5. /\ new \in CallerState /\ new.step \in {"try", "found", "none"}
        /\ new.address = job.address /\ new.at \in DOMAIN job.address
        /\ Placed(new) = Placed(job)
        /\ new.step = "try" => /\ \A k \in Placed(job) : new.at <= k
                               /\ \A k \in new.failed : k < new.at
        /\ new.step = "found" => /\ new.at \in Placed(job)
                                 /\ \A k \in Placed(job) : new.at <= k
        /\ new.step = "none" => Placed(job) = {}
    BY ONLY <1>2, <1>3, <1>5, <2>2, <2>3, TriedIs
  <2>6. caller'[c] = new
    BY <2>4, <2>5, CallerMoves DEF GeocoderInv
  <2>7. CallerTries(c)'
    BY <1>2, <2>5, <2>6 DEF CallerTries
  <2> QED BY <1>0, <2>4, <2>5, <2>7, RequestsStay
<1>8. CASE ~IsCached(q)
  <2>1. PICK until, known : /\ until = IF clock < lastRequestTime + Gap THEN lastRequestTime + Gap
                                       ELSE clock
                            /\ known = {i \in DOMAIN requests : requests[i].answered}
    OBVIOUS
  <2>2. /\ clock \in 0 .. GeoTime /\ lastRequestTime \in 0 .. GeoTime /\ GeoTime \in Nat
        /\ Gap \in Nat /\ n \in Nat /\ DOMAIN requests = 1 .. n
        /\ \A i \in DOMAIN requests : requests[i] \in Request
    BY <1>1, GeocoderTypes DEF GeocoderInv
  <2>3. until \in 0 .. GeoTime + Gap /\ until >= lastRequestTime + Gap
    BY ONLY <2>1, <2>2
  <2>4. known \in SUBSET Nat /\ known \subseteq DOMAIN requests
    BY <2>1, <2>2
  <2>5. PICK new : new = [job EXCEPT !.step = "pause", !.out = n, !.until = until,
                                     !.known = known]
    OBVIOUS
  <2>6. caller' = [caller EXCEPT ![c] = new]
    BY <1>1, <1>7, <1>8, <2>1, <2>5 DEF LookUp
  <2>7. /\ new \in CallerState /\ new.step = "pause" /\ new.out = n /\ new.until = until
        /\ new.known = known /\ new.address = job.address /\ new.at = job.at
        /\ new.failed = job.failed
    BY <1>2, <2>2, <2>3, <2>4, <2>5 DEF CallerState
  <2>8. caller'[c] = new
    BY <2>6, <2>7, CallerMoves DEF GeocoderInv
  <2>9. Query(c)' = q
    BY <1>2, <2>7, <2>8 DEF Query
  <2>10. Placed(new) = Placed(job)
    BY <2>7 DEF Placed
  <2>11. \A i \in DOMAIN requests : requests[i].at + Gap <= until
    <3>1. ASSUME NEW i \in DOMAIN requests PROVE requests[i].at + Gap <= until
      <4>1. requests[i].at <= lastRequestTime
        BY DEF GeocoderInv, RequestsAreKept
      <4>2. requests[i].at \in 0 .. GeoTime
        BY <2>2 DEF Request
      <4> QED BY ONLY <2>2, <2>3, <4>1, <4>2
    <3> QED BY <3>1
  <2>12. \A i \in known : requests[i].query # q
    <3>1. \A i \in known : i \in DOMAIN requests /\ cache[requests[i].query] # ""
      BY <2>1 DEF GeocoderInv, RequestsAreKept
    <3> QED BY <1>8, <3>1 DEF IsCached
  <2>13. requests' = requests /\ n <= Len(requests')
    BY <1>0, <1>1, <2>2
  <2>14. /\ new.address \in Addresses /\ new.at \in DOMAIN new.address
         /\ \A k \in Placed(new) : new.at <= k
         /\ \A k \in new.failed : k < new.at
    BY <1>2, <1>3, <2>7, <2>10
  <2>15. /\ new.out <= Len(requests')
         /\ \A i \in DOMAIN requests' : i <= new.out => requests'[i].at + Gap <= new.until
         /\ \A i \in new.known : i \in DOMAIN requests' /\ requests'[i].query # Query(c)'
    BY <2>4, <2>7, <2>9, <2>11, <2>12, <2>13
  <2>16. CallerTries(c)'
    BY <2>7, <2>8, <2>14, <2>15 DEF CallerTries
  <2>17. new.step # "found" /\ new.step # "none"
    BY <2>7
  <2> QED BY <1>0, <2>6, <2>7, <2>16, <2>17, RequestsStay
<1> QED BY <1>7, <1>8

LEMMA FetchFailsStep ==
    ASSUME GeocoderInv, NEW c \in Callers, FetchFails(c)
    PROVE  GeocoderInv'
<1>0. UNCHANGED <<clock, lastRequestTime, cache, requests>>
    BY DEF FetchFails
<1>1. PICK old, job : /\ old = caller[c]
                      /\ job = [caller[c] EXCEPT !.failed = @ \union {caller[c].at}]
    OBVIOUS
<1>2. /\ old \in CallerState /\ old.step = "fetch" /\ old.address \in Addresses
      /\ old.at \in DOMAIN old.address
    BY <1>1, CallerIs DEF FetchFails
<1>3. /\ \A k \in Placed(old) : old.at <= k
      /\ \A k \in old.failed : k < old.at
    BY <1>1, <1>2 DEF GeocoderInv, CallerTries
<1>4. old.at \in Nat /\ old.failed \in SUBSET Nat
    BY <1>2 DEF CallerState
<1>5. /\ job \in CallerState /\ job.address = old.address /\ job.at = old.at
      /\ job.failed = old.failed \union {old.at}
  <2>1. PICK f : f = old.failed \union {old.at}
    OBVIOUS
  <2>2. f \in SUBSET Nat /\ job = [old EXCEPT !.failed = f]
    BY <1>1, <1>4, <2>1
  <2> QED BY <1>2, <2>1, <2>2 DEF CallerState
<1>6. /\ \A k \in Placed(job) : job.at <= k
      /\ \A k \in job.failed : k <= job.at
      /\ job.at \notin Placed(job)
  <2>1. \A k \in Placed(job) : k \in Placed(old)
    BY <1>5 DEF Placed
  <2>2. \A k \in job.failed : k \in Nat /\ (k < old.at \/ k = old.at)
    BY <1>3, <1>4, <1>5
  <2>3. job.at \notin Placed(job)
    BY <1>5 DEF Placed
  <2> QED BY <1>3, <1>4, <1>5, <2>1, <2>2, <2>3
<1>7. PICK new : new = Tried(job, FALSE)
    OBVIOUS
<1>8. caller' = [caller EXCEPT ![c] = new]
    BY <1>1, <1>7 DEF FetchFails
<1>9. /\ new \in CallerState /\ new.step \in {"try", "found", "none"}
      /\ new.address = job.address /\ new.at \in DOMAIN job.address
      /\ Placed(new) = Placed(job)
      /\ new.step = "try" => /\ \A k \in Placed(job) : new.at <= k
                             /\ \A k \in new.failed : k < new.at
      /\ new.step = "found" => /\ new.at \in Placed(job)
                               /\ \A k \in Placed(job) : new.at <= k
      /\ new.step = "none" => Placed(job) = {}
  <2>1. job.address \in Addresses /\ job.at \in DOMAIN job.address
    BY <1>2, <1>5
  <2>2. FALSE \in BOOLEAN /\ (FALSE <=> job.at \in Placed(job))
    BY <1>6
  <2> QED BY ONLY <1>5, <1>6, <1>7, <2>1, <2>2, TriedIs
<1>10. caller'[c] = new
    BY <1>8, <1>9, CallerMoves DEF GeocoderInv
<1>11. new.address \in Addresses /\ new.at \in DOMAIN new.address
    BY <1>2, <1>5, <1>9
<1>12. CallerTries(c)'
    BY <1>9, <1>10, <1>11 DEF CallerTries
<1> QED BY <1>0, <1>8, <1>9, <1>12, RequestsStay

LEMMA AnswerStep ==
    ASSUME GeocoderInv, NEW c \in Callers, Answer(c)
    PROVE  GeocoderInv'
<1>0. UNCHANGED <<clock, lastRequestTime>>
    BY DEF Answer
<1>1. PICK job, q, n, r : /\ job = caller[c] /\ q = Query(c) /\ n = Len(requests)
                          /\ r = caller[c].request
    OBVIOUS
<1>2. /\ job \in CallerState /\ job.step = "fetch" /\ job.address \in Addresses
      /\ job.at \in DOMAIN job.address /\ q = job.address[job.at] /\ q \in Queries
    BY <1>1, CallerIs DEF Answer
<1>3. /\ \A k \in Placed(job) : job.at <= k
      /\ \A k \in job.failed : k < job.at
      /\ r \in DOMAIN requests /\ requests[r].query = q
    BY <1>1, <1>2 DEF GeocoderInv, CallerTries
<1>4. job.at \in Nat /\ job.failed \in SUBSET Nat
    BY <1>2 DEF CallerState
<1>5. job.at \notin job.failed /\ \A k \in job.failed : k <= job.at
    BY <1>3, <1>4
<1>6. PICK found \in BOOLEAN : found = (q \in Places)
    BY (q \in Places) \in BOOLEAN
<1>7. found <=> job.at \in Placed(job)
    BY <1>2, <1>5, <1>6 DEF Placed
<1>8. PICK new : new = Tried(job, found)
    OBVIOUS
<1>9. caller' = [caller EXCEPT ![c] = new]
  <2>1. caller' = [caller EXCEPT ![c] = Tried(@, q \in Places)]
    BY <1>1 DEF Answer
  <2>2. Tried(caller[c], q \in Places) = new
    BY <1>1, <1>6, <1>8
  <2> QED BY <2>1, <2>2
<1>10. /\ new \in CallerState /\ new.step \in {"try", "found", "none"}
       /\ new.address = job.address /\ new.at \in DOMAIN job.address
       /\ Placed(new) = Placed(job)
       /\ new.step = "try" => /\ \A k \in Placed(job) : new.at <= k
                              /\ \A k \in new.failed : k < new.at
       /\ new.step = "found" => /\ new.at \in Placed(job)
                                /\ \A k \in Placed(job) : new.at <= k
       /\ new.step = "none" => Placed(job) = {}
    BY ONLY <1>2, <1>3, <1>5, <1>7, <1>8, TriedIs
<1>11. /\ caller' \in [Callers -> CallerState] /\ caller'[c] = new
       /\ \A d \in Callers \ {c} : caller'[d] = caller[d]
    BY <1>9, <1>10, CallerMoves DEF GeocoderInv
<1>12. CallerTries(c)'
    BY <1>2, <1>10, <1>11 DEF CallerTries
<1>13. PICK mark : mark = IF q \in Places THEN "found" ELSE "none"
    OBVIOUS
<1>14. /\ mark \in {"", "found", "none"} /\ mark # "" /\ (mark = "found" <=> q \in Places)
    BY <1>13
<1>15. cache' = [cache EXCEPT ![q] = mark]
    BY <1>1, <1>13 DEF Answer
<1>16. /\ cache' \in [Queries -> {"", "found", "none"}] /\ cache'[q] = mark
       /\ \A p \in Queries \ {q} : cache'[p] = cache[p]
    BY <1>2, <1>14, <1>15, GeocoderTypes DEF GeocoderInv
<1>17. /\ n \in Nat /\ DOMAIN requests = 1 .. n
       /\ \A i \in DOMAIN requests : requests[i] \in Request
    BY <1>1, GeocoderTypes DEF GeocoderInv
<1>18. PICK row : row = [requests[r] EXCEPT !.answered = TRUE]
    OBVIOUS
<1>19. /\ row \in Request /\ row.query = q /\ row.at = requests[r].at
       /\ row.out = requests[r].out /\ row.known = requests[r].known
    BY <1>3, <1>17, <1>18 DEF Request
<1>20. requests' = [requests EXCEPT ![r] = row]
    BY <1>1, <1>18 DEF Answer
<1>21. /\ requests' \in Seq(Request) /\ Len(requests') = n /\ DOMAIN requests' = 1 .. n
       /\ requests'[r] = row
       /\ \A i \in DOMAIN requests : i # r => requests'[i] = requests[i]
  <2>1. requests \in Seq(Request)
    BY DEF GeocoderInv, GeocoderTypeOK
  <2> QED BY <1>1, <1>3, <1>17, <1>19, <1>20, <2>1
<1>22. \A i \in DOMAIN requests :
          /\ requests'[i].query = requests[i].query /\ requests'[i].at = requests[i].at
          /\ requests'[i].out = requests[i].out /\ requests'[i].known = requests[i].known
  <2>1. ASSUME NEW i \in DOMAIN requests
        PROVE  /\ requests'[i].query = requests[i].query /\ requests'[i].at = requests[i].at
               /\ requests'[i].out = requests[i].out /\ requests'[i].known = requests[i].known
    <3>1. CASE i = r
      BY <1>3, <1>19, <1>21, <3>1
    <3>2. CASE i # r
      BY <1>21, <3>2
    <3> QED BY <3>1, <3>2
  <2> QED BY <2>1
<1>23. GeocoderTypeOK'
    BY <1>0, <1>11, <1>16, <1>21 DEF GeocoderInv, GeocoderTypeOK
<1>24. RequestsAreKept'
  <2>1. RequestsAreKept
    BY DEF GeocoderInv
  <2>2. ASSUME NEW i \in DOMAIN requests'
        PROVE  /\ requests'[i].at <= lastRequestTime'
               /\ requests'[i].answered => cache'[requests'[i].query] # ""
    <3>1. i \in DOMAIN requests /\ requests[i] \in Request
      BY <1>17, <1>21
    <3>2. requests'[i].at <= lastRequestTime'
      BY <1>0, <1>22, <2>1, <3>1 DEF RequestsAreKept
    <3>3. CASE requests[i].query = q
      BY <1>14, <1>16, <1>22, <3>1, <3>2, <3>3
    <3>4. CASE requests[i].query # q
      <4>1. i # r /\ requests[i].query \in Queries
        BY <1>3, <3>1, <3>4 DEF Request
      <4>2. requests'[i] = requests[i] /\ cache'[requests[i].query] = cache[requests[i].query]
        BY <1>16, <1>21, <3>1, <3>4, <4>1
      <4> QED BY <2>1, <3>1, <3>2, <4>2 DEF RequestsAreKept
    <3> QED BY <3>3, <3>4
  <2>3. ASSUME NEW p \in Queries
        PROVE  cache'[p] # "" => (cache'[p] = "found" <=> p \in Places)
    <3>1. CASE p = q
      BY <1>14, <1>16, <3>1
    <3>2. CASE p # q
      BY <1>16, <2>1, <3>2 DEF RequestsAreKept
    <3> QED BY <3>1, <3>2
  <2>4. lastRequestTime' <= clock'
    BY <1>0, <2>1 DEF RequestsAreKept
  <2> QED BY <2>2, <2>3, <2>4 DEF RequestsAreKept
<1>25. GeocoderIsFair'
  <2>1. GeocoderIsFair
    BY DEF GeocoderInv
  <2>2. ASSUME NEW i \in DOMAIN requests', NEW k \in DOMAIN requests', i < k
        PROVE  /\ requests'[k].at < requests'[i].at + Gap => requests'[k].out < i
               /\ requests'[k].query = requests'[i].query => i \notin requests'[k].known
    <3>1. i \in DOMAIN requests /\ k \in DOMAIN requests
      BY <1>17, <1>21
    <3> QED BY <1>22, <2>1, <2>2, <3>1 DEF GeocoderIsFair
  <2>3. ASSUME NEW d \in Callers
        PROVE  /\ caller'[d].step = "found" =>
                     /\ caller'[d].at \in Placed(caller'[d])
                     /\ \A k \in Placed(caller'[d]) : caller'[d].at <= k
               /\ caller'[d].step = "none" => Placed(caller'[d]) = {}
    <3>1. CASE d = c
      BY <1>10, <1>11, <3>1
    <3>2. CASE d # c
      BY <1>11, <2>1, <3>2 DEF GeocoderIsFair
    <3> QED BY <3>1, <3>2
  <2> QED BY <2>2, <2>3 DEF GeocoderIsFair
<1>26. ASSUME NEW d \in Callers PROVE CallerTries(d)'
  <2>1. CASE d = c
    BY <1>12, <2>1
  <2>2. CASE d # c
    <3>1. caller'[d] = caller[d] /\ Len(requests') = n /\ n <= n
      BY <1>11, <1>17, <1>21, <2>2
    <3> QED BY <1>1, <1>17, <1>21, <1>22, <3>1, CallerStays
  <2> QED BY <2>1, <2>2
<1> QED BY <1>23, <1>24, <1>25, <1>26 DEF GeocoderInv

LEMMA FetchStep ==
    ASSUME GeocoderInv, NEW c \in Callers, Fetch(c)
    PROVE  GeocoderInv'
<1>1. PICK job, q, n : job = caller[c] /\ q = Query(c) /\ n = Len(requests)
    OBVIOUS
<1>2. /\ job \in CallerState /\ job.step = "pause" /\ job.address \in Addresses
      /\ job.at \in DOMAIN job.address /\ q = job.address[job.at] /\ q \in Queries
      /\ job.until <= clock
    BY <1>1, CallerIs DEF Fetch
<1>3. /\ \A k \in Placed(job) : job.at <= k
      /\ \A k \in job.failed : k < job.at
      /\ job.out <= n
      /\ \A i \in DOMAIN requests : i <= job.out => requests[i].at + Gap <= job.until
      /\ \A i \in job.known : i \in DOMAIN requests /\ requests[i].query # q
    BY <1>1, <1>2 DEF GeocoderInv, CallerTries
<1>4. /\ clock \in 0 .. GeoTime /\ lastRequestTime \in 0 .. GeoTime /\ GeoTime \in Nat
      /\ Gap \in Nat /\ n \in Nat /\ DOMAIN requests = 1 .. n
      /\ \A i \in DOMAIN requests : requests[i] \in Request
      /\ requests \in Seq(Request)
    BY <1>1, GeocoderTypes DEF GeocoderInv
<1>5. job.out \in Nat /\ job.known \in SUBSET Nat /\ job.until \in 0 .. GeoTime + Gap
    BY <1>2 DEF CallerState
<1>6. PICK row, next : /\ row = [query |-> q, at |-> clock, out |-> job.out,
                                 known |-> job.known, answered |-> FALSE]
                       /\ next = n + 1
    OBVIOUS
<1>7. /\ row \in Request /\ row.query = q /\ row.at = clock /\ row.out = job.out
      /\ row.known = job.known /\ ~row.answered
    BY <1>2, <1>4, <1>5, <1>6 DEF Request
<1>8. next \in Nat /\ next # 0 /\ n < next /\ n <= next
    BY <1>4, <1>6
<1>9. /\ lastRequestTime' = clock /\ requests' = Append(requests, row)
      /\ UNCHANGED <<clock, cache>>
    BY <1>1, <1>6 DEF Fetch
<1>10. /\ requests' \in Seq(Request) /\ Len(requests') = next
       /\ DOMAIN requests' = 1 .. next /\ requests'[next] = row
       /\ \A i \in DOMAIN requests : requests'[i] = requests[i]
  <2>1. \A i \in 1 .. n : requests'[i] = requests[i]
    BY <1>1, <1>4, <1>9
  <2> QED BY <1>1, <1>4, <1>6, <1>7, <1>9, <2>1
<1>11. \A i \in DOMAIN requests' : i \in DOMAIN requests \/ i = next
    BY <1>4, <1>6, <1>10
<1>12. PICK new : new = [job EXCEPT !.step = "fetch", !.request = next]
    OBVIOUS
<1>13. /\ new \in CallerState /\ new.step = "fetch" /\ new.request = next
       /\ new.address = job.address /\ new.at = job.at /\ new.failed = job.failed
    BY <1>2, <1>8, <1>12 DEF CallerState
<1>14. caller' = [caller EXCEPT ![c] = new]
  <2>1. caller' = [caller EXCEPT ![c].step = "fetch", ![c].request = next]
    BY <1>1, <1>6 DEF Fetch
  <2>2. caller \in [Callers -> CallerState]
    BY DEF GeocoderInv, GeocoderTypeOK
  <2> QED BY <1>1, <1>12, <2>1, <2>2
<1>15. /\ caller' \in [Callers -> CallerState] /\ caller'[c] = new
       /\ \A d \in Callers \ {c} : caller'[d] = caller[d]
    BY <1>13, <1>14, CallerMoves DEF GeocoderInv
<1>16. CallerTries(c)'
  <2>1. Query(c)' = q
    BY <1>2, <1>13, <1>15 DEF Query
  <2>2. Placed(new) = Placed(job)
    BY <1>13 DEF Placed
  <2>3. new.request \in DOMAIN requests' /\ requests'[new.request].query = q
    BY <1>7, <1>8, <1>10, <1>13
  <2>4. /\ new.address \in Addresses /\ new.at \in DOMAIN new.address
        /\ \A k \in Placed(new) : new.at <= k
        /\ \A k \in new.failed : k < new.at
    BY <1>2, <1>3, <1>13, <2>2
  <2> QED BY <1>13, <1>15, <2>1, <2>3, <2>4 DEF CallerTries
<1>17. GeocoderTypeOK'
    BY <1>4, <1>9, <1>10, <1>15 DEF GeocoderInv, GeocoderTypeOK
<1>18. RequestsAreKept'
  <2>1. RequestsAreKept
    BY DEF GeocoderInv
  <2>2. ASSUME NEW i \in DOMAIN requests'
        PROVE  /\ requests'[i].at <= lastRequestTime'
               /\ requests'[i].answered => cache'[requests'[i].query] # ""
    <3>1. CASE i \in DOMAIN requests
      <4>1. requests[i].at \in 0 .. GeoTime
        BY <1>4, <3>1 DEF Request
      <4>2. requests[i].at <= lastRequestTime /\ lastRequestTime <= clock
        BY <2>1, <3>1 DEF RequestsAreKept
      <4>3. requests[i].at <= clock
        BY ONLY <1>4, <4>1, <4>2
      <4> QED BY <1>9, <1>10, <2>1, <3>1, <4>3 DEF RequestsAreKept
    <3>2. CASE i = next
      <4>1. clock <= clock
        BY <1>4
      <4> QED BY <1>7, <1>9, <1>10, <3>2, <4>1
    <3> QED BY <1>11, <3>1, <3>2
  <2>3. lastRequestTime' <= clock'
    BY <1>4, <1>9
  <2> QED BY <1>9, <2>1, <2>2, <2>3 DEF RequestsAreKept
<1>19. GeocoderIsFair'
  <2>1. GeocoderIsFair
    BY DEF GeocoderInv
  <2>2. ASSUME NEW i \in DOMAIN requests', NEW k \in DOMAIN requests', i < k
        PROVE  /\ requests'[k].at < requests'[i].at + Gap => requests'[k].out < i
               /\ requests'[k].query = requests'[i].query => i \notin requests'[k].known
    <3>1. i \in DOMAIN requests
      BY <1>4, <1>6, <1>10, <2>2
    <3>2. CASE k \in DOMAIN requests
      BY <1>10, <2>1, <2>2, <3>1, <3>2 DEF GeocoderIsFair
    <3>3. CASE k = next
      <4>1. requests'[i] = requests[i] /\ requests'[k] = row
        BY <1>10, <3>1, <3>3
      <4>2. requests[i].at \in 0 .. GeoTime
        BY <1>4, <3>1 DEF Request
      <4>3. row.at < requests[i].at + Gap => row.out < i
        <5>1. i <= job.out => requests[i].at + Gap <= job.until
          BY <1>3, <3>1
        <5>2. i \in Nat
          BY <1>4, <3>1
        <5> QED BY ONLY <1>2, <1>4, <1>5, <1>7, <4>2, <5>1, <5>2
      <4>4. row.query = requests[i].query => i \notin row.known
        BY <1>3, <1>7
      <4> QED BY <4>1, <4>3, <4>4
    <3> QED BY <1>11, <3>2, <3>3
  <2>3. ASSUME NEW d \in Callers
        PROVE  /\ caller'[d].step = "found" =>
                     /\ caller'[d].at \in Placed(caller'[d])
                     /\ \A k \in Placed(caller'[d]) : caller'[d].at <= k
               /\ caller'[d].step = "none" => Placed(caller'[d]) = {}
    <3>1. CASE d = c
      BY <1>13, <1>15, <3>1
    <3>2. CASE d # c
      BY <1>15, <2>1, <3>2 DEF GeocoderIsFair
    <3> QED BY <3>1, <3>2
  <2> QED BY <2>2, <2>3 DEF GeocoderIsFair
<1>20. ASSUME NEW d \in Callers PROVE CallerTries(d)'
  <2>1. CASE d = c
    BY <1>16, <2>1
  <2>2. CASE d # c
    <3>1. caller'[d] = caller[d]
      BY <1>15, <2>2
    <3> QED BY <1>1, <1>8, <1>10, <3>1, CallerStays
  <2> QED BY <2>1, <2>2
<1> QED BY <1>17, <1>18, <1>19, <1>20 DEF GeocoderInv

LEMMA ElapseStep ==
    ASSUME GeocoderInv, Elapse
    PROVE  GeocoderInv'
<1>1. /\ clock' = clock + 1 /\ clock < GeoTime
      /\ UNCHANGED <<lastRequestTime, cache, caller, requests>>
    BY DEF Elapse
<1>2. PICK n : n = Len(requests)
    OBVIOUS
<1>3. /\ clock \in 0 .. GeoTime /\ lastRequestTime \in 0 .. GeoTime /\ GeoTime \in Nat
      /\ n \in Nat /\ DOMAIN requests = 1 .. n
    BY <1>2, GeocoderTypes DEF GeocoderInv
<1>4. GeocoderTypeOK /\ RequestsAreKept /\ GeocoderIsFair
    BY DEF GeocoderInv
<1>5. clock' \in 0 .. GeoTime /\ (lastRequestTime <= clock => lastRequestTime <= clock')
    BY ONLY <1>1, <1>3
<1>6. GeocoderTypeOK'
    BY <1>1, <1>4, <1>5 DEF GeocoderTypeOK
<1>7. RequestsAreKept'
    BY <1>1, <1>4, <1>5 DEF RequestsAreKept
<1>8. GeocoderIsFair'
    BY <1>1, <1>4 DEF GeocoderIsFair
<1>9. ASSUME NEW d \in Callers PROVE CallerTries(d)'
  <2>1. Len(requests') = n /\ n <= n /\ DOMAIN requests' = 1 .. n
    BY <1>1, <1>2, <1>3
  <2> QED BY <1>1, <1>2, <1>3, <2>1, CallerStays
<1> QED BY <1>6, <1>7, <1>8, <1>9 DEF GeocoderInv

LEMMA GeocoderInvInit == GeocoderInit => GeocoderInv
<1> SUFFICES ASSUME GeocoderInit PROVE GeocoderInv
    OBVIOUS
<1>1. /\ Gap \in Nat /\ GeoTime \in Nat /\ Gap <= GeoTime
    BY GeocoderAssumption
<1>2. /\ clock = Gap /\ lastRequestTime = 0 /\ cache = [q \in Queries |-> ""]
      /\ caller = [c \in Callers |-> Waiting] /\ requests = <<>>
    BY DEF GeocoderInit
<1>3. Waiting \in CallerState /\ Waiting.step = "idle"
  <2>1. 0 \in 0 .. GeoTime + Gap
    BY <1>1
  <2> QED BY <2>1 DEF Waiting, CallerState
<1>4. requests \in Seq(Request) /\ DOMAIN requests = {}
  <2>1. requests = <<>>
    BY <1>2
  <2> QED BY ONLY <2>1
<1>5. clock \in 0 .. GeoTime /\ lastRequestTime \in 0 .. GeoTime /\ lastRequestTime <= clock
  <2>1. clock = Gap /\ lastRequestTime = 0
    BY <1>2
  <2> QED BY ONLY <1>1, <2>1
<1>6. GeocoderTypeOK
    BY <1>2, <1>3, <1>4, <1>5 DEF GeocoderTypeOK
<1>7. RequestsAreKept
    BY <1>2, <1>4, <1>5 DEF RequestsAreKept
<1>8. GeocoderIsFair
    BY <1>2, <1>3, <1>4 DEF GeocoderIsFair
<1>9. \A c \in Callers : CallerTries(c)
    BY <1>2, <1>3 DEF CallerTries
<1> QED BY <1>6, <1>7, <1>8, <1>9 DEF GeocoderInv

LEMMA GeocoderInvStep == GeocoderInv /\ [GeocoderNext]_geocoderVars => GeocoderInv'
<1> SUFFICES ASSUME GeocoderInv, [GeocoderNext]_geocoderVars PROVE GeocoderInv'
    OBVIOUS
<1>1. CASE Elapse
    BY <1>1, ElapseStep
<1>2. ASSUME NEW c \in Callers, LookUp(c) PROVE GeocoderInv'
    BY <1>2, LookUpStep
<1>3. ASSUME NEW c \in Callers, Fetch(c) PROVE GeocoderInv'
    BY <1>3, FetchStep
<1>4. ASSUME NEW c \in Callers, Answer(c) PROVE GeocoderInv'
    BY <1>4, AnswerStep
<1>5. ASSUME NEW c \in Callers, FetchFails(c) PROVE GeocoderInv'
    BY <1>5, FetchFailsStep
<1>6. ASSUME NEW c \in Callers, NEW a \in Addresses, GeocodeAddress(c, a) PROVE GeocoderInv'
    BY <1>6, GeocodeAddressStep
<1>7. CASE UNCHANGED geocoderVars
    BY <1>7 DEF geocoderVars, GeocoderInv, GeocoderTypeOK, RequestsAreKept, GeocoderIsFair,
                CallerTries, Query
<1> QED BY <1>1, <1>2, <1>3, <1>4, <1>5, <1>6, <1>7 DEF GeocoderNext

(* A cache, a clock and callers at any point of their attempts: the invariant behind what    *)
(* geocodeAddress and rateLimitedFetch promise.                                              *)
THEOREM GeocoderInvHolds == GeocoderSpec => []GeocoderInv
<1>1. GeocoderInit => GeocoderInv
    BY GeocoderInvInit
<1>2. GeocoderInv /\ [GeocoderNext]_geocoderVars => GeocoderInv'
    BY GeocoderInvStep
<1> QED BY <1>1, <1>2, PTL DEF GeocoderSpec

(* Two requests go out closer than the gap only when the later one measured its pause before *)
(* the earlier one went out, nothing answered is asked again, and each address gets the      *)
(* place of its most precise attempt that has one and did not fail: for any number of calls. *)
THEOREM GeocoderAlwaysFair == GeocoderSpec => []GeocoderIsFair
<1>1. GeocoderInv => GeocoderIsFair
    BY DEF GeocoderInv
<1> QED BY <1>1, GeocoderInvHolds, PTL

-----------------------------------------------------------------------------
(* HelpRecords.tla: types, records, cabinet visits and imports. *)

(* The two halves of TypesAreThere: of records made by request, and of imports that ended. *)
RecordsTyped ==
    \A r \in RecordIds : records[r].of \in {"inline", "cabinet"} => TypeMade(records[r].type)
DoneTyped ==
    \A i \in HelpImports : helpImport[i].step = "done" =>
        \A r \in helpImport[i].mine :
            \E n \in TypeNames : LowerCase[n] = LowerCase[records[r].type] /\ TypeMade(n)

LEMMA TypedIs == TypesAreThere <=> RecordsTyped /\ DoneTyped
BY DEF TypesAreThere, RecordsTyped, DoneTyped, TypeMade

LEMMA HelpTypes ==
    ASSUME HelpRecordsTypeOK
    PROVE  /\ Len(records) \in Nat /\ Len(records) <= MaxRecords /\ MaxRecords \in Nat \ {0}
           /\ RecordIds \subseteq 1 .. MaxRecords /\ RecordIds = DOMAIN records
           /\ \A r \in RecordIds : records[r] \in HelpRecord
           /\ Len(cabinetVisits) \in Nat /\ Len(cabinetVisits) <= MaxVisitsIn
           /\ MaxVisitsIn \in Nat
           /\ CabinetIds \subseteq 1 .. MaxVisitsIn /\ CabinetIds = DOMAIN cabinetVisits
           /\ \A c \in CabinetIds : cabinetVisits[c] \in CabinetVisit
           /\ \A j \in HelpJobs : helpJob[j] \in HelpJob
           /\ \A i \in HelpImports : helpImport[i] \in HelpImport
<1>1. records \in Seq(HelpRecord) /\ cabinetVisits \in Seq(CabinetVisit)
      /\ Len(records) <= MaxRecords /\ Len(cabinetVisits) <= MaxVisitsIn
    BY DEF HelpRecordsTypeOK
<1>2. MaxRecords \in Nat \ {0} /\ MaxVisitsIn \in Nat
    BY HelpRecordsAssumption
<1>3. \A j \in HelpJobs : helpJob[j] \in HelpJob
    BY DEF HelpRecordsTypeOK
<1>4. \A i \in HelpImports : helpImport[i] \in HelpImport
    BY DEF HelpRecordsTypeOK
<1>5. Len(records) \in Nat /\ RecordIds = DOMAIN records
    BY <1>1 DEF RecordIds
<1>6. Len(cabinetVisits) \in Nat /\ CabinetIds = DOMAIN cabinetVisits
    BY <1>1 DEF CabinetIds
<1>7. \A r \in RecordIds : records[r] \in HelpRecord
    BY <1>1, <1>5
<1>8. \A c \in CabinetIds : cabinetVisits[c] \in CabinetVisit
    BY <1>1, <1>6
<1>9. RecordIds \subseteq 1 .. MaxRecords /\ CabinetIds \subseteq 1 .. MaxVisitsIn
    BY <1>1, <1>2, <1>5, <1>6 DEF RecordIds, CabinetIds
<1> QED BY <1>1, <1>2, <1>3, <1>4, <1>5, <1>6, <1>7, <1>8, <1>9

(* The figures are of the list. *)
LEMMA FiguresAre ==
    ASSUME HelpRecordsTypeOK
    PROVE  FiguresAreOfTheList
<1>1. SUFFICES ASSUME NEW f \in Filters, f.status = None
               PROVE  LET figures == Figures(f) IN
        /\ figures.total = figures.pending + figures.inProgress + figures.completed
                           + figures.cancelled
        /\ figures.total = Cardinality(Exported(f))
        /\ f.search \in People \/ figures.total = Cardinality(Listed(f))
        /\ f.hood # None /\ figures.total > 0 => figures.hoods = {f.hood}
        /\ figures.pending = Figures([f EXCEPT !.status = "PENDING"]).total
    BY DEF FiguresAreOfTheList
<1>2. PICK found : found = {r \in Filtered(f) : f.search \in {None, records[r].type}}
    OBVIOUS
<1>3. PICK P, G, C, X :
         /\ P = {r \in found : records[r].status = "PENDING"}
         /\ G = {r \in found : records[r].status = "IN_PROGRESS"}
         /\ C = {r \in found : records[r].status = "COMPLETED"}
         /\ X = {r \in found : records[r].status = "CANCELLED"}
    OBVIOUS
<1>4. PICK figures : figures = Figures(f)
    OBVIOUS
<1>5. /\ figures.total = Cardinality(found) /\ figures.pending = Cardinality(P)
      /\ figures.inProgress = Cardinality(G) /\ figures.completed = Cardinality(C)
      /\ figures.cancelled = Cardinality(X) /\ figures.hoods = {HoodOf(r) : r \in found} \ {None}
    BY <1>2, <1>3, <1>4 DEF Figures
<1>6. /\ found \subseteq RecordIds
      /\ \A r \in found : records[r] \in HelpRecord /\ records[r].here
                          /\ f.hood \in {None, HoodOf(r)}
    BY <1>2, HelpTypes DEF Filtered
<1>7. IsFiniteSet(found)
  <2>1. IsFiniteSet(RecordIds)
    BY HelpTypes, FS_Interval DEF RecordIds
  <2> QED BY <1>6, <2>1, FS_Subset
<1>8. figures.total = figures.pending + figures.inProgress + figures.completed
                      + figures.cancelled
  <2>1. \A r \in found : records[r].status \in HelpStatuses
    BY <1>6 DEF HelpRecord
  <2>2. found = ((P \union G) \union C) \union X
    BY <1>3, <2>1 DEF HelpStatuses
  <2>3. P \intersect G = {} /\ (P \union G) \intersect C = {}
        /\ ((P \union G) \union C) \intersect X = {}
    BY <1>3
  <2>4. P \subseteq found /\ G \subseteq found /\ C \subseteq found /\ X \subseteq found
    BY <1>3
  <2>5. IsFiniteSet(P) /\ IsFiniteSet(G) /\ IsFiniteSet(C) /\ IsFiniteSet(X)
        /\ IsFiniteSet(P \union G) /\ IsFiniteSet((P \union G) \union C)
    BY <1>7, <2>4, FS_Subset, FS_Union
  <2>6. Cardinality(P \union G) = Cardinality(P) + Cardinality(G)
    <3>1. Cardinality(P \union G) = Cardinality(P) + Cardinality(G) - Cardinality(P \intersect G)
      BY <2>5, FS_Union
    <3>2. Cardinality(P \intersect G) = 0
      BY <2>3, FS_EmptySet
    <3>3. Cardinality(P) \in Nat /\ Cardinality(G) \in Nat
      BY <2>5, FS_CardinalityType
    <3> QED BY <3>1, <3>2, <3>3
  <2>7. Cardinality((P \union G) \union C) = Cardinality(P \union G) + Cardinality(C)
    <3>1. Cardinality((P \union G) \union C)
             = Cardinality(P \union G) + Cardinality(C) - Cardinality((P \union G) \intersect C)
      BY <2>5, FS_Union
    <3>2. Cardinality((P \union G) \intersect C) = 0
      BY <2>3, FS_EmptySet
    <3>3. Cardinality(P \union G) \in Nat /\ Cardinality(C) \in Nat
      BY <2>5, FS_CardinalityType
    <3> QED BY <3>1, <3>2, <3>3
  <2>8. Cardinality(found) = Cardinality((P \union G) \union C) + Cardinality(X)
    <3>1. Cardinality(((P \union G) \union C) \union X)
             = Cardinality((P \union G) \union C) + Cardinality(X)
               - Cardinality(((P \union G) \union C) \intersect X)
      BY <2>5, FS_Union
    <3>2. Cardinality(((P \union G) \union C) \intersect X) = 0
      BY <2>3, FS_EmptySet
    <3>3. Cardinality((P \union G) \union C) \in Nat /\ Cardinality(X) \in Nat
      BY <2>5, FS_CardinalityType
    <3> QED BY <2>2, <3>1, <3>2, <3>3
  <2>9. Cardinality(P) \in Nat /\ Cardinality(G) \in Nat /\ Cardinality(C) \in Nat
        /\ Cardinality(X) \in Nat
    BY <2>5, FS_CardinalityType
  <2> QED BY <1>5, <2>6, <2>7, <2>8, <2>9
<1>9. f.hood \in Hoods \union {None} /\ f.search \in TypeNames \union People \union {None}
    BY DEF Filters
<1>10. Exported(f) = found
  <2>1. \A r \in RecordIds : f.hood # None /\ f.hood = HoodOf(r) => records[r].person # None
    BY DEF HoodOf
  <2> QED BY <1>1, <1>2, <2>1 DEF Exported, Filtered
<1>11. f.search \notin People => Listed(f) = found
  <2>1. \A r \in found : records[r].person \in People \union {None}
    BY <1>6 DEF HelpRecord
  <2>2. \A r \in Filtered(f) : records[r].person \in People \union {None}
    BY HelpTypes DEF HelpRecord, Filtered
  <2> QED BY <1>2, <2>2 DEF Listed
<1>12. f.hood # None /\ figures.total > 0 => figures.hoods = {f.hood}
  <2>1. ASSUME f.hood # None, figures.total > 0 PROVE figures.hoods = {f.hood}
    <3>1. found # {}
      BY <1>5, <2>1, FS_EmptySet
    <3>2. \A r \in found : HoodOf(r) = f.hood
      BY <1>6, <2>1
    <3> QED BY <1>5, <2>1, <3>1, <3>2
  <2> QED BY <2>1
<1>13. figures.pending = Figures([f EXCEPT !.status = "PENDING"]).total
  <2>1. PICK g : g = [f EXCEPT !.status = "PENDING"]
    OBVIOUS
  <2>2. g.status = "PENDING" /\ g.search = f.search /\ g.hood = f.hood
    BY <2>1 DEF Filters
  <2>3. {r \in Filtered(g) : g.search \in {None, records[r].type}} = P
    <3>1. \A r \in RecordIds : records[r].status \in HelpStatuses
      BY HelpTypes DEF HelpRecord
    <3> QED BY <1>1, <1>2, <1>3, <2>2, <3>1, HelpRecordsAssumption DEF Filtered, HelpStatuses
  <2>4. Figures(g).total = Cardinality({r \in Filtered(g) : g.search \in {None, records[r].type}})
    BY DEF Figures
  <2> QED BY <1>5, <2>1, <2>3, <2>4
<1> QED BY <1>4, <1>5, <1>8, <1>10, <1>11, <1>12, <1>13

(* What every step leaves alone: rows and their types stay, but may be removed, and then   *)
(* it is known; types that are made stay so.                                               *)
HelpMoves ==
    /\ RecordIds \subseteq RecordIds'
    /\ \A r \in RecordIds :
          /\ records'[r].type = records[r].type /\ records'[r].of = records[r].of
          /\ records'[r].here => records[r].here
          /\ records[r].here /\ ~records'[r].here =>
                r \in lost'.records \/ \E c \in CabinetIds : cabinetVisits[c].record = r
    /\ CabinetIds \subseteq CabinetIds'
    /\ \A c \in CabinetIds : cabinetVisits'[c].record = cabinetVisits[c].record
    /\ \A n \in TypeNames : TypeMade(n) => types'[n] > 0 \/ n \in lost'.types
    /\ lost.records \subseteq lost'.records

JobKnows(j) ==
    LET job == helpJob[j] IN
    /\ job.step = "type" => job.missing
    /\ job.step = "record" => TypeMade(job.type)
    /\ IF job.step \in {"visit", "deleteRecord", "deleteVisit"} THEN job.record \in RecordIds
       ELSE job.record = 0
    /\ job.step \in {"deleteRecord", "deleteVisit"} =>
          job.visit \in CabinetIds /\ cabinetVisits[job.visit].record = job.record
    /\ job.step = "deleteVisit" => ~records[job.record].here
    /\ job.step = "visit" =>
          /\ records[job.record].here \/ job.record \in lost.records
          /\ \A c \in CabinetIds : cabinetVisits[c].record # job.record
          /\ \A k \in HelpJobs : helpJob[k].step = "visit" /\ helpJob[k].record = job.record
                                 => k = j

LEMMA JobsKnowIs == JobsKnow <=> \A j \in HelpJobs : JobKnows(j)
BY DEF JobsKnow, JobKnows

(* A request that did nothing knows what it knew, unless another took its record. *)
LEMMA JobStays ==
    ASSUME HelpRecordsTypeOK, HelpMoves, NEW k \in HelpJobs, JobKnows(k),
           helpJob'[k] = helpJob[k],
           \A c \in CabinetIds' : helpJob[k].step = "visit" => c \in CabinetIds
                                   \/ cabinetVisits'[c].record # helpJob[k].record,
           \A m \in HelpJobs : helpJob'[m].step = "visit" =>
                helpJob'[m] = helpJob[m] \/ helpJob'[m].record \notin RecordIds
    PROVE  JobKnows(k)'
<1>1. PICK job : job = helpJob[k]
    OBVIOUS
<1>2. job \in HelpJob
    BY <1>1, HelpTypes
<1>3. job.step = "record" => types'[job.type] > 0 \/ job.type \in lost'.types
    BY <1>1, <1>2 DEF JobKnows, HelpMoves, HelpJob
<1>4. IF job.step \in {"visit", "deleteRecord", "deleteVisit"} THEN job.record \in RecordIds'
      ELSE job.record = 0
    BY <1>1 DEF JobKnows, HelpMoves
<1>5. job.step \in {"deleteRecord", "deleteVisit"} =>
          job.visit \in CabinetIds' /\ cabinetVisits'[job.visit].record = job.record
    BY <1>1 DEF JobKnows, HelpMoves
<1>6. job.step = "deleteVisit" => ~records'[job.record].here
    BY <1>1 DEF JobKnows, HelpMoves
<1>7. ASSUME job.step = "visit"
      PROVE  /\ records'[job.record].here \/ job.record \in lost'.records
             /\ \A c \in CabinetIds' : cabinetVisits'[c].record # job.record
             /\ \A m \in HelpJobs : helpJob'[m].step = "visit" /\ helpJob'[m].record = job.record
                                    => m = k
  <2>1. records[job.record].here \/ job.record \in lost.records
    BY <1>1, <1>7 DEF JobKnows
  <2>2. \A c \in CabinetIds : cabinetVisits[c].record # job.record
    BY <1>1, <1>7 DEF JobKnows
  <2>3. job.record \in RecordIds
    BY <1>1, <1>7 DEF JobKnows
  <2>4. records'[job.record].here \/ job.record \in lost'.records
    BY <2>1, <2>2, <2>3 DEF HelpMoves
  <2>5. \A c \in CabinetIds' : cabinetVisits'[c].record # job.record
    BY <1>1, <1>7, <2>2 DEF HelpMoves
  <2>6. \A m \in HelpJobs : helpJob'[m].step = "visit" /\ helpJob'[m].record = job.record
                            => m = k
    BY <1>1, <1>7, <2>3 DEF JobKnows
  <2> QED BY <2>4, <2>5, <2>6
<1>8. job.step = "type" => job.missing
    BY <1>1 DEF JobKnows
<1> QED BY <1>1, <1>3, <1>4, <1>5, <1>6, <1>7, <1>8 DEF JobKnows, TypeMade

(* A step of no request leaves all of them as they were, and the visits apart. *)
LEMMA JobsStay ==
    ASSUME HelpRecordsTypeOK, HelpMoves, JobsKnow, VisitsApart, UNCHANGED <<helpJob, cabinetVisits>>
    PROVE  JobsKnow' /\ VisitsApart'
<1>1. CabinetIds' = CabinetIds
    BY DEF CabinetIds
<1>2. ASSUME NEW k \in HelpJobs PROVE JobKnows(k)'
    BY <1>1, JobStays, JobsKnowIs
<1>3. JobsKnow'
    BY <1>2 DEF JobsKnow, JobKnows
<1>4. VisitsApart'
    BY <1>1 DEF VisitsApart, HelpMoves
<1> QED BY <1>3, <1>4

(* One that makes no visit leaves the other requests as they were. *)
LEMMA HelpRequestsStay ==
    ASSUME HelpRecordsTypeOK, HelpMoves, JobsKnow, VisitsApart, CabinetIds' = CabinetIds,
           NEW j \in HelpJobs, NEW job, helpJob' = [helpJob EXCEPT ![j] = job],
           job.step = "visit" => job.record \notin RecordIds,
           JobKnows(j)'
    PROVE  JobsKnow' /\ VisitsApart'
<1>1. \A m \in HelpJobs : m # j => helpJob'[m] = helpJob[m]
    BY DEF HelpRecordsTypeOK
<1>2. helpJob'[j] = job
    BY DEF HelpRecordsTypeOK
<1>3. ASSUME NEW k \in HelpJobs, k # j PROVE JobKnows(k)'
    BY <1>1, <1>2, <1>3, JobStays, JobsKnowIs
<1>4. JobsKnow'
    BY <1>3 DEF JobsKnow, JobKnows
<1>5. VisitsApart'
    BY DEF VisitsApart, HelpMoves
<1> QED BY <1>4, <1>5

ImportKnows(i) ==
    LET job == helpImport[i]
        Waits(n) == \E k \in DOMAIN job.newTypes : job.newTypes[k] = n
    IN
    /\ job.step \in {"idle", "leads", "types"} =>
          /\ job.at = 1 /\ job.imported = 0 /\ job.skipped = 0 /\ job.batch = <<>>
          /\ job.newTypes = <<>> /\ job.mine = {}
    /\ \A b \in DOMAIN job.batch : job.batch[b].type # None
    /\ job.step = "rows" =>
          /\ \A n \in TypeNames \ job.absent : LowerCase[n] \in job.typeSet
          /\ \A k \in DOMAIN job.newTypes : /\ job.newTypes[k] \in job.absent
                                            /\ LowerCase[job.newTypes[k]] \in job.typeSet
          /\ \A k, m \in DOMAIN job.newTypes : job.newTypes[k] = job.newTypes[m] => k = m
          /\ \A t \in job.typeSet : \E n \in TypeNames :
                LowerCase[n] = t /\ (Waits(n) \/ TypeMade(n))
          /\ \A b \in DOMAIN job.batch : LowerCase[job.batch[b].type] \in job.typeSet
          /\ \A r \in job.mine : LowerCase[records[r].type] \in job.typeSet
LinesCounted(i) ==
    LET job == helpImport[i] IN
    /\ job.imported + job.skipped + Len(job.batch) = job.at - 1
    /\ job.imported = Cardinality(job.mine)
SheetTyped(i) ==
    helpImport[i].step = "done" =>
        \A r \in helpImport[i].mine :
            \E n \in TypeNames : LowerCase[n] = LowerCase[records[r].type] /\ TypeMade(n)
ImportFine(i) == ImportKnows(i) /\ LinesCounted(i) /\ SheetTyped(i)

LEMMA ImportsAre ==
    ImportsKnow /\ SheetIsCounted /\ DoneTyped <=> \A i \in HelpImports : ImportFine(i)
BY DEF ImportsKnow, SheetIsCounted, DoneTyped, ImportFine, ImportKnows, LinesCounted, SheetTyped

(* So does an import that did nothing. *)
LEMMA HelpImportStays ==
    ASSUME HelpRecordsTypeOK, HelpMoves, NEW i \in HelpImports, ImportFine(i),
           helpImport'[i] = helpImport[i]
    PROVE  ImportFine(i)'
<1>1. PICK job : job = helpImport[i]
    OBVIOUS
<1>2. job \in HelpImport /\ job.mine \subseteq RecordIds
    BY <1>1 DEF HelpRecordsTypeOK
<1>3. \A r \in job.mine : r \in RecordIds /\ records'[r].type = records[r].type
    BY <1>2 DEF HelpMoves
<1>4. \A n \in TypeNames : TypeMade(n) => types'[n] > 0 \/ n \in lost'.types
    BY DEF HelpMoves
<1>5. LinesCounted(i)'
    BY <1>1 DEF ImportFine, LinesCounted
<1>6. SheetTyped(i)'
    BY <1>1, <1>3, <1>4 DEF ImportFine, SheetTyped, TypeMade
<1>7. ImportKnows(i)'
  <2>1. ASSUME job.step = "rows", NEW t \in job.typeSet
        PROVE  \E n \in TypeNames : LowerCase[n] = t
                  /\ (\/ \E k \in DOMAIN job.newTypes : job.newTypes[k] = n
                      \/ types'[n] > 0 \/ n \in lost'.types)
    BY <1>1, <1>4, <2>1 DEF ImportFine, ImportKnows
  <2> QED BY <1>1, <1>3, <2>1 DEF ImportFine, ImportKnows, TypeMade
<1> QED BY <1>5, <1>6, <1>7 DEF ImportFine

LEMMA ImportsStay ==
    ASSUME HelpRecordsTypeOK, HelpMoves, ImportsKnow, SheetIsCounted, DoneTyped,
           UNCHANGED helpImport
    PROVE  ImportsKnow' /\ SheetIsCounted' /\ DoneTyped'
<1>1. ASSUME NEW i \in HelpImports PROVE ImportFine(i)'
    BY HelpImportStays, ImportsAre
<1> QED BY <1>1 DEF ImportsKnow, SheetIsCounted, DoneTyped, ImportFine, ImportKnows, LinesCounted,
                    SheetTyped

LEMMA OtherImportsStay ==
    ASSUME HelpRecordsTypeOK, HelpMoves, ImportsKnow, SheetIsCounted, DoneTyped,
           NEW i \in HelpImports, NEW job, helpImport' = [helpImport EXCEPT ![i] = job],
           ImportFine(i)'
    PROVE  ImportsKnow' /\ SheetIsCounted' /\ DoneTyped'
<1>1. \A m \in HelpImports : m # i => helpImport'[m] = helpImport[m]
    BY DEF HelpRecordsTypeOK
<1>2. ASSUME NEW m \in HelpImports, m # i PROVE ImportFine(m)'
    BY <1>1, <1>2, HelpImportStays, ImportsAre
<1>3. \A m \in HelpImports : ImportFine(m)'
    BY <1>2
<1> QED BY <1>3 DEF ImportsKnow, SheetIsCounted, DoneTyped, ImportFine, ImportKnows, LinesCounted,
                    SheetTyped

(* Visits have their records still when what goes is known, and no record comes that       *)
(* should have a visit.                                                                    *)
LEMMA VisitsStay ==
    ASSUME HelpRecordsTypeOK, HelpMoves, VisitsApart, VisitsHaveRecords,
           UNCHANGED <<helpJob, cabinetVisits>>,
           \A r \in RecordIds : records[r].here /\ ~records'[r].here => r \in lost'.records,
           \A r \in RecordIds' \ RecordIds : records'[r].of # "cabinet"
    PROVE  VisitsHaveRecords'
<1>1. CabinetIds' = CabinetIds
    BY DEF CabinetIds
<1>2. ASSUME NEW c \in CabinetIds, cabinetVisits[c].here, ~records'[cabinetVisits[c].record].here
      PROVE  \/ cabinetVisits[c].record \in lost'.records
             \/ \E j \in HelpJobs : helpJob[j].step = "deleteVisit" /\ helpJob[j].visit = c
  <2>1. cabinetVisits[c].record \in RecordIds
    BY DEF VisitsApart
  <2>2. CASE records[cabinetVisits[c].record].here
    BY <1>2, <2>1, <2>2
  <2>3. CASE ~records[cabinetVisits[c].record].here
    BY <1>2, <2>3 DEF VisitsHaveRecords, HelpMoves
  <2> QED BY <2>2, <2>3
<1>3. ASSUME NEW r \in RecordIds', records'[r].here, records'[r].of = "cabinet"
      PROVE  \/ \E c \in CabinetIds : cabinetVisits[c].record = r /\ cabinetVisits[c].here
             \/ r \in lost'.records
             \/ \E j \in HelpJobs : helpJob[j].step # "idle" /\ helpJob[j].record = r
    BY <1>3 DEF VisitsHaveRecords, HelpMoves
<1> QED BY <1>1, <1>2, <1>3 DEF VisitsHaveRecords

(* The same when a request goes on that was not about to remove a visit, with the record   *)
(* it has, if any.                                                                         *)
LEMMA VisitsStayOf ==
    ASSUME HelpRecordsTypeOK, HelpMoves, VisitsApart, VisitsHaveRecords,
           UNCHANGED cabinetVisits, NEW j \in HelpJobs, NEW job,
           helpJob' = [helpJob EXCEPT ![j] = job], helpJob[j].step # "deleteVisit",
           helpJob[j].record # 0 =>
              job.step # "idle" /\ job.record = helpJob[j].record,
           \A r \in RecordIds : records[r].here /\ ~records'[r].here =>
               \/ r \in lost'.records
               \/ /\ job.step = "deleteVisit"
                  /\ \A c \in CabinetIds : cabinetVisits[c].record = r => job.visit = c,
           \A r \in RecordIds' \ RecordIds : records'[r].of = "cabinet" =>
               job.step # "idle" /\ job.record = r
    PROVE  VisitsHaveRecords'
<1>1. CabinetIds' = CabinetIds
    BY DEF CabinetIds
<1>2. helpJob'[j] = job /\ \A m \in HelpJobs : m # j => helpJob'[m] = helpJob[m]
    BY DEF HelpRecordsTypeOK
<1>3. ASSUME NEW c \in CabinetIds, cabinetVisits[c].here, ~records'[cabinetVisits[c].record].here
      PROVE  \/ cabinetVisits[c].record \in lost'.records
             \/ \E m \in HelpJobs : helpJob'[m].step = "deleteVisit" /\ helpJob'[m].visit = c
  <2>1. cabinetVisits[c].record \in RecordIds
    BY DEF VisitsApart
  <2>2. CASE records[cabinetVisits[c].record].here
    BY <1>2, <1>3, <2>1, <2>2
  <2>3. CASE ~records[cabinetVisits[c].record].here
    <3>1. \/ cabinetVisits[c].record \in lost.records
          \/ \E m \in HelpJobs : helpJob[m].step = "deleteVisit" /\ helpJob[m].visit = c
      BY <1>3, <2>3 DEF VisitsHaveRecords
    <3> QED BY <1>2, <3>1 DEF HelpMoves
  <2> QED BY <2>2, <2>3
<1>4. ASSUME NEW r \in RecordIds', records'[r].here, records'[r].of = "cabinet"
      PROVE  \/ \E c \in CabinetIds : cabinetVisits[c].record = r /\ cabinetVisits[c].here
             \/ r \in lost'.records
             \/ \E m \in HelpJobs : helpJob'[m].step # "idle" /\ helpJob'[m].record = r
  <2>1. CASE r \in RecordIds
    <3>1. records[r].here /\ records[r].of = "cabinet"
      BY <1>4, <2>1 DEF HelpMoves
    <3>2. \/ \E c \in CabinetIds : cabinetVisits[c].record = r /\ cabinetVisits[c].here
          \/ r \in lost.records
          \/ \E m \in HelpJobs : helpJob[m].step # "idle" /\ helpJob[m].record = r
      BY <2>1, <3>1 DEF VisitsHaveRecords
    <3>3. r # 0
      BY <2>1, HelpTypes
    <3> QED BY <1>2, <3>2, <3>3 DEF HelpMoves
  <2>2. CASE r \notin RecordIds
    BY <1>2, <1>4, <2>2
  <2> QED BY <2>1, <2>2
<1> QED BY <1>1, <1>3, <1>4 DEF VisitsHaveRecords

(* Types have their causes still, and records their types, when no type is made and every  *)
(* new record has one.                                                                     *)
LEMMA CausesStay ==
    ASSUME TypesHaveCause, UNCHANGED types, doubled \subseteq doubled'
    PROVE  TypesHaveCause'
BY DEF TypesHaveCause

LEMMA TypedStay ==
    ASSUME HelpRecordsTypeOK, HelpMoves, RecordsTyped,
           \A r \in RecordIds' \ RecordIds : records'[r].of \in {"inline", "cabinet"} =>
               types'[records'[r].type] > 0 \/ records'[r].type \in lost'.types
    PROVE  RecordsTyped'
<1>1. \A r \in RecordIds : records[r].type \in TypeNames
    BY HelpTypes DEF HelpRecord
<1> QED BY <1>1 DEF RecordsTyped, TypeMade, HelpMoves

LEMMA HelpParts ==
    ASSUME HelpInv
    PROVE  /\ HelpRecordsTypeOK /\ JobsKnow /\ VisitsApart /\ ImportsKnow /\ SheetIsCounted
           /\ DoneTyped /\ TypesHaveCause /\ RecordsTyped /\ VisitsHaveRecords
BY TypedIs DEF HelpInv

LEMMA HelpWhole ==
    ASSUME HelpRecordsTypeOK', JobsKnow', VisitsApart', ImportsKnow', SheetIsCounted',
           DoneTyped', TypesHaveCause', RecordsTyped', VisitsHaveRecords'
    PROVE  HelpInv'
BY DEF HelpInv, TypesAreThere, RecordsTyped, DoneTyped, TypeMade

LEMMA HelpStarts ==
    ASSUME HelpInit
    PROVE  HelpInv
<1>1. RecordIds = {} /\ CabinetIds = {} /\ Len(records) = 0 /\ Len(cabinetVisits) = 0
    BY DEF HelpInit, RecordIds, CabinetIds
<1>2. IdleHelpJob \in HelpJob /\ IdleHelpImport \in HelpImport
    BY HelpRecordsAssumption DEF IdleHelpJob, IdleHelpImport, HelpJob, HelpImport, HelpStatuses
<1>3. \A j \in HelpJobs : helpJob[j] = IdleHelpJob
    BY DEF HelpInit
<1>4. \A i \in HelpImports : helpImport[i] = IdleHelpImport
    BY DEF HelpInit
<1>5. HelpRecordsTypeOK
  <2>1. records \in Seq(HelpRecord) /\ cabinetVisits \in Seq(CabinetVisit)
    BY DEF HelpInit
  <2>2. types \in [TypeNames -> Nat] /\ leads \in [Leads -> Nat]
        /\ hood \in [People -> Hoods \union {None}]
    BY DEF HelpInit
  <2>3. helpJob \in [HelpJobs -> HelpJob] /\ helpImport \in [HelpImports -> HelpImport]
    BY <1>2 DEF HelpInit
  <2>4. \A i \in HelpImports : /\ Len(helpImport[i].batch) <= SheetBatch
                               /\ helpImport[i].at <= Len(helpImport[i].sheet) + 1
                               /\ helpImport[i].mine \subseteq RecordIds
    BY <1>4, HelpRecordsAssumption DEF IdleHelpImport
  <2>5. helpWork \in 0 .. MaxHelpWork /\ doubled \subseteq TypeNames
        /\ lost \in [types : SUBSET TypeNames, records : SUBSET (1 .. MaxRecords)]
    BY HelpRecordsAssumption DEF HelpInit
  <2> QED BY <1>1, <2>1, <2>2, <2>3, <2>4, <2>5, HelpRecordsAssumption DEF HelpRecordsTypeOK
<1>6. JobsKnow
    BY <1>3 DEF JobsKnow, IdleHelpJob
<1>7. VisitsApart /\ VisitsHaveRecords /\ TypesHaveCause
    BY <1>1 DEF VisitsApart, VisitsHaveRecords, TypesHaveCause, HelpInit
<1>8. ImportsKnow
    BY <1>4 DEF ImportsKnow, IdleHelpImport
<1>9. SheetIsCounted
  <2>1. \A i \in HelpImports : LET job == helpImport[i] IN
           job.imported = 0 /\ job.skipped = 0 /\ job.batch = <<>> /\ job.at = 1 /\ job.mine = {}
    BY <1>4 DEF IdleHelpImport
  <2>2. Cardinality({}) = 0 /\ Len(<<>>) = 0
    BY FS_EmptySet
  <2>3. ASSUME NEW i \in HelpImports
        PROVE  Len(helpImport[i].batch) = 0 /\ Cardinality(helpImport[i].mine) = 0
    BY <2>1, <2>2, Zenon
  <2> QED BY <2>1, <2>3 DEF SheetIsCounted
<1>10. TypesAreThere
    BY <1>1, <1>4 DEF TypesAreThere, IdleHelpImport
<1> QED BY <1>5, <1>6, <1>7, <1>8, <1>9, <1>10 DEF HelpInv

(* What does not touch rows, types or history moves nothing. *)
LEMMA NothingMoves ==
    ASSUME UNCHANGED <<rowVars, lost>>
    PROVE  HelpMoves /\ RecordIds' = RecordIds /\ CabinetIds' = CabinetIds
BY DEF HelpMoves, rowVars, RecordIds, CabinetIds, TypeMade

(* Types are kept by a step of a request or a type. *)
LEMMA HelpTypesStay ==
    ASSUME HelpRecordsTypeOK, UNCHANGED sheetVars,
           records' \in Seq(HelpRecord), Len(records') <= MaxRecords,
           RecordIds \subseteq RecordIds',
           cabinetVisits' \in Seq(CabinetVisit), Len(cabinetVisits') <= MaxVisitsIn,
           types' \in [TypeNames -> Nat], helpJob' \in [HelpJobs -> HelpJob],
           helpWork' \in 0 .. MaxHelpWork, doubled' \subseteq TypeNames,
           lost' \in [types : SUBSET TypeNames, records : SUBSET (1 .. MaxRecords)]
    PROVE  HelpRecordsTypeOK'
BY DEF HelpRecordsTypeOK, sheetVars

LEMMA WorkStays ==
    ASSUME HelpRecordsTypeOK, Works \/ UNCHANGED helpWork
    PROVE  helpWork' \in 0 .. MaxHelpWork
BY HelpRecordsAssumption DEF HelpRecordsTypeOK, Works

LEMMA MakesType ==
    ASSUME HelpInv, NEW n \in TypeNames, CreateType(n)
    PROVE  HelpInv'
<1>1. /\ types' = [types EXCEPT ![n] = @ + 1] /\ doubled' = doubled \union {n}
      /\ UNCHANGED <<records, cabinetVisits, helpJob, lost>> /\ UNCHANGED sheetVars
    BY DEF CreateType
<1>2. types \in [TypeNames -> Nat] /\ HelpRecordsTypeOK
    BY HelpParts DEF HelpRecordsTypeOK
<1>3. \A m \in TypeNames : m # n => types'[m] = types[m]
    BY <1>1, <1>2
<1>4. types'[n] \in Nat /\ types'[n] > 0 /\ types' \in [TypeNames -> Nat]
    BY <1>1, <1>2
<1>5. HelpMoves /\ RecordIds' = RecordIds
    BY <1>1, <1>3, <1>4 DEF HelpMoves, RecordIds, CabinetIds, TypeMade
<1>6. HelpRecordsTypeOK'
  <2>1. helpWork' \in 0 .. MaxHelpWork
    BY <1>2, WorkStays DEF CreateType
  <2>2. doubled' \subseteq TypeNames
    BY <1>1, <1>2 DEF HelpRecordsTypeOK
  <2> QED BY <1>1, <1>2, <1>4, <1>5, <2>1, <2>2, HelpTypesStay DEF HelpRecordsTypeOK
<1>7. JobsKnow' /\ VisitsApart'
    BY <1>1, <1>2, <1>5, HelpParts, JobsStay
<1>8. ImportsKnow' /\ SheetIsCounted' /\ DoneTyped'
    BY <1>1, <1>2, <1>5, HelpParts, ImportsStay DEF sheetVars
<1>9. VisitsHaveRecords'
    BY <1>1, <1>2, <1>5, HelpParts, VisitsStay
<1>10. TypesHaveCause'
    BY <1>1, <1>3, HelpParts DEF TypesHaveCause
<1>11. RecordsTyped'
    BY <1>2, <1>5, HelpParts, TypedStay
<1> QED BY <1>6, <1>7, <1>8, <1>9, <1>10, <1>11, HelpWhole

LEMMA RemovesType ==
    ASSUME HelpInv, NEW n \in TypeNames, RemoveType(n)
    PROVE  HelpInv'
<1>1. /\ types' = [types EXCEPT ![n] = @ - 1] /\ types[n] > 0
      /\ lost' = [lost EXCEPT !.types = @ \union {n}]
      /\ UNCHANGED <<records, cabinetVisits, helpJob, doubled>> /\ UNCHANGED sheetVars
    BY DEF RemoveType
<1>2. types \in [TypeNames -> Nat] /\ HelpRecordsTypeOK
      /\ lost \in [types : SUBSET TypeNames, records : SUBSET (1 .. MaxRecords)]
    BY HelpParts DEF HelpRecordsTypeOK
<1>3. \A m \in TypeNames : m # n => types'[m] = types[m]
    BY <1>1, <1>2
<1>4. types'[n] = types[n] - 1 /\ types' \in [TypeNames -> Nat]
    BY <1>1, <1>2
<1>5. lost'.types = lost.types \union {n} /\ lost'.records = lost.records
      /\ lost' \in [types : SUBSET TypeNames, records : SUBSET (1 .. MaxRecords)]
    BY <1>1, <1>2
<1>6. HelpMoves /\ RecordIds' = RecordIds
    BY <1>1, <1>3, <1>5 DEF HelpMoves, RecordIds, CabinetIds, TypeMade
<1>7. HelpRecordsTypeOK'
  <2>1. helpWork' \in 0 .. MaxHelpWork
    BY <1>2, WorkStays DEF RemoveType
  <2> QED BY <1>1, <1>2, <1>4, <1>5, <1>6, <2>1, HelpTypesStay DEF HelpRecordsTypeOK
<1>8. JobsKnow' /\ VisitsApart'
    BY <1>1, <1>2, <1>6, HelpParts, JobsStay
<1>9. ImportsKnow' /\ SheetIsCounted' /\ DoneTyped'
    BY <1>1, <1>2, <1>6, HelpParts, ImportsStay DEF sheetVars
<1>10. VisitsHaveRecords'
    BY <1>1, <1>2, <1>6, HelpParts, VisitsStay
<1>11. TypesHaveCause'
    BY <1>1, <1>2, <1>3, <1>4, HelpParts DEF TypesHaveCause
<1>12. RecordsTyped'
    BY <1>2, <1>6, HelpParts, TypedStay
<1> QED BY <1>7, <1>8, <1>9, <1>10, <1>11, <1>12, HelpWhole

(* A record comes after those there are. *)
LEMMA RecordComes ==
    ASSUME HelpRecordsTypeOK, NEW r \in HelpRecord, records' = Append(records, r),
           Len(records) < MaxRecords,
           types' = types, lost' = lost, cabinetVisits' = cabinetVisits
    PROVE  /\ HelpMoves /\ records' \in Seq(HelpRecord) /\ Len(records') <= MaxRecords
           /\ RecordIds' = RecordIds \union {Len(records) + 1} /\ CabinetIds' = CabinetIds
           /\ Len(records) + 1 \in (1 .. MaxRecords) \ RecordIds /\ records'[Len(records) + 1] = r
           /\ \A s \in RecordIds : records'[s] = records[s]
<1>1. PICK n : n = Len(records)
    OBVIOUS
<1>2. n \in Nat /\ RecordIds = 1 .. n /\ n < MaxRecords /\ MaxRecords \in Nat
    BY <1>1, HelpTypes DEF RecordIds
<1>3. records' \in Seq(HelpRecord) /\ Len(records') = n + 1 /\ records'[n + 1] = r
      /\ \A s \in 1 .. n : records'[s] = records[s]
    BY <1>1 DEF HelpRecordsTypeOK
<1>4. RecordIds' = 1 .. (n + 1)
    BY <1>3 DEF RecordIds
<1>5. RecordIds' = RecordIds \union {n + 1} /\ n + 1 \in (1 .. MaxRecords) \ RecordIds
      /\ Len(records') <= MaxRecords
    BY <1>2, <1>3, <1>4
<1>6. CabinetIds' = CabinetIds
    BY DEF CabinetIds
<1>7. HelpMoves
    BY <1>2, <1>3, <1>5, <1>6 DEF HelpMoves, TypeMade
<1> QED BY <1>1, <1>2, <1>3, <1>5, <1>6, <1>7

LEMMA MakesRecord ==
    ASSUME HelpInv, NEW n \in TypeNames, NEW p \in People \union {None}, CreateRecord(n, p)
    PROVE  HelpInv'
<1>1. PICK r : r = [here |-> TRUE, type |-> n, person |-> p, status |-> "PENDING",
                    of |-> "request"]
    OBVIOUS
<1>2. /\ records' = Append(records, r) /\ Len(records) < MaxRecords
      /\ UNCHANGED <<cabinetVisits, types, helpJob, doubled, lost>> /\ UNCHANGED sheetVars
    BY <1>1 DEF CreateRecord
<1>3. r \in HelpRecord /\ r.of = "request" /\ HelpRecordsTypeOK
    BY <1>1, HelpParts DEF HelpRecord, HelpStatuses
<1>4. /\ HelpMoves /\ records' \in Seq(HelpRecord) /\ Len(records') <= MaxRecords
      /\ RecordIds' = RecordIds \union {Len(records) + 1}
      /\ records'[Len(records) + 1] = r
      /\ \A s \in RecordIds : records'[s] = records[s]
    BY <1>2, <1>3, RecordComes
<1>5. HelpRecordsTypeOK'
  <2>1. helpWork' \in 0 .. MaxHelpWork
    BY <1>3, WorkStays DEF CreateRecord
  <2> QED BY <1>2, <1>3, <1>4, <2>1, HelpTypesStay DEF HelpRecordsTypeOK
<1>6. JobsKnow' /\ VisitsApart'
    BY <1>2, <1>3, <1>4, HelpParts, JobsStay
<1>7. ImportsKnow' /\ SheetIsCounted' /\ DoneTyped'
    BY <1>2, <1>3, <1>4, HelpParts, ImportsStay DEF sheetVars
<1>8. VisitsHaveRecords'
    BY <1>2, <1>3, <1>4, HelpParts, VisitsStay
<1>9. TypesHaveCause'
    BY <1>2, HelpParts, CausesStay
<1>10. RecordsTyped'
    BY <1>3, <1>4, HelpParts, TypedStay
<1> QED BY <1>5, <1>6, <1>7, <1>8, <1>9, <1>10, HelpWhole

(* A record goes. *)
LEMMA RecordGoes ==
    ASSUME HelpRecordsTypeOK, NEW r \in RecordIds, records' = [records EXCEPT ![r].here = FALSE]
    PROVE  /\ records' \in Seq(HelpRecord) /\ Len(records') = Len(records)
           /\ RecordIds' = RecordIds /\ ~records'[r].here
           /\ \A s \in RecordIds : /\ s # r => records'[s] = records[s]
                                   /\ records'[s].type = records[s].type
                                   /\ records'[s].of = records[s].of
                                   /\ records'[s].here => records[s].here
<1>1. records \in Seq(HelpRecord) /\ r \in 1 .. Len(records)
    BY DEF HelpRecordsTypeOK, RecordIds
<1>2. PICK row : row = [records[r] EXCEPT !.here = FALSE]
    OBVIOUS
<1>3. records[r] \in HelpRecord
    BY HelpTypes
<1>4. row \in HelpRecord /\ row.type = records[r].type /\ row.of = records[r].of /\ ~row.here
    BY <1>2, <1>3 DEF HelpRecord
<1>5. records' = [records EXCEPT ![r] = row]
    BY <1>2
<1>6. PICK after : after = [records EXCEPT ![r] = row]
    OBVIOUS
<1>7. /\ after \in Seq(HelpRecord) /\ Len(after) = Len(records)
      /\ \A s \in RecordIds : after[s] = IF s = r THEN row ELSE records[s]
  <2>1. PICK n \in Nat : n = Len(records)
    BY <1>1
  <2>2. records \in [1 .. n -> HelpRecord] /\ r \in 1 .. n
    BY <1>1, <2>1
  <2>3. /\ after \in [1 .. n -> HelpRecord]
        /\ \A s \in 1 .. n : after[s] = IF s = r THEN row ELSE records[s]
    BY <1>4, <1>6, <2>2
  <2>4. after \in Seq(HelpRecord) /\ Len(after) = n
    BY <2>3
  <2> QED BY <2>1, <2>3, <2>4 DEF RecordIds
<1>8. records' = after
    BY <1>5, <1>6
<1>9. RecordIds' = RecordIds
    BY <1>7, <1>8 DEF RecordIds
<1> QED BY <1>4, <1>7, <1>8, <1>9

LEMMA RemovesRecord ==
    ASSUME HelpInv, NEW r, RemoveRecord(r)
    PROVE  HelpInv'
<1>1. /\ records' = [records EXCEPT ![r].here = FALSE] /\ r \in RecordIds
      /\ lost' = [lost EXCEPT !.records = @ \union {r}]
      /\ UNCHANGED <<cabinetVisits, types, helpJob, doubled>> /\ UNCHANGED sheetVars
    BY DEF RemoveRecord
<1>2. HelpRecordsTypeOK
      /\ lost \in [types : SUBSET TypeNames, records : SUBSET (1 .. MaxRecords)]
    BY HelpParts DEF HelpRecordsTypeOK
<1>3. lost'.types = lost.types /\ lost'.records = lost.records \union {r}
      /\ lost' \in [types : SUBSET TypeNames, records : SUBSET (1 .. MaxRecords)]
    BY <1>1, <1>2, HelpTypes
<1>4. /\ records' \in Seq(HelpRecord) /\ Len(records') = Len(records)
      /\ RecordIds' = RecordIds
      /\ \A s \in RecordIds : /\ s # r => records'[s] = records[s]
                              /\ records'[s].type = records[s].type
                              /\ records'[s].of = records[s].of
                              /\ records'[s].here => records[s].here
    BY <1>1, <1>2, RecordGoes
<1>5. HelpMoves
    BY <1>1, <1>3, <1>4 DEF HelpMoves, CabinetIds, TypeMade
<1>6. HelpRecordsTypeOK'
  <2>1. helpWork' \in 0 .. MaxHelpWork
    BY <1>2, WorkStays DEF RemoveRecord
  <2>2. Len(records') <= MaxRecords
    BY <1>4, <1>2, HelpTypes
  <2> QED BY <1>1, <1>2, <1>3, <1>4, <2>1, <2>2, HelpTypesStay DEF HelpRecordsTypeOK
<1>7. JobsKnow' /\ VisitsApart'
    BY <1>1, <1>2, <1>5, HelpParts, JobsStay
<1>8. ImportsKnow' /\ SheetIsCounted' /\ DoneTyped'
    BY <1>1, <1>2, <1>5, HelpParts, ImportsStay DEF sheetVars
<1>9. VisitsHaveRecords'
  <2>1. \A s \in RecordIds : records[s].here /\ ~records'[s].here => s \in lost'.records
    BY <1>3, <1>4
  <2> QED BY <1>1, <1>2, <1>4, <1>5, <2>1, HelpParts, VisitsStay
<1>10. TypesHaveCause'
    BY <1>1, HelpParts, CausesStay
<1>11. RecordsTyped'
    BY <1>2, <1>4, <1>5, HelpParts, TypedStay
<1> QED BY <1>6, <1>7, <1>8, <1>9, <1>10, <1>11, HelpWhole

LEMMA MovesVoter ==
    ASSUME HelpInv, NEW p \in People, NEW h \in Hoods, MoveVoter(p, h)
    PROVE  HelpInv'
<1>1. /\ hood' = [hood EXCEPT ![p] = h] /\ UNCHANGED rowVars
      /\ UNCHANGED <<leads, helpImport, helpJob, doubled, lost>>
    BY DEF MoveVoter
<1>2. HelpRecordsTypeOK /\ hood \in [People -> Hoods \union {None}]
    BY HelpParts DEF HelpRecordsTypeOK
<1>3. HelpMoves /\ RecordIds' = RecordIds
    BY <1>1, NothingMoves
<1>4. HelpRecordsTypeOK'
  <2>1. helpWork' \in 0 .. MaxHelpWork
    BY <1>2, WorkStays DEF MoveVoter
  <2>2. hood' \in [People -> Hoods \union {None}]
    BY <1>1, <1>2
  <2> QED BY <1>1, <1>2, <1>3, <2>1, <2>2 DEF HelpRecordsTypeOK, rowVars
<1>5. JobsKnow' /\ VisitsApart'
    BY <1>1, <1>2, <1>3, HelpParts, JobsStay DEF rowVars
<1>6. ImportsKnow' /\ SheetIsCounted' /\ DoneTyped'
    BY <1>1, <1>2, <1>3, HelpParts, ImportsStay
<1>7. VisitsHaveRecords'
    BY <1>1, <1>2, <1>3, HelpParts, VisitsStay DEF rowVars
<1>8. TypesHaveCause'
    BY <1>1, HelpParts, CausesStay DEF rowVars
<1>9. RecordsTyped'
    BY <1>2, <1>3, HelpParts, TypedStay
<1> QED BY <1>4, <1>5, <1>6, <1>7, <1>8, <1>9, HelpWhole

LEMMA FindsType ==
    ASSUME HelpInv, NEW j \in HelpJobs, NEW job \in HelpJob, job.record = 0, FindType(j, job)
    PROVE  HelpInv'
<1>1. PICK new : new = [job EXCEPT !.step = IF TypeThere(job.type) THEN "record" ELSE "type",
                                   !.missing = types[job.type] = 0]
    OBVIOUS
<1>2. /\ helpJob[j].step = "idle" /\ helpJob' = [helpJob EXCEPT ![j] = new]
      /\ UNCHANGED rowVars /\ UNCHANGED sheetVars /\ UNCHANGED <<doubled, lost>>
    BY <1>1 DEF FindType, HelpJobIs
<1>3. HelpRecordsTypeOK /\ types \in [TypeNames -> Nat] /\ job.type \in TypeNames
      /\ helpJob \in [HelpJobs -> HelpJob]
    BY HelpParts DEF HelpRecordsTypeOK, HelpJob
<1>4. /\ new \in HelpJob /\ new.record = 0 /\ new.type = job.type
      /\ \/ new.step = "record" /\ types[job.type] > 0
         \/ new.step = "type" /\ new.missing
  <2>1. new \in HelpJob /\ new.record = 0 /\ new.type = job.type
    BY <1>1, <1>3 DEF HelpJob
  <2>2. CASE types[job.type] > 0
    BY <1>1, <1>3, <2>1, <2>2 DEF TypeThere, HelpJob
  <2>3. CASE types[job.type] = 0
    <3>1. ~TypeThere(job.type)
      BY <2>3 DEF TypeThere
    <3>2. new.step = "type" /\ new.missing
      BY <1>1, <2>3, <3>1, Zenon DEF HelpJob
    <3> QED BY <2>1, <3>2
  <2> QED BY <1>3, <2>1, <2>2, <2>3
<1>5. HelpMoves /\ RecordIds' = RecordIds /\ CabinetIds' = CabinetIds
    BY <1>2, NothingMoves
<1>6. HelpRecordsTypeOK'
  <2>1. helpWork' \in 0 .. MaxHelpWork
    BY <1>3, WorkStays DEF FindType
  <2>2. helpJob' \in [HelpJobs -> HelpJob]
    BY <1>2, <1>3, <1>4
  <2> QED BY <1>2, <1>3, <1>5, <2>1, <2>2, HelpTypesStay DEF HelpRecordsTypeOK, rowVars
<1>7. helpJob'[j] = new
    BY <1>2, <1>3
<1>8. JobKnows(j)'
    BY <1>2, <1>4, <1>7 DEF JobKnows, TypeMade, rowVars
<1>9. JobsKnow' /\ VisitsApart'
    BY <1>2, <1>3, <1>4, <1>5, <1>8, HelpParts, HelpRequestsStay
<1>10. ImportsKnow' /\ SheetIsCounted' /\ DoneTyped'
    BY <1>2, <1>3, <1>5, HelpParts, ImportsStay DEF sheetVars
<1>11. VisitsHaveRecords'
  <2>1. helpJob[j].record = 0
    BY <1>2, HelpParts DEF JobsKnow
  <2> QED BY <1>2, <1>3, <1>5, <2>1, HelpParts, VisitsStayOf DEF rowVars
<1>12. TypesHaveCause'
    BY <1>2, HelpParts, CausesStay DEF rowVars
<1>13. RecordsTyped'
    BY <1>3, <1>5, HelpParts, TypedStay
<1> QED BY <1>6, <1>9, <1>10, <1>11, <1>12, <1>13, HelpWhole

LEMMA LooksForType ==
    ASSUME HelpInv, NEW j \in HelpJobs,
           \/ \E n \in TypeNames, p \in People, status \in {"IN_PROGRESS", "UNKNOWN"} :
                 CreateInlineRecord(j, n, p, status)
           \/ \E p \in People \union {None} : CreateCabinetVisit(j, p)
    PROVE  HelpInv'
<1>1. IdleHelpJob \in HelpJob /\ IdleHelpJob.record = 0
    BY HelpRecordsAssumption DEF IdleHelpJob, HelpJob, HelpStatuses
<1>2. ASSUME NEW n \in TypeNames, NEW p \in People, NEW status, CreateInlineRecord(j, n, p, status)
      PROVE  HelpInv'
  <2>1. PICK job : job = [IdleHelpJob EXCEPT !.type = n, !.person = p, !.status = StatusOf(status)]
    OBVIOUS
  <2>2. StatusOf(status) \in HelpStatuses
    BY DEF StatusOf, HelpStatuses
  <2>3. job \in HelpJob /\ job.record = 0
    BY <1>1, <1>2, <2>1, <2>2 DEF HelpJob
  <2>4. FindType(j, job)
    BY <1>2, <2>1 DEF CreateInlineRecord
  <2> QED BY <2>3, <2>4, FindsType
<1>3. ASSUME NEW p \in People \union {None}, CreateCabinetVisit(j, p)
      PROVE  HelpInv'
  <2>1. PICK job : job = [IdleHelpJob EXCEPT !.person = p, !.status = "COMPLETED",
                                             !.cabinet = TRUE]
    OBVIOUS
  <2>2. job \in HelpJob /\ job.record = 0
    BY <1>1, <1>3, <2>1 DEF HelpJob, HelpStatuses
  <2>3. FindType(j, job)
    BY <1>3, <2>1 DEF CreateCabinetVisit
  <2> QED BY <2>2, <2>3, FindsType
<1> QED BY <1>2, <1>3

LEMMA SavesType ==
    ASSUME HelpInv, NEW j \in HelpJobs, SaveType(j)
    PROVE  HelpInv'
<1>1. PICK job, new : job = helpJob[j] /\ new = [job EXCEPT !.step = "record"]
    OBVIOUS
<1>2. /\ job.step = "type" /\ types' = [types EXCEPT ![job.type] = @ + 1]
      /\ doubled' = IF job.missing /\ types[job.type] > 0 THEN doubled \union {job.type}
                    ELSE doubled
      /\ helpJob' = [helpJob EXCEPT ![j] = new]
      /\ UNCHANGED <<records, cabinetVisits, helpWork, lost>> /\ UNCHANGED sheetVars
    BY <1>1 DEF SaveType, HelpJobIs
<1>3. HelpRecordsTypeOK /\ types \in [TypeNames -> Nat] /\ job \in HelpJob
      /\ helpJob \in [HelpJobs -> HelpJob] /\ job.type \in TypeNames
    BY <1>1, HelpParts, HelpTypes DEF HelpRecordsTypeOK, HelpJob
<1>4. job.missing /\ job.record = 0
    BY <1>1, <1>2, HelpParts DEF JobsKnow
<1>5. new \in HelpJob /\ new.step = "record" /\ new.type = job.type /\ new.record = 0
    BY <1>1, <1>3, <1>4 DEF HelpJob
<1>6. /\ types' \in [TypeNames -> Nat] /\ types'[job.type] = types[job.type] + 1
      /\ \A m \in TypeNames : m # job.type => types'[m] = types[m]
    BY <1>2, <1>3
<1>7. types'[job.type] > 0
    BY <1>3, <1>6
<1>8. HelpMoves /\ RecordIds' = RecordIds /\ CabinetIds' = CabinetIds
    BY <1>2, <1>6, <1>7 DEF HelpMoves, RecordIds, CabinetIds, TypeMade
<1>9. HelpRecordsTypeOK'
  <2>1. helpJob' \in [HelpJobs -> HelpJob] /\ doubled' \subseteq TypeNames
    BY <1>2, <1>3, <1>5 DEF HelpRecordsTypeOK
  <2> QED BY <1>2, <1>3, <1>6, <1>8, <2>1, HelpTypesStay DEF HelpRecordsTypeOK
<1>10. helpJob'[j] = new
    BY <1>2, <1>3
<1>11. JobKnows(j)'
    BY <1>5, <1>7, <1>10 DEF JobKnows, TypeMade
<1>12. JobsKnow' /\ VisitsApart'
    BY <1>2, <1>3, <1>5, <1>8, <1>11, HelpParts, HelpRequestsStay
<1>13. ImportsKnow' /\ SheetIsCounted' /\ DoneTyped'
    BY <1>2, <1>3, <1>8, HelpParts, ImportsStay DEF sheetVars
<1>14. VisitsHaveRecords'
    BY <1>1, <1>2, <1>3, <1>4, <1>8, HelpParts, VisitsStayOf
<1>15. TypesHaveCause'
  <2>1. types[job.type] + 1 > 1 => types[job.type] > 0
    BY <1>3
  <2> QED BY <1>2, <1>4, <1>6, <2>1, HelpParts DEF TypesHaveCause
<1>16. RecordsTyped'
    BY <1>3, <1>8, HelpParts, TypedStay
<1> QED BY <1>9, <1>12, <1>13, <1>14, <1>15, <1>16, HelpWhole

LEMMA SavesRecord ==
    ASSUME HelpInv, NEW j \in HelpJobs, SaveRecord(j)
    PROVE  HelpInv'
<1>1. PICK job, id, r, new :
         /\ job = helpJob[j] /\ id = Len(records) + 1
         /\ r = [here |-> TRUE, type |-> job.type, person |-> job.person,
                 status |-> job.status, of |-> IF job.cabinet THEN "cabinet" ELSE "inline"]
         /\ new = IF job.cabinet THEN [job EXCEPT !.step = "visit", !.record = id]
                  ELSE IdleHelpJob
    OBVIOUS
<1>2. /\ job.step = "record" /\ records' = Append(records, r) /\ Len(records) < MaxRecords
      /\ helpJob' = [helpJob EXCEPT ![j] = new]
      /\ UNCHANGED <<cabinetVisits, types, helpWork, doubled, lost>> /\ UNCHANGED sheetVars
    BY <1>1 DEF SaveRecord, HelpJobIs
<1>3. HelpRecordsTypeOK /\ job \in HelpJob /\ helpJob \in [HelpJobs -> HelpJob]
    BY <1>1, HelpParts, HelpTypes DEF HelpRecordsTypeOK
<1>4. r \in HelpRecord /\ r.type = job.type /\ r.here
      /\ r.of = (IF job.cabinet THEN "cabinet" ELSE "inline")
    BY <1>1, <1>3 DEF HelpRecord, HelpJob
<1>5. /\ HelpMoves /\ records' \in Seq(HelpRecord) /\ Len(records') <= MaxRecords
      /\ RecordIds' = RecordIds \union {id} /\ CabinetIds' = CabinetIds
      /\ id \in (1 .. MaxRecords) \ RecordIds /\ records'[id] = r
      /\ \A s \in RecordIds : records'[s] = records[s]
    BY <1>1, <1>2, <1>3, <1>4, RecordComes
<1>6. job.record = 0 /\ TypeMade(job.type)
    BY <1>1, <1>2, HelpParts DEF JobsKnow
<1>7. /\ new \in HelpJob
      /\ \/ job.cabinet /\ new.step = "visit" /\ new.record = id
         \/ ~job.cabinet /\ new.step = "idle" /\ new.record = 0
  <2>1. CASE job.cabinet
    <3>1. new = [job EXCEPT !.step = "visit", !.record = id]
      BY <1>1, <2>1
    <3>2. id \in 0 .. MaxRecords
      BY <1>5
    <3> QED BY ONLY <1>3, <2>1, <3>1, <3>2 DEF HelpJob
  <2>2. CASE ~job.cabinet
    BY <1>1, <2>2, HelpRecordsAssumption DEF IdleHelpJob, HelpJob, HelpStatuses
  <2> QED BY <1>3, <2>1, <2>2 DEF HelpJob
<1>8. HelpRecordsTypeOK'
  <2>1. helpJob' \in [HelpJobs -> HelpJob]
    BY <1>2, <1>3, <1>7
  <2> QED BY <1>2, <1>3, <1>5, <2>1, HelpTypesStay DEF HelpRecordsTypeOK
<1>9. helpJob'[j] = new /\ \A m \in HelpJobs : m # j => helpJob'[m] = helpJob[m]
    BY <1>2, <1>3
<1>10. JobKnows(j)'
  <2>1. CASE job.cabinet
    <3>1. \A c \in CabinetIds' : cabinetVisits'[c].record # id
      BY <1>2, <1>5, HelpParts DEF VisitsApart
    <3>2. \A m \in HelpJobs : helpJob'[m].step = "visit" /\ helpJob'[m].record = id => m = j
      <4>1. \A m \in HelpJobs : helpJob[m].step = "visit" => helpJob[m].record \in RecordIds
        BY HelpParts DEF JobsKnow
      <4> QED BY <1>5, <1>9, <4>1
    <3>3. id \in RecordIds' /\ records'[id].here
      BY <1>4, <1>5
    <3> QED BY <1>7, <1>9, <2>1, <3>1, <3>2, <3>3 DEF JobKnows
  <2>2. CASE ~job.cabinet
    BY <1>7, <1>9, <2>2 DEF JobKnows
  <2> QED BY <1>3, <2>1, <2>2 DEF HelpJob
<1>11. JobsKnow' /\ VisitsApart'
  <2>1. new.step = "visit" => new.record \notin RecordIds
    BY <1>5, <1>7
  <2> QED BY <1>2, <1>3, <1>5, <1>10, <2>1, HelpParts, HelpRequestsStay
<1>12. ImportsKnow' /\ SheetIsCounted' /\ DoneTyped'
    BY <1>2, <1>3, <1>5, HelpParts, ImportsStay DEF sheetVars
<1>13. VisitsHaveRecords'
  <2>1. \A s \in RecordIds' \ RecordIds : records'[s].of = "cabinet" =>
            new.step # "idle" /\ new.record = s
    BY <1>4, <1>5, <1>7
  <2>2. \A s \in RecordIds : records[s].here /\ ~records'[s].here => s \in lost'.records
    BY <1>5
  <2>3. helpJob[j].step # "deleteVisit" /\ ~(helpJob[j].record # 0)
    BY <1>1, <1>2, <1>6
  <2> QED BY <1>2, <1>3, <1>5, <2>1, <2>2, <2>3, HelpParts, VisitsStayOf
<1>14. TypesHaveCause'
    BY <1>2, HelpParts, CausesStay
<1>15. RecordsTyped'
  <2>1. types'[r.type] > 0 \/ r.type \in lost'.types
    BY <1>2, <1>4, <1>6 DEF TypeMade
  <2> QED BY <1>3, <1>5, <2>1, HelpParts, TypedStay
<1> QED BY <1>8, <1>11, <1>12, <1>13, <1>14, <1>15, HelpWhole

LEMMA SavesCabinetVisit ==
    ASSUME HelpInv, NEW j \in HelpJobs, SaveCabinetVisit(j)
    PROVE  HelpInv'
<1>1. PICK job, n, v : /\ job = helpJob[j] /\ n = Len(cabinetVisits)
                       /\ v = [here |-> TRUE, record |-> job.record, person |-> job.person]
    OBVIOUS
<1>2. /\ job.step = "visit" /\ n < MaxVisitsIn /\ cabinetVisits' = Append(cabinetVisits, v)
      /\ helpJob' = [helpJob EXCEPT ![j] = IdleHelpJob]
      /\ UNCHANGED <<records, types, helpWork, doubled, lost>> /\ UNCHANGED sheetVars
    BY <1>1 DEF SaveCabinetVisit, HelpJobIs
<1>3. HelpRecordsTypeOK /\ job \in HelpJob /\ helpJob \in [HelpJobs -> HelpJob]
      /\ cabinetVisits \in Seq(CabinetVisit)
    BY <1>1, HelpParts, HelpTypes DEF HelpRecordsTypeOK
<1>4. /\ job.record \in RecordIds
      /\ \A c \in CabinetIds : cabinetVisits[c].record # job.record
      /\ \A k \in HelpJobs : helpJob[k].step = "visit" /\ helpJob[k].record = job.record => k = j
    BY <1>1, <1>2, HelpParts DEF JobsKnow
<1>5. v \in CabinetVisit /\ v.record = job.record /\ v.here
    BY <1>1, <1>3, <1>4, HelpTypes DEF CabinetVisit, HelpJob
<1>6. /\ n \in Nat /\ cabinetVisits' \in Seq(CabinetVisit) /\ Len(cabinetVisits') = n + 1
      /\ cabinetVisits'[n + 1] = v /\ CabinetIds = 1 .. n
      /\ \A c \in 1 .. n : cabinetVisits'[c] = cabinetVisits[c]
    BY <1>1, <1>2, <1>3, <1>5 DEF CabinetIds
<1>7. CabinetIds' = CabinetIds \union {n + 1} /\ n + 1 \notin CabinetIds
      /\ Len(cabinetVisits') <= MaxVisitsIn
  <2>1. CabinetIds' = 1 .. (n + 1)
    BY <1>6 DEF CabinetIds
  <2> QED BY <1>2, <1>3, <1>6, <2>1, HelpTypes
<1>8. RecordIds' = RecordIds
    BY <1>2 DEF RecordIds
<1>9. HelpMoves
    BY <1>2, <1>6, <1>7, <1>8 DEF HelpMoves, TypeMade
<1>10. IdleHelpJob \in HelpJob /\ IdleHelpJob.step = "idle" /\ IdleHelpJob.record = 0
    BY HelpRecordsAssumption DEF IdleHelpJob, HelpJob, HelpStatuses
<1>11. HelpRecordsTypeOK'
  <2>1. helpJob' \in [HelpJobs -> HelpJob]
    BY <1>2, <1>3, <1>10
  <2> QED BY <1>2, <1>3, <1>6, <1>7, <1>8, <2>1, HelpTypesStay DEF HelpRecordsTypeOK
<1>12. helpJob'[j] = IdleHelpJob /\ \A m \in HelpJobs : m # j => helpJob'[m] = helpJob[m]
    BY <1>2, <1>3
<1>13. JobsKnow'
  <2>1. ASSUME NEW k \in HelpJobs, k # j PROVE JobKnows(k)'
    <3>1. \A c \in CabinetIds' : helpJob[k].step = "visit" =>
             c \in CabinetIds \/ cabinetVisits'[c].record # helpJob[k].record
      BY <1>4, <1>5, <1>6, <1>7, <2>1
    <3>2. \A m \in HelpJobs : helpJob'[m].step = "visit" => helpJob'[m] = helpJob[m]
      BY <1>10, <1>12
    <3> QED BY <1>3, <1>9, <1>12, <2>1, <3>1, <3>2, HelpParts, JobStays, JobsKnowIs
  <2>2. JobKnows(j)'
    BY <1>10, <1>12 DEF JobKnows
  <2>3. \A k \in HelpJobs : JobKnows(k)'
    BY <2>1, <2>2
  <2> QED BY <2>3 DEF JobsKnow, JobKnows
<1>14. VisitsApart'
  <2>1. \A c \in CabinetIds' : cabinetVisits'[c].record \in RecordIds'
    BY <1>4, <1>5, <1>6, <1>7, <1>8, HelpParts DEF VisitsApart
  <2>2. ASSUME NEW c \in CabinetIds', NEW d \in CabinetIds',
               cabinetVisits'[c].record = cabinetVisits'[d].record
        PROVE  c = d
    BY <1>4, <1>5, <1>6, <1>7, <2>2, HelpParts DEF VisitsApart
  <2> QED BY <2>1, <2>2 DEF VisitsApart
<1>15. ImportsKnow' /\ SheetIsCounted' /\ DoneTyped'
    BY <1>2, <1>3, <1>9, HelpParts, ImportsStay DEF sheetVars
<1>16. VisitsHaveRecords'
  <2>1. ASSUME NEW c \in CabinetIds', cabinetVisits'[c].here,
               ~records'[cabinetVisits'[c].record].here
        PROVE  \/ cabinetVisits'[c].record \in lost'.records
               \/ \E m \in HelpJobs : helpJob'[m].step = "deleteVisit" /\ helpJob'[m].visit = c
    <3>1. CASE c = n + 1
      <4>1. records[job.record].here \/ job.record \in lost.records
        BY <1>1, <1>2, HelpParts DEF JobsKnow
      <4> QED BY <1>2, <1>5, <1>6, <2>1, <3>1, <4>1
    <3>2. CASE c # n + 1
      <4>1. c \in CabinetIds /\ cabinetVisits'[c] = cabinetVisits[c]
        BY <1>6, <1>7, <2>1, <3>2
      <4>2. \/ cabinetVisits[c].record \in lost.records
            \/ \E m \in HelpJobs : helpJob[m].step = "deleteVisit" /\ helpJob[m].visit = c
        BY <1>2, <2>1, <4>1, HelpParts DEF VisitsHaveRecords
      <4>3. \A m \in HelpJobs : helpJob[m].step = "deleteVisit" => m # j
        BY <1>1, <1>2
      <4> QED BY <1>2, <1>12, <4>1, <4>2, <4>3
    <3> QED BY <3>1, <3>2
  <2>2. ASSUME NEW r \in RecordIds', records'[r].here, records'[r].of = "cabinet"
        PROVE  \/ \E c \in CabinetIds' : cabinetVisits'[c].record = r /\ cabinetVisits'[c].here
               \/ r \in lost'.records
               \/ \E m \in HelpJobs : helpJob'[m].step # "idle" /\ helpJob'[m].record = r
    <3>1. \/ \E c \in CabinetIds : cabinetVisits[c].record = r /\ cabinetVisits[c].here
          \/ r \in lost.records
          \/ \E m \in HelpJobs : helpJob[m].step # "idle" /\ helpJob[m].record = r
      BY <1>2, <1>8, <2>2, HelpParts DEF VisitsHaveRecords
    <3>2. CASE \E c \in CabinetIds : cabinetVisits[c].record = r /\ cabinetVisits[c].here
      BY <1>6, <1>7, <3>2
    <3>3. CASE \E m \in HelpJobs : helpJob[m].step # "idle" /\ helpJob[m].record = r
      <4>1. PICK m \in HelpJobs : helpJob[m].step # "idle" /\ helpJob[m].record = r
        BY <3>3
      <4>2. CASE m = j
        BY <1>1, <1>5, <1>6, <1>7, <4>1, <4>2
      <4>3. CASE m # j
        BY <1>12, <4>1, <4>3
      <4> QED BY <4>2, <4>3
    <3> QED BY <1>2, <3>1, <3>2, <3>3
  <2> QED BY <2>1, <2>2 DEF VisitsHaveRecords
<1>17. TypesHaveCause'
    BY <1>2, HelpParts, CausesStay
<1>18. RecordsTyped'
    BY <1>3, <1>8, <1>9, HelpParts, TypedStay
<1> QED BY <1>11, <1>13, <1>14, <1>15, <1>16, <1>17, <1>18, HelpWhole

LEMMA StartsRemoval ==
    ASSUME HelpInv, NEW j \in HelpJobs, NEW c, RemoveCabinetVisit(j, c)
    PROVE  HelpInv'
<1>1. PICK new : new = [IdleHelpJob EXCEPT !.step = "deleteRecord", !.visit = c,
                                           !.record = cabinetVisits[c].record]
    OBVIOUS
<1>2. /\ c \in CabinetIds /\ helpJob[j].step = "idle"
      /\ helpJob' = [helpJob EXCEPT ![j] = new]
      /\ UNCHANGED rowVars /\ UNCHANGED sheetVars /\ UNCHANGED <<doubled, lost>>
    BY <1>1 DEF RemoveCabinetVisit, HelpJobIs
<1>3. HelpRecordsTypeOK /\ helpJob \in [HelpJobs -> HelpJob]
    BY HelpParts DEF HelpRecordsTypeOK
<1>4. cabinetVisits[c].record \in RecordIds
    BY <1>2, HelpParts DEF VisitsApart
<1>5. new \in HelpJob /\ new.step = "deleteRecord" /\ new.visit = c
      /\ new.record = cabinetVisits[c].record
  <2>1. cabinetVisits[c].record \in 0 .. MaxRecords /\ c \in 0 .. MaxVisitsIn
    BY <1>2, <1>3, <1>4, HelpTypes
  <2> QED BY <1>1, <2>1, HelpRecordsAssumption DEF IdleHelpJob, HelpJob, HelpStatuses
<1>6. HelpMoves /\ RecordIds' = RecordIds /\ CabinetIds' = CabinetIds
    BY <1>2, NothingMoves
<1>7. HelpRecordsTypeOK'
  <2>1. helpWork' \in 0 .. MaxHelpWork
    BY <1>3, WorkStays DEF RemoveCabinetVisit
  <2>2. helpJob' \in [HelpJobs -> HelpJob]
    BY <1>2, <1>3, <1>5
  <2> QED BY <1>2, <1>3, <1>6, <2>1, <2>2, HelpTypesStay DEF HelpRecordsTypeOK, rowVars
<1>8. JobsKnow' /\ VisitsApart'
  <2>1. helpJob'[j] = new
    BY <1>2, <1>3
  <2>2. JobKnows(j)'
    BY <1>2, <1>4, <1>5, <1>6, <2>1 DEF JobKnows, rowVars
  <2> QED BY <1>2, <1>3, <1>5, <1>6, <2>2, HelpParts, HelpRequestsStay
<1>9. ImportsKnow' /\ SheetIsCounted' /\ DoneTyped'
    BY <1>2, <1>3, <1>6, HelpParts, ImportsStay DEF sheetVars
<1>10. VisitsHaveRecords'
  <2>1. helpJob[j].record = 0
    BY <1>2, HelpParts DEF JobsKnow
  <2> QED BY <1>2, <1>3, <1>6, <2>1, HelpParts, VisitsStayOf DEF rowVars
<1>11. TypesHaveCause'
    BY <1>2, HelpParts, CausesStay DEF rowVars
<1>12. RecordsTyped'
    BY <1>3, <1>6, HelpParts, TypedStay
<1> QED BY <1>7, <1>8, <1>9, <1>10, <1>11, <1>12, HelpWhole

LEMMA DeletesRecord ==
    ASSUME HelpInv, NEW j \in HelpJobs, DeleteRecord(j)
    PROVE  HelpInv'
<1>1. PICK job, new, r : job = helpJob[j] /\ new = [job EXCEPT !.step = "deleteVisit"]
                         /\ r = job.record
    OBVIOUS
<1>2. /\ job.step = "deleteRecord" /\ records' = [records EXCEPT ![r].here = FALSE]
      /\ helpJob' = [helpJob EXCEPT ![j] = new]
      /\ UNCHANGED <<cabinetVisits, types, helpWork, doubled, lost>> /\ UNCHANGED sheetVars
    BY <1>1 DEF DeleteRecord, HelpJobIs
<1>3. HelpRecordsTypeOK /\ job \in HelpJob /\ helpJob \in [HelpJobs -> HelpJob]
    BY <1>1, HelpParts, HelpTypes DEF HelpRecordsTypeOK
<1>4. r \in RecordIds /\ job.visit \in CabinetIds /\ cabinetVisits[job.visit].record = r
    BY <1>1, <1>2, HelpParts DEF JobsKnow
<1>5. new \in HelpJob /\ new.step = "deleteVisit" /\ new.visit = job.visit /\ new.record = r
    BY <1>1, <1>3 DEF HelpJob
<1>6. /\ records' \in Seq(HelpRecord) /\ Len(records') = Len(records)
      /\ RecordIds' = RecordIds /\ ~records'[r].here
      /\ \A s \in RecordIds : /\ s # r => records'[s] = records[s]
                              /\ records'[s].type = records[s].type
                              /\ records'[s].of = records[s].of
                              /\ records'[s].here => records[s].here
    BY <1>2, <1>3, <1>4, RecordGoes
<1>7. CabinetIds' = CabinetIds
    BY <1>2 DEF CabinetIds
<1>8. HelpMoves
    BY <1>2, <1>4, <1>6, <1>7 DEF HelpMoves, TypeMade
<1>9. HelpRecordsTypeOK'
  <2>1. helpJob' \in [HelpJobs -> HelpJob]
    BY <1>2, <1>3, <1>5
  <2>2. Len(records') <= MaxRecords
    BY <1>3, <1>6, HelpTypes
  <2> QED BY <1>2, <1>3, <1>6, <2>1, <2>2, HelpTypesStay DEF HelpRecordsTypeOK
<1>10. JobsKnow' /\ VisitsApart'
  <2>1. helpJob'[j] = new
    BY <1>2, <1>3
  <2>2. JobKnows(j)'
    BY <1>2, <1>4, <1>5, <1>6, <1>7, <2>1 DEF JobKnows
  <2> QED BY <1>2, <1>3, <1>5, <1>7, <1>8, <2>2, HelpParts, HelpRequestsStay
<1>11. ImportsKnow' /\ SheetIsCounted' /\ DoneTyped'
    BY <1>2, <1>3, <1>8, HelpParts, ImportsStay DEF sheetVars
<1>12. VisitsHaveRecords'
  <2>1. \A c \in CabinetIds : cabinetVisits[c].record = r => new.visit = c
    BY <1>4, <1>5, HelpParts DEF VisitsApart
  <2>2. \A s \in RecordIds : records[s].here /\ ~records'[s].here => s = r
    BY <1>6
  <2>3. helpJob[j].step # "deleteVisit" /\ new.record = helpJob[j].record /\ new.step # "idle"
    BY <1>1, <1>2, <1>5
  <2>4. \A s \in RecordIds : records[s].here /\ ~records'[s].here =>
            \/ s \in lost'.records
            \/ /\ new.step = "deleteVisit"
               /\ \A c \in CabinetIds : cabinetVisits[c].record = s => new.visit = c
    BY <1>5, <2>1, <2>2
  <2>5. RecordIds' \ RecordIds = {}
    BY <1>6
  <2>6. cabinetVisits' = cabinetVisits /\ helpJob' = [helpJob EXCEPT ![j] = new]
        /\ HelpRecordsTypeOK /\ HelpMoves /\ VisitsApart /\ VisitsHaveRecords
    BY <1>2, <1>3, <1>8, HelpParts
  <2> QED BY ONLY <2>3, <2>4, <2>5, <2>6, VisitsStayOf
<1>13. TypesHaveCause'
    BY <1>2, HelpParts, CausesStay
<1>14. RecordsTyped'
    BY <1>3, <1>6, <1>8, HelpParts, TypedStay
<1> QED BY <1>9, <1>10, <1>11, <1>12, <1>13, <1>14, HelpWhole

(* A visit goes. *)
LEMMA VisitGoes ==
    ASSUME HelpRecordsTypeOK, NEW v \in CabinetIds,
           cabinetVisits' = [cabinetVisits EXCEPT ![v].here = FALSE]
    PROVE  /\ cabinetVisits' \in Seq(CabinetVisit) /\ Len(cabinetVisits') = Len(cabinetVisits)
           /\ CabinetIds' = CabinetIds /\ ~cabinetVisits'[v].here
           /\ \A c \in CabinetIds : /\ c # v => cabinetVisits'[c] = cabinetVisits[c]
                                    /\ cabinetVisits'[c].record = cabinetVisits[c].record
<1>1. cabinetVisits \in Seq(CabinetVisit) /\ v \in 1 .. Len(cabinetVisits)
    BY DEF HelpRecordsTypeOK, CabinetIds
<1>2. PICK row, after : /\ row = [cabinetVisits[v] EXCEPT !.here = FALSE]
                        /\ after = [cabinetVisits EXCEPT ![v] = row]
    OBVIOUS
<1>3. cabinetVisits[v] \in CabinetVisit
    BY HelpTypes
<1>4. row \in CabinetVisit /\ row.record = cabinetVisits[v].record /\ ~row.here
    BY <1>2, <1>3 DEF CabinetVisit
<1>5. PICK n \in Nat : n = Len(cabinetVisits)
    BY <1>1
<1>6. cabinetVisits \in [1 .. n -> CabinetVisit] /\ v \in 1 .. n
    BY <1>1, <1>5
<1>7. /\ after \in [1 .. n -> CabinetVisit]
      /\ \A c \in 1 .. n : after[c] = IF c = v THEN row ELSE cabinetVisits[c]
    BY <1>2, <1>4, <1>6
<1>8. after \in Seq(CabinetVisit) /\ Len(after) = n
    BY <1>7
<1>9. cabinetVisits' = after
    BY <1>2
<1>10. CabinetIds' = 1 .. n /\ CabinetIds = 1 .. n
    BY <1>5, <1>8, <1>9 DEF CabinetIds
<1> QED BY <1>4, <1>5, <1>6, <1>7, <1>8, <1>9, <1>10

LEMMA DeletesCabinetVisit ==
    ASSUME HelpInv, NEW j \in HelpJobs, DeleteCabinetVisit(j)
    PROVE  HelpInv'
<1>1. PICK job, v : job = helpJob[j] /\ v = job.visit
    OBVIOUS
<1>2. /\ job.step = "deleteVisit" /\ cabinetVisits' = [cabinetVisits EXCEPT ![v].here = FALSE]
      /\ helpJob' = [helpJob EXCEPT ![j] = IdleHelpJob]
      /\ UNCHANGED <<records, types, helpWork, doubled, lost>> /\ UNCHANGED sheetVars
    BY <1>1 DEF DeleteCabinetVisit, HelpJobIs
<1>3. HelpRecordsTypeOK /\ job \in HelpJob /\ helpJob \in [HelpJobs -> HelpJob]
    BY <1>1, HelpParts, HelpTypes DEF HelpRecordsTypeOK
<1>4. v \in CabinetIds /\ cabinetVisits[v].record = job.record /\ ~records[job.record].here
    BY <1>1, <1>2, HelpParts DEF JobsKnow
<1>5. /\ cabinetVisits' \in Seq(CabinetVisit) /\ Len(cabinetVisits') = Len(cabinetVisits)
      /\ CabinetIds' = CabinetIds /\ ~cabinetVisits'[v].here
      /\ \A c \in CabinetIds : /\ c # v => cabinetVisits'[c] = cabinetVisits[c]
                               /\ cabinetVisits'[c].record = cabinetVisits[c].record
    BY <1>2, <1>3, <1>4, VisitGoes
<1>6. IdleHelpJob \in HelpJob /\ IdleHelpJob.step = "idle" /\ IdleHelpJob.record = 0
    BY HelpRecordsAssumption DEF IdleHelpJob, HelpJob, HelpStatuses
<1>7. RecordIds' = RecordIds
    BY <1>2 DEF RecordIds
<1>8. HelpMoves
    BY <1>2, <1>5, <1>7 DEF HelpMoves, TypeMade
<1>9. helpJob'[j] = IdleHelpJob /\ \A m \in HelpJobs : m # j => helpJob'[m] = helpJob[m]
    BY <1>2, <1>3
<1>10. HelpRecordsTypeOK'
  <2>1. helpJob' \in [HelpJobs -> HelpJob]
    BY <1>2, <1>3, <1>6
  <2>2. Len(cabinetVisits') <= MaxVisitsIn
    BY <1>3, <1>5, HelpTypes
  <2> QED BY <1>2, <1>3, <1>5, <1>7, <2>1, <2>2, HelpTypesStay DEF HelpRecordsTypeOK
<1>11. JobsKnow' /\ VisitsApart'
  <2>1. JobKnows(j)'
    BY <1>6, <1>9 DEF JobKnows
  <2> QED BY <1>2, <1>3, <1>5, <1>6, <1>8, <2>1, HelpParts, HelpRequestsStay
<1>12. ImportsKnow' /\ SheetIsCounted' /\ DoneTyped'
    BY <1>2, <1>3, <1>8, HelpParts, ImportsStay DEF sheetVars
<1>13. VisitsHaveRecords'
  <2>1. ASSUME NEW c \in CabinetIds', cabinetVisits'[c].here,
               ~records'[cabinetVisits'[c].record].here
        PROVE  \/ cabinetVisits'[c].record \in lost'.records
               \/ \E m \in HelpJobs : helpJob'[m].step = "deleteVisit" /\ helpJob'[m].visit = c
    <3>1. c \in CabinetIds /\ c # v /\ cabinetVisits'[c] = cabinetVisits[c]
      BY <1>5, <2>1
    <3>2. \/ cabinetVisits[c].record \in lost.records
          \/ \E m \in HelpJobs : helpJob[m].step = "deleteVisit" /\ helpJob[m].visit = c
      BY <1>2, <2>1, <3>1, HelpParts DEF VisitsHaveRecords
    <3> QED BY <1>1, <1>2, <1>9, <3>1, <3>2
  <2>2. ASSUME NEW r \in RecordIds', records'[r].here, records'[r].of = "cabinet"
        PROVE  \/ \E c \in CabinetIds' : cabinetVisits'[c].record = r /\ cabinetVisits'[c].here
               \/ r \in lost'.records
               \/ \E m \in HelpJobs : helpJob'[m].step # "idle" /\ helpJob'[m].record = r
    <3>1. r # job.record
      BY <1>2, <1>4, <2>2
    <3>2. \/ \E c \in CabinetIds : cabinetVisits[c].record = r /\ cabinetVisits[c].here
          \/ r \in lost.records
          \/ \E m \in HelpJobs : helpJob[m].step # "idle" /\ helpJob[m].record = r
      BY <1>2, <1>7, <2>2, HelpParts DEF VisitsHaveRecords
    <3> QED BY <1>1, <1>2, <1>4, <1>5, <1>9, <3>1, <3>2
  <2> QED BY <2>1, <2>2 DEF VisitsHaveRecords
<1>14. TypesHaveCause'
    BY <1>2, HelpParts, CausesStay
<1>15. RecordsTyped'
    BY <1>3, <1>7, <1>8, HelpParts, TypedStay
<1> QED BY <1>10, <1>11, <1>12, <1>13, <1>14, <1>15, HelpWhole

LEMMA JobDies ==
    ASSUME HelpInv, NEW j \in HelpJobs, HelpJobDies(j)
    PROVE  HelpInv'
<1>1. PICK job : job = helpJob[j]
    OBVIOUS
<1>2. /\ job.step # "idle" /\ lost' = [lost EXCEPT !.records = @ \union ({job.record} \ {0})]
      /\ helpJob' = [helpJob EXCEPT ![j] = IdleHelpJob]
      /\ UNCHANGED rowVars /\ UNCHANGED sheetVars /\ UNCHANGED <<helpWork, doubled>>
    BY <1>1 DEF HelpJobDies, HelpJobIs
<1>3. HelpRecordsTypeOK /\ job \in HelpJob /\ helpJob \in [HelpJobs -> HelpJob]
      /\ lost \in [types : SUBSET TypeNames, records : SUBSET (1 .. MaxRecords)]
    BY <1>1, HelpParts, HelpTypes DEF HelpRecordsTypeOK
<1>4. job.record \in RecordIds \/ job.record = 0
    BY <1>1, HelpParts DEF JobsKnow
<1>5. /\ lost'.types = lost.types /\ lost'.records = lost.records \union ({job.record} \ {0})
      /\ lost' \in [types : SUBSET TypeNames, records : SUBSET (1 .. MaxRecords)]
    BY <1>2, <1>3, <1>4, HelpTypes
<1>6. IdleHelpJob \in HelpJob /\ IdleHelpJob.step = "idle" /\ IdleHelpJob.record = 0
    BY HelpRecordsAssumption DEF IdleHelpJob, HelpJob, HelpStatuses
<1>7. HelpMoves /\ RecordIds' = RecordIds /\ CabinetIds' = CabinetIds
    BY <1>2, <1>5 DEF HelpMoves, TypeMade, rowVars, RecordIds, CabinetIds
<1>8. helpJob'[j] = IdleHelpJob /\ \A m \in HelpJobs : m # j => helpJob'[m] = helpJob[m]
    BY <1>2, <1>3
<1>9. HelpRecordsTypeOK'
  <2>1. helpJob' \in [HelpJobs -> HelpJob]
    BY <1>2, <1>3, <1>6
  <2> QED BY <1>2, <1>3, <1>5, <1>7, <2>1, HelpTypesStay DEF HelpRecordsTypeOK, rowVars
<1>10. JobsKnow' /\ VisitsApart'
  <2>1. JobKnows(j)'
    BY <1>6, <1>8 DEF JobKnows
  <2> QED BY <1>2, <1>3, <1>6, <1>7, <2>1, HelpParts, HelpRequestsStay
<1>11. ImportsKnow' /\ SheetIsCounted' /\ DoneTyped'
    BY <1>2, <1>3, <1>7, HelpParts, ImportsStay DEF sheetVars
<1>12. VisitsHaveRecords'
  <2>1. ASSUME NEW c \in CabinetIds, cabinetVisits[c].here, ~records[cabinetVisits[c].record].here
        PROVE  \/ cabinetVisits[c].record \in lost'.records
               \/ \E m \in HelpJobs : helpJob'[m].step = "deleteVisit" /\ helpJob'[m].visit = c
    <3>1. \/ cabinetVisits[c].record \in lost.records
          \/ \E m \in HelpJobs : helpJob[m].step = "deleteVisit" /\ helpJob[m].visit = c
      BY <2>1, HelpParts DEF VisitsHaveRecords
    <3>2. CASE \E m \in HelpJobs : helpJob[m].step = "deleteVisit" /\ helpJob[m].visit = c
      <4>1. PICK m \in HelpJobs : helpJob[m].step = "deleteVisit" /\ helpJob[m].visit = c
        BY <3>2
      <4>2. CASE m = j
        <5>1. cabinetVisits[c].record = job.record /\ job.record \in RecordIds
          BY <1>1, <4>1, <4>2, HelpParts DEF JobsKnow
        <5>2. job.record # 0
          BY <1>3, <5>1, HelpTypes
        <5> QED BY <1>5, <5>1, <5>2
      <4> QED BY <1>8, <4>1, <4>2
    <3> QED BY <1>5, <3>1, <3>2
  <2>2. ASSUME NEW r \in RecordIds, records[r].here, records[r].of = "cabinet"
        PROVE  \/ \E c \in CabinetIds : cabinetVisits[c].record = r /\ cabinetVisits[c].here
               \/ r \in lost'.records
               \/ \E m \in HelpJobs : helpJob'[m].step # "idle" /\ helpJob'[m].record = r
    <3>1. \/ \E c \in CabinetIds : cabinetVisits[c].record = r /\ cabinetVisits[c].here
          \/ r \in lost.records
          \/ \E m \in HelpJobs : helpJob[m].step # "idle" /\ helpJob[m].record = r
      BY <2>2, HelpParts DEF VisitsHaveRecords
    <3>2. r # 0
      BY <1>3, <2>2, HelpTypes
    <3>3. ASSUME NEW m \in HelpJobs, helpJob[m].step # "idle", helpJob[m].record = r
          PROVE  r \in lost'.records
                 \/ \E k \in HelpJobs : helpJob'[k].step # "idle" /\ helpJob'[k].record = r
      BY <1>1, <1>5, <1>8, <3>2, <3>3
    <3> QED BY <1>5, <3>1, <3>3
  <2> QED BY <1>2, <1>7, <2>1, <2>2 DEF VisitsHaveRecords, rowVars
<1>13. TypesHaveCause'
    BY <1>2, HelpParts, CausesStay DEF rowVars
<1>14. RecordsTyped'
    BY <1>3, <1>7, HelpParts, TypedStay
<1> QED BY <1>9, <1>10, <1>11, <1>12, <1>13, <1>14, HelpWhole

(* A step of an import that writes neither records nor types keeps the invariant when the  *)
(* import is fine after it.                                                                *)
LEMMA ImportGoesOn ==
    ASSUME HelpInv, NEW i \in HelpImports, NEW new \in HelpImport,
           helpImport' = [helpImport EXCEPT ![i] = new],
           UNCHANGED rowVars, UNCHANGED <<helpJob, doubled, lost>>,
           leads' \in [Leads -> Nat], hood' \in [People -> Hoods \union {None}],
           Works \/ UNCHANGED helpWork,
           Len(new.batch) <= SheetBatch, new.at <= Len(new.sheet) + 1, new.mine \subseteq RecordIds,
           ImportFine(i)'
    PROVE  HelpInv'
<1>1. HelpRecordsTypeOK /\ helpImport \in [HelpImports -> HelpImport]
    BY HelpParts DEF HelpRecordsTypeOK
<1>2. HelpMoves /\ RecordIds' = RecordIds
    BY NothingMoves
<1>3. HelpRecordsTypeOK'
  <2>1. helpWork' \in 0 .. MaxHelpWork
    BY <1>1, WorkStays
  <2>2. helpImport' \in [HelpImports -> HelpImport]
    BY <1>1
  <2>3. \A m \in HelpImports : /\ Len(helpImport'[m].batch) <= SheetBatch
                               /\ helpImport'[m].at <= Len(helpImport'[m].sheet) + 1
                               /\ helpImport'[m].mine \subseteq RecordIds'
    BY <1>1, <1>2 DEF HelpRecordsTypeOK
  <2> QED BY <1>1, <2>1, <2>2, <2>3 DEF HelpRecordsTypeOK, rowVars
<1>4. JobsKnow' /\ VisitsApart'
    BY <1>1, <1>2, HelpParts, JobsStay DEF rowVars
<1>5. ImportsKnow' /\ SheetIsCounted' /\ DoneTyped'
    BY <1>1, <1>2, HelpParts, OtherImportsStay
<1>6. VisitsHaveRecords'
    BY <1>1, <1>2, HelpParts, VisitsStay DEF rowVars
<1>7. TypesHaveCause'
    BY HelpParts, CausesStay DEF rowVars
<1>8. RecordsTyped'
    BY <1>1, <1>2, HelpParts, TypedStay
<1> QED BY <1>3, <1>4, <1>5, <1>6, <1>7, <1>8, HelpWhole

(* What an import is made of. *)
LEMMA ImportHas ==
    ASSUME HelpInv, NEW i \in HelpImports, NEW job, job = helpImport[i]
    PROVE  /\ job \in HelpImport /\ Len(job.batch) <= SheetBatch
           /\ job.at <= Len(job.sheet) + 1 /\ job.mine \subseteq RecordIds
           /\ job.sheet \in Seq(SheetRow) /\ job.at \in Nat \ {0} /\ job.batch \in Seq(SheetRow)
           /\ job.newTypes \in Seq(TypeNames) /\ SheetBatch \in Nat \ {0}
           /\ leads \in [Leads -> Nat] /\ hood \in [People -> Hoods \union {None}]
           /\ types \in [TypeNames -> Nat]
           /\ helpImport \in [HelpImports -> HelpImport] /\ ImportFine(i)
<1>1. HelpRecordsTypeOK
    BY HelpParts
<1>2. job \in HelpImport /\ Len(job.batch) <= SheetBatch /\ job.at <= Len(job.sheet) + 1
      /\ job.mine \subseteq RecordIds
    BY <1>1 DEF HelpRecordsTypeOK
<1>3. job.sheet \in Seq(SheetRow)
  <2>1. job.sheet \in Sheets \/ job.sheet = <<>>
    BY <1>2 DEF HelpImport
  <2>2. <<>> \in Seq(SheetRow)
    OBVIOUS
  <2> QED BY <2>1, <2>2, HelpRecordsAssumption
<1>4. ImportFine(i)
    BY HelpParts, ImportsAre
<1> QED BY <1>1, <1>2, <1>3, <1>4, HelpRecordsAssumption DEF HelpRecordsTypeOK, HelpImport

LEMMA LoadsSheet ==
    ASSUME HelpInv, NEW i \in HelpImports, NEW sheet \in Sheets, ImportLoads(i, sheet)
    PROVE  HelpInv'
<1>1. PICK job : job = helpImport[i]
    OBVIOUS
<1>2. /\ job \in HelpImport /\ Len(job.batch) <= SheetBatch /\ job.at <= Len(job.sheet) + 1
      /\ job.mine \subseteq RecordIds /\ types \in [TypeNames -> Nat]
      /\ leads \in [Leads -> Nat] /\ hood \in [People -> Hoods \union {None}]
      /\ helpImport \in [HelpImports -> HelpImport] /\ ImportFine(i)
    BY <1>1, ImportHas
<1>3. \E new : helpImport' = [helpImport EXCEPT ![i] = new]
    BY DEF ImportLoads, ImportIs
<1>4. /\ job.step \in {"idle", "leads", "types"} /\ UNCHANGED rowVars
      /\ UNCHANGED <<leads, hood, helpJob, doubled, lost>> /\ (Works \/ UNCHANGED helpWork)
    BY <1>1 DEF ImportLoads
<1>5. /\ job.at = 1 /\ job.imported = 0 /\ job.skipped = 0 /\ job.batch = <<>>
      /\ job.newTypes = <<>> /\ job.mine = {}
    BY <1>1, <1>2, <1>4 DEF ImportFine, ImportKnows
<1>6. Len(<<>>) = 0 /\ Cardinality({}) = 0 /\ \A s \in Sheets : Len(s) \in Nat
    BY FS_EmptySet, HelpRecordsAssumption
<1>7. ASSUME NEW new \in HelpImport, helpImport' = [helpImport EXCEPT ![i] = new],
             new.at = 1, new.imported = 0, new.skipped = 0, new.batch = <<>>,
             new.newTypes = <<>>, new.mine = {}, new.step # "done",
             1 <= Len(new.sheet) + 1,
             new.step = "rows" =>
                /\ \A n \in TypeNames \ new.absent : LowerCase[n] \in new.typeSet
                /\ \A t \in new.typeSet : \E n \in TypeNames : LowerCase[n] = t /\ types[n] > 0
      PROVE  HelpInv'
  <2>1. helpImport'[i] = new
    BY <1>2, <1>7
  <2>2. Len(new.batch) = 0 /\ Cardinality(new.mine) = 0
    BY <1>6, <1>7, Zenon
  <2>3. ImportKnows(i)'
    BY <1>4, <1>7, <2>1 DEF ImportKnows, rowVars, TypeMade
  <2>4. LinesCounted(i)' /\ SheetTyped(i)'
    <3>1. 0 + 0 + 0 = 1 - 1
      OBVIOUS
    <3>2. new.imported + new.skipped + Len(new.batch) = new.at - 1
          /\ new.imported = Cardinality(new.mine)
      BY <1>7, <2>2, <3>1, Zenon
    <3> QED BY <1>7, <2>1, <3>2, Zenon DEF LinesCounted, SheetTyped
  <2>5. ImportFine(i)'
    BY <2>3, <2>4 DEF ImportFine
  <2>6. Len(new.batch) <= SheetBatch /\ new.at <= Len(new.sheet) + 1 /\ new.mine \subseteq RecordIds
    BY <1>7, <2>2, HelpRecordsAssumption
  <2> QED BY <1>2, <1>4, <1>7, <2>5, <2>6, ImportGoesOn
<1>8. CASE job.step = "idle"
  <2>1. PICK new : new = [job EXCEPT !.step = "leads", !.sheet = sheet, !.hoodOf = hood]
    OBVIOUS
  <2>2. helpImport' = [helpImport EXCEPT ![i] = new]
    BY <1>1, <1>8, <2>1 DEF ImportLoads, ImportIs
  <2>3. new \in HelpImport /\ new.step = "leads" /\ new.sheet = sheet
        /\ new.at = job.at /\ new.imported = job.imported /\ new.skipped = job.skipped
        /\ new.batch = job.batch /\ new.newTypes = job.newTypes /\ new.mine = job.mine
    BY <1>2, <2>1 DEF HelpImport
  <2>4. 1 <= Len(sheet) + 1
    BY <1>6
  <2> QED BY <1>5, <1>7, <2>2, <2>3, <2>4
<1>9. CASE job.step = "leads"
  <2>1. PICK new : new = [job EXCEPT !.step = "types", !.leadOf = {n \in Leads : leads[n] > 0}]
    OBVIOUS
  <2>2. helpImport' = [helpImport EXCEPT ![i] = new]
    BY <1>1, <1>9, <2>1 DEF ImportLoads, ImportIs
  <2>3. new \in HelpImport /\ new.step = "types" /\ new.sheet = job.sheet
        /\ new.at = job.at /\ new.imported = job.imported /\ new.skipped = job.skipped
        /\ new.batch = job.batch /\ new.newTypes = job.newTypes /\ new.mine = job.mine
    BY <1>2, <2>1 DEF HelpImport
  <2> QED BY <1>2, <1>5, <1>7, <2>2, <2>3
<1>10. CASE job.step = "types"
  <2>1. PICK there, new :
          /\ there = {LowerCase[n] : n \in {m \in TypeNames : types[m] > 0}}
          /\ new = [job EXCEPT !.step = "rows", !.absent = {n \in TypeNames : types[n] = 0},
                               !.typeSet = there]
    OBVIOUS
  <2>2. helpImport' = [helpImport EXCEPT ![i] = new]
    BY <1>1, <1>10, <2>1 DEF ImportLoads, ImportIs
  <2>3. there \subseteq TypeNames
    BY <2>1, HelpRecordsAssumption
  <2>4. new \in HelpImport /\ new.step = "rows" /\ new.sheet = job.sheet
        /\ new.at = job.at /\ new.imported = job.imported /\ new.skipped = job.skipped
        /\ new.batch = job.batch /\ new.newTypes = job.newTypes /\ new.mine = job.mine
        /\ new.typeSet = there /\ new.absent = {n \in TypeNames : types[n] = 0}
    BY <1>2, <2>1, <2>3 DEF HelpImport
  <2>5. \A n \in TypeNames \ new.absent : LowerCase[n] \in new.typeSet
    BY <1>2, <2>1, <2>4
  <2>6. \A t \in new.typeSet : \E n \in TypeNames : LowerCase[n] = t /\ types[n] > 0
    BY <2>1, <2>4
  <2> QED BY <1>2, <1>5, <1>7, <2>2, <2>4, <2>5, <2>6
<1> QED BY <1>4, <1>8, <1>9, <1>10

LEMMA SkipsRow ==
    ASSUME HelpInv, NEW i \in HelpImports, SkipRow(i)
    PROVE  HelpInv'
<1>1. PICK job, new : job = helpImport[i] /\ new = [job EXCEPT !.at = @ + 1, !.skipped = @ + 1]
    OBVIOUS
<1>2. /\ job \in HelpImport /\ Len(job.batch) <= SheetBatch
      /\ job.mine \subseteq RecordIds /\ job.sheet \in Seq(SheetRow) /\ job.batch \in Seq(SheetRow)
      /\ job.at \in Nat \ {0}
      /\ leads \in [Leads -> Nat] /\ hood \in [People -> Hoods \union {None}]
      /\ helpImport \in [HelpImports -> HelpImport] /\ ImportFine(i)
    BY <1>1, ImportHas
<1>3. /\ job.step = "rows" /\ job.at <= Len(job.sheet)
      /\ helpImport' = [helpImport EXCEPT ![i] = new]
      /\ UNCHANGED rowVars /\ UNCHANGED <<leads, hood, helpJob, helpWork, doubled, lost>>
    BY <1>1 DEF SkipRow, AtRow, ImportIs
<1>4. new \in HelpImport /\ new.at = job.at + 1 /\ new.skipped = job.skipped + 1
      /\ new.step = job.step /\ new.batch = job.batch /\ new.mine = job.mine
      /\ new.imported = job.imported /\ new.sheet = job.sheet /\ new.newTypes = job.newTypes
      /\ new.typeSet = job.typeSet /\ new.absent = job.absent
  <2>1. PICK a, k : a = job.at + 1 /\ k = job.skipped + 1
    OBVIOUS
  <2>2. a \in Nat \ {0} /\ k \in Nat
    BY <1>2, <2>1, SMTT(40) DEF HelpImport
  <2>3. new = [job EXCEPT !.at = a, !.skipped = k]
    BY <1>1, <2>1
  <2> QED BY <1>2, <2>1, <2>2, <2>3 DEF HelpImport
<1>5. helpImport'[i] = new
    BY <1>2, <1>3
<1>6. ImportKnows(i)'
    BY <1>1, <1>2, <1>3, <1>4, <1>5 DEF ImportFine, ImportKnows, rowVars, TypeMade
<1>7. LinesCounted(i)'
  <2>1. job.imported + job.skipped + Len(job.batch) = job.at - 1
        /\ job.imported = Cardinality(job.mine)
    BY <1>1, <1>2 DEF ImportFine, LinesCounted
  <2>2. job.imported \in Nat /\ job.skipped \in Nat /\ Len(job.batch) \in Nat
    BY <1>2 DEF HelpImport
  <2>3. \A a, b, c, d \in Nat : a + b + c = d - 1 => a + (b + 1) + c = (d + 1) - 1
    OBVIOUS
  <2>4. PICK n \in Nat : n = Len(job.batch)
    BY <2>2
  <2>5. Len(new.batch) = n
    BY <1>4, <2>4, Zenon
  <2>6. new.imported + new.skipped + n = new.at - 1
    <3>1. PICK a \in Nat, b \in Nat, d \in Nat :
            a = job.imported /\ b = job.skipped /\ d = job.at
      BY <1>2, <2>2
    <3>2. a + b + n = d - 1
      BY ONLY <2>1, <2>4, <3>1
    <3>3. new.imported = a /\ new.skipped = b + 1 /\ new.at = d + 1
      BY ONLY <1>4, <3>1
    <3>4. a + (b + 1) + n = (d + 1) - 1
      BY ONLY <3>2
    <3> QED BY ONLY <3>3, <3>4
  <2>7. new.imported + new.skipped + Len(new.batch) = new.at - 1
    BY <2>5, <2>6, Zenon
  <2> QED BY <1>4, <1>5, <2>1, <2>7, Zenon DEF LinesCounted
<1>8. SheetTyped(i)'
    BY <1>3, <1>4, <1>5 DEF SheetTyped
<1>9. ImportFine(i)'
    BY <1>6, <1>7, <1>8 DEF ImportFine
<1>10. new.at <= Len(new.sheet) + 1
    BY <1>2, <1>3, <1>4
<1> QED BY <1>2, <1>3, <1>4, <1>9, <1>10, ImportGoesOn

LEMMA ImportGoes ==
    ASSUME HelpInv, NEW i \in HelpImports, ImportDies(i)
    PROVE  HelpInv'
<1>1. PICK job, new : job = helpImport[i] /\ new = [job EXCEPT !.step = "dead"]
    OBVIOUS
<1>2. /\ job \in HelpImport /\ Len(job.batch) <= SheetBatch /\ job.at <= Len(job.sheet) + 1
      /\ job.mine \subseteq RecordIds
      /\ leads \in [Leads -> Nat] /\ hood \in [People -> Hoods \union {None}]
      /\ helpImport \in [HelpImports -> HelpImport] /\ ImportFine(i)
    BY <1>1, ImportHas
<1>3. /\ helpImport' = [helpImport EXCEPT ![i] = new]
      /\ UNCHANGED rowVars /\ UNCHANGED <<leads, hood, helpJob, helpWork, doubled, lost>>
    BY <1>1 DEF ImportDies, ImportIs
<1>4. new \in HelpImport /\ new.step = "dead" /\ new.at = job.at /\ new.skipped = job.skipped
      /\ new.batch = job.batch /\ new.mine = job.mine
      /\ new.imported = job.imported /\ new.sheet = job.sheet
    BY <1>1, <1>2 DEF HelpImport
<1>5. helpImport'[i] = new
    BY <1>2, <1>3
<1>6. ImportKnows(i)' /\ SheetTyped(i)'
    BY <1>1, <1>2, <1>4, <1>5 DEF ImportFine, ImportKnows, SheetTyped
<1>7. LinesCounted(i)'
    BY <1>1, <1>2, <1>4, <1>5 DEF ImportFine, LinesCounted
<1>8. ImportFine(i)'
    BY <1>6, <1>7 DEF ImportFine
<1> QED BY <1>2, <1>3, <1>4, <1>8, ImportGoesOn

LEMMA MovesVoters ==
    ASSUME HelpInv, NEW i \in HelpImports, UpdateHood(i)
    PROVE  HelpInv'
<1>1. PICK job : job = helpImport[i]
    OBVIOUS
<1>2. PICK p \in job.toUpdate : /\ hood' = [hood EXCEPT ![p] = job.hoodOf[p]]
                                /\ ImportIs(i, [job EXCEPT !.toUpdate = @ \ {p}])
    BY <1>1 DEF UpdateHood
<1>3. PICK new : new = [job EXCEPT !.toUpdate = @ \ {p}]
    OBVIOUS
<1>4. /\ job \in HelpImport /\ Len(job.batch) <= SheetBatch /\ job.at <= Len(job.sheet) + 1
      /\ job.mine \subseteq RecordIds
      /\ leads \in [Leads -> Nat] /\ hood \in [People -> Hoods \union {None}]
      /\ helpImport \in [HelpImports -> HelpImport] /\ ImportFine(i)
    BY <1>1, ImportHas
<1>5. /\ helpImport' = [helpImport EXCEPT ![i] = new]
      /\ UNCHANGED rowVars /\ UNCHANGED <<leads, helpJob, helpWork, doubled, lost>>
    BY <1>1, <1>2, <1>3 DEF UpdateHood, ImportIs
<1>6. p \in People /\ job.hoodOf \in [People -> Hoods \union {None}]
    BY <1>4 DEF HelpImport
<1>7. hood' \in [People -> Hoods \union {None}]
    BY <1>2, <1>4, <1>6
<1>8. new \in HelpImport /\ new.at = job.at /\ new.skipped = job.skipped
      /\ new.step = job.step /\ new.batch = job.batch /\ new.mine = job.mine
      /\ new.imported = job.imported /\ new.sheet = job.sheet /\ new.newTypes = job.newTypes
      /\ new.typeSet = job.typeSet /\ new.absent = job.absent
    BY <1>3, <1>4 DEF HelpImport
<1>9. helpImport'[i] = new
    BY <1>4, <1>5
<1>10. ImportKnows(i)'
    BY <1>1, <1>4, <1>5, <1>8, <1>9 DEF ImportFine, ImportKnows, rowVars, TypeMade
<1>11. LinesCounted(i)' /\ SheetTyped(i)'
    BY <1>1, <1>4, <1>5, <1>8, <1>9 DEF ImportFine, LinesCounted, SheetTyped, rowVars, TypeMade
<1>12. ImportFine(i)'
    BY <1>10, <1>11 DEF ImportFine
<1> QED BY <1>4, <1>5, <1>7, <1>8, <1>12, ImportGoesOn

LEMMA TakesRow ==
    ASSUME HelpInv, NEW i \in HelpImports, TakeRow(i)
    PROVE  HelpInv'
<1>1. PICK job, row : job = helpImport[i] /\ row = job.sheet[job.at]
    OBVIOUS
<1>2. PICK isnew, moves, ts, nt, ho, up, lo, ba :
         /\ isnew = (LowerCase[row.type] \notin job.typeSet)
         /\ moves = (row.hood # None /\ row.person # None /\ job.hoodOf[row.person] = None)
         /\ ts = job.typeSet \union {LowerCase[row.type]}
         /\ nt = IF isnew THEN Append(job.newTypes, row.type) ELSE job.newTypes
         /\ ho = IF moves THEN [job.hoodOf EXCEPT ![row.person] = row.hood] ELSE job.hoodOf
         /\ up = IF moves THEN job.toUpdate \union {row.person} ELSE job.toUpdate
         /\ lo = job.leadOf \union ({row.lead} \ {None})
         /\ ba = Append(job.batch, row)
    OBVIOUS
<1>3. PICK new : new = [job EXCEPT !.at = @ + 1, !.batch = ba, !.leadOf = lo, !.typeSet = ts,
                                   !.newTypes = nt, !.hoodOf = ho, !.toUpdate = up]
    OBVIOUS
<1>4. /\ job \in HelpImport /\ Len(job.batch) <= SheetBatch
      /\ job.mine \subseteq RecordIds /\ job.sheet \in Seq(SheetRow) /\ job.batch \in Seq(SheetRow)
      /\ job.at \in Nat \ {0} /\ job.newTypes \in Seq(TypeNames) /\ SheetBatch \in Nat \ {0}
      /\ leads \in [Leads -> Nat] /\ hood \in [People -> Hoods \union {None}]
      /\ helpImport \in [HelpImports -> HelpImport] /\ ImportFine(i)
    BY <1>1, ImportHas
<1>5. /\ job.step = "rows" /\ job.at <= Len(job.sheet) /\ Len(job.batch) < SheetBatch
      /\ row.type # None
      /\ leads' = IF row.lead \in Leads \ job.leadOf THEN [leads EXCEPT ![row.lead] = @ + 1]
                  ELSE leads
      /\ UNCHANGED rowVars /\ UNCHANGED <<hood, helpJob, helpWork, doubled, lost>>
    BY <1>1 DEF TakeRow, AtRow, RowOf
<1>6. helpImport' = [helpImport EXCEPT ![i] = new]
    BY <1>1, <1>2, <1>3 DEF TakeRow, RowOf, IsNewType, ImportIs
<1>7. row \in SheetRow /\ row.type \in TypeNames /\ LowerCase[row.type] \in TypeNames
  <2>1. job.at \in 1 .. Len(job.sheet)
    BY <1>4, <1>5
  <2>2. row \in SheetRow
    BY <1>1, <1>4, <2>1
  <2>3. row.type \in TypeNames
    BY <1>5, <2>2 DEF SheetRow
  <2> QED BY <2>2, <2>3, HelpRecordsAssumption
<1>8. leads' \in [Leads -> Nat]
    BY <1>4, <1>5
<1>9. /\ ts \subseteq TypeNames /\ lo \subseteq Leads /\ up \subseteq People
      /\ ho \in [People -> Hoods \union {None}]
  <2>1. job.typeSet \subseteq TypeNames /\ job.leadOf \subseteq Leads
        /\ job.toUpdate \subseteq People /\ job.hoodOf \in [People -> Hoods \union {None}]
    BY <1>4 DEF HelpImport
  <2>2. row.lead \in Leads \union {None} /\ row.person \in People \union {None}
        /\ row.hood \in Hoods \union {None}
    BY <1>7 DEF SheetRow
  <2>3. CASE moves
    <3>1. row.person \in People /\ ho = [job.hoodOf EXCEPT ![row.person] = row.hood]
          /\ up = job.toUpdate \union {row.person}
      BY <1>2, <2>2, <2>3
    <3> QED BY <1>2, <1>7, <2>1, <2>2, <3>1
  <2>4. CASE ~moves
    BY <1>2, <1>7, <2>1, <2>2, <2>4
  <2> QED BY <2>3, <2>4
<1>10. PICK n \in Nat : n = Len(job.batch)
    BY <1>4
<1>11. ba \in Seq(SheetRow) /\ Len(ba) = n + 1 /\ DOMAIN ba = 1 .. (n + 1) /\ ba[n + 1] = row
       /\ DOMAIN job.batch = 1 .. n /\ \A b \in 1 .. n : ba[b] = job.batch[b]
    BY <1>2, <1>4, <1>7, <1>10
<1>12. PICK k \in Nat : k = Len(job.newTypes)
    BY <1>4
<1>13. /\ nt \in Seq(TypeNames) /\ DOMAIN job.newTypes = 1 .. k
       /\ \A m \in 1 .. k : m \in DOMAIN nt /\ nt[m] = job.newTypes[m]
       /\ isnew => DOMAIN nt = 1 .. (k + 1) /\ nt[k + 1] = row.type
       /\ ~isnew => DOMAIN nt = 1 .. k
  <2>1. CASE isnew
    <3>1. nt = Append(job.newTypes, row.type)
      BY <1>2, <2>1
    <3> QED BY <1>4, <1>7, <1>12, <2>1, <3>1
  <2>2. CASE ~isnew
    <3>1. nt = job.newTypes
      BY <1>2, <2>2
    <3> QED BY <1>4, <1>12, <2>2, <3>1
  <2> QED BY <2>1, <2>2
<1>14. \A m \in DOMAIN nt : m \in 1 .. k \/ (isnew /\ m = k + 1)
  <2>1. CASE isnew
    BY <1>12, <1>13, <2>1
  <2>2. CASE ~isnew
    BY <1>13, <2>2
  <2> QED BY <2>1, <2>2
<1>15. /\ new \in HelpImport /\ new.at = job.at + 1 /\ new.skipped = job.skipped
       /\ new.step = "rows" /\ new.batch = ba /\ new.mine = job.mine
       /\ new.imported = job.imported /\ new.sheet = job.sheet /\ new.newTypes = nt
       /\ new.typeSet = ts /\ new.absent = job.absent
  <2>1. PICK a : a = job.at + 1
    OBVIOUS
  <2>2. a \in Nat \ {0}
    BY <1>4, <2>1
  <2>3. new = [job EXCEPT !.at = a, !.batch = ba, !.leadOf = lo, !.typeSet = ts,
                          !.newTypes = nt, !.hoodOf = ho, !.toUpdate = up]
    BY <1>3, <2>1
  <2> QED BY ONLY <1>4, <1>5, <1>9, <1>11, <1>13, <2>1, <2>2, <2>3 DEF HelpImport
<1>16. helpImport'[i] = new
    BY <1>4, <1>6
<1>17. ImportKnows(i)'
  <2>1. /\ \A b \in DOMAIN job.batch : job.batch[b].type # None
                                       /\ LowerCase[job.batch[b].type] \in job.typeSet
        /\ \A m \in TypeNames \ job.absent : LowerCase[m] \in job.typeSet
        /\ \A m \in DOMAIN job.newTypes : /\ job.newTypes[m] \in job.absent
                                          /\ LowerCase[job.newTypes[m]] \in job.typeSet
        /\ \A l, m \in DOMAIN job.newTypes : job.newTypes[l] = job.newTypes[m] => l = m
        /\ \A t \in job.typeSet : \E m \in TypeNames : LowerCase[m] = t
              /\ ((\E l \in DOMAIN job.newTypes : job.newTypes[l] = m) \/ TypeMade(m))
        /\ \A r \in job.mine : LowerCase[records[r].type] \in job.typeSet
    BY <1>1, <1>4, <1>5 DEF ImportFine, ImportKnows
  <2>2. \A b \in DOMAIN ba : ba[b].type # None /\ LowerCase[ba[b].type] \in ts
    BY <1>2, <1>5, <1>11, <2>1
  <2>3. \A m \in TypeNames \ job.absent : LowerCase[m] \in ts
    BY <1>2, <2>1
  <2>4. \A m \in DOMAIN nt : nt[m] \in job.absent /\ LowerCase[nt[m]] \in ts
    <3>1. isnew => row.type \in job.absent
      BY <1>2, <1>7, <2>1
    <3> QED BY <1>2, <1>13, <1>14, <2>1, <3>1
  <2>5. \A l, m \in DOMAIN nt : nt[l] = nt[m] => l = m
    <3>2. isnew => \A m \in 1 .. k : nt[m] # row.type
      BY <1>2, <1>13, <2>1, ZenonT(40)
    <3>3. \A l, m \in 1 .. k : nt[l] = nt[m] => l = m
      BY <1>13, <2>1
    <3> QED BY <1>13, <1>14, <3>2, <3>3
  <2>6. \A t \in ts : \E m \in TypeNames : LowerCase[m] = t
              /\ ((\E l \in DOMAIN nt : nt[l] = m) \/ TypeMade(m))
    <3>1. ASSUME NEW t \in job.typeSet
          PROVE  \E m \in TypeNames : LowerCase[m] = t
                    /\ ((\E l \in DOMAIN nt : nt[l] = m) \/ TypeMade(m))
      BY <1>13, <2>1
    <3>2. ASSUME isnew
          PROVE  \E m \in TypeNames : LowerCase[m] = LowerCase[row.type]
                    /\ ((\E l \in DOMAIN nt : nt[l] = m) \/ TypeMade(m))
      <4>1. k + 1 \in DOMAIN nt /\ nt[k + 1] = row.type
        BY <1>13, <3>2
      <4> QED BY <1>7, <4>1
    <3>3. isnew \/ LowerCase[row.type] \in job.typeSet
      BY <1>2
    <3> QED BY <1>2, <3>1, <3>2, <3>3
  <2>7. \A r \in job.mine : LowerCase[records[r].type] \in ts
    BY <1>2, <2>1
  <2>8. \A m : TypeMade(m)' <=> TypeMade(m)
    BY <1>5 DEF TypeMade, rowVars
  <2>9. records' = records
    BY <1>5 DEF rowVars
  <2> QED BY <1>15, <1>16, <2>2, <2>3, <2>4, <2>5, <2>6, <2>7, <2>8, <2>9 DEF ImportKnows
<1>18. LinesCounted(i)'
  <2>1. job.imported + job.skipped + Len(job.batch) = job.at - 1
        /\ job.imported = Cardinality(job.mine)
    BY <1>1, <1>4 DEF ImportFine, LinesCounted
  <2>2. PICK a \in Nat, b \in Nat, d \in Nat :
          a = job.imported /\ b = job.skipped /\ d = job.at
    BY <1>4 DEF HelpImport
  <2>3. a + b + n = d - 1
    BY ONLY <1>10, <2>1, <2>2
  <2>4. new.imported = a /\ new.skipped = b /\ new.at = d + 1
    BY ONLY <1>15, <2>2
  <2>5. a + b + (n + 1) = (d + 1) - 1
    BY ONLY <2>3
  <2>6. Len(new.batch) = n + 1
    BY <1>11, <1>15, Zenon
  <2>7. new.imported + new.skipped + Len(new.batch) = new.at - 1
    BY ONLY <2>4, <2>5, <2>6
  <2>8. new.imported = Cardinality(new.mine)
    BY <1>15, <2>1
  <2> QED BY <1>16, <2>7, <2>8, Zenon DEF LinesCounted
<1>19. SheetTyped(i)'
    BY <1>15, <1>16 DEF SheetTyped
<1>20. ImportFine(i)'
    BY <1>17, <1>18, <1>19 DEF ImportFine
<1>21. /\ Len(new.batch) <= SheetBatch /\ new.at <= Len(new.sheet) + 1
       /\ new.mine \subseteq RecordIds
  <2>1. Len(new.batch) = n + 1
    BY <1>11, <1>15, Zenon
  <2>2. n + 1 <= SheetBatch
    BY <1>4, <1>5, <1>10
  <2>3. job.at + 1 <= Len(job.sheet) + 1
    BY <1>4, <1>5
  <2>4. new.at <= Len(new.sheet) + 1
    BY <1>15, <2>3, Zenon
  <2> QED BY <1>4, <1>15, <2>1, <2>2, <2>4
<1> QED BY <1>4, <1>5, <1>6, <1>8, <1>15, <1>20, <1>21, ImportGoesOn

LEMMA InsertsRows ==
    ASSUME HelpInv, NEW i \in HelpImports, InsertRows(i)
    PROVE  HelpInv'
<1>1. PICK job, kept, k, n :
         job = helpImport[i] /\ kept = Kept(job.batch) /\ k = Len(kept) /\ n = Len(records)
    OBVIOUS
<1>2. PICK rows, new :
         /\ rows = [m \in DOMAIN kept |->
                [here |-> TRUE, type |-> kept[m].type, person |-> kept[m].person, of |-> "sheet",
                 status |-> StatusOf(kept[m].status)]]
         /\ new = [job EXCEPT !.batch = <<>>, !.imported = @ + k,
                              !.skipped = @ + (Len(job.batch) - k),
                              !.mine = @ \union ((n + 1) .. n + k)]
    OBVIOUS
<1>3. /\ job.step = "rows" /\ n + k <= MaxRecords /\ records' = records \o rows
      /\ helpImport' = [helpImport EXCEPT ![i] = new]
      /\ UNCHANGED <<cabinetVisits, types, leads, hood, helpJob, helpWork, doubled, lost>>
    BY <1>1, <1>2 DEF InsertRows, ImportIs
<1>4. /\ job \in HelpImport /\ job.at <= Len(job.sheet) + 1
      /\ job.mine \subseteq RecordIds /\ job.batch \in Seq(SheetRow) /\ SheetBatch \in Nat \ {0}
      /\ helpImport \in [HelpImports -> HelpImport] /\ ImportFine(i) /\ HelpRecordsTypeOK
      /\ job.at \in Nat \ {0}
    BY <1>1, ImportHas, HelpParts
<1>5. /\ kept \in Seq(SheetRow) /\ k \in Nat /\ k <= Len(job.batch) /\ DOMAIN kept = 1 .. k
      /\ \A m \in DOMAIN kept : \E b \in DOMAIN job.batch : kept[m] = job.batch[b]
  <2>1. /\ Kept(job.batch) \in Seq(SheetRow) /\ Len(Kept(job.batch)) \in Nat
        /\ Len(Kept(job.batch)) <= Len(job.batch)
        /\ DOMAIN Kept(job.batch) = 1 .. Len(Kept(job.batch))
    BY ONLY <1>4, KeptIs
  <2>2. \A m \in DOMAIN Kept(job.batch) : \E b \in DOMAIN job.batch :
           ~job.batch[b].refused /\ Kept(job.batch)[m] = job.batch[b]
    BY ONLY <1>4, KeptIs
  <2> QED BY ONLY <1>1, <2>1, <2>2
<1>6. \A m \in 1 .. k : /\ kept[m] \in SheetRow /\ kept[m].type \in TypeNames
                        /\ LowerCase[kept[m].type] \in job.typeSet
  <2>1. \A b \in DOMAIN job.batch : /\ job.batch[b] \in SheetRow /\ job.batch[b].type # None
                                    /\ LowerCase[job.batch[b].type] \in job.typeSet
    BY <1>1, <1>3, <1>4 DEF ImportFine, ImportKnows
  <2> QED BY <1>5, <2>1 DEF SheetRow
<1>7. /\ rows \in Seq(HelpRecord) /\ Len(rows) = k
      /\ \A m \in 1 .. k : rows[m].type = kept[m].type /\ rows[m].of = "sheet"
  <2>1. \A s : StatusOf(s) \in HelpStatuses
    BY DEF StatusOf, HelpStatuses
  <2>2. \A m \in 1 .. k : kept[m].person \in People \union {None}
    BY <1>6 DEF SheetRow
  <2>3. rows \in [1 .. k -> HelpRecord]
    BY <1>2, <1>5, <1>6, <2>1, <2>2 DEF HelpRecord
  <2>4. rows \in Seq(HelpRecord) /\ Len(rows) = k
    BY ONLY <1>5, <2>3
  <2>5. \A m \in 1 .. k : rows[m].type = kept[m].type /\ rows[m].of = "sheet"
    BY <1>2, <1>5
  <2> QED BY <2>4, <2>5
<1>8. /\ n \in Nat /\ records' \in Seq(HelpRecord) /\ Len(records') = n + k
      /\ \A r \in 1 .. n : records'[r] = records[r]
      /\ \A m \in 1 .. k : records'[n + m] = rows[m]
    BY <1>1, <1>3, <1>4, <1>5, <1>7 DEF HelpRecordsTypeOK
<1>9. RecordIds = 1 .. n /\ RecordIds' = 1 .. (n + k) /\ RecordIds \subseteq RecordIds'
    BY <1>1, <1>5, <1>8 DEF RecordIds
<1>10. CabinetIds' = CabinetIds
    BY <1>3 DEF CabinetIds
<1>11. HelpMoves
    BY <1>3, <1>8, <1>9, <1>10 DEF HelpMoves, TypeMade
<1>12. \A r \in RecordIds' \ RecordIds :
          records'[r].of = "sheet" /\ LowerCase[records'[r].type] \in job.typeSet
  <2>1. ASSUME NEW r \in RecordIds' \ RecordIds
        PROVE  \E m \in 1 .. k : r = n + m
    <3>1. r \in 1 .. (n + k) /\ r \notin 1 .. n
      BY <1>9
    <3>2. r - n \in 1 .. k /\ r = n + (r - n)
      BY <1>5, <1>8, <3>1
    <3> QED BY <3>2
  <2> QED BY <1>6, <1>7, <1>8, <2>1
<1>13. PICK a \in Nat, b \in Nat, d \in Nat, l \in Nat :
          a = job.imported /\ b = job.skipped /\ d = job.at /\ l = Len(job.batch)
    BY <1>4 DEF HelpImport
<1>14. PICK mine : mine = job.mine \union ((n + 1) .. n + k)
    OBVIOUS
<1>15. mine \subseteq RecordIds' /\ mine \subseteq 1 .. MaxRecords
  <2>1. (n + 1) .. n + k \subseteq 1 .. (n + k)
    BY <1>5, <1>8
  <2>2. 1 .. (n + k) \subseteq 1 .. MaxRecords
    BY <1>3, <1>5, <1>8, HelpRecordsAssumption
  <2> QED BY <1>4, <1>9, <1>14, <2>1, <2>2
<1>16. IsFiniteSet(mine) /\ Cardinality(mine) = Cardinality(job.mine) + k
  <2>1. PICK come : come = (n + 1) .. (n + k)
    OBVIOUS
  <2>2. IsFiniteSet(come) /\ Cardinality(come) = k
    <3>1. n + 1 \in Int /\ n + k \in Int
      BY <1>5, <1>8
    <3>2. IsFiniteSet(come)
          /\ Cardinality(come) = IF n + 1 > n + k THEN 0 ELSE (n + k) - (n + 1) + 1
      BY <2>1, <3>1, FS_Interval
    <3> QED BY <1>5, <1>8, <3>2
  <2>3. IsFiniteSet(job.mine)
    <3>1. IsFiniteSet(1 .. n)
      BY ONLY <1>8, FS_Interval
    <3>2. job.mine \subseteq 1 .. n
      BY ONLY <1>4, <1>9
    <3> QED BY ONLY <3>1, <3>2, FS_Subset
  <2>4. job.mine \intersect come = {}
    <3>1. \A r \in job.mine : r \in 1 .. n
      BY <1>4, <1>9
    <3>2. \A r \in come : r \notin 1 .. n
      BY <1>5, <1>8, <2>1
    <3> QED BY <3>1, <3>2
  <2>5. Cardinality(job.mine \union come)
           = Cardinality(job.mine) + Cardinality(come) - Cardinality(job.mine \intersect come)
        /\ IsFiniteSet(job.mine \union come)
    BY <2>2, <2>3, FS_Union
  <2>6. Cardinality(job.mine \intersect come) = 0
    BY <2>4, FS_EmptySet
  <2>7. Cardinality(job.mine) \in Nat
    BY <2>3, FS_CardinalityType
  <2> QED BY <1>5, <1>14, <2>1, <2>2, <2>5, <2>6, <2>7
<1>17. /\ new \in HelpImport /\ new.at = d /\ new.skipped = b + (l - k)
       /\ new.step = "rows" /\ new.batch = <<>> /\ new.mine = mine
       /\ new.imported = a + k /\ new.sheet = job.sheet /\ new.newTypes = job.newTypes
       /\ new.typeSet = job.typeSet /\ new.absent = job.absent
  <2>1. PICK more, less : more = a + k /\ less = b + (l - k)
    OBVIOUS
  <2>2. more \in Nat /\ less \in Nat
    <3>1. k \in Nat /\ k <= l
      BY ONLY <1>5, <1>13
    <3> QED BY ONLY <1>13, <2>1, <3>1, SMTT(40)
  <2>3. new = [job EXCEPT !.batch = <<>>, !.imported = more, !.skipped = less, !.mine = mine]
    BY <1>2, <1>13, <1>14, <2>1
  <2>4. mine \in SUBSET (1 .. MaxRecords) /\ <<>> \in Seq(SheetRow)
    BY <1>15
  <2> QED BY ONLY <1>3, <1>4, <1>13, <2>1, <2>2, <2>3, <2>4 DEF HelpImport
<1>18. helpImport'[i] = new
    BY <1>3, <1>4
<1>19. ImportKnows(i)'
  <2>1. /\ \A m \in TypeNames \ job.absent : LowerCase[m] \in job.typeSet
        /\ \A m \in DOMAIN job.newTypes : /\ job.newTypes[m] \in job.absent
                                          /\ LowerCase[job.newTypes[m]] \in job.typeSet
        /\ \A s, m \in DOMAIN job.newTypes : job.newTypes[s] = job.newTypes[m] => s = m
        /\ \A t \in job.typeSet : \E m \in TypeNames : LowerCase[m] = t
              /\ ((\E s \in DOMAIN job.newTypes : job.newTypes[s] = m) \/ TypeMade(m))
        /\ \A r \in job.mine : LowerCase[records[r].type] \in job.typeSet
    BY <1>1, <1>3, <1>4 DEF ImportFine, ImportKnows
  <2>2. \A r \in mine : LowerCase[records'[r].type] \in job.typeSet
    <3>1. \A r \in job.mine : records'[r] = records[r]
      BY <1>4, <1>8, <1>9
    <3>2. \A r \in (n + 1) .. n + k : r \in RecordIds' \ RecordIds
      BY <1>5, <1>8, <1>9
    <3> QED BY <1>12, <1>14, <2>1, <3>1, <3>2
  <2>3. \A m : TypeMade(m)' <=> TypeMade(m)
    BY <1>3 DEF TypeMade
  <2>4. DOMAIN <<>> = {}
    OBVIOUS
  <2> QED BY <1>17, <1>18, <2>1, <2>2, <2>3, <2>4 DEF ImportKnows
<1>20. LinesCounted(i)'
  <2>1. job.imported + job.skipped + Len(job.batch) = job.at - 1
        /\ job.imported = Cardinality(job.mine)
    BY <1>1, <1>4 DEF ImportFine, LinesCounted
  <2>2. a + b + l = d - 1
    BY ONLY <1>13, <2>1
  <2>3. (a + k) + (b + (l - k)) + 0 = d - 1
    <3>1. k \in Nat
      BY <1>5
    <3>2. (a + k) + (b + (l - k)) + 0 = a + b + l
      BY ONLY <3>1
    <3> QED BY ONLY <2>2, <3>2, Zenon
  <2>4. Len(new.batch) = 0
    BY <1>17
  <2>5. new.imported + new.skipped + Len(new.batch) = new.at - 1
    BY ONLY <1>17, <2>3, <2>4
  <2>6. new.imported = Cardinality(new.mine)
    BY <1>13, <1>16, <1>17, <2>1
  <2> QED BY <1>18, <2>5, <2>6, Zenon DEF LinesCounted
<1>21. ImportFine(i)'
    BY <1>17, <1>18, <1>19, <1>20 DEF ImportFine, SheetTyped
<1>22. HelpRecordsTypeOK'
  <2>1. helpImport' \in [HelpImports -> HelpImport]
    BY <1>3, <1>4, <1>17
  <2>2. \A m \in HelpImports : /\ Len(helpImport'[m].batch) <= SheetBatch
                               /\ helpImport'[m].at <= Len(helpImport'[m].sheet) + 1
                               /\ helpImport'[m].mine \subseteq RecordIds'
    <3>1. /\ Len(new.batch) = 0 /\ 0 <= SheetBatch /\ new.at <= Len(new.sheet) + 1
          /\ new.mine \subseteq RecordIds'
      BY <1>4, <1>13, <1>15, <1>17
    <3>2. \A m \in HelpImports : m # i => helpImport'[m] = helpImport[m]
      BY <1>3, <1>4
    <3>3. \A m \in HelpImports : m # i =>
             /\ Len(helpImport[m].batch) <= SheetBatch
             /\ helpImport[m].at <= Len(helpImport[m].sheet) + 1
             /\ helpImport[m].mine \subseteq RecordIds'
      BY <1>4, <1>9 DEF HelpRecordsTypeOK
    <3> QED BY <1>18, <3>1, <3>2, <3>3
  <2> QED BY <1>3, <1>4, <1>8, <2>1, <2>2 DEF HelpRecordsTypeOK
<1>23. JobsKnow' /\ VisitsApart'
    BY <1>3, <1>4, <1>11, HelpParts, JobsStay
<1>24. ImportsKnow' /\ SheetIsCounted' /\ DoneTyped'
    BY <1>3, <1>4, <1>11, <1>21, HelpParts, OtherImportsStay
<1>25. VisitsHaveRecords'
    BY <1>3, <1>4, <1>8, <1>9, <1>11, <1>12, HelpParts, VisitsStay
<1>26. TypesHaveCause'
    BY <1>3, HelpParts, CausesStay
<1>27. RecordsTyped'
    BY <1>4, <1>11, <1>12, HelpParts, TypedStay
<1> QED BY <1>22, <1>23, <1>24, <1>25, <1>26, <1>27, HelpWhole

LEMMA MakesTypes ==
    ASSUME HelpInv, NEW i \in HelpImports, ImportTypes(i)
    PROVE  HelpInv'
<1>1. PICK job, new, made :
         /\ job = helpImport[i] /\ new = [job EXCEPT !.step = "done"]
         /\ made = {job.newTypes[m] : m \in DOMAIN job.newTypes}
    OBVIOUS
<1>2. PICK times : times = [n \in TypeNames |-> Cardinality({m \in DOMAIN job.newTypes :
                                                               job.newTypes[m] = n})]
    OBVIOUS
<1>3. /\ job.step = "rows"
      /\ types' = [n \in TypeNames |-> types[n] + times[n]]
      /\ doubled' = doubled \union {n \in made \intersect job.absent : types[n] > 0}
      /\ helpImport' = [helpImport EXCEPT ![i] = new]
      /\ UNCHANGED <<records, cabinetVisits, leads, hood, helpJob, helpWork, lost>>
  <2>1. \A n \in TypeNames : times[n] = Cardinality({m \in DOMAIN job.newTypes :
                                                       job.newTypes[m] = n})
    BY <1>2
  <2> QED BY <1>1, <2>1 DEF ImportTypes, ImportIs
<1>4. /\ job \in HelpImport /\ Len(job.batch) <= SheetBatch /\ job.at <= Len(job.sheet) + 1
      /\ job.mine \subseteq RecordIds /\ job.newTypes \in Seq(TypeNames)
      /\ types \in [TypeNames -> Nat]
      /\ helpImport \in [HelpImports -> HelpImport] /\ ImportFine(i) /\ HelpRecordsTypeOK
    BY <1>1, ImportHas, HelpParts
<1>5. made \subseteq TypeNames
    BY <1>1, <1>4
<1>6. ASSUME NEW n \in TypeNames
      PROVE  times[n] = IF n \in made THEN 1 ELSE 0
  <2>1. PICK at : at = {m \in DOMAIN job.newTypes : job.newTypes[m] = n}
    OBVIOUS
  <2>2. CASE n \in made
    <3>1. PICK m \in DOMAIN job.newTypes : job.newTypes[m] = n
      BY <1>1, <2>2
    <3>2. at = {m}
      BY <1>1, <1>3, <1>4, <2>1, <3>1 DEF ImportFine, ImportKnows
    <3> QED BY <1>2, <2>1, <2>2, <3>2, FS_Singleton
  <2>3. CASE n \notin made
    <3>1. at = {}
      BY <1>1, <2>1, <2>3
    <3> QED BY <1>2, <2>1, <2>3, <3>1, FS_EmptySet
  <2> QED BY <2>2, <2>3
<1>7. /\ types' \in [TypeNames -> Nat]
      /\ \A n \in TypeNames : types'[n] = types[n] + (IF n \in made THEN 1 ELSE 0)
      /\ \A n \in TypeNames : types[n] > 0 \/ n \in made => types'[n] > 0
    BY <1>3, <1>4, <1>6
<1>8. HelpMoves /\ RecordIds' = RecordIds
    BY <1>3, <1>7 DEF HelpMoves, RecordIds, CabinetIds, TypeMade
<1>9. new \in HelpImport /\ new.step = "done" /\ new.at = job.at /\ new.skipped = job.skipped
      /\ new.batch = job.batch /\ new.mine = job.mine
      /\ new.imported = job.imported /\ new.sheet = job.sheet
    BY <1>1, <1>4 DEF HelpImport
<1>10. helpImport'[i] = new /\ \A m \in HelpImports : m # i => helpImport'[m] = helpImport[m]
    BY <1>3, <1>4
<1>11. ImportFine(i)'
  <2>1. ImportKnows(i)'
    BY <1>1, <1>4, <1>9, <1>10 DEF ImportFine, ImportKnows
  <2>2. LinesCounted(i)'
    BY <1>1, <1>4, <1>9, <1>10 DEF ImportFine, LinesCounted
  <2>3. ASSUME NEW r \in job.mine
        PROVE  \E n \in TypeNames : /\ LowerCase[n] = LowerCase[records[r].type]
                                    /\ types'[n] > 0 \/ n \in lost.types
    <3>1. PICK n \in TypeNames : /\ LowerCase[n] = LowerCase[records[r].type]
                                 /\ n \in made \/ TypeMade(n)
      <4>1. LowerCase[records[r].type] \in job.typeSet
        BY <1>1, <1>3, <1>4, <2>3 DEF ImportFine, ImportKnows
      <4>2. \A t \in job.typeSet : \E n \in TypeNames : LowerCase[n] = t
              /\ ((\E m \in DOMAIN job.newTypes : job.newTypes[m] = n) \/ TypeMade(n))
        BY <1>1, <1>3, <1>4 DEF ImportFine, ImportKnows
      <4> QED BY <1>1, <4>1, <4>2
    <3> QED BY <1>7, <3>1 DEF TypeMade
  <2>4. SheetTyped(i)'
    BY <1>3, <1>9, <1>10, <2>3 DEF SheetTyped, TypeMade
  <2> QED BY <2>1, <2>2, <2>4 DEF ImportFine
<1>12. HelpRecordsTypeOK'
  <2>1. helpImport' \in [HelpImports -> HelpImport]
    BY <1>3, <1>4, <1>9
  <2>2. \A m \in HelpImports : /\ Len(helpImport'[m].batch) <= SheetBatch
                               /\ helpImport'[m].at <= Len(helpImport'[m].sheet) + 1
                               /\ helpImport'[m].mine \subseteq RecordIds'
    <3>1. /\ Len(new.batch) <= SheetBatch /\ new.at <= Len(new.sheet) + 1
          /\ new.mine \subseteq RecordIds'
      BY <1>4, <1>8, <1>9
    <3> QED BY <1>4, <1>8, <1>10, <3>1 DEF HelpRecordsTypeOK
  <2>3. doubled' \subseteq TypeNames
    BY <1>3, <1>4, <1>5 DEF HelpRecordsTypeOK
  <2> QED BY <1>3, <1>4, <1>7, <2>1, <2>2, <2>3 DEF HelpRecordsTypeOK
<1>13. JobsKnow' /\ VisitsApart'
    BY <1>3, <1>4, <1>8, HelpParts, JobsStay
<1>14. ImportsKnow' /\ SheetIsCounted' /\ DoneTyped'
    BY <1>3, <1>4, <1>8, <1>11, HelpParts, OtherImportsStay
<1>15. VisitsHaveRecords'
    BY <1>3, <1>4, <1>8, HelpParts, VisitsStay
<1>16. TypesHaveCause'
  <2>1. ASSUME NEW n \in TypeNames, types'[n] > 1 PROVE n \in doubled'
    <3>1. CASE n \in made
      <4>1. types[n] > 0
        BY <1>4, <1>7, <2>1, <3>1
      <4>2. n \in job.absent
        BY <1>1, <1>3, <1>4, <3>1 DEF ImportFine, ImportKnows
      <4> QED BY <1>3, <3>1, <4>1, <4>2
    <3>2. CASE n \notin made
      <4>1. types[n] > 1
        BY <1>4, <1>7, <2>1, <3>2
      <4> QED BY <1>3, <4>1, HelpParts DEF TypesHaveCause
    <3> QED BY <3>1, <3>2
  <2> QED BY <2>1 DEF TypesHaveCause
<1>17. RecordsTyped'
    BY <1>4, <1>8, HelpParts, TypedStay
<1> QED BY <1>12, <1>13, <1>14, <1>15, <1>16, <1>17, HelpWhole

(* Every step keeps the invariant. *)
LEMMA HelpSteps ==
    ASSUME HelpInv, [HelpNext]_helpVars
    PROVE  HelpInv'
<1>1. CASE \E n \in TypeNames : CreateType(n) \/ RemoveType(n)
    BY <1>1, MakesType, RemovesType
<1>2. CASE \E n \in TypeNames, p \in People \union {None} : CreateRecord(n, p)
    BY <1>2, MakesRecord
<1>3. CASE \E r \in RecordIds : RemoveRecord(r)
    BY <1>3, RemovesRecord
<1>4. CASE \E p \in People, h \in Hoods : MoveVoter(p, h)
    BY <1>4, MovesVoter
<1>5. ASSUME NEW j \in HelpJobs,
             \/ SaveType(j) \/ SaveRecord(j) \/ SaveCabinetVisit(j) \/ DeleteRecord(j)
             \/ DeleteCabinetVisit(j) \/ HelpJobDies(j)
             \/ \E n \in TypeNames, p \in People, status \in {"IN_PROGRESS", "UNKNOWN"} :
                   CreateInlineRecord(j, n, p, status)
             \/ \E p \in People \union {None} : CreateCabinetVisit(j, p)
             \/ \E c \in CabinetIds : RemoveCabinetVisit(j, c)
      PROVE  HelpInv'
    BY <1>5, SavesType, SavesRecord, SavesCabinetVisit, DeletesRecord, DeletesCabinetVisit,
       JobDies, LooksForType, StartsRemoval
<1>6. ASSUME NEW i \in HelpImports,
             \/ SkipRow(i) \/ TakeRow(i) \/ InsertRows(i) \/ UpdateHood(i) \/ ImportTypes(i)
             \/ ImportDies(i)
             \/ \E sheet \in Sheets : ImportLoads(i, sheet)
      PROVE  HelpInv'
    BY <1>6, SkipsRow, TakesRow, InsertsRows, MovesVoters, MakesTypes, ImportGoes, LoadsSheet
<1>7. CASE UNCHANGED helpVars
    BY <1>7 DEF helpVars, HelpInv, HelpRecordsTypeOK, JobsKnow, VisitsApart, ImportsKnow,
                SheetIsCounted, TypesHaveCause, TypesAreThere, VisitsHaveRecords, RecordIds,
                CabinetIds, TypeMade
<1> QED BY <1>1, <1>2, <1>3, <1>4, <1>5, <1>6, <1>7 DEF HelpNext

(* Types, records, cabinet visits and imports know what HelpInv says of each other, for    *)
(* any number of requests, imports and rows and any spreadsheets.                          *)
THEOREM HelpInvHolds == HelpSpec => []HelpInv
BY HelpStarts, HelpSteps, PTL DEF HelpSpec

(* What the service promises of them: every line of a spreadsheet is counted once, types,  *)
(* records and visits have each other but for the causes named, and the figures above the  *)
(* list are of the list.                                                                   *)
THEOREM RecordsAlwaysAgree == HelpSpec => []RecordsAgree
<1>1. HelpInv => RecordsAgree
    BY FiguresAre DEF HelpInv, RecordsAgree
<1> QED BY <1>1, HelpInvHolds, PTL
=============================================================================
