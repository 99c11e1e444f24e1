---------------------------- MODULE AccessProofs ----------------------------
(***************************************************************************)
(* Sessions.tla: its type invariant, that a kick ends the sessions it is   *)
(* for and no others, and that a row says what was asked of it unless an   *)
(* older copy was saved; for any users, tokens, requests and clock.        *)
(* Permissions.tla: its type invariant, that edits neither mix nor lose    *)
(* rows, and that the cache and what a request is judged by are current    *)
(* unless a cause one can name is there; for any number of roles, members, *)
(* keys, edits and requests.  LeaderAccess.tla: that a login and its       *)
(* holder point to each other unless something broke the link.             *)
(* TenantRow.tla and Leads.tla: that a row says what was asked of it,      *)
(* unless a copy older than another's save was saved or a request stopped  *)
(* half way.  MCAccess.tla: all of it, for the composition TLC checks.     *)
(***************************************************************************)
EXTENDS MCAccess, FiniteSetTheorems, TLAPS

-----------------------------------------------------------------------------
(* Sessions.tla: numbers, rows and requests. *)

(* The second a token was minted in began no later than the token. *)
LEMMA Rounding ==
    ASSUME NEW t \in Nat, NEW k \in Nat \ {0}
    PROVE  (t \div k) * k \in Nat /\ (t \div k) * k <= t
OBVIOUS

(* The clock's values. *)
LEMMA TicksAreNaturals == Ticks \subseteq Nat /\ 0 \in Ticks /\ 1 \in Ticks
BY SessionsAssumption DEF Ticks

(* The blank request is a request, with a blank row. *)
LEMMA BlankIsAJob ==
    /\ Blank \in SessionJob /\ Blank.row \in UserRow /\ Blank.row.cutoff = 0
    /\ Blank.known = 0 /\ Blank.since = 0 /\ Blank.at = 0 /\ Blank.step = "idle"
    /\ Blank.user \in Users
<1>1. (CHOOSE u \in Users : TRUE) \in Users
    BY SessionsAssumption
<1>2. (CHOOSE p \in Passwords : TRUE) \in Passwords
    BY SessionsAssumption
<1>3. 0 \in 0 .. MaxKicks
    BY SessionsAssumption
<1> QED BY <1>1, <1>2, <1>3, TicksAreNaturals
        DEF Blank, SessionJob, UserRow, SessionSteps

(* A row with a column replaced is a row. *)
LEMMA RowUpdates ==
    ASSUME NEW r \in UserRow
    PROVE  /\ \A t \in Ticks : [r EXCEPT !.cutoff = t] \in UserRow
           /\ \A p \in Passwords : [r EXCEPT !.password = p] \in UserRow
           /\ \A a \in BOOLEAN, p \in Passwords : UpdateRow(r, a, p) \in UserRow
           /\ \A x \in {"new", "here", "gone"} : [r EXCEPT !.state = x] \in UserRow
BY DEF UserRow, UpdateRow

(* So is one that takes from the form what the form has. *)
LEMMA AskedUpdates ==
    ASSUME NEW r \in UserRow, NEW dto \in Dto
    PROVE  /\ [c \in DOMAIN r |-> IF c \in DOMAIN dto THEN dto[c] ELSE r[c]] \in UserRow
           /\ DOMAIN dto \subseteq {"active", "password"}
           /\ "active" \in DOMAIN dto => dto.active \in BOOLEAN
           /\ "password" \in DOMAIN dto => dto.password \in Passwords
<1>1. CASE dto \in [active : BOOLEAN]
    <2>1. DOMAIN dto = {"active"} /\ dto.active \in BOOLEAN
        BY <1>1
    <2>2. [c \in DOMAIN r |-> IF c \in DOMAIN dto THEN dto[c] ELSE r[c]] =
              [r EXCEPT !.active = dto.active]
        BY <2>1 DEF UserRow
    <2> QED BY <2>1, <2>2 DEF UserRow
<1>2. CASE dto \in [password : Passwords]
    <2>1. DOMAIN dto = {"password"} /\ dto.password \in Passwords
        BY <1>2
    <2>2. [c \in DOMAIN r |-> IF c \in DOMAIN dto THEN dto[c] ELSE r[c]] =
              [r EXCEPT !.password = dto.password]
        BY <2>1 DEF UserRow
    <2> QED BY <2>1, <2>2 DEF UserRow
<1> QED BY <1>1, <1>2 DEF Dto

-----------------------------------------------------------------------------
(* Sessions.tla: types. *)

LEMMA SessionsTypeInit == SessionsInit => SessionsTypeOK
<1> SUFFICES ASSUME SessionsInit PROVE SessionsTypeOK
    OBVIOUS
<1>1. 0 \in 0 .. MaxKicks /\ 0 \in 0 .. MaxWrites
    BY SessionsAssumption
<1> QED BY <1>1, BlankIsAJob, TicksAreNaturals DEF SessionsInit, SessionsTypeOK

(* The two ways a request comes to its step. *)
LEMMA TypeReads ==
    ASSUME SessionsTypeOK, NEW j \in SessionJobs, NEW u \in Users,
           NEW to \in {"loginSave", "update", "reactivate", "kick"}, Reads(j, u, to)
    PROVE  SessionsTypeOK'
<1>1. [step |-> to, user |-> u, row |-> userRow[u], known |-> kicks[u],
       since |-> kicks[u], late |-> FALSE, at |-> clock] \in SessionJob
    BY DEF SessionsTypeOK, SessionJob, SessionSteps
<1> QED BY <1>1 DEF Reads, SessionsTypeOK, history

LEMMA TypeEnters ==
    ASSUME SessionsTypeOK, NEW j \in SessionJobs, NEW tk \in tokens,
           NEW to \in {"refresh", "profile"}, Enters(j, tk, to)
    PROVE  SessionsTypeOK'
<1>1. tk \in Token /\ kicks[tk.user] \in 0 .. MaxKicks
    BY DEF SessionsTypeOK, Token
<1>2. [Blank EXCEPT !.step = to, !.user = tk.user, !.known = tk.known,
                    !.since = kicks[tk.user], !.late = tk.late] \in SessionJob
    BY <1>1, BlankIsAJob DEF SessionJob, SessionSteps, Token
<1> QED BY <1>2 DEF Enters, SessionsTypeOK, history

(* A save, whatever it means to write. *)
LEMMA TypeSave ==
    ASSUME SessionsTypeOK, NEW u \in Users, NEW row \in UserRow, NEW meant,
           SaveUser(u, row, meant)
    PROVE  userRow' \in [Users -> UserRow] /\ lost' \in [Users -> SUBSET Columns]
BY DEF SaveUser, SessionsTypeOK

(* The kicks of a set of users. *)
LEMMA TypeKicks ==
    ASSUME SessionsTypeOK, NEW who \in SUBSET Users, NEW now \in Ticks, CountKicks(who, now)
    PROVE  kicks' \in [Users -> 0 .. MaxKicks] /\ tokens' \subseteq Token
<1>1. \A u \in who : kicks[u] + 1 \in 0 .. MaxKicks
    BY SessionsAssumption DEF SessionsTypeOK, CountKicks
<1>2. \A tk \in tokens, b \in BOOLEAN : [tk EXCEPT !.late = b] \in Token
    BY DEF SessionsTypeOK, Token
<1>3. \A tk \in tokens :
         (tk.late \/ /\ tk.user \in who /\ tk.iat >= now
                     /\ ~IsRevoked(tk, userRow[tk.user])) \in BOOLEAN
    BY DEF SessionsTypeOK, Token
<1>4. tokens' \subseteq Token
    BY <1>2, <1>3 DEF CountKicks
<1> QED BY <1>1, <1>4 DEF SessionsTypeOK, CountKicks

LEMMA TypeRequests ==
    ASSUME SessionsTypeOK, NEW j \in SessionJobs,
           \/ SessionEnds(j) \/ LoginSave(j) \/ Mint(j) \/ RefreshFind(j)
           \/ KickManyStarts(j) \/ \E p \in Passwords : ProfileFind(j, p)
    PROVE  SessionsTypeOK'
<1>1. session[j] \in SessionJob
    BY DEF SessionsTypeOK
<1>2. CASE SessionEnds(j)
    BY <1>2, BlankIsAJob DEF SessionEnds, SessionsTypeOK, history
<1>3. CASE LoginSave(j)
    <2>1. session[j].user \in Users /\ session[j].row \in UserRow
        BY <1>1 DEF SessionJob
    <2>2. [session[j] EXCEPT !.step = "mint", !.row = Blank.row] \in SessionJob
        BY <1>1, BlankIsAJob DEF SessionJob, SessionSteps
    <2>3. userRow' \in [Users -> UserRow] /\ lost' \in [Users -> SUBSET Columns]
        BY <1>3, <2>1, TypeSave DEF LoginSave
    <2> QED BY <1>3, <2>2, <2>3 DEF LoginSave, SessionsTypeOK
<1>4. CASE Mint(j)
    <2>1. [user |-> session[j].user, iat |-> clock, known |-> session[j].known,
           late |-> session[j].late \/ session[j].since # kicks[session[j].user]] \in Token
        BY <1>1 DEF SessionJob, Token, SessionsTypeOK
    <2> QED BY <1>4, <2>1, BlankIsAJob DEF Mint, SessionsTypeOK, history
<1>5. CASE RefreshFind(j)
    <2>1. [session[j] EXCEPT !.step = "mint"] \in SessionJob
        BY <1>1 DEF SessionJob, SessionSteps
    <2> QED BY <1>5, <2>1 DEF RefreshFind, SessionsTypeOK, history
<1>6. CASE KickManyStarts(j)
    <2>1. [Blank EXCEPT !.step = "kickMany", !.at = clock] \in SessionJob
        BY BlankIsAJob DEF SessionJob, SessionSteps, SessionsTypeOK
    <2> QED BY <1>6, <2>1 DEF KickManyStarts, SessionsTypeOK, history
<1>7. ASSUME NEW p \in Passwords, ProfileFind(j, p) PROVE SessionsTypeOK'
    <2>1. [session[j] EXCEPT !.step = "profileSave",
                             !.row = userRow[session[j].user]] \in SessionJob
        BY <1>1 DEF SessionJob, SessionSteps, SessionsTypeOK
    <2> QED BY <1>7, <2>1 DEF ProfileFind, SessionsTypeOK, history
<1> QED BY <1>2, <1>3, <1>4, <1>5, <1>6, <1>7

LEMMA TypeWrites ==
    ASSUME SessionsTypeOK, NEW j \in SessionJobs,
           \/ Reactivate(j)
           \/ \E p \in Passwords : ProfileSave(j, p)
           \/ \E dto \in Dto : Update(j, dto)
    PROVE  SessionsTypeOK'
<1>1. session[j] \in SessionJob /\ session[j].user \in Users /\ session[j].row \in UserRow
    BY DEF SessionsTypeOK, SessionJob
<1>2. ASSUME NEW p \in Passwords, ProfileSave(j, p) PROVE SessionsTypeOK'
    <2>1. [session[j].row EXCEPT !.password = p] \in UserRow
        BY <1>1, RowUpdates
    <2>2. userRow' \in [Users -> UserRow] /\ lost' \in [Users -> SUBSET Columns]
        BY <1>1, <1>2, <2>1, TypeSave DEF ProfileSave
    <2>3. asked' \in [Users -> UserRow]
        BY <1>1, <1>2, RowUpdates DEF ProfileSave, SessionsTypeOK
    <2>4. writes' \in 0 .. MaxWrites
        BY <1>2, SessionsAssumption DEF ProfileSave, SessionsTypeOK
    <2> QED BY <1>2, <2>2, <2>3, <2>4, BlankIsAJob DEF ProfileSave, SessionsTypeOK
<1>3. ASSUME NEW dto \in Dto, Update(j, dto) PROVE SessionsTypeOK'
    <2> DEFINE s == session[j]
               active == IF "active" \in DOMAIN dto THEN dto.active ELSE s.row.active
               p == IF "password" \in DOMAIN dto THEN dto.password ELSE s.row.password
    <2>1. active \in BOOLEAN /\ p \in Passwords
        BY <1>1, AskedUpdates DEF UserRow
    <2>2. UpdateRow(s.row, active, p) \in UserRow
        BY <1>1, <2>1, RowUpdates
    <2>3. userRow' \in [Users -> UserRow] /\ lost' \in [Users -> SUBSET Columns]
        BY <1>1, <1>3, <2>2, TypeSave DEF Update
    <2>4. asked' \in [Users -> UserRow]
        BY <1>1, <1>3, AskedUpdates DEF Update, SessionsTypeOK
    <2>5. writes' \in 0 .. MaxWrites
        BY <1>3, SessionsAssumption DEF Update, SessionsTypeOK
    <2> QED BY <1>3, <2>3, <2>4, <2>5, BlankIsAJob DEF Update, SessionsTypeOK
<1>4. CASE Reactivate(j)
    <2>1. [session[j].row EXCEPT !.active = TRUE] \in UserRow
        BY <1>1 DEF UserRow
    <2>2. userRow' \in [Users -> UserRow] /\ lost' \in [Users -> SUBSET Columns]
        BY <1>1, <1>4, <2>1, TypeSave DEF Reactivate
    <2>3. \A r \in UserRow : [r EXCEPT !.active = TRUE] \in UserRow
        BY DEF UserRow
    <2>4. asked' \in [Users -> UserRow]
        BY <1>1, <1>4, <2>3 DEF Reactivate, SessionsTypeOK
    <2> QED BY <1>4, <2>2, <2>4, BlankIsAJob DEF Reactivate, SessionsTypeOK
<1> QED BY <1>2, <1>3, <1>4

LEMMA TypeKickActions ==
    ASSUME SessionsTypeOK, NEW j \in SessionJobs,
           \/ KickUser(j)
           \/ \E group \in Tenants, except \in {{}} \union {{u} : u \in Users} :
                 KickMany(j, group, except)
    PROVE  SessionsTypeOK'
<1>1. session[j] \in SessionJob /\ session[j].user \in Users /\ session[j].row \in UserRow
      /\ session[j].at \in Ticks
    BY DEF SessionsTypeOK, SessionJob
<1>2. CASE KickUser(j)
    <2>1. [session[j].row EXCEPT !.cutoff = session[j].at] \in UserRow
        BY <1>1, RowUpdates
    <2>2. userRow' \in [Users -> UserRow] /\ lost' \in [Users -> SUBSET Columns]
        BY <1>1, <1>2, <2>1, TypeSave DEF KickUser
    <2>3. kicks' \in [Users -> 0 .. MaxKicks] /\ tokens' \subseteq Token
        BY <1>1, <1>2, TypeKicks DEF KickUser
    <2> QED BY <1>2, <2>2, <2>3, BlankIsAJob DEF KickUser, SessionsTypeOK
<1>3. ASSUME NEW group \in Tenants, NEW except \in {{}} \union {{u} : u \in Users},
             KickMany(j, group, except)
      PROVE  SessionsTypeOK'
    <2> DEFINE who == {u \in group \ except : userRow[u].state = "here"}
    <2>1. who \in SUBSET Users
        BY SessionsAssumption
    <2>2. kicks' \in [Users -> 0 .. MaxKicks] /\ tokens' \subseteq Token
        BY <1>1, <1>3, <2>1, TypeKicks DEF KickMany
    <2>3. userRow' \in [Users -> UserRow]
        BY <1>1, <1>3, RowUpdates DEF KickMany, SessionsTypeOK
    <2>4. lost' \in [Users -> SUBSET Columns]
        BY <1>3 DEF KickMany, SessionsTypeOK, Columns
    <2> QED BY <1>3, <2>2, <2>3, <2>4, BlankIsAJob DEF KickMany, SessionsTypeOK
<1> QED BY <1>2, <1>3

LEMMA SessionsTypeStep ==
    ASSUME SessionsTypeOK, [SessionsNext]_sessionVars
    PROVE  SessionsTypeOK'
<1>1. CASE UNCHANGED sessionVars
    BY <1>1 DEF sessionVars, SessionsTypeOK
<1>2. CASE SessionTick
    BY <1>2, SessionsAssumption DEF SessionTick, SessionsTypeOK, Ticks, history
<1>3. ASSUME NEW u \in Users, CreateUser(u) \/ RemoveUser(u) PROVE SessionsTypeOK'
    <2>1. CASE CreateUser(u)
        BY <2>1, RowUpdates DEF CreateUser, SessionsTypeOK
    <2>2. CASE RemoveUser(u)
        BY <2>2, RowUpdates DEF RemoveUser, SessionsTypeOK
    <2> QED BY <1>3, <2>1, <2>2
<1>4. ASSUME NEW tk \in tokens, TokenEnds(tk) PROVE SessionsTypeOK'
    BY <1>4 DEF TokenEnds, SessionsTypeOK, history
<1>5. ASSUME NEW j \in SessionJobs, NEW u \in Users,
             \/ UpdateFind(j, u) \/ ReactivateFind(j, u) \/ KickFind(j, u)
             \/ \E p \in Passwords : Login(j, u, p)
      PROVE  SessionsTypeOK'
    BY <1>5, TypeReads DEF UpdateFind, ReactivateFind, KickFind, Login
<1>6. ASSUME NEW j \in SessionJobs, NEW tk \in tokens, Refresh(j, tk) \/ Profile(j, tk)
      PROVE  SessionsTypeOK'
    BY <1>6, TypeEnters DEF Refresh, Profile
<1> QED BY <1>1, <1>2, <1>3, <1>4, <1>5, <1>6, TypeRequests, TypeWrites, TypeKickActions
        DEF SessionsNext

(* The variables keep their types: clock, rows, tokens, requests, and what each stands for. *)
THEOREM SessionsTypeCorrect == SessionsSpec => []SessionsTypeOK
<1>1. SessionsInit => SessionsTypeOK
    BY SessionsTypeInit
<1>2. SessionsTypeOK /\ [SessionsNext]_sessionVars => SessionsTypeOK'
    BY SessionsTypeStep
<1> QED BY <1>1, <1>2, PTL DEF SessionsSpec

-----------------------------------------------------------------------------
(* The inductive invariant.  The parts that are not types, in one name. *)

KicksHold == TimesPassed /\ TokensAgree /\ JobsAgree

(* What the types say of a token, a request and a row, as numbers. *)
LEMMA Numbers ==
    ASSUME SessionsTypeOK
    PROVE  /\ clock \in Nat
           /\ \A tk \in tokens : /\ tk.user \in Users /\ tk.iat \in Nat /\ tk.known \in Nat
                                 /\ tk.late \in BOOLEAN
           /\ \A u \in Users : kicks[u] \in Nat /\ userRow[u].cutoff \in Nat
           /\ \A j \in SessionJobs :
                 LET s == session[j] IN
                 /\ s.user \in Users /\ s.row \in UserRow /\ s.row.cutoff \in Nat
                 /\ s.known \in Nat /\ s.since \in Nat /\ s.at \in Nat /\ s.at \in Ticks
<1>1. \A k \in 0 .. MaxKicks : k \in Nat
    OBVIOUS
<1>2. \A row \in UserRow : row.cutoff \in Nat
    BY TicksAreNaturals DEF UserRow
<1>3. clock \in Nat
    BY TicksAreNaturals DEF SessionsTypeOK
<1>4. \A tk \in tokens : /\ tk.user \in Users /\ tk.iat \in Nat /\ tk.known \in Nat
                           /\ tk.late \in BOOLEAN
    BY <1>1, TicksAreNaturals DEF SessionsTypeOK, Token
<1>5. \A u \in Users : kicks[u] \in Nat /\ userRow[u].cutoff \in Nat
    BY <1>1, <1>2 DEF SessionsTypeOK
<1>6. ASSUME NEW j \in SessionJobs
      PROVE  LET s == session[j] IN
             /\ s.user \in Users /\ s.row \in UserRow /\ s.row.cutoff \in Nat
             /\ s.known \in Nat /\ s.since \in Nat /\ s.at \in Nat /\ s.at \in Ticks
    <2>1. session[j] \in SessionJob
        BY DEF SessionsTypeOK
    <2>2. session[j].row \in UserRow
        BY <2>1 DEF SessionJob
    <2> QED BY <1>1, <1>2, <2>1, <2>2, TicksAreNaturals DEF SessionJob
<1> QED BY <1>3, <1>4, <1>5, <1>6

LEMMA KicksHoldInit == SessionsInit => KicksHold
<1> SUFFICES ASSUME SessionsInit PROVE KicksHold
    OBVIOUS
<1> QED BY BlankIsAJob
        DEF SessionsInit, KicksHold, TimesPassed, TokensAgree, JobsAgree

(* A request that comes to another step, and writes nothing. *)
LEMMA RequestMoves ==
    ASSUME SessionsInv, NEW j \in SessionJobs, NEW s \in SessionJob,
           session' = [session EXCEPT ![j] = s],
           UNCHANGED <<clock, userRow, tokens, kicks, lost>>,
           s.at <= clock, s.row.cutoff <= clock,
           s.known <= kicks[s.user], s.since <= kicks[s.user],
           \A tk \in tokens :
              tk.user = s.user /\ tk.known = kicks[s.user] => s.row.cutoff <= tk.iat,
           /\ s.step \in {"loginSave", "refresh", "mint"} /\ ~s.late
           /\ s.since = kicks[s.user] /\ s.known < kicks[s.user]
           => "cutoff" \in lost[s.user]
    PROVE  KicksHold'
<1>1. TimesPassed'
    BY DEF SessionsInv, SessionsTypeOK, TimesPassed
<1>2. TokensAgree'
    BY DEF SessionsInv, TokensAgree, IsRevoked, Second
<1>3. JobsAgree'
    BY DEF SessionsInv, SessionsTypeOK, JobsAgree
<1> QED BY <1>1, <1>2, <1>3 DEF KicksHold

(* The blank request has nothing to answer for. *)
LEMMA RequestEnds ==
    ASSUME SessionsInv, NEW j \in SessionJobs,
           session' = [session EXCEPT ![j] = Blank],
           UNCHANGED <<clock, userRow, tokens, kicks, lost>>
    PROVE  KicksHold'
<1>1. SessionsTypeOK
    BY DEF SessionsInv
<1>2. 0 <= clock /\ 0 <= kicks[Blank.user] /\ \A tk \in tokens : 0 <= tk.iat
    BY <1>1, Numbers, BlankIsAJob
<1> QED BY <1>2, RequestMoves, BlankIsAJob

LEMMA KicksReads ==
    ASSUME SessionsInv, NEW j \in SessionJobs, NEW u \in Users,
           NEW to \in {"loginSave", "update", "reactivate", "kick"}, Reads(j, u, to)
    PROVE  KicksHold'
<1> DEFINE s == [step |-> to, user |-> u, row |-> userRow[u], known |-> kicks[u],
                 since |-> kicks[u], late |-> FALSE, at |-> clock]
<1>1. s \in SessionJob
    BY DEF SessionsInv, SessionsTypeOK, SessionJob, SessionSteps
<1>2. kicks[u] \in Nat /\ clock \in Nat /\ userRow[u].cutoff <= clock
    BY Numbers DEF SessionsInv, TimesPassed
<1>3. \A tk \in tokens :
         tk.user = u /\ tk.known = kicks[u] => userRow[u].cutoff <= tk.iat
    BY DEF SessionsInv, TokensAgree
<1>4. /\ session' = [session EXCEPT ![j] = s]
      /\ UNCHANGED <<clock, userRow, tokens, kicks, lost>>
    BY DEF Reads, history
<1>5. s.at <= clock /\ s.known <= kicks[s.user] /\ s.since <= kicks[s.user]
    BY <1>2
<1>6. ~(s.known < kicks[s.user])
    BY <1>2
<1> QED BY <1>1, <1>2, <1>3, <1>4, <1>5, <1>6, RequestMoves

LEMMA KicksEnters ==
    ASSUME SessionsInv, NEW j \in SessionJobs, NEW tk \in tokens,
           NEW to \in {"refresh", "profile"}, Enters(j, tk, to)
    PROVE  KicksHold'
<1> DEFINE s == [Blank EXCEPT !.step = to, !.user = tk.user, !.known = tk.known,
                              !.since = kicks[tk.user], !.late = tk.late]
<1>1. SessionsTypeOK /\ tk \in Token /\ kicks[tk.user] \in 0 .. MaxKicks
    BY DEF SessionsInv, SessionsTypeOK, Token
<1>2. s \in SessionJob
    BY <1>1, BlankIsAJob DEF SessionJob, SessionSteps, Token
<1>3. /\ s.at = 0 /\ s.row.cutoff = 0 /\ s.user = tk.user /\ s.late = tk.late
      /\ s.known = tk.known /\ s.since = kicks[tk.user]
    BY BlankIsAJob DEF Blank
<1>4. /\ 0 <= clock /\ tk.known <= kicks[tk.user] /\ kicks[tk.user] <= kicks[tk.user]
      /\ \A t \in tokens : 0 <= t.iat
    BY <1>1, Numbers DEF SessionsInv, TokensAgree
<1>5. ~tk.late /\ tk.known < kicks[tk.user] => "cutoff" \in lost[tk.user]
    BY DEF SessionsInv, TokensAgree, Enters, IsAccepted
<1>6. /\ session' = [session EXCEPT ![j] = s]
      /\ UNCHANGED <<clock, userRow, tokens, kicks, lost>>
    BY DEF Enters, history
<1> HIDE DEF s
<1> QED BY <1>2, <1>3, <1>4, <1>5, <1>6, RequestMoves

(* A save of a whole row whose cutoff the request read, meaning to write other columns. *)
LEMMA KicksSave ==
    ASSUME SessionsInv, NEW j \in SessionJobs, NEW row \in UserRow,
           NEW meant \in SUBSET {"active", "password"},
           row.cutoff = session[j].row.cutoff,
           SaveUser(session[j].user, row, meant),
           UNCHANGED <<clock, tokens, kicks>>,
           \/ session' = [session EXCEPT ![j] = Blank]
           \/ /\ session[j].step = "loginSave"
              /\ session' = [session EXCEPT ![j].step = "mint", ![j].row = Blank.row]
    PROVE  KicksHold'
<1> DEFINE u == session[j].user
<1>1. SessionsTypeOK /\ u \in Users
    BY Numbers DEF SessionsInv
<1>2. /\ userRow' = [userRow EXCEPT ![u] = row]
      /\ lost' = [lost EXCEPT ![u] =
                    (@ \ meant) \union {c \in Columns \ meant : row[c] # userRow[u][c]}]
    BY DEF SaveUser
<1>3. \A v \in Users : "cutoff" \in lost[v] => "cutoff" \in lost'[v]
    BY <1>1, <1>2 DEF SessionsTypeOK
<1>4. row.cutoff # userRow[u].cutoff => "cutoff" \in lost'[u]
    <2>1. "cutoff" \in Columns \ meant /\ row["cutoff"] = row.cutoff
          /\ userRow[u]["cutoff"] = userRow[u].cutoff
        BY DEF Columns
    <2> QED BY <1>1, <1>2, <2>1 DEF SessionsTypeOK
<1>5. row.cutoff <= clock
      /\ \A tk \in tokens : tk.user = u /\ tk.known = kicks[u] => row.cutoff <= tk.iat
    BY DEF SessionsInv, TimesPassed, JobsAgree
<1>6. TokensAgree'
    <2> SUFFICES ASSUME NEW tk \in tokens
                 PROVE  /\ tk.known <= kicks[tk.user]
                        /\ tk.known < kicks[tk.user] /\ ~tk.late =>
                              IsRevoked(tk, userRow'[tk.user]) \/ "cutoff" \in lost'[tk.user]
                        /\ tk.known = kicks[tk.user] => userRow'[tk.user].cutoff <= tk.iat
        BY DEF TokensAgree
    <2>1. /\ tk.user \in Users /\ tk.known <= kicks[tk.user]
          /\ tk.known < kicks[tk.user] /\ ~tk.late =>
                IsRevoked(tk, userRow[tk.user]) \/ "cutoff" \in lost[tk.user]
          /\ tk.known = kicks[tk.user] => userRow[tk.user].cutoff <= tk.iat
        BY <1>1, Numbers DEF SessionsInv, TokensAgree
    <2>2. CASE tk.user = u
        <3>1. userRow'[u] = row
            BY <1>1, <1>2 DEF SessionsTypeOK
        <3>2. row.cutoff = userRow[u].cutoff =>
                  (IsRevoked(tk, userRow[u]) => IsRevoked(tk, userRow'[u]))
            BY <3>1 DEF IsRevoked
        <3> QED BY <1>3, <1>4, <1>5, <2>1, <2>2, <3>1, <3>2
    <2>3. CASE tk.user # u
        <3>1. userRow'[tk.user] = userRow[tk.user]
            BY <1>1, <1>2, <2>1, <2>3 DEF SessionsTypeOK
        <3> QED BY <1>3, <2>1, <3>1
    <2> QED BY <2>2, <2>3
<1>7. TimesPassed'
    <2>1. \A v \in Users : userRow'[v].cutoff <= clock
        BY <1>1, <1>2, <1>5 DEF SessionsInv, TimesPassed, SessionsTypeOK
    <2>2. \A i \in SessionJobs : session'[i].at <= clock /\ session'[i].row.cutoff <= clock
        <3>1. 0 <= clock
            BY <1>1, Numbers
        <3>2. Blank.at <= clock /\ Blank.row.cutoff <= clock
            BY <3>1, BlankIsAJob
        <3>3. \A i \in SessionJobs :
                 session[i].at <= clock /\ session[i].row.cutoff <= clock
            BY DEF SessionsInv, TimesPassed
        <3>4. CASE session' = [session EXCEPT ![j] = Blank]
            BY <1>1, <3>2, <3>3, <3>4 DEF SessionsTypeOK
        <3>5. CASE session' = [session EXCEPT ![j].step = "mint", ![j].row = Blank.row]
            <4>1. \A i \in SessionJobs : session[i] \in SessionJob
                BY <1>1 DEF SessionsTypeOK
            <4>2. \A i \in SessionJobs \ {j} : session'[i] = session[i]
                BY <1>1, <3>5 DEF SessionsTypeOK
            <4>3. session'[j] = [session[j] EXCEPT !.step = "mint", !.row = Blank.row]
                BY <1>1, <3>5 DEF SessionsTypeOK
            <4>4. session'[j].at = session[j].at /\ session'[j].row = Blank.row
                BY <4>1, <4>3 DEF SessionJob
            <4> QED BY <3>2, <3>3, <4>2, <4>4
        <3> QED BY <3>4, <3>5
    <2> QED BY <2>1, <2>2 DEF SessionsInv, TimesPassed
<1>8. JobsAgree'
    <2> SUFFICES ASSUME NEW i \in SessionJobs
                 PROVE  LET s == session'[i] IN
                        /\ s.known <= kicks[s.user] /\ s.since <= kicks[s.user]
                        /\ \A tk \in tokens : tk.user = s.user /\ tk.known = kicks[s.user] =>
                                                  s.row.cutoff <= tk.iat
                        /\ /\ s.step \in {"loginSave", "refresh", "mint"} /\ ~s.late
                           /\ s.since = kicks[s.user] /\ s.known < kicks[s.user]
                           => "cutoff" \in lost'[s.user]
        BY DEF JobsAgree
    <2>1. CASE session'[i] = session[i]
        <3>1. session[i].user \in Users
            BY <1>1, Numbers
        <3> QED BY <1>3, <2>1, <3>1 DEF SessionsInv, JobsAgree
    <2>2. CASE session'[i] = Blank
        <3>1. 0 <= kicks[Blank.user] /\ \A tk \in tokens : 0 <= tk.iat
            BY <1>1, Numbers, BlankIsAJob
        <3> QED BY <2>2, <3>1, BlankIsAJob
    <2>3. CASE /\ i = j /\ session[j].step = "loginSave"
               /\ session' = [session EXCEPT ![j].step = "mint", ![j].row = Blank.row]
        <3>1. session'[j] = [session[j] EXCEPT !.step = "mint", !.row = Blank.row]
            BY <1>1, <2>3 DEF SessionsTypeOK
        <3>2. /\ session'[j].user = u /\ session'[j].row.cutoff = 0
              /\ session'[j].known = session[j].known /\ session'[j].since = session[j].since
              /\ session'[j].late = session[j].late
            BY <1>1, <3>1, BlankIsAJob DEF SessionsTypeOK, SessionJob
        <3>3. \A tk \in tokens : 0 <= tk.iat
            BY <1>1, Numbers
        <3>4. LET s == session[j] IN
              /\ s.known <= kicks[u] /\ s.since <= kicks[u]
              /\ ~s.late /\ s.since = kicks[u] /\ s.known < kicks[u]
                 => "cutoff" \in lost'[u]
            BY <1>1, <1>3, <2>3 DEF SessionsInv, JobsAgree
        <3> HIDE DEF u
        <3> QED BY <2>3, <3>2, <3>3, <3>4
    <2> QED BY <1>1, <2>1, <2>2, <2>3 DEF SessionsTypeOK
<1> QED BY <1>6, <1>7, <1>8 DEF KicksHold

(* A new token knows of every kick, or is late, or is of a session that a save gave back. *)
LEMMA KicksMint ==
    ASSUME SessionsInv, NEW j \in SessionJobs, Mint(j)
    PROVE  KicksHold'
<1> DEFINE s == session[j]
           tk == [user |-> s.user, iat |-> clock, known |-> s.known,
                  late |-> s.late \/ s.since # kicks[s.user]]
<1>1. /\ SessionsTypeOK /\ s.user \in Users /\ s.known \in Nat /\ s.since \in Nat
      /\ kicks[s.user] \in Nat /\ clock \in Nat
    BY Numbers DEF SessionsInv
<1>2. /\ s.step = "mint" /\ tokens' = tokens \union {tk}
      /\ session' = [session EXCEPT ![j] = Blank]
      /\ UNCHANGED <<clock, userRow, kicks, lost>>
    BY DEF Mint, history
<1>3. /\ s.known <= kicks[s.user] /\ s.since <= kicks[s.user]
      /\ /\ ~s.late /\ s.since = kicks[s.user] /\ s.known < kicks[s.user]
         => "cutoff" \in lost[s.user]
    BY <1>2 DEF SessionsInv, JobsAgree
<1>4. /\ \A u \in Users : userRow[u].cutoff <= clock
      /\ \A i \in SessionJobs : session[i].at <= clock /\ session[i].row.cutoff <= clock
    BY DEF SessionsInv, TimesPassed
<1>5. 0 <= clock /\ Blank.at = 0 /\ Blank.row.cutoff = 0
    BY <1>1, BlankIsAJob
<1>6. /\ tk.user = s.user /\ tk.iat = clock /\ tk.known = s.known
      /\ ~tk.late => ~s.late /\ s.since = kicks[s.user]
    OBVIOUS
<1>7. /\ session'[j] = Blank
      /\ \A i \in SessionJobs \ {j} : session'[i] = session[i]
    BY <1>1, <1>2 DEF SessionsTypeOK
<1> HIDE DEF tk
<1>8. TimesPassed'
    <2>1. \A t \in tokens' : t.iat <= clock
        BY <1>1, <1>2, <1>6 DEF SessionsInv, TimesPassed
    <2> QED BY <1>2, <1>4, <1>5, <1>7, <2>1 DEF TimesPassed
<1>9. TokensAgree'
    <2>1. \A t \in tokens : /\ t.known <= kicks[t.user]
                            /\ t.known < kicks[t.user] /\ ~t.late =>
                                  \/ IsRevoked(t, userRow[t.user])
                                  \/ "cutoff" \in lost[t.user]
                            /\ t.known = kicks[t.user] => userRow[t.user].cutoff <= t.iat
        BY DEF SessionsInv, TokensAgree
    <2>2. /\ tk.known <= kicks[tk.user]
          /\ tk.known < kicks[tk.user] /\ ~tk.late => "cutoff" \in lost[tk.user]
          /\ userRow[tk.user].cutoff <= tk.iat
        BY <1>1, <1>3, <1>4, <1>6
    <2> QED BY <1>2, <2>1, <2>2 DEF TokensAgree
<1>10. JobsAgree'
    <2> SUFFICES ASSUME NEW i \in SessionJobs
                 PROVE  LET x == session'[i] IN
                        /\ x.known <= kicks[x.user] /\ x.since <= kicks[x.user]
                        /\ \A t \in tokens' : t.user = x.user /\ t.known = kicks[x.user] =>
                                                  x.row.cutoff <= t.iat
                        /\ /\ x.step \in {"loginSave", "refresh", "mint"} /\ ~x.late
                           /\ x.since = kicks[x.user] /\ x.known < kicks[x.user]
                           => "cutoff" \in lost[x.user]
        BY <1>2 DEF JobsAgree
    <2>1. CASE i = j
        <3>1. 0 <= kicks[Blank.user] /\ \A t \in tokens' : 0 <= t.iat
            BY <1>1, <1>2, <1>6, Numbers, BlankIsAJob
        <3> QED BY <1>7, <2>1, <3>1, BlankIsAJob
    <2>2. CASE i # j
        <3>1. session'[i] = session[i] /\ session[i].row.cutoff <= tk.iat
            BY <1>4, <1>6, <1>7, <2>2
        <3> QED BY <1>2, <3>1 DEF SessionsInv, JobsAgree
    <2> QED BY <2>1, <2>2
<1> QED BY <1>8, <1>9, <1>10 DEF KicksHold

(* Kicks of a set of users, each with the cutoff now: the kicked know of one kick less than
   there are, and bear the cutoff, or are late, or the cutoff did not last. *)
LEMMA KicksKick ==
    ASSUME SessionsInv, NEW j \in SessionJobs, NEW who \in SUBSET Users, NEW now \in Nat,
           now <= clock, CountKicks(who, now), UNCHANGED clock,
           session' = [session EXCEPT ![j] = Blank],
           \A u \in who : userRow'[u].cutoff = now,
           \A u \in who : now < userRow[u].cutoff => "cutoff" \in lost'[u],
           \A u \in Users \ who : userRow'[u] = userRow[u] /\ lost'[u] = lost[u]
    PROVE  KicksHold'
<1>1. /\ SessionsTypeOK
      /\ \A u \in Users : kicks[u] \in Nat /\ userRow[u].cutoff \in Nat
      /\ \A t \in tokens : t.user \in Users /\ t.iat \in Nat /\ t.known \in Nat
      /\ clock \in Nat
    BY Numbers DEF SessionsInv
<1>2. /\ \A u \in who : kicks'[u] = kicks[u] + 1
      /\ \A u \in Users \ who : kicks'[u] = kicks[u]
    BY DEF CountKicks
<1> DEFINE Later(t) == [t EXCEPT !.late = @ \/ /\ t.user \in who /\ t.iat >= now
                                               /\ ~IsRevoked(t, userRow[t.user])]
<1>3. tokens' = {Later(t) : t \in tokens}
    BY DEF CountKicks
<1>4. ASSUME NEW t \in tokens
      PROVE  /\ Later(t).user = t.user /\ Later(t).iat = t.iat /\ Later(t).known = t.known
             /\ ~Later(t).late =>
                   ~t.late /\ (t.user \in who /\ t.iat >= now => IsRevoked(t, userRow[t.user]))
    BY <1>1 DEF SessionsTypeOK, Token
<1> HIDE DEF Later
<1>5. /\ session'[j] = Blank
      /\ \A i \in SessionJobs \ {j} : session'[i] = session[i]
    BY <1>1 DEF SessionsTypeOK
<1>6. TimesPassed'
    <2>1. \A t \in tokens' : t.iat <= clock
        BY <1>3, <1>4 DEF SessionsInv, TimesPassed
    <2>2. \A u \in Users : userRow'[u].cutoff <= clock
        BY DEF SessionsInv, TimesPassed
    <2>3. \A i \in SessionJobs : session'[i].at <= clock /\ session'[i].row.cutoff <= clock
        BY <1>1, <1>5, BlankIsAJob DEF SessionsInv, TimesPassed
    <2> QED BY <2>1, <2>2, <2>3 DEF TimesPassed
<1>7. ASSUME NEW t \in tokens
      PROVE  /\ t.known <= kicks'[t.user]
             /\ t.known < kicks'[t.user] /\ ~Later(t).late =>
                   IsRevoked(t, userRow'[t.user]) \/ "cutoff" \in lost'[t.user]
             /\ t.known = kicks'[t.user] =>
                   t.user \notin who /\ userRow'[t.user].cutoff <= t.iat
    <2>1. /\ t.user \in Users /\ t.known <= kicks[t.user]
          /\ t.known < kicks[t.user] /\ ~t.late =>
                IsRevoked(t, userRow[t.user]) \/ "cutoff" \in lost[t.user]
          /\ t.known = kicks[t.user] => userRow[t.user].cutoff <= t.iat
        BY <1>1 DEF SessionsInv, TokensAgree
    <2>2. CASE t.user \notin who
        <3>1. userRow'[t.user] = userRow[t.user] /\ lost'[t.user] = lost[t.user]
              /\ kicks'[t.user] = kicks[t.user]
            BY <1>2, <2>1, <2>2
        <3> QED BY <1>4, <2>1, <2>2, <3>1
    <2>3. CASE t.user \in who
        <3>1. t.known < kicks'[t.user] /\ userRow'[t.user].cutoff = now
            BY <1>1, <1>2, <2>1, <2>3
        <3>2. now < userRow[t.user].cutoff => "cutoff" \in lost'[t.user]
            BY <2>3
        <3>3. ASSUME userRow[t.user].cutoff <= now, ~Later(t).late
              PROVE  IsRevoked(t, userRow'[t.user])
            <4>1. /\ Second(t.iat) * TicksPerSecond \in Nat
                  /\ Second(t.iat) * TicksPerSecond <= t.iat
                BY <1>1, Rounding, SessionsAssumption DEF Second
            <4>2. CASE t.iat < now
                BY <1>1, <3>1, <4>1, <4>2 DEF IsRevoked
            <4>3. CASE t.iat >= now
                <5>1. Second(t.iat) * TicksPerSecond < userRow[t.user].cutoff
                    BY <1>4, <2>3, <3>3, <4>3 DEF IsRevoked
                <5> QED BY <1>1, <2>1, <3>1, <3>3, <4>1, <5>1 DEF IsRevoked
            <4> QED BY <1>1, <4>2, <4>3
        <3>4. t.known \in Nat /\ kicks'[t.user] \in Nat /\ userRow[t.user].cutoff \in Nat
            BY <1>1, <1>2, <2>1, <2>3
        <3> QED BY <3>1, <3>2, <3>3, <3>4
    <2> QED BY <2>2, <2>3
<1>8. TokensAgree'
    <2> SUFFICES ASSUME NEW x \in tokens'
                 PROVE  /\ x.known <= kicks'[x.user]
                        /\ x.known < kicks'[x.user] /\ ~x.late =>
                              IsRevoked(x, userRow'[x.user]) \/ "cutoff" \in lost'[x.user]
                        /\ x.known = kicks'[x.user] => userRow'[x.user].cutoff <= x.iat
        BY DEF TokensAgree
    <2>1. PICK t \in tokens : x = Later(t)
        BY <1>3
    <2>2. x.user = t.user /\ x.iat = t.iat /\ x.known = t.known
        BY <1>4, <2>1
    <2>3. IsRevoked(x, userRow'[x.user]) <=> IsRevoked(t, userRow'[t.user])
        BY <2>2 DEF IsRevoked
    <2> QED BY <1>7, <2>1, <2>2, <2>3
<1>9. JobsAgree'
    <2> SUFFICES ASSUME NEW i \in SessionJobs
                 PROVE  LET s == session'[i] IN
                        /\ s.known <= kicks'[s.user] /\ s.since <= kicks'[s.user]
                        /\ \A x \in tokens' : x.user = s.user /\ x.known = kicks'[s.user] =>
                                                  s.row.cutoff <= x.iat
                        /\ /\ s.step \in {"loginSave", "refresh", "mint"} /\ ~s.late
                           /\ s.since = kicks'[s.user] /\ s.known < kicks'[s.user]
                           => "cutoff" \in lost'[s.user]
        BY DEF JobsAgree
    <2>1. CASE i = j
        <3>1. 0 <= kicks'[Blank.user] /\ \A x \in tokens' : 0 <= x.iat
            BY <1>1, <1>2, <1>3, <1>4, BlankIsAJob
        <3> QED BY <1>5, <2>1, <3>1, BlankIsAJob
    <2>2. CASE i # j
        <3> DEFINE s == session[i]
        <3>1. /\ session'[i] = s /\ s.user \in Users /\ s.known \in Nat /\ s.since \in Nat
              /\ s.known <= kicks[s.user] /\ s.since <= kicks[s.user]
            BY <1>1, <1>5, <2>2, Numbers DEF SessionsInv, JobsAgree
        <3>2. \A t \in tokens : t.user = s.user /\ t.known = kicks[s.user] =>
                                    s.row.cutoff <= t.iat
            BY DEF SessionsInv, JobsAgree
        <3>3. /\ s.step \in {"loginSave", "refresh", "mint"} /\ ~s.late
              /\ s.since = kicks[s.user] /\ s.known < kicks[s.user]
              => "cutoff" \in lost[s.user]
            BY DEF SessionsInv, JobsAgree
        <3> HIDE DEF s
        <3>4. \A x \in tokens' : x.user = s.user /\ x.known = kicks'[s.user] =>
                                     s.row.cutoff <= x.iat
            <4> SUFFICES ASSUME NEW t \in tokens, t.user = s.user, t.known = kicks'[s.user]
                         PROVE  s.row.cutoff <= t.iat
                BY <1>3, <1>4
            <4>1. t.user \notin who
                BY <1>7
            <4> QED BY <1>2, <3>1, <3>2, <4>1
        <3>5. CASE s.user \in who
            <4>1. kicks'[s.user] = kicks[s.user] + 1 /\ kicks[s.user] \in Nat
                BY <1>1, <1>2, <3>1, <3>5
            <4> QED BY <3>1, <3>4, <4>1
        <3>6. CASE s.user \notin who
            BY <1>2, <3>1, <3>3, <3>4, <3>6
        <3> QED BY <3>5, <3>6
    <2> QED BY <2>1, <2>2
<1> QED BY <1>6, <1>8, <1>9 DEF KicksHold

LEMMA KicksRequests ==
    ASSUME SessionsInv, NEW j \in SessionJobs,
           \/ SessionEnds(j) \/ RefreshFind(j) \/ KickManyStarts(j)
           \/ \E p \in Passwords : ProfileFind(j, p)
    PROVE  KicksHold'
<1> DEFINE s == session[j]
<1>1. /\ SessionsTypeOK /\ s \in SessionJob /\ s.user \in Users /\ clock \in Nat
      /\ \A t \in tokens : t.iat \in Nat
    BY Numbers DEF SessionsInv, SessionsTypeOK
<1>2. /\ s.known <= kicks[s.user] /\ s.since <= kicks[s.user]
      /\ s.at <= clock /\ s.row.cutoff <= clock
      /\ \A t \in tokens : t.user = s.user /\ t.known = kicks[s.user] =>
                               s.row.cutoff <= t.iat
      /\ /\ s.step \in {"loginSave", "refresh", "mint"} /\ ~s.late
         /\ s.since = kicks[s.user] /\ s.known < kicks[s.user]
         => "cutoff" \in lost[s.user]
    BY DEF SessionsInv, JobsAgree, TimesPassed
<1>3. CASE SessionEnds(j)
    BY <1>3, RequestEnds DEF SessionEnds, history
<1>4. CASE RefreshFind(j)
    <2> DEFINE x == [s EXCEPT !.step = "mint"]
    <2>1. /\ x \in SessionJob /\ x.user = s.user /\ x.known = s.known /\ x.since = s.since
          /\ x.late = s.late /\ x.at = s.at /\ x.row = s.row
        BY <1>1 DEF SessionJob, SessionSteps
    <2>2. /\ s.step = "refresh" /\ session' = [session EXCEPT ![j] = x]
          /\ UNCHANGED <<clock, userRow, tokens, kicks, lost>>
        BY <1>1, <1>4 DEF RefreshFind, history, SessionsTypeOK
    <2> HIDE DEF x, s
    <2> QED BY <1>2, <2>1, <2>2, RequestMoves
<1>5. CASE KickManyStarts(j)
    <2> DEFINE x == [Blank EXCEPT !.step = "kickMany", !.at = clock]
    <2>1. /\ x \in SessionJob /\ x.user = Blank.user /\ x.known = 0 /\ x.since = 0
          /\ x.step = "kickMany" /\ x.at = clock /\ x.row.cutoff = 0
        BY <1>1, BlankIsAJob DEF SessionJob, SessionSteps, SessionsTypeOK
    <2>2. /\ session' = [session EXCEPT ![j] = x]
          /\ UNCHANGED <<clock, userRow, tokens, kicks, lost>>
        BY <1>5 DEF KickManyStarts, history
    <2>3. 0 <= kicks[Blank.user] /\ 0 <= clock /\ clock <= clock /\ \A t \in tokens : 0 <= t.iat
        BY <1>1, Numbers, BlankIsAJob
    <2> HIDE DEF x
    <2> QED BY <2>1, <2>2, <2>3, RequestMoves
<1>6. ASSUME NEW p \in Passwords, ProfileFind(j, p) PROVE KicksHold'
    <2> DEFINE x == [s EXCEPT !.step = "profileSave", !.row = userRow[s.user]]
    <2>1. userRow[s.user] \in UserRow
        BY <1>1 DEF SessionsTypeOK
    <2>2. /\ x \in SessionJob /\ x.user = s.user /\ x.known = s.known /\ x.since = s.since
          /\ x.step = "profileSave" /\ x.at = s.at /\ x.row = userRow[s.user]
        BY <1>1, <2>1 DEF SessionJob, SessionSteps
    <2>3. /\ session' = [session EXCEPT ![j] = x]
          /\ UNCHANGED <<clock, userRow, tokens, kicks, lost>>
        BY <1>1, <1>6 DEF ProfileFind, history, SessionsTypeOK
    <2>4. userRow[s.user].cutoff <= clock
          /\ \A t \in tokens : t.user = s.user /\ t.known = kicks[s.user] =>
                                   userRow[s.user].cutoff <= t.iat
        BY <1>1 DEF SessionsInv, TimesPassed, TokensAgree
    <2> HIDE DEF x, s
    <2> QED BY <1>2, <2>2, <2>3, <2>4, RequestMoves
<1> QED BY <1>3, <1>4, <1>5, <1>6

LEMMA KicksWrites ==
    ASSUME SessionsInv, NEW j \in SessionJobs,
           \/ LoginSave(j) \/ \E p \in Passwords : ProfileSave(j, p)
           \/ \E dto \in Dto : Update(j, dto)
           \/ Reactivate(j)
    PROVE  KicksHold'
<1> DEFINE s == session[j]
<1>1. SessionsTypeOK /\ s.row \in UserRow
    BY Numbers DEF SessionsInv
<1>2. CASE LoginSave(j)
    <2>1. /\ SaveUser(s.user, s.row, {}) /\ s.step = "loginSave"
          /\ session' = [session EXCEPT ![j].step = "mint", ![j].row = Blank.row]
          /\ UNCHANGED <<clock, tokens, kicks>>
        BY <1>2 DEF LoginSave
    <2>2. {} \in SUBSET {"active", "password"}
        OBVIOUS
    <2> QED BY <1>1, <2>1, <2>2, KicksSave
<1>3. ASSUME NEW p \in Passwords, ProfileSave(j, p) PROVE KicksHold'
    <2> DEFINE row == [s.row EXCEPT !.password = p]
               set == IF p = s.row.password THEN {} ELSE {"password"}
    <2>1. row \in UserRow /\ row.cutoff = s.row.cutoff
        BY <1>1, RowUpdates DEF UserRow
    <2>2. /\ SaveUser(s.user, row, set) /\ set \in SUBSET {"active", "password"}
          /\ session' = [session EXCEPT ![j] = Blank]
          /\ UNCHANGED <<clock, tokens, kicks>>
        BY <1>3 DEF ProfileSave
    <2> HIDE DEF row, set
    <2> QED BY <2>1, <2>2, KicksSave
<1>4. ASSUME NEW dto \in Dto, Update(j, dto) PROVE KicksHold'
    <2> DEFINE active == IF "active" \in DOMAIN dto THEN dto.active ELSE s.row.active
               p == IF "password" \in DOMAIN dto THEN dto.password ELSE s.row.password
               row == UpdateRow(s.row, active, p)
    <2>1. active \in BOOLEAN /\ p \in Passwords
        BY <1>1, AskedUpdates DEF UserRow
    <2>2. row \in UserRow /\ row.cutoff = s.row.cutoff
        BY <1>1, <2>1, RowUpdates DEF UserRow, UpdateRow
    <2>3. DOMAIN dto \in SUBSET {"active", "password"}
        BY <1>1, AskedUpdates
    <2>4. /\ SaveUser(s.user, row, DOMAIN dto)
          /\ session' = [session EXCEPT ![j] = Blank]
          /\ UNCHANGED <<clock, tokens, kicks>>
        BY <1>4 DEF Update
    <2> HIDE DEF row
    <2> QED BY <2>2, <2>3, <2>4, KicksSave
<1>5. CASE Reactivate(j)
    <2>1. PICK read : read = s.row
        OBVIOUS
    <2>2. PICK row : row = [read EXCEPT !.active = TRUE]
        OBVIOUS
    <2>3. row \in UserRow /\ row.cutoff = read.cutoff
        <3>1. read \in UserRow
            BY <1>1, <2>1
        <3> QED BY ONLY <2>2, <3>1 DEF UserRow
    <2>4. /\ SaveUser(s.user, row, {"active"})
          /\ session' = [session EXCEPT ![j] = Blank]
          /\ UNCHANGED <<clock, tokens, kicks>>
        BY <1>5, <2>1, <2>2 DEF Reactivate
    <2>5. {"active"} \in SUBSET {"active", "password"}
        OBVIOUS
    <2> QED BY <2>1, <2>3, <2>4, <2>5, KicksSave
<1> QED BY <1>2, <1>3, <1>4, <1>5

LEMMA KicksKickActions ==
    ASSUME SessionsInv, NEW j \in SessionJobs,
           \/ KickUser(j)
           \/ \E group \in Tenants, except \in {{}} \union {{u} : u \in Users} :
                 KickMany(j, group, except)
    PROVE  KicksHold'
<1> DEFINE s == session[j]
<1>1. /\ SessionsTypeOK /\ s.user \in Users /\ s.row \in UserRow /\ s.at \in Nat
      /\ s.at <= clock /\ \A u \in Users : userRow[u].cutoff \in Nat
    BY Numbers DEF SessionsInv, TimesPassed
<1>2. CASE KickUser(j)
    <2> DEFINE row == [s.row EXCEPT !.cutoff = s.at]
               meant == Overtaken(s.user, s.at)
    <2>1. row.cutoff = s.at /\ row["cutoff"] = s.at
        BY <1>1 DEF UserRow
    <2>2. /\ CountKicks({s.user}, s.at) /\ UNCHANGED clock
          /\ session' = [session EXCEPT ![j] = Blank]
          /\ userRow' = [userRow EXCEPT ![s.user] = row]
          /\ lost' = [lost EXCEPT ![s.user] =
                 (@ \ meant) \union {c \in Columns \ meant : row[c] # userRow[s.user][c]}]
        BY <1>2 DEF KickUser, SaveUser
    <2> HIDE DEF row
    <2>3. userRow'[s.user] = row
        BY <1>1, <2>2 DEF SessionsTypeOK
    <2>4. ASSUME s.at < userRow[s.user].cutoff PROVE "cutoff" \in lost'[s.user]
        <3>1. meant = {} /\ "cutoff" \in Columns
            BY <2>4 DEF Overtaken, Columns
        <3>2. row["cutoff"] # userRow[s.user]["cutoff"]
            BY <1>1, <2>1, <2>4
        <3> QED BY <1>1, <2>2, <3>1, <3>2 DEF SessionsTypeOK
    <2>5. \A u \in Users \ {s.user} : userRow'[u] = userRow[u] /\ lost'[u] = lost[u]
        BY <1>1, <2>2 DEF SessionsTypeOK
    <2>6. {s.user} \in SUBSET Users
        BY <1>1
    <2>7. \A u \in {s.user} :
             userRow'[u].cutoff = s.at /\ (s.at < userRow[u].cutoff => "cutoff" \in lost'[u])
        BY <2>1, <2>3, <2>4
    <2> DEFINE who == {s.user}
               now == s.at
    <2>8. /\ who \in SUBSET Users /\ now \in Nat /\ now <= clock /\ CountKicks(who, now)
          /\ UNCHANGED clock /\ session' = [session EXCEPT ![j] = Blank]
        BY <1>1, <2>2, <2>6
    <2>9. /\ \A u \in who : userRow'[u].cutoff = now
          /\ \A u \in who : now < userRow[u].cutoff => "cutoff" \in lost'[u]
          /\ \A u \in Users \ who : userRow'[u] = userRow[u] /\ lost'[u] = lost[u]
        BY <2>5, <2>7
    <2> HIDE DEF who, now, s, meant
    <2> QED BY <2>8, <2>9, KicksKick
<1>3. ASSUME NEW group \in Tenants, NEW except \in {{}} \union {{u} : u \in Users},
             KickMany(j, group, except)
      PROVE  KicksHold'
    <2> DEFINE who == {u \in group \ except : userRow[u].state = "here"}
    <2>1. who \in SUBSET Users
        BY SessionsAssumption
    <2>2. /\ CountKicks(who, s.at) /\ UNCHANGED clock
          /\ session' = [session EXCEPT ![j] = Blank]
          /\ userRow' = [u \in Users |-> IF u \in who THEN [userRow[u] EXCEPT !.cutoff = s.at]
                                         ELSE userRow[u]]
          /\ lost' = [u \in Users |->
                IF u \notin who THEN lost[u]
                ELSE IF s.at < userRow[u].cutoff THEN lost[u] \union {"cutoff"}
                ELSE lost[u] \ {"cutoff"}]
        BY <1>3 DEF KickMany
    <2> HIDE DEF who
    <2>3. \A u \in who : userRow'[u].cutoff = s.at
        BY <1>1, <2>1, <2>2 DEF SessionsTypeOK, UserRow
    <2>4. \A u \in who : s.at < userRow[u].cutoff => "cutoff" \in lost'[u]
        BY <2>1, <2>2
    <2>5. \A u \in Users \ who : userRow'[u] = userRow[u] /\ lost'[u] = lost[u]
        BY <2>2
    <2> QED BY <1>1, <2>1, <2>2, <2>3, <2>4, <2>5, KicksKick
<1> QED BY <1>2, <1>3

(* The clock, the users' rows that come and go, and the tokens that end. *)
LEMMA KicksAround ==
    ASSUME SessionsInv,
           \/ SessionTick \/ \E tk \in tokens : TokenEnds(tk)
           \/ \E u \in Users : CreateUser(u) \/ RemoveUser(u)
    PROVE  KicksHold'
<1>1. SessionsTypeOK /\ clock \in Nat
    BY Numbers DEF SessionsInv
<1>2. CASE SessionTick
    <2>1. TimesPassed'
        <3>1. /\ clock' = clock + 1 /\ UNCHANGED <<userRow, tokens, session>>
            BY <1>2 DEF SessionTick
        <3>2. \A n \in Nat : n <= clock => n <= clock'
            BY <1>1, <3>1
        <3> QED BY <1>1, <3>1, <3>2, Numbers DEF SessionsInv, TimesPassed
    <2>2. TokensAgree' /\ JobsAgree'
        BY <1>2 DEF SessionTick, history, SessionsInv, TokensAgree, JobsAgree, IsRevoked, Second
    <2> QED BY <2>1, <2>2 DEF KicksHold
<1>3. CASE \E tk \in tokens : TokenEnds(tk)
    <2>1. /\ tokens' \subseteq tokens /\ UNCHANGED <<clock, userRow, session, kicks, lost>>
        BY <1>3 DEF TokenEnds, history
    <2>2. TimesPassed'
        BY <2>1 DEF SessionsInv, TimesPassed
    <2>3. TokensAgree' /\ JobsAgree'
        BY <2>1 DEF SessionsInv, TokensAgree, JobsAgree, IsRevoked, Second
    <2> QED BY <2>2, <2>3 DEF KicksHold
<1>4. ASSUME NEW u \in Users, CreateUser(u) \/ RemoveUser(u) PROVE KicksHold'
    <2>1. /\ \A v \in Users : userRow'[v].cutoff = userRow[v].cutoff
          /\ \A v \in Users : "cutoff" \in lost'[v] <=> "cutoff" \in lost[v]
          /\ UNCHANGED <<clock, tokens, session, kicks>>
        <3>1. \A v \in Users, x \in {"new", "here", "gone"} :
                 [userRow[v] EXCEPT !.state = x].cutoff = userRow[v].cutoff
            BY <1>1 DEF SessionsTypeOK, UserRow
        <3>2. CASE CreateUser(u)
            BY <1>1, <3>1, <3>2 DEF CreateUser, SessionsTypeOK
        <3>3. CASE RemoveUser(u)
            BY <1>1, <3>1, <3>3 DEF RemoveUser, SessionsTypeOK
        <3> QED BY <1>4, <3>2, <3>3
    <2>2. TimesPassed'
        BY <2>1 DEF SessionsInv, TimesPassed
    <2>3. \A tk \in tokens : tk.user \in Users
        BY <1>1, Numbers
    <2>4. TokensAgree'
        BY <2>1, <2>3 DEF SessionsInv, TokensAgree, IsRevoked, Second
    <2>5. \A j \in SessionJobs : session[j].user \in Users
        BY <1>1, Numbers
    <2>6. JobsAgree'
        BY <2>1, <2>5 DEF SessionsInv, JobsAgree
    <2> QED BY <2>2, <2>4, <2>6 DEF KicksHold
<1> QED BY <1>2, <1>3, <1>4

LEMMA SessionsInvStep ==
    ASSUME SessionsInv, [SessionsNext]_sessionVars
    PROVE  SessionsInv'
<1>1. SessionsTypeOK'
    BY SessionsTypeStep DEF SessionsInv
<1>2. CASE UNCHANGED sessionVars
    BY <1>2 DEF sessionVars, SessionsInv, KicksHold, TimesPassed, TokensAgree, JobsAgree,
                IsRevoked, Second, SessionsTypeOK
<1>3. ASSUME NEW j \in SessionJobs, NEW u \in Users,
             \/ UpdateFind(j, u) \/ ReactivateFind(j, u) \/ KickFind(j, u)
             \/ \E p \in Passwords : Login(j, u, p)
      PROVE  KicksHold'
    BY <1>3, KicksReads DEF UpdateFind, ReactivateFind, KickFind, Login
<1>4. ASSUME NEW j \in SessionJobs, NEW tk \in tokens, Refresh(j, tk) \/ Profile(j, tk)
      PROVE  KicksHold'
    BY <1>4, KicksEnters DEF Refresh, Profile
<1>5. CASE SessionsNext
    <2>1. KicksHold'
        BY <1>3, <1>4, <1>5, KicksAround, KicksRequests, KicksMint, KicksWrites,
           KicksKickActions DEF SessionsNext
    <2> QED BY <1>1, <2>1 DEF SessionsInv, KicksHold
<1> QED BY <1>2, <1>5

-----------------------------------------------------------------------------
(* What is behind the theorem: the types, and what tokens and requests know of kicks and
   cutoffs, hold for ever. *)
THEOREM SessionsInvHolds == SessionsSpec => []SessionsInv
<1>1. SessionsInit => SessionsInv
    BY SessionsTypeInit, KicksHoldInit DEF SessionsInv, KicksHold
<1>2. SessionsInv /\ [SessionsNext]_sessionVars => SessionsInv'
    BY SessionsInvStep
<1> QED BY <1>1, <1>2, PTL DEF SessionsSpec

(* A kick (AuthService.kickUserSession, kickAllSessions, kickTenantSessions) ends every
   session opened before it but those it raced with, and a session opened after the last
   kick is never older than the cutoff. *)
THEOREM KicksEndTheirSessions == SessionsSpec => []KickEndsSessions
<1>1. SessionsInv => KickEndsSessions
    <2> SUFFICES ASSUME SessionsInv PROVE OldSessionsEnd /\ NewSessionsWork
        BY DEF KickEndsSessions
    <2>1. OldSessionsEnd
        BY DEF SessionsInv, TokensAgree, OldSessionsEnd, IsAccepted
    <2>2. NewSessionsWork
        BY DEF SessionsInv, TokensAgree, NewSessionsWork
    <2> QED BY <2>1, <2>2
<1> QED BY <1>1, SessionsInvHolds, PTL

-----------------------------------------------------------------------------
(* RowAsAsked: what the requests asked of a row is there, or it is lost. *)

(* A save keeps it, if what it means to write is what was asked. *)
LEMMA RowIsSaved ==
    ASSUME SessionsTypeOK, RowAsAsked, NEW u \in Users, NEW row \in UserRow,
           NEW meant \in SUBSET Columns, SaveUser(u, row, meant),
           \A v \in Users \ {u} : asked'[v] = asked[v],
           \A c \in {"state", "active", "password"} :
               asked'[u][c] = IF c \in meant THEN row[c] ELSE asked[u][c]
    PROVE  RowAsAsked'
<1>1. /\ userRow'[u] = row /\ \A v \in Users \ {u} : userRow'[v] = userRow[v]
      /\ lost'[u] = (lost[u] \ meant) \union {c \in Columns \ meant : row[c] # userRow[u][c]}
      /\ \A v \in Users \ {u} : lost'[v] = lost[v]
    BY DEF SaveUser, SessionsTypeOK
<1>2. ASSUME NEW v \in Users, NEW c \in {"state", "active", "password"} \ lost'[v]
      PROVE  userRow'[v][c] = asked'[v][c]
    <2>1. CASE v # u
        BY <1>1, <1>2, <2>1 DEF RowAsAsked
    <2>2. CASE v = u
        <3>1. CASE c \in meant
            BY <1>1, <2>2, <3>1
        <3>2. CASE c \notin meant
            <4>1. c \notin lost[u] /\ row[c] = userRow[u][c]
                BY <1>1, <1>2, <2>2, <3>2 DEF Columns
            <4>2. userRow[u][c] = asked[u][c]
                BY <4>1 DEF RowAsAsked
            <4> QED BY <1>1, <2>2, <3>2, <4>1, <4>2
        <3> QED BY <3>1, <3>2
    <2> QED BY <2>1, <2>2
<1> QED BY <1>2 DEF RowAsAsked

LEMMA RowAsAskedStep ==
    ASSUME SessionsTypeOK, RowAsAsked, [SessionsNext]_sessionVars
    PROVE  RowAsAsked'
<1>1. CASE UNCHANGED <<userRow, asked, lost>>
    BY <1>1 DEF RowAsAsked
<1>2. ASSUME NEW u \in Users, CreateUser(u) \/ RemoveUser(u) PROVE RowAsAsked'
    <2>1. PICK x : /\ userRow' = [userRow EXCEPT ![u].state = x]
                   /\ asked' = [asked EXCEPT ![u].state = x]
                   /\ lost' \in {lost, [lost EXCEPT ![u] = @ \ {"state"}]}
        BY <1>2 DEF CreateUser, RemoveUser
    <2>2. ASSUME NEW v \in Users, NEW c \in {"state", "active", "password"} \ lost'[v]
          PROVE  userRow'[v][c] = asked'[v][c]
        <3>1. (c = "state" /\ v = u) \/ c \notin lost[v]
            BY <2>1, <2>2 DEF SessionsTypeOK
        <3>2. c \notin lost[v] => userRow[v][c] = asked[v][c]
            BY <2>2 DEF RowAsAsked
        <3>3. /\ v # u => userRow'[v] = userRow[v] /\ asked'[v] = asked[v]
              /\ userRow'[u] = [userRow[u] EXCEPT !.state = x]
              /\ asked'[u] = [asked[u] EXCEPT !.state = x]
            BY <2>1 DEF SessionsTypeOK
        <3>4. userRow[u] \in UserRow /\ asked[u] \in UserRow
            BY DEF SessionsTypeOK
        <3>5. CASE v # u
            BY <3>1, <3>2, <3>3, <3>5
        <3>6. CASE v = u
            BY <2>2, <3>1, <3>2, <3>3, <3>4, <3>6 DEF UserRow
        <3> QED BY <3>5, <3>6
    <2> QED BY <2>2 DEF RowAsAsked
<1>3. ASSUME NEW j \in SessionJobs, LoginSave(j) PROVE RowAsAsked'
    <2>1. session[j].user \in Users /\ session[j].row \in UserRow
        BY DEF SessionsTypeOK, SessionJob
    <2>2. SaveUser(session[j].user, session[j].row, {}) /\ asked' = asked
        BY <1>3 DEF LoginSave
    <2> QED BY <2>1, <2>2, RowIsSaved
<1>4. ASSUME NEW j \in SessionJobs, NEW p \in Passwords, ProfileSave(j, p) PROVE RowAsAsked'
    <2>1. session[j].user \in Users /\ session[j].row \in UserRow
        BY DEF SessionsTypeOK, SessionJob
    <2>2. PICK u : u = session[j].user
        OBVIOUS
    <2>3. PICK row : row = [session[j].row EXCEPT !.password = p]
        OBVIOUS
    <2>4. PICK set : set = IF p = session[j].row.password THEN {} ELSE {"password"}
        OBVIOUS
    <2>5. /\ SaveUser(u, row, set)
          /\ asked' = IF set = {} THEN asked ELSE [asked EXCEPT ![u].password = p]
        BY <1>4, <2>2, <2>3, <2>4 DEF ProfileSave
    <2>6. row \in UserRow /\ row.password = p /\ set \in SUBSET Columns
        BY <2>1, <2>3, <2>4 DEF UserRow, Columns
    <2>7. asked[u] \in UserRow /\ u \in Users
        BY <2>1, <2>2 DEF SessionsTypeOK
    <2>8. \A v \in Users \ {u} : asked'[v] = asked[v]
        BY <2>5 DEF SessionsTypeOK
    <2>9. \A c \in {"state", "active", "password"} :
              asked'[u][c] = IF c \in set THEN row[c] ELSE asked[u][c]
        <3>1. CASE set = {}
            BY <2>5, <3>1
        <3>2. CASE set = {"password"}
            <4>1. asked'[u] = [asked[u] EXCEPT !.password = p]
                BY <2>5, <2>7, <3>2 DEF SessionsTypeOK
            <4> QED BY <2>6, <2>7, <3>2, <4>1 DEF UserRow
        <3> QED BY <2>4, <3>1, <3>2
    <2> QED BY <2>5, <2>6, <2>7, <2>8, <2>9, RowIsSaved
<1>5. ASSUME NEW j \in SessionJobs, NEW dto \in Dto, Update(j, dto) PROVE RowAsAsked'
    <2>1. session[j].user \in Users /\ session[j].row \in UserRow
        BY DEF SessionsTypeOK, SessionJob
    <2>2. PICK u : u = session[j].user
        OBVIOUS
    <2>3. PICK active : active = IF "active" \in DOMAIN dto THEN dto.active
                                 ELSE session[j].row.active
        OBVIOUS
    <2>4. PICK p : p = IF "password" \in DOMAIN dto THEN dto.password
                       ELSE session[j].row.password
        OBVIOUS
    <2>5. PICK row : row = UpdateRow(session[j].row, active, p)
        OBVIOUS
    <2>6. /\ SaveUser(u, row, DOMAIN dto)
          /\ asked' = [asked EXCEPT ![u] = [c \in DOMAIN @ |->
                          IF c \in DOMAIN dto THEN dto[c] ELSE @[c]]]
        BY <1>5, <2>2, <2>3, <2>4, <2>5 DEF Update
    <2>7. asked[u] \in UserRow /\ u \in Users
        BY <2>1, <2>2 DEF SessionsTypeOK
    <2>8. /\ DOMAIN dto \subseteq {"active", "password"}
          /\ "active" \in DOMAIN dto => dto.active \in BOOLEAN
          /\ "password" \in DOMAIN dto => dto.password \in Passwords
        BY DEF Dto
    <2>9. /\ row \in UserRow /\ row.active = active /\ row.password = p
          /\ DOMAIN dto \in SUBSET Columns
        <3>1. active \in BOOLEAN /\ p \in Passwords
            BY <2>1, <2>3, <2>4, <2>8 DEF UserRow
        <3>2. row = [session[j].row EXCEPT !.active = active, !.password = p]
            BY <2>5 DEF UpdateRow
        <3> QED BY <2>1, <2>8, <3>1, <3>2 DEF UserRow, Columns
    <2>10. \A v \in Users \ {u} : asked'[v] = asked[v]
        BY <2>6 DEF SessionsTypeOK
    <2>11. \A c \in {"state", "active", "password"} :
               asked'[u][c] = IF c \in DOMAIN dto THEN row[c] ELSE asked[u][c]
        <3>1. asked'[u] = [c \in DOMAIN asked[u] |->
                              IF c \in DOMAIN dto THEN dto[c] ELSE asked[u][c]]
            BY <2>6, <2>7 DEF SessionsTypeOK
        <3>2. DOMAIN asked[u] = {"state", "active", "password", "cutoff"}
            BY <2>7 DEF UserRow
        <3>3. \A c \in {"state", "active", "password"} :
                  asked'[u][c] = IF c \in DOMAIN dto THEN dto[c] ELSE asked[u][c]
            BY <3>1, <3>2
        <3>4. \A c \in DOMAIN dto : dto[c] = row[c]
            BY <2>3, <2>4, <2>8, <2>9
        <3> QED BY <3>3, <3>4
    <2> QED BY <2>6, <2>7, <2>9, <2>10, <2>11, RowIsSaved
<1>6. ASSUME NEW j \in SessionJobs, KickUser(j) PROVE RowAsAsked'
    <2>1. /\ session[j].user \in Users /\ session[j].row \in UserRow
          /\ session[j].at \in Ticks
        BY DEF SessionsTypeOK, SessionJob
    <2>2. PICK row : row = [session[j].row EXCEPT !.cutoff = session[j].at]
        OBVIOUS
    <2>3. PICK meant : meant = Overtaken(session[j].user, session[j].at)
        OBVIOUS
    <2>4. row \in UserRow /\ meant \in SUBSET {"cutoff"}
        BY <2>1, <2>2, <2>3 DEF UserRow, Overtaken
    <2>5. SaveUser(session[j].user, row, meant) /\ asked' = asked
        BY <1>6, <2>2, <2>3 DEF KickUser
    <2>6. meant \in SUBSET Columns
        BY <2>4 DEF Columns
    <2> QED BY <2>1, <2>4, <2>5, <2>6, RowIsSaved
<1>7. ASSUME NEW j \in SessionJobs, NEW group \in Tenants,
             NEW except \in {{}} \union {{u} : u \in Users}, KickMany(j, group, except)
      PROVE  RowAsAsked'
    <2>1. PICK now : now = session[j].at
        OBVIOUS
    <2>2. PICK who : who = {u \in group \ except : userRow[u].state = "here"}
        OBVIOUS
    <2>3. /\ userRow' = [u \in Users |->
                  IF u \in who THEN [userRow[u] EXCEPT !.cutoff = now] ELSE userRow[u]]
          /\ lost' = [u \in Users |->
                  IF u \notin who THEN lost[u]
                  ELSE IF now < userRow[u].cutoff THEN lost[u] \union {"cutoff"}
                  ELSE lost[u] \ {"cutoff"}]
          /\ asked' = asked
        BY <1>7, <2>1, <2>2 DEF KickMany
    <2>4. ASSUME NEW v \in Users, NEW c \in {"state", "active", "password"} \ lost'[v]
          PROVE  userRow'[v][c] = asked'[v][c]
        <3>1. c \notin lost[v]
            BY <2>3, <2>4
        <3>2. userRow[v][c] = asked[v][c]
            BY <3>1 DEF RowAsAsked
        <3>3. userRow[v] \in UserRow
            BY DEF SessionsTypeOK
        <3>4. [userRow[v] EXCEPT !.cutoff = now][c] = userRow[v][c]
            BY <3>3 DEF UserRow
        <3> QED BY <2>3, <3>2, <3>4
    <2> QED BY <2>4 DEF RowAsAsked
<1>8. CASE UNCHANGED sessionVars
    BY <1>1, <1>8 DEF sessionVars
<1>9. CASE SessionTick \/ \E tk \in tokens : TokenEnds(tk)
    BY <1>1, <1>9 DEF SessionTick, TokenEnds, history
<1>10. ASSUME NEW j \in SessionJobs,
              \/ SessionEnds(j) \/ Mint(j) \/ RefreshFind(j) \/ KickManyStarts(j)
              \/ \E u \in Users : UpdateFind(j, u) \/ ReactivateFind(j, u) \/ KickFind(j, u)
              \/ \E u \in Users, p \in Passwords : Login(j, u, p)
              \/ \E tk \in tokens : Refresh(j, tk) \/ Profile(j, tk)
              \/ \E p \in Passwords : ProfileFind(j, p)
       PROVE  RowAsAsked'
    <2>1. CASE SessionEnds(j) \/ Mint(j) \/ RefreshFind(j) \/ KickManyStarts(j)
        BY <1>1, <2>1 DEF SessionEnds, Mint, RefreshFind, KickManyStarts, history
    <2>2. CASE \/ \E u \in Users : UpdateFind(j, u) \/ ReactivateFind(j, u) \/ KickFind(j, u)
               \/ \E u \in Users, p \in Passwords : Login(j, u, p)
        BY <1>1, <2>2 DEF UpdateFind, ReactivateFind, KickFind, Login, Reads, history
    <2>3. CASE \/ \E tk \in tokens : Refresh(j, tk) \/ Profile(j, tk)
               \/ \E p \in Passwords : ProfileFind(j, p)
        BY <1>1, <2>3 DEF Refresh, Profile, Enters, ProfileFind, history
    <2> QED BY <1>10, <2>1, <2>2, <2>3
<1>11. ASSUME NEW j \in SessionJobs, Reactivate(j) PROVE RowAsAsked'
    <2>1. session[j].user \in Users /\ session[j].row \in UserRow
        BY DEF SessionsTypeOK, SessionJob
    <2>2. PICK u : u = session[j].user
        OBVIOUS
    <2>3. PICK row : row = [session[j].row EXCEPT !.active = TRUE]
        OBVIOUS
    <2>4. /\ SaveUser(u, row, {"active"})
          /\ asked' = [asked EXCEPT ![u].active = TRUE]
        BY <1>11, <2>2, <2>3 DEF Reactivate
    <2>5. row \in UserRow /\ row.active = TRUE /\ {"active"} \in SUBSET Columns
        BY <2>1, <2>3 DEF UserRow, Columns
    <2>6. asked[u] \in UserRow /\ u \in Users
        BY <2>1, <2>2 DEF SessionsTypeOK
    <2>7. \A v \in Users \ {u} : asked'[v] = asked[v]
        BY <2>4 DEF SessionsTypeOK
    <2>8. asked'[u] = [asked[u] EXCEPT !.active = TRUE]
        BY <2>4, <2>6 DEF SessionsTypeOK
    <2>9. \A c \in {"state", "active", "password"} :
              asked'[u][c] = IF c \in {"active"} THEN row[c] ELSE asked[u][c]
        BY <2>5, <2>6, <2>8 DEF UserRow
    <2> QED BY <2>4, <2>5, <2>6, <2>7, <2>9, RowIsSaved
<1>12. CASE SessionsNext
    BY <1>2, <1>3, <1>4, <1>5, <1>6, <1>7, <1>9, <1>10, <1>11, <1>12 DEF SessionsNext
<1> QED BY <1>8, <1>12

(* A deactivation, a new password and a removal stay until another is asked for, by an
   administrator, the user or a charge (extendSubscriberAccess): no other save of
   AuthService or UsersService undoes them, but one of a row that was read before. *)
THEOREM RowsAsAsked == SessionsSpec => []RowAsAsked
<1>1. SessionsInit => RowAsAsked
    BY DEF SessionsInit, RowAsAsked
<1>2. SessionsTypeOK /\ RowAsAsked /\ [SessionsNext]_sessionVars => RowAsAsked'
    BY RowAsAskedStep
<1> QED BY <1>1, <1>2, SessionsTypeCorrect, PTL DEF SessionsSpec

-----------------------------------------------------------------------------
(* Permissions.tla: editors and queries. *)
EditorState == [step : {"idle", "delete", "save", "invalidate"}, owner : Owners,
                rows : SUBSET Grants, twice : BOOLEAN, met : BOOLEAN]
QueryState == [step : {"idle", "query", "store", "overrides", "guard", "granted"},
               member : Members, need : Catalog \union {NoKey},
               keys : SUBSET Catalog, denied : SUBSET Catalog]
CacheEntry == [full : BOOLEAN, keys : SUBSET Catalog]

(* The parts of the types that the steps use. *)
LEMMA PermissionTypes ==
    ASSUME PermissionsTypeOK
    PROVE  /\ granted \in [Owners -> SUBSET Grants]
           /\ cache \in [Roles -> CacheEntry]
           /\ editor \in [Editors -> EditorState]
           /\ query \in [Queries -> QueryState]
BY DEF PermissionsTypeOK, EditorState, QueryState, CacheEntry

(* What a set of rows says of the keys is a set of keys of the catalog. *)
LEMMA KeysAreKeys == \A rows : \A effect : Keys(rows, effect) \subseteq Catalog
BY DEF Keys

(* The requests that are idle, and the role of a member. *)
LEMMA IdleIs ==
    /\ IdleEditor \in EditorState /\ IdleEditor.step = "idle"
    /\ IdleQuery \in QueryState /\ IdleQuery.step = "idle" /\ IdleQuery.denied = {}
    /\ \A m \in Members : MemberRole[m] \in Roles /\ m \in Owners
<1>1. (CHOOSE r \in Roles : TRUE) \in Roles /\ (CHOOSE m \in Members : TRUE) \in Members
    BY PermissionsAssumption
<1> QED BY <1>1, PermissionsAssumption DEF IdleEditor, IdleQuery, EditorState, QueryState, Owners

LEMMA PermissionsInitInv == PermissionsInit => PermissionsInv
<1> SUFFICES ASSUME PermissionsInit PROVE PermissionsInv
    OBVIOUS
<1>1. PermissionsTypeOK
    <2>1. editor \in [Editors -> EditorState] /\ query \in [Queries -> QueryState]
        BY IdleIs DEF PermissionsInit
    <2>2. allowed \in [Members -> [list : BOOLEAN, keys : SUBSET Modules]]
        <3>1. NullModules \in [list : BOOLEAN, keys : SUBSET Modules]
            BY DEF NullModules
        <3>2. [list : {TRUE}, keys : SUBSET Modules]
                 \subseteq [list : BOOLEAN, keys : SUBSET Modules]
            OBVIOUS
        <3>3. {NullModules} \union [list : {TRUE}, keys : SUBSET Modules]
                 \subseteq [list : BOOLEAN, keys : SUBSET Modules]
            BY <3>1, <3>2
        <3> QED BY <3>3 DEF PermissionsInit
    <2>3. cache \in [Roles -> CacheEntry]
        BY DEF PermissionsInit, Miss, CacheEntry
    <2> QED BY <2>1, <2>2, <2>3, PermissionsAssumption
            DEF PermissionsInit, PermissionsTypeOK, EditorState, QueryState, CacheEntry
<1>2. AloneOrMet
    BY IdleIs DEF PermissionsInit, AloneOrMet
<1>3. RowsAsRequested
    BY DEF PermissionsInit, RowsAsRequested
<1>4. StaleCacheHasCause
    BY DEF PermissionsInit, StaleCacheHasCause, Miss
<1>5. JudgedByOverrides
    BY IdleIs DEF PermissionsInit, JudgedByOverrides
<1> QED BY <1>1, <1>2, <1>3, <1>4, <1>5 DEF PermissionsInv

----------------------------------------------------------------------------
(* Edits *)

(* What an owner's rows become, and what the requests of a member hold as denied then: no   *)
(* more than before, and still denied.                                                     *)
LEMMA SetGrantedKeeps ==
    ASSUME PermissionsTypeOK, JudgedByOverrides, NEW o \in Owners, NEW rows \in SUBSET Grants,
           SetGranted(o, rows)
    PROVE  /\ granted' \in [Owners -> SUBSET Grants] /\ granted'[o] = rows
           /\ \A p \in Owners \ {o} : granted'[p] = granted[p]
           /\ query' \in [Queries -> QueryState]
           /\ JudgedByOverrides'
<1>1. /\ granted' \in [Owners -> SUBSET Grants] /\ granted'[o] = rows
      /\ \A p \in Owners \ {o} : granted'[p] = granted[p]
    BY PermissionTypes DEF SetGranted
<1>2. ASSUME NEW q \in Queries
      PROVE  /\ query'[q] \in QueryState
             /\ query'[q].step = query[q].step /\ query'[q].member = query[q].member
             /\ query'[q].keys = query[q].keys /\ query'[q].need = query[q].need
             /\ query'[q].denied \subseteq query[q].denied
             /\ query'[q].denied \subseteq Keys(granted'[query[q].member], "deny")
    <2>1. query[q] \in QueryState /\ query[q].member \in Owners
        BY PermissionTypes, IdleIs DEF QueryState
    <2>2. query[q].denied \subseteq Keys(granted[query[q].member], "deny")
        BY DEF JudgedByOverrides
    <2>3. CASE query[q].member = o
        <3>1. query'[q] = [query[q] EXCEPT !.denied = @ \intersect Keys(rows, "deny")]
            BY <2>3 DEF SetGranted, DeniedUntilNow
        <3> QED BY <1>1, <2>1, <2>3, <3>1 DEF QueryState
    <2>4. CASE query[q].member # o
        <3>1. query'[q] = query[q]
            BY <2>4 DEF SetGranted, DeniedUntilNow
        <3> QED BY <1>1, <2>1, <2>2, <2>4, <3>1 DEF Keys
    <2> QED BY <2>3, <2>4
<1>3. query' \in [Queries -> QueryState]
    BY <1>2 DEF SetGranted, DeniedUntilNow
<1>4. JudgedByOverrides'
    BY <1>2 DEF JudgedByOverrides
<1> QED BY <1>1, <1>3, <1>4

LEMMA EditStartsKeeps ==
    ASSUME PermissionsInv, NEW e \in Editors, NEW o \in Owners, NEW rows \in SUBSET Grants,
           NEW twice \in BOOLEAN, EditStarts(e, o, rows, twice)
    PROVE  PermissionsInv'
<1> USE DEF PermissionsInv
<1>1. /\ editor' \in [Editors -> EditorState] /\ editor'[e].step = "delete"
      /\ editor[e].step = "idle" /\ \A f \in Editors \ {e} : editor'[f] = editor[f]
    BY PermissionTypes DEF EditStarts, EditorState
<1>2. PermissionsTypeOK'
    BY <1>1, PermissionsAssumption DEF EditStarts, PermissionsTypeOK, EditorState
<1>3. AloneOrMet'
    BY <1>1 DEF EditStarts, AloneOrMet
<1>4. \A p, steps : steps \subseteq {"save", "invalidate"} =>
          (InEdit(p, steps)' <=> InEdit(p, steps))
    BY <1>1 DEF InEdit
<1>5. RowsAsRequested'
    BY <1>4 DEF EditStarts, RowsAsRequested
<1>6. StaleCacheHasCause'
    BY <1>4 DEF EditStarts, StaleCacheHasCause, Keys
<1>7. JudgedByOverrides'
    BY DEF EditStarts, JudgedByOverrides, Keys
<1> QED BY <1>2, <1>3, <1>5, <1>6, <1>7

(* The delete of one edit: the others of the same owner that are between their statements *)
(* have met it.                                                                           *)
LEMMA EditDeleteKeeps ==
    ASSUME PermissionsInv, NEW e \in Editors, EditDelete(e)
    PROVE  PermissionsInv'
<1> USE DEF PermissionsInv
<1> DEFINE o == editor[e].owner
           others == {f \in Editors \ {e} : editor[f].step = "save" /\ editor[f].owner = o}
<1>0. o \in Owners /\ editor[e] \in EditorState /\ editor[e].step = "delete"
    BY PermissionTypes DEF EditorState, EditDelete
<1>1. SetGranted(o, {})
    BY DEF EditDelete, Remaining
<1>2. /\ granted' \in [Owners -> SUBSET Grants] /\ granted'[o] = {}
      /\ \A p \in Owners \ {o} : granted'[p] = granted[p]
      /\ query' \in [Queries -> QueryState] /\ JudgedByOverrides'
    BY <1>0, <1>1, SetGrantedKeeps
<1>3. /\ editor'[e] = [editor[e] EXCEPT !.step = "save", !.met = others # {}]
      /\ \A f \in others : editor'[f] = [editor[f] EXCEPT !.met = TRUE]
      /\ \A f \in Editors \ {e} : f \notin others => editor'[f] = editor[f]
    BY DEF EditDelete
<1>4. \A x \in EditorState : \A b \in BOOLEAN :
         /\ [x EXCEPT !.met = b] \in EditorState /\ [x EXCEPT !.met = b].met = b
         /\ [x EXCEPT !.met = b].step = x.step /\ [x EXCEPT !.met = b].owner = x.owner
    BY DEF EditorState
<1>5. /\ editor'[e] \in EditorState /\ editor'[e].step = "save" /\ editor'[e].owner = o
      /\ editor'[e].met = (others # {})
    <2> HIDE DEF others
    <2> QED BY <1>0, <1>3 DEF EditorState
<1>6. \A f \in Editors : /\ editor'[f] \in EditorState
                         /\ editor'[f].owner = editor[f].owner
                         /\ f # e => editor'[f].step = editor[f].step
                         /\ f \in others => editor'[f].met
    <2> TAKE f \in Editors
    <2>1. CASE f = e
        BY <1>5, <2>1
    <2>2. CASE f \in others
        <3>1. editor[f] \in EditorState
            BY PermissionTypes
        <3> QED BY <1>3, <1>4, <2>2, <3>1
    <2>3. CASE f # e /\ f \notin others
        BY <1>3, <2>3, PermissionTypes
    <2> QED BY <2>1, <2>2, <2>3
<1>7. editor' \in [Editors -> EditorState]
    BY <1>6 DEF EditDelete
<1>8. PermissionsTypeOK'
    BY <1>2, <1>7 DEF EditDelete, PermissionsTypeOK, EditorState, QueryState
<1>9. AloneOrMet'
    <2> SUFFICES ASSUME NEW f \in Editors, editor'[f].step = "save", ~editor'[f].met
                 PROVE  /\ granted'[editor'[f].owner] = {}
                        /\ \A g \in Editors : editor'[g].step = "save"
                                              /\ editor'[g].owner = editor'[f].owner => g = f
        BY DEF AloneOrMet
    <2>1. CASE f = e
        BY <1>2, <1>6, <1>5, <2>1
    <2>2. CASE f # e
        <3>1. /\ editor[f].step = "save" /\ f \notin others /\ editor'[f] = editor[f]
              /\ editor[f].owner # o
            BY <1>3, <1>6, <2>2
        <3>2. editor[f].owner \in Owners
            BY PermissionTypes DEF EditorState
        <3>3. /\ granted[editor[f].owner] = {}
              /\ \A g \in Editors : editor[g].step = "save" /\ editor[g].owner = editor[f].owner
                                    => g = f
            BY <2>2, <3>1 DEF AloneOrMet
        <3>4. granted'[editor'[f].owner] = {}
            BY <1>2, <3>1, <3>2, <3>3
        <3>5. ASSUME NEW g \in Editors, editor'[g].step = "save",
                     editor'[g].owner = editor'[f].owner
              PROVE  g = f
            <4>1. g # e
                BY <1>5, <3>1, <3>5
            <4> QED BY <1>6, <3>1, <3>3, <3>5, <4>1
        <3> QED BY <3>4, <3>5
    <2> QED BY <2>1, <2>2
<1>10. /\ \A p \in Owners : InEdit(p, {"save"}) => InEdit(p, {"save"})'
       /\ \A p \in Owners :
             InEdit(p, {"save", "invalidate"}) => InEdit(p, {"save", "invalidate"})'
       /\ InEdit(o, {"save"})' /\ InEdit(o, {"save", "invalidate"})'
    <2>1. \A f \in Editors : editor[f].step \in {"save", "invalidate"} =>
              editor'[f].step = editor[f].step /\ editor'[f].owner = editor[f].owner
        BY <1>0, <1>6
    <2> QED BY <2>1, <1>5 DEF InEdit
<1>11. RowsAsRequested'
    <2>1. UNCHANGED <<requested, spoilt>>
        BY DEF EditDelete
    <2> SUFFICES ASSUME NEW p \in Owners, ~spoilt'[p], ~InEdit(p, {"save"})'
                 PROVE  granted'[p] = requested'[p]
        BY DEF RowsAsRequested
    <2>2. p # o
        BY <1>5 DEF InEdit
    <2> QED BY <1>2, <1>10, <2>1, <2>2 DEF RowsAsRequested
<1>12. StaleCacheHasCause'
    <2> SUFFICES ASSUME NEW r \in Roles, cache'[r].full,
                        cache'[r].keys # Keys(granted'[r], "allow")
                 PROVE  InEdit(r, {"save", "invalidate"})' \/ spoilt'[r] \/ late'[r]
        BY DEF StaleCacheHasCause, Keys
    <2>1. r \in Owners
        BY DEF Owners
    <2>2. CASE r = o
        BY <1>5, <2>2 DEF InEdit
    <2>3. CASE r # o
        BY <2>1, <2>3, <1>2, <1>10 DEF EditDelete, StaleCacheHasCause
    <2> QED BY <2>2, <2>3
<1> QED BY <1>2, <1>8, <1>9, <1>11, <1>12

(* An edit that ends, or goes on to invalidate: the others are as they were. *)
LEMMA EditorMoves ==
    ASSUME PermissionsTypeOK, NEW e \in Editors, NEW s \in EditorState,
           s.step \in {"idle", "invalidate"}, s.step = "invalidate" => s.owner = editor[e].owner,
           editor' = [editor EXCEPT ![e] = s]
    PROVE  /\ editor' \in [Editors -> EditorState] /\ editor'[e] = s
           /\ \A f \in Editors \ {e} : editor'[f] = editor[f]
           /\ \A p, steps : p # editor[e].owner => (InEdit(p, steps) => InEdit(p, steps)')
           /\ \A p \in Owners : InEdit(p, {"save"})' => InEdit(p, {"save"})
<1>1. /\ editor' \in [Editors -> EditorState] /\ editor'[e] = s
      /\ \A f \in Editors \ {e} : editor'[f] = editor[f]
    BY PermissionTypes
<1> QED BY <1>1 DEF InEdit

LEMMA EditSaveKeeps ==
    ASSUME PermissionsInv, NEW e \in Editors, EditSave(e)
    PROVE  PermissionsInv'
<1> USE DEF PermissionsInv
<1> DEFINE o == editor[e].owner
           s == IF o \in Roles THEN [editor[e] EXCEPT !.step = "invalidate"] ELSE IdleEditor
<1>0. /\ o \in Owners /\ editor[e] \in EditorState /\ editor[e].step = "save"
      /\ editor[e].rows \in SUBSET Grants /\ granted[o] \in SUBSET Grants
    BY PermissionTypes DEF EditorState, EditSave
<1>1. SetGranted(o, granted[o] \union editor[e].rows)
    BY DEF EditSave
<1>2. /\ granted' \in [Owners -> SUBSET Grants]
      /\ granted'[o] = granted[o] \union editor[e].rows
      /\ \A p \in Owners \ {o} : granted'[p] = granted[p]
      /\ query' \in [Queries -> QueryState] /\ JudgedByOverrides'
    BY <1>0, <1>1, SetGrantedKeeps
<1>3. /\ s \in EditorState /\ s.step \in {"idle", "invalidate"}
      /\ s.step = "invalidate" => s.owner = o
      /\ o \in Roles => s.step = "invalidate"
    BY <1>0, IdleIs DEF EditorState
<1>4. editor' = [editor EXCEPT ![e] = s]
    BY <1>0, PermissionTypes DEF EditSave
<1> HIDE DEF s
<1>5. /\ editor' \in [Editors -> EditorState] /\ editor'[e] = s
      /\ \A f \in Editors \ {e} : editor'[f] = editor[f]
      /\ \A p, steps : p # o => (InEdit(p, steps) => InEdit(p, steps)')
      /\ \A p \in Owners : InEdit(p, {"save"})' => InEdit(p, {"save"})
    BY <1>3, <1>4, EditorMoves
<1>6. /\ requested' = [requested EXCEPT ![o] = editor[e].rows]
      /\ spoilt' = [spoilt EXCEPT ![o] = editor[e].met]
      /\ UNCHANGED <<cache, enabled, allowed, late, edits>>
    BY DEF EditSave
<1>7. editor[e].met \in BOOLEAN
    BY <1>0 DEF EditorState
<1>8. PermissionsTypeOK'
    BY <1>0, <1>2, <1>5, <1>6, <1>7 DEF PermissionsTypeOK, EditorState, QueryState
<1>9. AloneOrMet'
    <2> SUFFICES ASSUME NEW f \in Editors, editor'[f].step = "save", ~editor'[f].met
                 PROVE  /\ granted'[editor'[f].owner] = {}
                        /\ \A g \in Editors : editor'[g].step = "save"
                                              /\ editor'[g].owner = editor'[f].owner => g = f
        BY DEF AloneOrMet
    <2>1. f # e /\ editor'[f] = editor[f]
        BY <1>3, <1>5
    <2>2. editor[f].owner # o
        BY <1>0, <2>1 DEF AloneOrMet
    <2>3. editor[f].owner \in Owners
        BY PermissionTypes DEF EditorState
    <2>4. \A g \in Editors : editor'[g].step = "save" => editor'[g] = editor[g]
        BY <1>3, <1>5
    <2> QED BY <1>2, <2>1, <2>2, <2>3, <2>4 DEF AloneOrMet
<1>10. RowsAsRequested'
    <2> SUFFICES ASSUME NEW p \in Owners, ~spoilt'[p], ~InEdit(p, {"save"})'
                 PROVE  granted'[p] = requested'[p]
        BY DEF RowsAsRequested
    <2>1. CASE p = o
        <3>1. ~editor[e].met
            BY <1>6, <2>1 DEF PermissionsTypeOK
        <3>2. granted[o] = {}
            BY <1>0, <3>1 DEF AloneOrMet
        <3>3. requested'[o] = editor[e].rows
            BY <1>0, <1>6 DEF PermissionsTypeOK
        <3> QED BY <1>2, <2>1, <3>2, <3>3
    <2>2. CASE p # o
        BY <1>2, <1>5, <1>6, <2>2 DEF RowsAsRequested, PermissionsTypeOK
    <2> QED BY <2>1, <2>2
<1>11. StaleCacheHasCause'
    <2> SUFFICES ASSUME NEW r \in Roles, cache'[r].full,
                        cache'[r].keys # Keys(granted'[r], "allow")
                 PROVE  InEdit(r, {"save", "invalidate"})' \/ spoilt'[r] \/ late'[r]
        BY DEF StaleCacheHasCause, Keys
    <2>1. r \in Owners
        BY DEF Owners
    <2>2. CASE r = o
        BY <1>3, <1>5, <2>2 DEF InEdit
    <2>3. CASE r # o
        <3>1. spoilt'[r] = spoilt[r] /\ granted'[r] = granted[r]
            BY <1>2, <1>6, <2>1, <2>3 DEF PermissionsTypeOK
        <3> QED BY <1>5, <1>6, <2>3, <3>1 DEF StaleCacheHasCause
    <2> QED BY <2>2, <2>3
<1> QED BY <1>2, <1>8, <1>9, <1>10, <1>11

LEMMA EditFailsKeeps ==
    ASSUME PermissionsInv, NEW e \in Editors, EditFails(e)
    PROVE  PermissionsInv'
<1> USE DEF PermissionsInv
<1> DEFINE o == editor[e].owner
<1>0. o \in Owners
    BY PermissionTypes DEF EditorState
<1>1. /\ editor' \in [Editors -> EditorState] /\ editor'[e] = IdleEditor
      /\ \A f \in Editors \ {e} : editor'[f] = editor[f]
      /\ \A p, steps : p # o => (InEdit(p, steps) => InEdit(p, steps)')
      /\ \A p \in Owners : InEdit(p, {"save"})' => InEdit(p, {"save"})
    BY EditorMoves, IdleIs DEF EditFails
<1>2. /\ spoilt' = [spoilt EXCEPT ![o] = TRUE]
      /\ UNCHANGED <<granted, cache, enabled, allowed, query, requested, late, edits>>
    BY DEF EditFails
<1>3. spoilt'[o] /\ \A p \in Owners \ {o} : spoilt'[p] = spoilt[p]
    BY <1>0, <1>2 DEF PermissionsTypeOK
<1>4. PermissionsTypeOK'
    BY <1>1, <1>2 DEF PermissionsTypeOK, EditorState
<1>5. AloneOrMet'
    BY <1>1, <1>2, IdleIs DEF AloneOrMet
<1>6. RowsAsRequested'
    BY <1>1, <1>2, <1>3 DEF RowsAsRequested, InEdit
<1>7. StaleCacheHasCause'
    BY <1>1, <1>2, <1>3 DEF StaleCacheHasCause, Keys, Owners
<1>8. JudgedByOverrides'
    BY <1>2 DEF JudgedByOverrides, Keys
<1> QED BY <1>4, <1>5, <1>6, <1>7, <1>8

LEMMA EditInvalidateKeeps ==
    ASSUME PermissionsInv, NEW e \in Editors, EditInvalidate(e)
    PROVE  PermissionsInv'
<1> USE DEF PermissionsInv
<1> DEFINE o == editor[e].owner
<1>0. o \in Owners /\ editor[e].step = "invalidate"
    BY PermissionTypes DEF EditorState, EditInvalidate
<1>1. /\ editor' \in [Editors -> EditorState] /\ editor'[e] = IdleEditor
      /\ \A f \in Editors \ {e} : editor'[f] = editor[f]
      /\ \A p, steps : p # o => (InEdit(p, steps) => InEdit(p, steps)')
    BY EditorMoves, IdleIs DEF EditInvalidate
<1>2. /\ cache' = [cache EXCEPT ![o] = Miss] /\ late' = [late EXCEPT ![o] = FALSE]
      /\ UNCHANGED <<granted, enabled, allowed, query, requested, spoilt, edits>>
    BY DEF EditInvalidate, Invalidated
<1>3. Miss \in CacheEntry /\ ~Miss.full
    BY DEF Miss, CacheEntry
<1>4. PermissionsTypeOK'
    BY <1>1, <1>2, <1>3 DEF PermissionsTypeOK, EditorState, CacheEntry
<1>5. AloneOrMet'
    <2>1. \A f \in Editors : editor'[f].step = "save" => f # e /\ editor'[f] = editor[f]
        BY <1>1, IdleIs
    <2> QED BY <1>2, <2>1 DEF AloneOrMet
<1>6. \A p : InEdit(p, {"save"}) => InEdit(p, {"save"})'
    BY <1>0, <1>1 DEF InEdit
<1>7. RowsAsRequested'
    BY <1>2, <1>6 DEF RowsAsRequested
<1>8. \A r \in Roles : /\ r # o => cache'[r] = cache[r] /\ late'[r] = late[r]
                       /\ r = o => ~cache'[r].full
    BY <1>2, <1>3, PermissionTypes DEF PermissionsTypeOK
<1>9. StaleCacheHasCause'
    BY <1>1, <1>2, <1>8 DEF StaleCacheHasCause, Keys
<1>10. JudgedByOverrides'
    BY <1>2 DEF JudgedByOverrides, Keys
<1> QED BY <1>4, <1>5, <1>7, <1>9, <1>10

LEMMA ToggleKeeps ==
    ASSUME PermissionsInv, NEW m \in Modules, ToggleModule(m)
    PROVE  PermissionsInv'
<1> USE DEF PermissionsInv
<1>1. PermissionsTypeOK'
    BY PermissionsAssumption DEF ToggleModule, MayToggle, PermissionsTypeOK
<1>2. AloneOrMet' /\ RowsAsRequested' /\ StaleCacheHasCause' /\ JudgedByOverrides'
    BY DEF ToggleModule, AloneOrMet, RowsAsRequested, StaleCacheHasCause, JudgedByOverrides,
           InEdit, Keys
<1> QED BY <1>1, <1>2

LEMMA CrashKeeps == ASSUME PermissionsInv, PermissionsCrash PROVE PermissionsInv'
<1> USE DEF PermissionsInv
<1>1. /\ editor' \in [Editors -> EditorState] /\ query' \in [Queries -> QueryState]
      /\ \A e \in Editors : editor'[e] = IdleEditor
      /\ \A q \in Queries : query'[q] = IdleQuery
    BY IdleIs DEF PermissionsCrash
<1>2. Miss \in CacheEntry /\ ~Miss.full
    BY DEF Miss, CacheEntry
<1>3. PermissionsTypeOK'
    BY <1>1, <1>2, PermissionsAssumption
       DEF PermissionsCrash, PermissionsTypeOK, EditorState, QueryState, CacheEntry
<1>4. AloneOrMet'
    BY <1>1, IdleIs DEF AloneOrMet
<1>5. RowsAsRequested'
    BY DEF PermissionsCrash, RowsAsRequested, InEdit
<1>6. StaleCacheHasCause'
    BY <1>2 DEF PermissionsCrash, StaleCacheHasCause
<1>7. JudgedByOverrides'
    BY <1>1, IdleIs DEF JudgedByOverrides
<1> QED BY <1>3, <1>4, <1>5, <1>6, <1>7

----------------------------------------------------------------------------
(* Requests *)

(* A request's step that changes nothing but the request, and the cache. *)
LEMMA QueryMoves ==
    ASSUME PermissionsInv, NEW q \in Queries, NEW s \in QueryState,
           query' = [query EXCEPT ![q] = s],
           UNCHANGED <<granted, enabled, allowed, editor, requested, spoilt, edits>>,
           s.denied \subseteq Keys(granted[s.member], "deny"),
           s.step \in {"guard", "granted"} /\ MemberRole[s.member] # SuperAdmin =>
               s.keys \intersect s.denied = {},
           s.step = "granted" /\ MemberRole[s.member] # SuperAdmin =>
               s.need \in s.keys \union {NoKey}
    PROVE  /\ query' \in [Queries -> QueryState]
           /\ AloneOrMet' /\ RowsAsRequested' /\ JudgedByOverrides'
           /\ UNCHANGED <<cache, late>> => PermissionsInv'
<1> USE DEF PermissionsInv
<1>1. /\ query' \in [Queries -> QueryState] /\ query'[q] = s
      /\ \A p \in Queries \ {q} : query'[p] = query[p]
    BY PermissionTypes
<1>2. AloneOrMet' /\ RowsAsRequested'
    BY DEF AloneOrMet, RowsAsRequested, InEdit
<1>3. JudgedByOverrides'
    BY <1>1 DEF JudgedByOverrides, Keys
<1>4. ASSUME UNCHANGED <<cache, late>> PROVE PermissionsTypeOK' /\ StaleCacheHasCause'
    BY <1>1, <1>4 DEF PermissionsTypeOK, StaleCacheHasCause, InEdit, Keys, QueryState
<1> QED BY <1>1, <1>2, <1>3, <1>4

LEMMA QueryStartsKeeps ==
    ASSUME PermissionsInv, NEW q \in Queries, NEW m \in Members,
           NEW need \in Catalog \union {NoKey}, QueryStarts(q, m, need)
    PROVE  PermissionsInv'
<1> DEFINE r == MemberRole[m]
           s == [step |-> IF r = SuperAdmin THEN "guard"
                          ELSE IF cache[r].full THEN "overrides" ELSE "query",
                 member |-> m, need |-> need,
                 keys |-> IF r = SuperAdmin THEN Catalog ELSE cache[r].keys,
                 denied |-> Keys(granted[m], "deny")]
<1>1. cache[r].keys \subseteq Catalog
    BY PermissionTypes, IdleIs DEF PermissionsInv, CacheEntry
<1>2. s \in QueryState
    BY <1>1, KeysAreKeys DEF QueryState
<1>3. query' = [query EXCEPT ![q] = s]
    BY DEF QueryStarts
<1>4. /\ UNCHANGED <<granted, enabled, allowed, editor, requested, spoilt, edits>>
      /\ UNCHANGED <<cache, late>>
    BY DEF QueryStarts
<1> QED BY <1>2, <1>3, <1>4, QueryMoves

(* A request that goes on with what it has as keys. *)
LEMMA GoesIs ==
    ASSUME PermissionsTypeOK, NEW q \in Queries,
           NEW to \in {"store", "overrides", "guard", "granted"}, NEW keys \in SUBSET Catalog,
           Goes(q, to, keys)
    PROVE  \E s \in QueryState :
              /\ query' = [query EXCEPT ![q] = s]
              /\ s.step = to /\ s.keys = keys /\ s.member = query[q].member
              /\ s.need = query[q].need /\ s.denied = query[q].denied
<1>1. query[q] \in QueryState
    BY PermissionTypes
<1>2. [query[q] EXCEPT !.step = to, !.keys = keys] \in QueryState
    BY <1>1 DEF QueryState
<1>3. query' = [query EXCEPT ![q] = [query[q] EXCEPT !.step = to, !.keys = keys]]
    BY PermissionTypes DEF Goes
<1> QED BY <1>1, <1>2, <1>3 DEF QueryState

LEMMA QueryDefaultsKeeps ==
    ASSUME PermissionsInv, NEW q \in Queries, QueryDefaults(q)
    PROVE  PermissionsInv'
<1> DEFINE keys == Keys(granted[MemberRole[query[q].member]], "allow")
<1>1. Goes(q, "store", keys) /\ UNCHANGED <<cache, late>>
    BY DEF QueryDefaults
<1>2. PICK s \in QueryState : /\ query' = [query EXCEPT ![q] = s]
                              /\ s.step = "store" /\ s.member = query[q].member
                              /\ s.denied = query[q].denied
    BY <1>1, KeysAreKeys, GoesIs DEF PermissionsInv
<1>3. s.denied \subseteq Keys(granted[s.member], "deny")
    BY <1>2 DEF PermissionsInv, JudgedByOverrides
<1> QED BY <1>1, <1>2, <1>3, QueryMoves DEF Goes

(* What a reader stores is either what the table says now, or late. *)
LEMMA QueryStoreKeeps ==
    ASSUME PermissionsInv, NEW q \in Queries, QueryStore(q)
    PROVE  PermissionsInv'
<1> DEFINE r == MemberRole[query[q].member]
           keys == query[q].keys
<1>0. query[q] \in QueryState /\ r \in Roles /\ keys \in SUBSET Catalog
    BY PermissionTypes, IdleIs DEF PermissionsInv, QueryState
<1>1. /\ Goes(q, "overrides", keys)
      /\ cache' = [cache EXCEPT ![r] = Cached(keys)]
      /\ late' = [late EXCEPT ![r] = (keys # Keys(granted[r], "allow"))]
    BY DEF QueryStore
<1>2. PICK s \in QueryState : /\ query' = [query EXCEPT ![q] = s]
                              /\ s.step = "overrides" /\ s.member = query[q].member
                              /\ s.denied = query[q].denied
    BY <1>0, <1>1, GoesIs DEF PermissionsInv
<1>3. s.denied \subseteq Keys(granted[s.member], "deny")
    BY <1>2 DEF PermissionsInv, JudgedByOverrides
<1>4. /\ query' \in [Queries -> QueryState]
      /\ AloneOrMet' /\ RowsAsRequested' /\ JudgedByOverrides'
    BY <1>1, <1>2, <1>3, QueryMoves DEF Goes
<1>5. Cached(keys) \in CacheEntry /\ Cached(keys).keys = keys
    BY <1>0 DEF Cached, CacheEntry
<1>6. PermissionsTypeOK'
    BY <1>1, <1>4, <1>5 DEF Goes, PermissionsInv, PermissionsTypeOK, QueryState, CacheEntry
<1>7. StaleCacheHasCause'
    <2> SUFFICES ASSUME NEW p \in Roles, cache'[p].full,
                        cache'[p].keys # Keys(granted'[p], "allow")
                 PROVE  InEdit(p, {"save", "invalidate"})' \/ spoilt'[p] \/ late'[p]
        BY DEF StaleCacheHasCause, Keys
    <2>1. granted' = granted /\ editor' = editor /\ spoilt' = spoilt
        BY <1>1 DEF Goes
    <2>2. CASE p = r
        BY <1>0, <1>1, <1>5, <2>1, <2>2, PermissionTypes DEF PermissionsInv, PermissionsTypeOK
    <2>3. CASE p # r
        BY <1>1, <2>1, <2>3 DEF PermissionsInv, StaleCacheHasCause, InEdit
    <2> QED BY <2>2, <2>3
<1> QED BY <1>4, <1>6, <1>7 DEF PermissionsInv

(* The overrides take from the keys whatever is denied now. *)
LEMMA QueryOverridesKeeps ==
    ASSUME PermissionsInv, NEW q \in Queries, QueryOverrides(q)
    PROVE  PermissionsInv'
<1> DEFINE rows == granted[query[q].member]
           keys == EffectivePermissions(query[q].keys, rows)
<1>0. query[q] \in QueryState
    BY PermissionTypes DEF PermissionsInv
<1>1. Goes(q, "guard", keys) /\ UNCHANGED <<cache, late>>
    BY DEF QueryOverrides
<1>2. keys \in SUBSET Catalog
    BY <1>0, KeysAreKeys DEF EffectivePermissions, QueryState
<1>3. PICK s \in QueryState : /\ query' = [query EXCEPT ![q] = s]
                              /\ s.step = "guard" /\ s.keys = keys
                              /\ s.member = query[q].member /\ s.denied = query[q].denied
    BY <1>1, <1>2, GoesIs DEF PermissionsInv
<1>4. s.denied \subseteq Keys(granted[s.member], "deny")
    BY <1>3 DEF PermissionsInv, JudgedByOverrides
<1>5. s.keys \intersect s.denied = {}
    BY <1>3, <1>4 DEF EffectivePermissions
<1> QED BY <1>1, <1>3, <1>4, <1>5, QueryMoves DEF Goes

LEMMA QueryGuardKeeps ==
    ASSUME PermissionsInv, NEW q \in Queries, QueryGuard(q)
    PROVE  PermissionsInv'
<1>0. query[q] \in QueryState /\ query[q].keys \in SUBSET Catalog
    BY PermissionTypes DEF PermissionsInv, QueryState
<1>1. /\ Goes(q, "granted", query[q].keys) /\ UNCHANGED <<cache, late>>
      /\ query[q].step = "guard"
      /\ query[q].need # NoKey =>
            MemberRole[query[q].member] = SuperAdmin \/ query[q].need \in query[q].keys
    BY DEF QueryGuard, PermissionsGuardPasses
<1>2. PICK s \in QueryState : /\ query' = [query EXCEPT ![q] = s]
                              /\ s.step = "granted" /\ s.keys = query[q].keys
                              /\ s.member = query[q].member /\ s.need = query[q].need
                              /\ s.denied = query[q].denied
    BY <1>0, <1>1, GoesIs DEF PermissionsInv
<1>3. /\ s.denied \subseteq Keys(granted[s.member], "deny")
      /\ MemberRole[s.member] # SuperAdmin => s.keys \intersect s.denied = {}
    BY <1>1, <1>2 DEF PermissionsInv, JudgedByOverrides
<1>4. MemberRole[s.member] # SuperAdmin => s.need \in s.keys \union {NoKey}
    BY <1>1, <1>2
<1> QED BY <1>1, <1>2, <1>3, <1>4, QueryMoves DEF Goes

LEMMA QueryEndsKeeps ==
    ASSUME PermissionsInv, NEW q \in Queries, QueryEnds(q)
    PROVE  PermissionsInv'
<1>1. query' = [query EXCEPT ![q] = IdleQuery]
    BY DEF QueryEnds
<1> QED BY <1>1, IdleIs, QueryMoves DEF QueryEnds

----------------------------------------------------------------------------
(* The invariant, and the theorems *)

LEMMA PermissionsStutters ==
    ASSUME PermissionsInv, UNCHANGED permissionsVars PROVE PermissionsInv'
BY DEF permissionsVars, PermissionsInv, PermissionsTypeOK, AloneOrMet, RowsAsRequested,
       StaleCacheHasCause, JudgedByOverrides, InEdit, Keys

LEMMA PermissionsInvStep ==
    ASSUME PermissionsInv, [PermissionsNext]_permissionsVars PROVE PermissionsInv'
<1>1. CASE UNCHANGED permissionsVars
    BY <1>1, PermissionsStutters
<1>2. CASE PermissionsCrash
    BY <1>2, CrashKeeps
<1>3. CASE \E m \in Modules : ToggleModule(m)
    BY <1>3, ToggleKeeps
<1>4. ASSUME NEW e \in Editors,
             EditDelete(e) \/ EditSave(e) \/ EditFails(e) \/ EditInvalidate(e)
      PROVE  PermissionsInv'
    BY <1>4, EditDeleteKeeps, EditSaveKeeps, EditFailsKeeps, EditInvalidateKeeps
<1>5. ASSUME NEW e \in Editors, NEW o \in Owners, NEW rows \in SUBSET Grants,
             NEW twice \in BOOLEAN, EditStarts(e, o, rows, twice)
      PROVE  PermissionsInv'
    BY <1>5, EditStartsKeeps
<1>6. ASSUME NEW q \in Queries,
             QueryDefaults(q) \/ QueryStore(q) \/ QueryOverrides(q) \/ QueryGuard(q)
                \/ QueryEnds(q)
      PROVE  PermissionsInv'
    BY <1>6, QueryDefaultsKeeps, QueryStoreKeeps, QueryOverridesKeeps, QueryGuardKeeps,
       QueryEndsKeeps
<1>7. ASSUME NEW q \in Queries, NEW m \in Members, NEW need \in Catalog \union {NoKey},
             QueryStarts(q, m, need)
      PROVE  PermissionsInv'
    BY <1>7, QueryStartsKeeps
<1> QED BY <1>1, <1>2, <1>3, <1>4, <1>5, <1>6, <1>7 DEF PermissionsNext

(* The inductive invariant: with the properties, what an edit knows of the rows it deleted *)
(* and what a request holds of the denials (permissions.service.ts, permissions.guard.ts). *)
THEOREM PermissionsInvHolds == PermissionsSpec => []PermissionsInv
BY PermissionsInitInv, PermissionsInvStep, PTL DEF PermissionsSpec

(* An edit of an owner's rows that neither failed nor met another leaves exactly the rows  *)
(* it was given: setRoleDefaults and setUserOverrides do not mix or lose rows.             *)
THEOREM EditsAreKept == PermissionsSpec => []RowsAsRequested
<1>1. PermissionsInv => RowsAsRequested
    BY DEF PermissionsInv
<1> QED BY <1>1, PermissionsInvHolds, PTL

(* A key denied to a member through a whole request is not granted to it, and the cache of *)
(* role defaults is what the table says unless an edit is between its statements, failed   *)
(* there or met another, or a reader stored after an edit what it had found before it.     *)
THEOREM RequestsAreJudgedByCurrentRows == PermissionsSpec => []PermissionsAreCurrent
<1>1. PermissionsInv => PermissionsAreCurrent
    <2> SUFFICES ASSUME PermissionsInv PROVE DenyHolds
        BY DEF PermissionsInv, PermissionsAreCurrent
    <2>1. \A q \in Queries : query[q].denied \subseteq Catalog
        BY PermissionTypes DEF PermissionsInv, QueryState
    <2>2. NoKey \notin Catalog
        BY PermissionsAssumption
    <2> QED BY <2>1, <2>2 DEF PermissionsInv, JudgedByOverrides, DenyHolds
<1> QED BY <1>1, PermissionsInvHolds, PTL

-----------------------------------------------------------------------------
(* LeaderAccess.tla: requests and links. *)
LinkJob == [step : {"idle", "new", "newSave", "grant", "grantSave", "revoke", "revokeSave",
                    "update"},
            holder : Holders, userId : Logins \union {NoLogin},
            login : Logins \union {NoLogin}]

(* The idle request is a request; no holder is needed to name it. *)
LEMMA IdleIsAJob ==
    /\ IdleLink \in LinkJob /\ IdleLink.step = "idle" /\ IdleLink.userId = NoLogin
    /\ IdleLink.login = NoLogin
<1>1. (CHOOSE h \in Holders : TRUE) \in Holders
    BY LeaderAccessAssumption
<1> QED BY <1>1 DEF IdleLink, LinkJob

(* The parts of the types that the steps use. *)
LEMMA LeaderTypes ==
    ASSUME LeaderAccessTypeOK
    PROVE  /\ holder \in [Holders -> HolderRow] /\ linkJob \in [LinkJobs -> LinkJob]
           /\ \A h \in Holders : /\ holder[h].userId \in Logins \union {NoLogin}
                                 /\ holder[h].state \in {"new", "here", "gone"}
           /\ \A j \in LinkJobs : /\ linkJob[j] \in LinkJob /\ linkJob[j].holder \in Holders
                                  /\ linkJob[j].userId \in Logins \union {NoLogin}
                                  /\ linkJob[j].login \in Logins \union {NoLogin}
BY DEF LeaderAccessTypeOK, LinkJob, HolderRow

(* A request that is done leaves the others as they are. *)
LEMMA DoneIs ==
    ASSUME LeaderAccessTypeOK, NEW j \in LinkJobs, Done(j)
    PROVE  /\ linkJob' \in [LinkJobs -> LinkJob] /\ linkJob'[j] = IdleLink
           /\ \A i \in LinkJobs \ {j} : linkJob'[i] = linkJob[i]
           /\ ~Giving(j)' /\ \A i \in LinkJobs \ {j} : Giving(i)' <=> Giving(i)
<1>1. /\ linkJob' \in [LinkJobs -> LinkJob] /\ linkJob'[j] = IdleLink
      /\ \A i \in LinkJobs \ {j} : linkJob'[i] = linkJob[i]
    BY LeaderTypes, IdleIsAJob DEF Done
<1> QED BY <1>1, IdleIsAJob DEF Giving

(* A saved holder is there, with the userId of the copy. *)
LEMMA SaveIs ==
    ASSUME LeaderAccessTypeOK, NEW h \in Holders, NEW a \in Logins \union {NoLogin},
           SaveHolder(h, a)
    PROVE  /\ holder' \in [Holders -> HolderRow]
           /\ holder'[h].state = "here" /\ holder'[h].userId = a
           /\ \A k \in Holders \ {h} : holder'[k] = holder[k]
<1>1. [state |-> "here", userId |-> a] \in HolderRow
    BY DEF HolderRow
<1> QED BY <1>1, LeaderTypes DEF SaveHolder

LEMMA LeaderInit == LeaderAccessInit => LeaderInv
<1> SUFFICES ASSUME LeaderAccessInit PROVE LeaderInv
    OBVIOUS
<1>1. LeaderAccessTypeOK
    <2>1. \A j \in LinkJobs : linkJob[j] \in LinkJob
        BY IdleIsAJob DEF LeaderAccessInit
    <2> QED BY <2>1, LeaderAccessAssumption
            DEF LeaderAccessInit, LeaderAccessTypeOK, HolderRow, LinkJob
<1>2. \A j \in LinkJobs : /\ linkJob[j].step = "idle" /\ linkJob[j].userId = NoLogin
                          /\ ~Giving(j)
    BY IdleIsAJob DEF LeaderAccessInit, Giving
<1>3. \A h \in Holders : holder[h].userId = NoLogin
    BY DEF LeaderAccessInit
<1>4. NoLogin \notin Logins
    BY LeaderAccessAssumption
<1>5. GivingIsNew /\ StepsFollow
    BY <1>2 DEF GivingIsNew, StepsFollow
<1>6. LinksAreGiven
    BY <1>2, <1>3, <1>4 DEF LinksAreGiven
<1>7. LeaderLinkHasCause
    BY <1>3, <1>4 DEF LeaderLinkHasCause, LeaderAccessInit
<1> QED BY <1>1, <1>5, <1>6, <1>7 DEF LeaderInv

(* A request that reads a holder's row. *)
LEMMA FindsKeeps ==
    ASSUME LeaderInv, NEW j \in LinkJobs, NEW h \in Holders,
           NEW to \in {"grant", "revoke", "update"}, FindsHolder(j, h, to),
           to = "grant" => holder[h].userId = NoLogin,
           to = "revoke" => holder[h].userId # NoLogin
    PROVE  LeaderInv'
<1> USE DEF LeaderInv
<1> DEFINE r == [step |-> to, holder |-> h, userId |-> holder[h].userId, login |-> NoLogin]
<1>1. /\ linkJob' \in [LinkJobs -> LinkJob] /\ linkJob'[j] = r
      /\ \A i \in LinkJobs \ {j} : linkJob'[i] = linkJob[i]
    <2>1. r \in LinkJob
        BY LeaderTypes DEF LinkJob
    <2> QED BY <2>1, LeaderTypes DEF FindsHolder
<1>2. /\ linkJob[j].step = "idle" /\ holder[h].state = "here"
      /\ UNCHANGED <<holder, login, madeFor, loose, formEdits>>
    BY DEF FindsHolder
<1>3. /\ ~Giving(j) /\ ~Giving(j)' /\ \A i \in LinkJobs \ {j} : Giving(i)' <=> Giving(i)
      /\ \A a \in Logins : (Given(a)' <=> Given(a)) /\ (InLink(a)' <=> InLink(a))
    <2>1. /\ ~Giving(j) /\ ~Giving(j)' /\ \A i \in LinkJobs \ {j} : Giving(i)' <=> Giving(i)
        BY <1>1, <1>2 DEF Giving
    <2>2. ASSUME NEW a \in Logins PROVE Given(a)' <=> Given(a)
        BY <1>1, <2>1 DEF Given
    <2>3. ASSUME NEW a \in Logins PROVE InLink(a)' <=> InLink(a)
        BY <1>1, <1>2 DEF InLink
    <2> QED BY <2>1, <2>2, <2>3
<1>4. LeaderAccessTypeOK'
    BY <1>1, <1>2 DEF LeaderAccessTypeOK, LinkJob
<1>5. GivingIsNew'
    BY <1>1, <1>2, <1>3 DEF GivingIsNew
<1>6. StepsFollow'
    BY <1>1, <1>2, LeaderTypes DEF StepsFollow
<1>7. LinksAreGiven'
    <2>1. ASSUME NEW a \in Logins, a \notin loose, holder[h].userId = a
          PROVE  madeFor[a] = h /\ login[a] # "unused" /\ ~Given(a)
        <3>1. madeFor[a] = h /\ ~Given(a)
            BY <2>1 DEF LinksAreGiven
        <3>2. CASE InLink(a)
            BY <3>1, <3>2 DEF InLink, Given, Giving, StepsFollow
        <3>3. CASE ~InLink(a)
            BY <3>1, <3>3, <2>1 DEF LeaderLinkHasCause
        <3> QED BY <3>1, <3>2, <3>3
    <2> QED BY <1>1, <1>2, <1>3, <2>1 DEF LinksAreGiven
<1>8. LeaderLinkHasCause'
    BY <1>2, <1>3 DEF LeaderLinkHasCause
<1> QED BY <1>4, <1>5, <1>6, <1>7, <1>8

(* A request that stops: what it leaves half done is loose. *)
LEMMA LinkEndsKeeps ==
    ASSUME LeaderInv, NEW j \in LinkJobs, LinkEnds(j)
    PROVE  LeaderInv'
<1> USE DEF LeaderInv
<1>1. /\ linkJob' \in [LinkJobs -> LinkJob] /\ linkJob'[j] = IdleLink
      /\ \A i \in LinkJobs \ {j} : linkJob'[i] = linkJob[i]
      /\ ~Giving(j)' /\ \A i \in LinkJobs \ {j} : Giving(i)' <=> Giving(i)
    BY DoneIs DEF LinkEnds
<1>2. /\ UNCHANGED <<holder, login, madeFor, formEdits>> /\ loose \subseteq loose'
      /\ Giving(j) => linkJob[j].login \in loose'
      /\ linkJob[j].step = "revokeSave" => linkJob[j].userId \in loose'
    BY DEF LinkEnds, Giving
<1>3. \A a \in Logins : Given(a)' => Given(a)
    BY <1>1 DEF Given
<1>4. \A a \in Logins \ loose' : InLink(a) => InLink(a)'
    <2> SUFFICES ASSUME NEW a \in Logins, a \notin loose', InLink(a) PROVE InLink(a)'
        OBVIOUS
    <2>1. PICK i \in LinkJobs :
              \/ linkJob[i].step \in {"newSave", "grantSave"} /\ linkJob[i].login = a
              \/ linkJob[i].step = "revokeSave" /\ linkJob[i].userId = a
        BY DEF InLink
    <2>2. i # j
        BY <1>2, <2>1 DEF Giving
    <2> QED BY <1>1, <2>1, <2>2 DEF InLink
<1>5. loose' \subseteq Logins
    BY LeaderTypes DEF LinkEnds, LeaderAccessTypeOK, GivingIsNew, StepsFollow, Giving
<1>6. LeaderAccessTypeOK'
    BY <1>1, <1>2, <1>5 DEF LeaderAccessTypeOK, LinkJob
<1>7. GivingIsNew'
    BY <1>1, <1>2 DEF GivingIsNew
<1>8. StepsFollow'
    BY <1>1, <1>2, IdleIsAJob DEF StepsFollow
<1>9. LinksAreGiven'
    BY <1>1, <1>2, <1>3, IdleIsAJob, LeaderAccessAssumption DEF LinksAreGiven
<1>10. LeaderLinkHasCause'
    BY <1>2, <1>4 DEF LeaderLinkHasCause
<1> QED BY <1>6, <1>7, <1>8, <1>9, <1>10

(* A login made for a holder, to be given to it next. *)
LEMMA CreateLoginKeeps ==
    ASSUME LeaderInv, NEW j \in LinkJobs, NEW a \in Logins, NEW to \in {"newSave", "grantSave"},
           CreateLogin(j, a, to),
           linkJob[j].step = IF to = "newSave" THEN "new" ELSE "grant"
    PROVE  LeaderInv'
<1> USE DEF LeaderInv
<1> DEFINE r == [linkJob[j] EXCEPT !.step = to, !.login = a]
<1>1. /\ linkJob' \in [LinkJobs -> LinkJob]
      /\ linkJob'[j].step = to /\ linkJob'[j].login = a
      /\ linkJob'[j].holder = linkJob[j].holder /\ linkJob'[j].userId = linkJob[j].userId
      /\ \A i \in LinkJobs \ {j} : linkJob'[i] = linkJob[i]
    <2>1. /\ linkJob[j] \in LinkJob /\ linkJob \in [LinkJobs -> LinkJob]
        BY LeaderTypes
    <2>2. /\ r \in LinkJob /\ r.step = to /\ r.login = a
          /\ r.holder = linkJob[j].holder /\ r.userId = linkJob[j].userId
        BY <2>1 DEF LinkJob
    <2>3. linkJob' = [linkJob EXCEPT ![j] = r]
        BY <2>1 DEF CreateLogin, LinkJob
    <2> QED BY <2>1, <2>2, <2>3
<1>2. /\ login[a] = "unused" /\ UNCHANGED <<holder, loose, formEdits>>
      /\ login'[a] = "here" /\ madeFor'[a] = linkJob[j].holder
      /\ \A b \in Logins \ {a} : login'[b] = login[b] /\ madeFor'[b] = madeFor[b]
      /\ login' \in [Logins -> {"unused", "here", "gone"}]
      /\ madeFor' \in [Logins -> Holders \union {NoHolder}]
    BY LeaderTypes DEF CreateLogin, LeaderAccessTypeOK
<1>3. /\ ~Giving(j) /\ Giving(j)' /\ linkJob[j].userId = NoLogin
      /\ \A i \in LinkJobs \ {j} : Giving(i)' <=> Giving(i)
    BY <1>1 DEF Giving, StepsFollow
<1>4. \A i \in LinkJobs \ {j} : Giving(i) => linkJob[i].login # a
    BY <1>2 DEF GivingIsNew
<1>5. \A b \in Logins \ {a} : (Given(b)' <=> Given(b)) /\ (InLink(b)' <=> InLink(b))
    <2> SUFFICES ASSUME NEW b \in Logins, b # a
                 PROVE  (Given(b)' <=> Given(b)) /\ (InLink(b)' <=> InLink(b))
        OBVIOUS
    <2>1. Given(b)' <=> Given(b)
        BY <1>1, <1>3 DEF Given
    <2>2. InLink(b)' <=> InLink(b)
        BY <1>1 DEF InLink
    <2> QED BY <2>1, <2>2
<1>6. LeaderAccessTypeOK'
    BY <1>1, <1>2 DEF LeaderAccessTypeOK, LinkJob
<1>7. GivingIsNew'
    BY <1>1, <1>2, <1>3, <1>4 DEF GivingIsNew
<1>8. StepsFollow'
    <2>1. ASSUME NEW i \in LinkJobs, linkJob'[i].step = "revokeSave"
          PROVE  login'[linkJob'[i].userId] = "gone"
        BY <1>1, <1>2, <2>1, LeaderTypes DEF StepsFollow
    <2> QED BY <1>1, <1>2, <2>1 DEF StepsFollow
<1>9. LinksAreGiven'
    <2>1. ASSUME NEW h \in Holders, a \notin loose PROVE holder[h].userId # a
        <3> SUFFICES ASSUME holder[h].userId = a PROVE FALSE
            OBVIOUS
        <3>1. ~Given(a) /\ ~InLink(a)
            BY <1>2, <2>1 DEF LinksAreGiven, InLink, Given, Giving, StepsFollow
        <3> QED BY <1>2, <2>1, <3>1 DEF LeaderLinkHasCause
    <2>2. ASSUME NEW i \in LinkJobs, a \notin loose PROVE linkJob'[i].userId # a
        BY <1>1, <1>2, <2>2 DEF LinksAreGiven
    <2> QED BY <1>1, <1>2, <1>5, <2>1, <2>2 DEF LinksAreGiven
<1>10. LeaderLinkHasCause'
    <2>1. InLink(a)'
        BY <1>1 DEF InLink
    <2> QED BY <1>2, <1>5, <2>1 DEF LeaderLinkHasCause
<1> QED BY <1>6, <1>7, <1>8, <1>9, <1>10

(* What a request no longer has at work was made for its holder, and no other points to *)
(* it.                                                                                  *)
LEMMA OnlyItsHolder ==
    ASSUME LeaderInv, NEW j \in LinkJobs, Done(j), NEW a \in Logins, a \notin loose,
           InLink(a), ~InLink(a)'
    PROVE  /\ madeFor[a] = linkJob[j].holder
           /\ \A k \in Holders \ {linkJob[j].holder} : holder[k].userId # a
           /\ \/ Giving(j) /\ linkJob[j].login = a
              \/ linkJob[j].step = "revokeSave" /\ linkJob[j].userId = a
<1> USE DEF LeaderInv
<1>1. \A i \in LinkJobs \ {j} : linkJob'[i] = linkJob[i]
    BY DoneIs
<1>2. PICK i \in LinkJobs :
          \/ linkJob[i].step \in {"newSave", "grantSave"} /\ linkJob[i].login = a
          \/ linkJob[i].step = "revokeSave" /\ linkJob[i].userId = a
    BY DEF InLink
<1>3. i = j
    BY <1>1, <1>2 DEF InLink
<1>4. madeFor[a] = linkJob[j].holder
    BY <1>2, <1>3 DEF GivingIsNew, LinksAreGiven, Giving
<1> QED BY <1>2, <1>3, <1>4 DEF LinksAreGiven, Giving

(* A request that saves its holder's row with userId x and is done.  What the five such *)
(* requests differ in is why x is the holder's, and why nothing else is.                *)
LEMMA SaveKeeps ==
    ASSUME LeaderInv, NEW j \in LinkJobs, NEW h \in Holders, h = linkJob[j].holder,
           NEW x \in Logins \union {NoLogin}, SaveHolder(h, x), Done(j),
           UNCHANGED <<login, madeFor>>, formEdits' \in 0 .. MaxEditsOfUserId,
           loose \subseteq loose', loose' \subseteq Logins,
           \A i \in LinkJobs \ {j} : linkJob[i].step \in {"new", "newSave"}
                                     => linkJob[i].holder # h,
           x \in Logins \ loose' => /\ madeFor[x] = h
                                    /\ \A i \in LinkJobs \ {j} :
                                          Giving(i) => linkJob[i].login # x,
           \A a \in Logins \ loose' : ~InLink(a)' =>
               (x = a <=> login[a] = "here" /\ madeFor[a] = h)
    PROVE  LeaderInv'
<1> USE DEF LeaderInv
<1>1. /\ linkJob' \in [LinkJobs -> LinkJob] /\ linkJob'[j] = IdleLink
      /\ \A i \in LinkJobs \ {j} : linkJob'[i] = linkJob[i]
      /\ ~Giving(j)' /\ \A i \in LinkJobs \ {j} : Giving(i)' <=> Giving(i)
    BY DoneIs
<1>2. /\ holder' \in [Holders -> HolderRow]
      /\ holder'[h].state = "here" /\ holder'[h].userId = x
      /\ \A k \in Holders \ {h} : holder'[k] = holder[k]
    BY SaveIs
<1>3. \A a \in Logins : Given(a)' => Given(a)
    BY <1>1 DEF Given
<1>4. LeaderAccessTypeOK'
    BY <1>1, <1>2 DEF LeaderAccessTypeOK, LinkJob
<1>5. GivingIsNew'
    BY <1>1 DEF GivingIsNew
<1>6. StepsFollow'
    <2>1. ASSUME NEW i \in LinkJobs, i # j, linkJob[i].step \in {"new", "newSave"}
          PROVE  holder'[linkJob[i].holder].state = "new"
        BY <1>2, <2>1, LeaderTypes DEF StepsFollow
    <2>2. ASSUME NEW i \in LinkJobs, i # j, linkJob[i].holder # h
          PROVE  holder'[linkJob[i].holder] = holder[linkJob[i].holder]
        BY <1>2, <2>2, LeaderTypes
    <2> QED BY <1>1, <1>2, <2>1, <2>2, IdleIsAJob DEF StepsFollow
<1>7. LinksAreGiven'
    <2>1. \A k \in Holders : holder'[k].state # "here" => holder'[k].userId = NoLogin
        BY <1>2 DEF LinksAreGiven
    <2>2. ASSUME NEW a \in Logins, a \notin loose', x = a PROVE madeFor[a] = h /\ ~Given(a)'
        BY <1>1, <2>2 DEF Given
    <2>3. \A k \in Holders, a \in Logins \ loose' :
              holder'[k].userId = a => madeFor[a] = k /\ ~Given(a)'
        BY <1>2, <1>3, <2>2 DEF LinksAreGiven
    <2>4. \A i \in LinkJobs, a \in Logins \ loose' :
              linkJob'[i].userId = a =>
                  madeFor[a] = linkJob'[i].holder /\ login[a] # "unused" /\ ~Given(a)'
        BY <1>1, <1>3, IdleIsAJob, LeaderAccessAssumption DEF LinksAreGiven
    <2> QED BY <2>1, <2>3, <2>4 DEF LinksAreGiven
<1>8. LeaderLinkHasCause'
    <2> SUFFICES ASSUME NEW a \in Logins, a \notin loose', ~InLink(a)', NEW k \in Holders
                 PROVE  holder'[k].userId = a <=> login[a] = "here" /\ madeFor[a] = k
        BY DEF LeaderLinkHasCause
    <2>1. CASE k = h
        BY <1>2, <2>1
    <2>2. CASE k # h /\ InLink(a)
        BY <1>2, <2>2, OnlyItsHolder
    <2>3. CASE k # h /\ ~InLink(a)
        BY <1>2, <2>3 DEF LeaderLinkHasCause
    <2> QED BY <2>1, <2>2, <2>3
<1> QED BY <1>4, <1>5, <1>6, <1>7, <1>8

(* What the save of a changed row takes from or gives to its holder is loose. *)
LEMMA BrokenIs ==
    ASSUME LeaderAccessTypeOK, NEW h \in Holders, NEW was, NEW x, NEW a \in Logins,
           a \notin Broken(h, was, x), a = holder[h].userId \/ a = x
    PROVE  holder[h].userId = was /\ holder[h].state = "here"
BY DEF Broken

LEMMA CreateHolderSaveKeeps ==
    ASSUME LeaderInv, NEW j \in LinkJobs, CreateHolderSave(j)
    PROVE  LeaderInv'
<1> USE DEF LeaderInv
<1> DEFINE h == linkJob[j].holder  x == linkJob[j].login
<1>1. /\ linkJob[j].step = "newSave" /\ SaveHolder(h, x) /\ Done(j) /\ Giving(j)
      /\ UNCHANGED <<login, madeFor, loose, formEdits>>
    BY DEF CreateHolderSave, Giving
<1>2. /\ h \in Holders /\ x \in Logins /\ madeFor[x] = h
      /\ login[x] = "here" \/ x \in loose
      /\ \A i \in LinkJobs \ {j} : Giving(i) => linkJob[i].login # x
    BY <1>1, LeaderTypes DEF GivingIsNew
<1>3. /\ holder[h].userId = NoLogin
      /\ \A i \in LinkJobs \ {j} : linkJob[i].step \in {"new", "newSave"}
                                   => linkJob[i].holder # h
    BY <1>1, <1>2 DEF StepsFollow, LinksAreGiven
<1>4. ASSUME NEW a \in Logins \ loose', ~InLink(a)'
      PROVE  x = a <=> login[a] = "here" /\ madeFor[a] = h
    <2>1. CASE x = a
        BY <1>1, <1>2, <2>1
    <2>2. CASE x # a
        <3>1. ~InLink(a)
            BY <1>1, <1>4, <2>2, OnlyItsHolder
        <3> QED BY <1>1, <1>2, <1>3, <2>2, <3>1, LeaderAccessAssumption
                DEF LeaderLinkHasCause
    <2> QED BY <2>1, <2>2
<1>5. loose' \subseteq Logins /\ formEdits' \in 0 .. MaxEditsOfUserId
    BY <1>1 DEF LeaderAccessTypeOK
<1> HIDE DEF h, x
<1> QED BY <1>1, <1>2, <1>3, <1>4, <1>5, SaveKeeps DEF h

LEMMA GrantSaveKeeps ==
    ASSUME LeaderInv, NEW j \in LinkJobs, GrantSave(j)
    PROVE  LeaderInv'
<1> USE DEF LeaderInv
<1> DEFINE h == linkJob[j].holder  x == linkJob[j].login  u == linkJob[j].userId
<1>1. /\ linkJob[j].step = "grantSave" /\ SaveHolder(h, x) /\ Done(j) /\ Giving(j)
      /\ UNCHANGED <<login, madeFor, formEdits>> /\ loose' = loose \union Broken(h, u, x)
    BY DEF GrantSave, Giving
<1>2. /\ h \in Holders /\ x \in Logins /\ madeFor[x] = h /\ u = NoLogin
      /\ login[x] = "here" \/ x \in loose
      /\ \A i \in LinkJobs \ {j} : Giving(i) => linkJob[i].login # x
    BY <1>1, LeaderTypes DEF GivingIsNew, StepsFollow
<1>3. \A i \in LinkJobs \ {j} : linkJob[i].step \in {"new", "newSave"}
                                => linkJob[i].holder # h
    BY <1>1 DEF StepsFollow
<1>4. ASSUME NEW a \in Logins \ loose', ~InLink(a)'
      PROVE  x = a <=> login[a] = "here" /\ madeFor[a] = h
    <2>1. CASE x = a
        BY <1>1, <1>2, <2>1
    <2>2. CASE x # a
        <3>1. ~InLink(a)
            BY <1>1, <1>4, <2>2, OnlyItsHolder
        <3>2. holder[h].userId # a
            BY <1>1, <1>2, BrokenIs, LeaderAccessAssumption
        <3> QED BY <1>1, <1>2, <2>2, <3>1, <3>2 DEF LeaderLinkHasCause
    <2> QED BY <2>1, <2>2
<1>5. loose' \subseteq Logins /\ formEdits' \in 0 .. MaxEditsOfUserId
    BY <1>1 DEF LeaderAccessTypeOK, Broken
<1> HIDE DEF h, x, u
<1> QED BY <1>1, <1>2, <1>3, <1>4, <1>5, SaveKeeps DEF h

LEMMA RevokeSaveKeeps ==
    ASSUME LeaderInv, NEW j \in LinkJobs, RevokeSave(j)
    PROVE  LeaderInv'
<1> USE DEF LeaderInv
<1> DEFINE h == linkJob[j].holder  u == linkJob[j].userId
<1>1. /\ linkJob[j].step = "revokeSave" /\ SaveHolder(h, NoLogin) /\ Done(j) /\ ~Giving(j)
      /\ UNCHANGED <<login, madeFor, formEdits>> /\ loose' = loose \union Broken(h, u, u)
    BY DEF RevokeSave, Revoked, Giving
<1>2. h \in Holders /\ u \in Logins /\ login[u] = "gone"
    BY <1>1, LeaderTypes DEF StepsFollow
<1>3. \A i \in LinkJobs \ {j} : linkJob[i].step \in {"new", "newSave"}
                                => linkJob[i].holder # h
    BY <1>1 DEF StepsFollow
<1>4. ASSUME NEW a \in Logins \ loose', ~InLink(a)'
      PROVE  NoLogin = a <=> login[a] = "here" /\ madeFor[a] = h
    <2>1. CASE u = a
        BY <1>2, <2>1, LeaderAccessAssumption
    <2>2. CASE u # a
        <3>1. ~InLink(a)
            BY <1>1, <1>4, <2>2, OnlyItsHolder
        <3>2. holder[h].userId # a
            BY <1>1, <1>2, <2>2, BrokenIs
        <3> QED BY <1>1, <1>2, <3>1, <3>2, LeaderAccessAssumption DEF LeaderLinkHasCause
    <2> QED BY <2>1, <2>2
<1>5. loose' \subseteq Logins /\ formEdits' \in 0 .. MaxEditsOfUserId
    BY <1>1 DEF LeaderAccessTypeOK, Broken
<1> HIDE DEF h, u
<1> QED BY <1>1, <1>2, <1>3, <1>4, <1>5, SaveKeeps, LeaderAccessAssumption DEF h

LEMMA UpdateHolderSaveKeeps ==
    ASSUME LeaderInv, NEW j \in LinkJobs, UpdateHolderSave(j)
    PROVE  LeaderInv'
<1> USE DEF LeaderInv
<1> DEFINE h == linkJob[j].holder  u == linkJob[j].userId
<1>1. /\ linkJob[j].step = "update" /\ SaveHolder(h, u) /\ Done(j) /\ ~Giving(j)
      /\ UNCHANGED <<login, madeFor, formEdits>> /\ loose' = loose \union Broken(h, u, u)
    BY DEF UpdateHolderSave, Giving
<1>2. h \in Holders /\ u \in Logins \union {NoLogin}
    BY LeaderTypes
<1>3. \A i \in LinkJobs \ {j} : linkJob[i].step \in {"new", "newSave"}
                                => linkJob[i].holder # h
    BY <1>1 DEF StepsFollow
<1>4. u \in Logins \ loose' => /\ madeFor[u] = h
                               /\ \A i \in LinkJobs \ {j} :
                                     Giving(i) => linkJob[i].login # u
    BY <1>1 DEF LinksAreGiven, Given
<1>5. ASSUME NEW a \in Logins \ loose', ~InLink(a)'
      PROVE  u = a <=> login[a] = "here" /\ madeFor[a] = h
    <2>1. ~InLink(a)
        BY <1>1, <1>5, OnlyItsHolder
    <2>2. u = a <=> holder[h].userId = a
        BY <1>1, <1>2, BrokenIs
    <2> QED BY <1>1, <1>2, <2>1, <2>2 DEF LeaderLinkHasCause
<1>6. loose' \subseteq Logins /\ formEdits' \in 0 .. MaxEditsOfUserId
    BY <1>1 DEF LeaderAccessTypeOK, Broken
<1> HIDE DEF h, u
<1> QED BY <1>1, <1>2, <1>3, <1>4, <1>5, <1>6, SaveKeeps DEF h

LEMMA UpdateUserIdKeeps ==
    ASSUME LeaderInv, NEW j \in LinkJobs, NEW x \in Logins \union {NoLogin},
           UpdateUserId(j, x)
    PROVE  LeaderInv'
<1> USE DEF LeaderInv
<1> DEFINE h == linkJob[j].holder
<1>1. /\ linkJob[j].step = "update" /\ SaveHolder(h, x) /\ Done(j) /\ ~Giving(j)
      /\ UNCHANGED <<login, madeFor>> /\ formEdits' = formEdits + 1
      /\ formEdits < MaxEditsOfUserId /\ loose \subseteq loose'
      /\ x # NoLogin => x \in loose'
      /\ holder[h].userId # NoLogin => holder[h].userId \in loose'
    BY LeaderAccessAssumption DEF UpdateUserId, Giving
<1>2. h \in Holders
    BY LeaderTypes
<1>3. \A i \in LinkJobs \ {j} : linkJob[i].step \in {"new", "newSave"}
                                => linkJob[i].holder # h
    BY <1>1 DEF StepsFollow
<1>4. ASSUME NEW a \in Logins \ loose', ~InLink(a)'
      PROVE  x = a <=> login[a] = "here" /\ madeFor[a] = h
    <2>1. ~InLink(a)
        BY <1>1, <1>4, OnlyItsHolder
    <2>2. a # NoLogin
        BY LeaderAccessAssumption
    <2>3. x # a
        BY <1>1, <2>2
    <2>4. holder[h].userId # a
        BY <1>1, <2>2
    <2> QED BY <1>1, <1>2, <2>1, <2>3, <2>4 DEF LeaderLinkHasCause
<1>5. loose' \subseteq Logins
    BY LeaderTypes DEF UpdateUserId, LeaderAccessTypeOK
<1>6. formEdits' \in 0 .. MaxEditsOfUserId
    BY <1>1, LeaderAccessAssumption DEF LeaderAccessTypeOK
<1>7. x \notin Logins \ loose'
    BY <1>1, LeaderAccessAssumption
<1> HIDE DEF h
<1> QED BY <1>1, <1>2, <1>3, <1>4, <1>5, <1>6, <1>7, SaveKeeps DEF h

(* A row made without access, and a request that is about to make a login. *)
LEMMA CreateHolderKeeps ==
    ASSUME LeaderInv, NEW j \in LinkJobs, NEW h \in Holders, CreateHolder(j, h)
    PROVE  LeaderInv'
<1> USE DEF LeaderInv
<1>1. /\ linkJob[j].step = "idle" /\ holder[h].state = "new" /\ holder[h].userId = NoLogin
      /\ \A i \in LinkJobs : linkJob[i].step \in {"new", "newSave"} => linkJob[i].holder # h
      /\ UNCHANGED <<login, madeFor, loose, formEdits>>
    BY DEF CreateHolder, LinksAreGiven
<1>2. CASE SaveHolder(h, NoLogin) /\ UNCHANGED linkJob
    <2>1. /\ holder' \in [Holders -> HolderRow]
          /\ holder'[h].state = "here" /\ holder'[h].userId = NoLogin
          /\ \A k \in Holders \ {h} : holder'[k] = holder[k]
        BY <1>2, SaveIs
    <2>2. /\ \A i \in LinkJobs : Giving(i)' <=> Giving(i)
          /\ \A a \in Logins : (Given(a)' <=> Given(a)) /\ (InLink(a)' <=> InLink(a))
        BY <1>2 DEF Giving, Given, InLink
    <2>3. LeaderAccessTypeOK' /\ GivingIsNew'
        BY <1>1, <1>2, <2>1, <2>2 DEF LeaderAccessTypeOK, GivingIsNew
    <2>4. StepsFollow'
        <3>1. ASSUME NEW i \in LinkJobs, linkJob[i].step \in {"new", "newSave"}
              PROVE  holder'[linkJob[i].holder].state = "new"
            BY <1>1, <2>1, <3>1, LeaderTypes DEF StepsFollow
        <3>2. ASSUME NEW i \in LinkJobs, holder[linkJob[i].holder].state # "new"
              PROVE  holder'[linkJob[i].holder].state # "new"
            BY <1>1, <2>1, <3>2, LeaderTypes
        <3> QED BY <1>1, <1>2, <3>1, <3>2 DEF StepsFollow
    <2>5. \A k \in Holders : holder'[k].userId = holder[k].userId
        BY <1>1, <2>1
    <2>6. LinksAreGiven'
        <3>1. \A k \in Holders : holder'[k].state # "here" => holder'[k].userId = NoLogin
            BY <2>1 DEF LinksAreGiven
        <3> QED BY <1>1, <1>2, <2>2, <2>5, <3>1 DEF LinksAreGiven
    <2>7. LeaderLinkHasCause'
        BY <1>1, <2>2, <2>5 DEF LeaderLinkHasCause
    <2> QED BY <2>3, <2>4, <2>6, <2>7
<1>3. CASE /\ linkJob' = [linkJob EXCEPT ![j] = [IdleLink EXCEPT !.step = "new", !.holder = h]]
           /\ UNCHANGED holder
    <2> DEFINE r == [IdleLink EXCEPT !.step = "new", !.holder = h]
    <2>1. /\ r \in LinkJob /\ r.step = "new" /\ r.holder = h /\ r.userId = NoLogin
        BY IdleIsAJob DEF LinkJob
    <2>2. /\ linkJob' \in [LinkJobs -> LinkJob] /\ linkJob'[j] = r
          /\ \A i \in LinkJobs \ {j} : linkJob'[i] = linkJob[i]
        BY <1>3, <2>1, LeaderTypes
    <2> HIDE DEF r
    <2>3. ~Giving(j) /\ ~Giving(j)' /\ \A i \in LinkJobs \ {j} : Giving(i)' <=> Giving(i)
        BY <1>1, <2>1, <2>2 DEF Giving
    <2>4. ASSUME NEW a \in Logins PROVE Given(a)' <=> Given(a)
        BY <2>2, <2>3 DEF Given
    <2>5. ASSUME NEW a \in Logins PROVE InLink(a)' <=> InLink(a)
        BY <1>1, <2>1, <2>2 DEF InLink
    <2>6. LeaderAccessTypeOK'
        BY <1>1, <1>3, <2>2 DEF LeaderAccessTypeOK, LinkJob
    <2>7. GivingIsNew'
        BY <1>1, <2>2, <2>3 DEF GivingIsNew
    <2>8. StepsFollow'
        <3>1. ASSUME NEW i \in LinkJobs, i # j,
                     linkJob[i].step \in {"new", "newSave"}
              PROVE  /\ holder[linkJob[i].holder].state = "new"
                     /\ \A k \in LinkJobs : linkJob'[k].step \in {"new", "newSave"}
                           /\ linkJob'[k].holder = linkJob[i].holder => k = i
            BY <1>1, <2>1, <2>2, <3>1 DEF StepsFollow
        <3>2. \A k \in LinkJobs : linkJob'[k].step \in {"new", "newSave"}
                                  /\ linkJob'[k].holder = h => k = j
            BY <1>1, <2>2
        <3>3. ASSUME NEW i \in LinkJobs, i # j PROVE linkJob'[i] = linkJob[i]
            BY <2>2, <3>3
        <3>4. /\ linkJob'[j].step = "new" /\ linkJob'[j].holder = h
              /\ linkJob'[j].userId = NoLogin
            BY <2>1, <2>2
        <3> QED BY <1>1, <1>3, <3>1, <3>2, <3>3, <3>4 DEF StepsFollow
    <2>9. LinksAreGiven'
        <3>1. \A i \in LinkJobs, a \in Logins \ loose :
                  linkJob'[i].userId = a =>
                      madeFor[a] = linkJob'[i].holder /\ login[a] # "unused" /\ ~Given(a)
            BY <2>1, <2>2, LeaderAccessAssumption DEF LinksAreGiven
        <3> QED BY <1>1, <1>3, <2>4, <3>1 DEF LinksAreGiven
    <2>10. LeaderLinkHasCause'
        BY <1>1, <1>3, <2>5 DEF LeaderLinkHasCause
    <2> QED BY <2>6, <2>7, <2>8, <2>9, <2>10
<1> QED BY <1>2, <1>3 DEF CreateHolder

(* A row made with the userId of its form: that login is loose. *)
LEMMA CreateForLoginKeeps ==
    ASSUME LeaderInv, NEW h \in Holders, NEW x \in Logins, CreateForLogin(h, x)
    PROVE  LeaderInv'
<1> USE DEF LeaderInv
<1>1. /\ holder[h].state = "new" /\ holder[h].userId = NoLogin
      /\ \A i \in LinkJobs : linkJob[i].step \in {"new", "newSave"} => linkJob[i].holder # h
      /\ UNCHANGED <<login, madeFor, linkJob>> /\ loose' = loose \union {x}
      /\ formEdits' \in 0 .. MaxEditsOfUserId
    BY LeaderAccessAssumption DEF CreateForLogin, LinksAreGiven, LeaderAccessTypeOK
<1>2. /\ holder' \in [Holders -> HolderRow]
      /\ holder'[h].state = "here" /\ holder'[h].userId = x
      /\ \A k \in Holders \ {h} : holder'[k] = holder[k]
    BY SaveIs DEF CreateForLogin
<1>3. /\ \A i \in LinkJobs : Giving(i)' <=> Giving(i)
      /\ \A a \in Logins : (Given(a)' <=> Given(a)) /\ (InLink(a)' <=> InLink(a))
    BY <1>1 DEF Giving, Given, InLink
<1>4. LeaderAccessTypeOK' /\ GivingIsNew'
    BY <1>1, <1>2, <1>3 DEF LeaderAccessTypeOK, GivingIsNew
<1>5. StepsFollow'
    <2>1. ASSUME NEW i \in LinkJobs, linkJob[i].step \in {"new", "newSave"}
          PROVE  holder'[linkJob[i].holder].state = "new"
        BY <1>1, <1>2, <2>1, LeaderTypes DEF StepsFollow
    <2>2. ASSUME NEW i \in LinkJobs, holder[linkJob[i].holder].state # "new"
          PROVE  holder'[linkJob[i].holder].state # "new"
        BY <1>1, <1>2, <2>2, LeaderTypes
    <2> QED BY <1>1, <2>1, <2>2 DEF StepsFollow
<1>6. \A k \in Holders, a \in Logins \ loose' : holder'[k].userId = a <=> holder[k].userId = a
    BY <1>1, <1>2, LeaderAccessAssumption
<1>7. LinksAreGiven'
    <2>1. \A k \in Holders : holder'[k].state # "here" => holder'[k].userId = NoLogin
        BY <1>2 DEF LinksAreGiven
    <2>2. \A k \in Holders, a \in Logins \ loose' :
              holder'[k].userId = a => madeFor'[a] = k /\ ~Given(a)'
        BY <1>1, <1>3, <1>6 DEF LinksAreGiven
    <2>3. \A i \in LinkJobs, a \in Logins \ loose' :
              linkJob'[i].userId = a =>
                  madeFor'[a] = linkJob'[i].holder /\ login'[a] # "unused" /\ ~Given(a)'
        BY <1>1, <1>3 DEF LinksAreGiven
    <2> QED BY <2>1, <2>2, <2>3 DEF LinksAreGiven
<1>8. LeaderLinkHasCause'
    BY <1>1, <1>3, <1>6 DEF LeaderLinkHasCause
<1> QED BY <1>4, <1>5, <1>7, <1>8

(* The login goes; the holder's row is saved next. *)
LEMMA RevokeLoginKeeps ==
    ASSUME LeaderInv, NEW j \in LinkJobs, RevokeLogin(j)
    PROVE  LeaderInv'
<1> USE DEF LeaderInv
<1> DEFINE u == linkJob[j].userId  r == [linkJob[j] EXCEPT !.step = "revokeSave"]
<1>1. /\ linkJob[j].step = "revoke" /\ login[u] = "here"
      /\ UNCHANGED <<holder, madeFor, loose, formEdits>>
    BY DEF RevokeLogin
<1>2. u \in Logins
    BY <1>1 DEF StepsFollow
<1>3. /\ linkJob' \in [LinkJobs -> LinkJob] /\ linkJob'[j].step = "revokeSave"
      /\ linkJob'[j].holder = linkJob[j].holder /\ linkJob'[j].userId = u
      /\ \A i \in LinkJobs \ {j} : linkJob'[i] = linkJob[i]
    <2>1. /\ linkJob[j] \in LinkJob /\ linkJob \in [LinkJobs -> LinkJob]
        BY LeaderTypes
    <2>2. /\ r \in LinkJob /\ r.step = "revokeSave" /\ r.holder = linkJob[j].holder
          /\ r.userId = u
        BY <2>1 DEF LinkJob
    <2>3. linkJob' = [linkJob EXCEPT ![j] = r]
        BY <2>1 DEF RevokeLogin, LinkJob
    <2> QED BY <2>1, <2>2, <2>3
<1>4. /\ login' \in [Logins -> {"unused", "here", "gone"}] /\ login'[u] = "gone"
      /\ \A b \in Logins \ {u} : login'[b] = login[b]
    BY <1>2 DEF RevokeLogin, LeaderAccessTypeOK
<1>5. ~Giving(j) /\ ~Giving(j)' /\ \A i \in LinkJobs \ {j} : Giving(i)' <=> Giving(i)
    BY <1>1, <1>3 DEF Giving
<1>6. \A b \in Logins : Given(b)' <=> Given(b)
    BY <1>3, <1>5 DEF Given
<1>7. \A b \in Logins \ {u} : InLink(b)' <=> InLink(b)
    BY <1>1, <1>3 DEF InLink
<1>8. ASSUME NEW b \in Logins, b = u PROVE InLink(b)'
    BY <1>3, <1>8 DEF InLink
<1> HIDE DEF u, r
<1>9. LeaderAccessTypeOK'
    BY <1>1, <1>3, <1>4 DEF LeaderAccessTypeOK, LinkJob
<1>10. GivingIsNew'
    <2>1. ASSUME NEW i \in LinkJobs, Giving(i), linkJob[i].login = u PROVE u \in loose
        BY <1>2, <2>1 DEF LinksAreGiven, Given, u
    <2> QED BY <1>1, <1>3, <1>4, <1>5, <2>1 DEF GivingIsNew
<1>11. StepsFollow'
    <2>1. ASSUME NEW i \in LinkJobs, linkJob'[i].step = "revokeSave"
          PROVE  linkJob'[i].userId \in Logins /\ login'[linkJob'[i].userId] = "gone"
        BY <1>2, <1>3, <1>4, <2>1 DEF StepsFollow
    <2> QED BY <1>1, <1>3, <2>1 DEF StepsFollow
<1>12. LinksAreGiven'
    BY <1>1, <1>2, <1>3, <1>4, <1>6 DEF LinksAreGiven, u
<1>13. LeaderLinkHasCause'
    <2> SUFFICES ASSUME NEW a \in Logins, a \notin loose, ~InLink(a)', NEW k \in Holders
                 PROVE  holder[k].userId = a <=> login'[a] = "here" /\ madeFor[a] = k
        BY <1>1 DEF LeaderLinkHasCause
    <2>1. a # u
        BY <1>8
    <2> QED BY <1>4, <1>7, <2>1 DEF LeaderLinkHasCause
<1> QED BY <1>9, <1>10, <1>11, <1>12, <1>13

(* A removed holder leaves its login, and the login is loose. *)
LEMMA RemoveHolderKeeps ==
    ASSUME LeaderInv, NEW h \in Holders, RemoveHolder(h)
    PROVE  LeaderInv'
<1> USE DEF LeaderInv
<1>1. /\ holder[h].state = "here" /\ UNCHANGED <<login, madeFor, linkJob>>
      /\ loose \subseteq loose' /\ loose' \subseteq Logins
      /\ holder[h].userId # NoLogin => holder[h].userId \in loose'
      /\ formEdits' \in 0 .. MaxEditsOfUserId
    BY LeaderTypes, LeaderAccessAssumption DEF RemoveHolder, LeaderAccessTypeOK
<1>2. /\ holder' \in [Holders -> HolderRow]
      /\ holder'[h].state = "gone" /\ holder'[h].userId = NoLogin
      /\ \A k \in Holders \ {h} : holder'[k] = holder[k]
    <2>1. [state |-> "gone", userId |-> NoLogin] \in HolderRow
        BY DEF HolderRow
    <2> QED BY <2>1, LeaderTypes DEF RemoveHolder
<1>3. /\ \A i \in LinkJobs : Giving(i)' <=> Giving(i)
      /\ \A a \in Logins : (Given(a)' <=> Given(a)) /\ (InLink(a)' <=> InLink(a))
    BY <1>1 DEF Giving, Given, InLink
<1>4. LeaderAccessTypeOK' /\ GivingIsNew'
    BY <1>1, <1>2, <1>3 DEF LeaderAccessTypeOK, GivingIsNew
<1>5. StepsFollow'
    <2>1. ASSUME NEW i \in LinkJobs
          PROVE  holder'[linkJob[i].holder].state = "new"
                 <=> holder[linkJob[i].holder].state = "new"
        BY <1>1, <1>2, LeaderTypes
    <2> QED BY <1>1, <2>1 DEF StepsFollow
<1>6. LinksAreGiven'
    <2>1. \A k \in Holders : holder'[k].state # "here" => holder'[k].userId = NoLogin
        BY <1>2 DEF LinksAreGiven
    <2>2. \A k \in Holders, a \in Logins \ loose' :
              holder'[k].userId = a => madeFor[a] = k /\ ~Given(a)
        BY <1>1, <1>2, LeaderAccessAssumption DEF LinksAreGiven
    <2> QED BY <1>1, <1>3, <2>1, <2>2 DEF LinksAreGiven
<1>7. LeaderLinkHasCause'
    <2> SUFFICES ASSUME NEW a \in Logins, a \notin loose', ~InLink(a), NEW k \in Holders
                 PROVE  holder'[k].userId = a <=> login[a] = "here" /\ madeFor[a] = k
        BY <1>1, <1>3 DEF LeaderLinkHasCause
    <2>1. holder'[k].userId = a <=> holder[k].userId = a
        BY <1>1, <1>2, LeaderAccessAssumption
    <2> QED BY <1>1, <2>1 DEF LeaderLinkHasCause
<1> QED BY <1>4, <1>5, <1>6, <1>7

(* A removed login is loose. *)
LEMMA RemoveLoginKeeps ==
    ASSUME LeaderInv, NEW x \in Logins, RemoveLogin(x)
    PROVE  LeaderInv'
<1> USE DEF LeaderInv
<1>1. /\ login[x] = "here" /\ UNCHANGED <<holder, madeFor, linkJob>>
      /\ loose' = loose \union {x} /\ formEdits' \in 0 .. MaxEditsOfUserId
      /\ login' \in [Logins -> {"unused", "here", "gone"}] /\ login'[x] = "gone"
      /\ \A b \in Logins \ {x} : login'[b] = login[b]
    BY LeaderAccessAssumption DEF RemoveLogin, LeaderAccessTypeOK
<1>2. /\ \A i \in LinkJobs : Giving(i)' <=> Giving(i)
      /\ \A a \in Logins : (Given(a)' <=> Given(a)) /\ (InLink(a)' <=> InLink(a))
    BY <1>1 DEF Giving, Given, InLink
<1>3. LeaderAccessTypeOK'
    BY <1>1 DEF LeaderAccessTypeOK
<1>4. GivingIsNew'
    BY <1>1, <1>2 DEF GivingIsNew
<1>5. StepsFollow'
    <2>1. ASSUME NEW i \in LinkJobs, linkJob[i].step = "revokeSave"
          PROVE  login'[linkJob[i].userId] = "gone"
        BY <1>1, <2>1 DEF StepsFollow
    <2> QED BY <1>1, <2>1 DEF StepsFollow
<1>6. LinksAreGiven'
    BY <1>1, <1>2 DEF LinksAreGiven
<1>7. LeaderLinkHasCause'
    BY <1>1, <1>2 DEF LeaderLinkHasCause
<1> QED BY <1>3, <1>4, <1>5, <1>6, <1>7

LEMMA LeaderStutters == ASSUME LeaderInv, UNCHANGED leaderVars PROVE LeaderInv'
BY DEF leaderVars, LeaderInv, LeaderAccessTypeOK, GivingIsNew, StepsFollow, LinksAreGiven,
       LeaderLinkHasCause, Giving, Given, InLink

LEMMA LeaderInvStep == ASSUME LeaderInv, [LeaderAccessNext]_leaderVars PROVE LeaderInv'
<1>1. CASE UNCHANGED leaderVars
    BY <1>1, LeaderStutters
<1>2. CASE \E h \in Holders : RemoveHolder(h)
    BY <1>2, RemoveHolderKeeps
<1>3. CASE \E a \in Logins : RemoveLogin(a)
    BY <1>3, RemoveLoginKeeps
<1>4. ASSUME NEW j \in LinkJobs, LinkEnds(j) \/ CreateHolderSave(j) \/ GrantSave(j)
                                 \/ RevokeLogin(j) \/ RevokeSave(j) \/ UpdateHolderSave(j)
      PROVE  LeaderInv'
    BY <1>4, LinkEndsKeeps, CreateHolderSaveKeeps, GrantSaveKeeps, RevokeLoginKeeps,
       RevokeSaveKeeps, UpdateHolderSaveKeeps
<1>5. ASSUME NEW j \in LinkJobs, NEW h \in Holders,
             CreateHolder(j, h) \/ Grant(j, h) \/ Revoke(j, h) \/ UpdateHolder(j, h)
      PROVE  LeaderInv'
    <2>1. CASE CreateHolder(j, h)
        BY <2>1, CreateHolderKeeps
    <2>2. CASE Grant(j, h)
        BY <2>2, FindsKeeps DEF Grant
    <2>3. CASE Revoke(j, h)
        BY <2>3, FindsKeeps DEF Revoke
    <2>4. CASE UpdateHolder(j, h)
        BY <2>4, FindsKeeps DEF UpdateHolder
    <2> QED BY <1>5, <2>1, <2>2, <2>3, <2>4
<1>6. ASSUME NEW j \in LinkJobs, NEW a \in Logins,
             CreateNewLogin(j, a) \/ GrantLogin(j, a)
      PROVE  LeaderInv'
    <2>1. CASE CreateNewLogin(j, a)
        BY <2>1, CreateLoginKeeps DEF CreateNewLogin
    <2>2. CASE GrantLogin(j, a)
        BY <2>2, CreateLoginKeeps DEF GrantLogin
    <2> QED BY <1>6, <2>1, <2>2
<1>7. ASSUME NEW j \in LinkJobs, NEW a \in Logins \union {NoLogin}, UpdateUserId(j, a)
      PROVE  LeaderInv'
    BY <1>7, UpdateUserIdKeeps
<1>8. ASSUME NEW h \in Holders, NEW a \in Logins, CreateForLogin(h, a) PROVE LeaderInv'
    BY <1>8, CreateForLoginKeeps
<1> QED BY <1>1, <1>2, <1>3, <1>4, <1>5, <1>6, <1>7, <1>8 DEF LeaderAccessNext

(* The inductive invariant: what each step of a request relies on, and what a row or a   *)
(* copy of one may point to, hold in every state of every execution (leaders.service.ts, *)
(* staff.service.ts, users.service.ts).                                                  *)
THEOREM LeaderInvHolds == LeaderAccessSpec => []LeaderInv
BY LeaderInit, LeaderInvStep, PTL DEF LeaderAccessSpec

(* A login that can be used is the userId of the one holder it was made for, and a       *)
(* holder's userId is a login that can be used, unless a request is between its          *)
(* statements or a failure, a removal, a form or two requests at once broke the link.    *)
THEOREM LeaderLinksHaveCause == LeaderAccessSpec => []LeaderLinkHasCause
<1>1. LeaderInv => LeaderLinkHasCause
    BY DEF LeaderInv
<1> QED BY <1>1, LeaderInvHolds, PTL

-----------------------------------------------------------------------------
(* Rows have the numbers from 1 on. *)
LEMMA NextNumber ==
    ASSUME NEW k \in Nat
    PROVE  /\ k + 1 \in Nat /\ k + 1 \notin 1 .. k /\ 1 .. k \union {k + 1} = 1 .. k + 1
           /\ Cardinality(1 .. k + 1) = k + 1
<1>1. 1 .. k \union {k + 1} = 1 .. k + 1
    OBVIOUS
<1>2. 1 \in Int /\ k + 1 \in Int /\ (IF 1 > k + 1 THEN 0 ELSE k + 1 - 1 + 1) = k + 1
    OBVIOUS
<1>3. Cardinality(1 .. k + 1) = k + 1
  <2>1. Cardinality(1 .. k + 1) = IF 1 > k + 1 THEN 0 ELSE k + 1 - 1 + 1
    BY <1>2, FS_Interval
  <2> QED BY <1>2, <2>1
<1> QED BY <1>1, <1>3

-----------------------------------------------------------------------------
(* Leads.tla: requests. *)
LEMMA IdleLead == IdleLeadJob \in LeadJobState /\ IdleLeadJob.step = "idle"
BY LeadsAssumption DEF IdleLeadJob, LeadJobState, NoRow, LeadState

(* The parts of the types that the steps use. *)
LEMMA LeadTypes ==
    ASSUME LeadsTypeOK
    PROVE  /\ leadRow \in [LeadIds -> LeadState]
           /\ madeBy \in [LeadIds -> {"checkout", "late checkout", "hand"}]
           /\ lastOffer \in [LeadIds -> Offers \union {NoOffer}]
           /\ leadJob \in [LeadJobs -> LeadJobState]
           /\ \A j \in LeadJobs :
                 /\ leadJob[j].late \in BOOLEAN
                 /\ leadJob[j].row \in LeadState /\ leadJob[j].asks \in LeadState
                 /\ leadJob[j].row.email \in Written /\ leadJob[j].asks.email \in Written
                 /\ leadJob[j].row.offer \in Offers \union {NoOffer}
                 /\ leadJob[j].asks.offer \in Offers \union {NoOffer}
<1>1. /\ leadRow \in [LeadIds -> LeadState]
      /\ madeBy \in [LeadIds -> {"checkout", "late checkout", "hand"}]
      /\ lastOffer \in [LeadIds -> Offers \union {NoOffer}]
      /\ leadJob \in [LeadJobs -> LeadJobState]
    BY DEF LeadsTypeOK
<1>2. ASSUME NEW j \in LeadJobs
      PROVE  /\ leadJob[j].late \in BOOLEAN
             /\ leadJob[j].row \in LeadState /\ leadJob[j].asks \in LeadState
    BY <1>1 DEF LeadJobState
<1> QED BY <1>1, <1>2 DEF LeadState

(* What a request that wrote lead l leaves of the others. *)
LEMMA OthersAreLate ==
    ASSUME LeadsTypeOK, NEW j \in LeadJobs, NEW l, NEW email, LeadWritten(j, l, email)
    PROVE  /\ leadJob' \in [LeadJobs -> LeadJobState] /\ leadJob'[j] = IdleLeadJob
           /\ \A i \in LeadJobs \ {j} :
                 /\ leadJob'[i].step = leadJob[i].step /\ leadJob'[i].lead = leadJob[i].lead
                 /\ leadJob'[i].row = leadJob[i].row /\ leadJob'[i].asks = leadJob[i].asks
                 /\ leadJob[i].late => leadJob'[i].late
                 /\ leadJob[i].lead = l => leadJob'[i].late
                 /\ leadJob[i].step = "make" /\ leadJob[i].asks.email = email
                    => leadJob'[i].late
<1>1. leadJob \in [LeadJobs -> LeadJobState]
    BY DEF LeadsTypeOK
<1>2. ASSUME NEW i \in LeadJobs \ {j}
      PROVE  \E b \in BOOLEAN :
                 /\ b <=> \/ leadJob[i].late \/ leadJob[i].lead = l
                          \/ leadJob[i].step = "make" /\ leadJob[i].asks.email = email
                 /\ leadJob'[i] = [leadJob[i] EXCEPT !.late = b]
  <2>1. PICK b \in BOOLEAN : b = (leadJob[i].late \/ leadJob[i].lead = l
                          \/ (leadJob[i].step = "make" /\ leadJob[i].asks.email = email))
      OBVIOUS
  <2>2. leadJob'[i] = [leadJob[i] EXCEPT !.late = b]
      BY <2>1 DEF LeadWritten
  <2> QED BY <2>1, <2>2
<1>3. ASSUME NEW i \in LeadJobs \ {j}
      PROVE  /\ leadJob'[i].step = leadJob[i].step /\ leadJob'[i].lead = leadJob[i].lead
             /\ leadJob'[i].row = leadJob[i].row /\ leadJob'[i].asks = leadJob[i].asks
             /\ leadJob[i].late => leadJob'[i].late
             /\ leadJob[i].lead = l => leadJob'[i].late
             /\ leadJob[i].step = "make" /\ leadJob[i].asks.email = email => leadJob'[i].late
             /\ leadJob'[i] \in LeadJobState
  <2>1. PICK row : row = leadJob[i]
      OBVIOUS
  <2>2. row \in LeadJobState
      BY <1>1, <2>1
  <2>3. PICK b \in BOOLEAN :
            /\ b <=> \/ leadJob[i].late \/ leadJob[i].lead = l
                     \/ leadJob[i].step = "make" /\ leadJob[i].asks.email = email
            /\ leadJob'[i] = [leadJob[i] EXCEPT !.late = b]
      BY <1>2
  <2>4. leadJob'[i] = [row EXCEPT !.late = b]
      BY <2>1, <2>3
  <2>5. /\ leadJob'[i] \in LeadJobState /\ leadJob'[i].late = b
        /\ leadJob'[i].step = row.step /\ leadJob'[i].lead = row.lead
        /\ leadJob'[i].row = row.row /\ leadJob'[i].asks = row.asks
      BY ONLY <2>2, <2>4, b \in BOOLEAN DEF LeadJobState
  <2> QED BY <2>1, <2>3, <2>5
<1>4. leadJob'[j] = IdleLeadJob
    BY DEF LeadWritten
<1>5. DOMAIN leadJob' = LeadJobs /\ leadJob' = [i \in LeadJobs |-> leadJob'[i]]
    BY DEF LeadWritten
<1>6. \A i \in LeadJobs : leadJob'[i] \in LeadJobState
    BY <1>3, <1>4, IdleLead
<1> QED BY <1>3, <1>4, <1>5, <1>6

(* A request begins, with a job that holds; nothing else changes. *)
LEMMA LeadJobMoves ==
    ASSUME LeadsInv, NEW j \in LeadJobs, NEW job \in LeadJobState,
           leadJob' = [leadJob EXCEPT ![j] = job],
           UNCHANGED <<leadRow, offersHere, leadPast>>, subscribed' \subseteq LeadIds,
           \/ job.step = "idle"
           \/ /\ job.step = "make" /\ job.asks.here
              /\ Normal[job.asks.email] = job.asks.email
              /\ \A l \in LeadsHere : leadRow[l].email # job.asks.email
           \/ /\ job.step \in {"upsert", "update"}
              /\ job.lead \in LeadsHere /\ job.row = leadRow[job.lead]
    PROVE  LeadsInv'
<1>1. leadRow' = leadRow /\ madeBy' = madeBy /\ edited' = edited /\ lastOffer' = lastOffer
      /\ overwritten' = overwritten /\ offersHere' = offersHere
    BY DEF leadPast
<1>2. LeadIds' = LeadIds /\ LeadsHere' = LeadsHere
    BY <1>1 DEF LeadIds, LeadsHere
<1>3. LeadsTypeOK'
    BY <1>1, <1>2 DEF LeadsInv, LeadsTypeOK
<1>4. LeadsAgree'
  <2>1. LeadsAgree
    BY DEF LeadsInv
  <2>2. \A k \in LeadsHere : leadRow'[k].offer = lastOffer'[k] \/ k \in overwritten'
    BY <1>1, <2>1 DEF LeadsAgree
  <2>3. ASSUME NEW m \in LeadsHere, NEW k \in LeadsHere, m # k,
               Normal[leadRow'[m].email] = Normal[leadRow'[k].email],
               {madeBy'[m], madeBy'[k]} \subseteq {"checkout", "late checkout"}
        PROVE  "late checkout" \in {madeBy'[m], madeBy'[k]} \/ {m, k} \intersect edited' # {}
    BY <1>1, <2>1, <2>3 DEF LeadsAgree
  <2> QED BY <1>2, <2>2, <2>3, ZenonT(40) DEF LeadsAgree
<1>7. \A l \in LeadIds : LeadIsFound(l)'
    BY <1>1, <1>2 DEF LeadsInv, LeadIsFound
<1>5. leadJob'[j] = job /\ \A i \in LeadJobs \ {j} : leadJob'[i] = leadJob[i]
    BY DEF LeadsInv, LeadsTypeOK
<1>6. ASSUME NEW i \in LeadJobs PROVE LeadJobIsLate(i)'
  <2>1. CASE i # j
    BY <1>1, <1>2, <1>5, <2>1 DEF LeadsInv, LeadJobIsLate
  <2>2. CASE i = j
    BY <1>1, <1>2, <1>5, <2>2 DEF LeadJobIsLate, LeadsHere
  <2> QED BY <2>1, <2>2
<1> QED BY <1>2, <1>3, <1>4, <1>6, <1>7 DEF LeadsInv

(* A lead is inserted. *)
LEMMA LeadIsInserted ==
    ASSUME LeadsInv, NEW j \in LeadJobs, NEW row \in LeadState, row.here,
           NEW by \in {"checkout", "late checkout", "hand"}, InsertLead(j, row, by),
           by # "hand" => Normal[row.email] = row.email,
           by = "checkout" => \A l \in LeadsHere : leadRow[l].email # row.email
    PROVE  LeadsInv'
<1>0. LeadsTypeOK
    BY DEF LeadsInv
<1>a. PICK n : n = Cardinality(LeadIds) + 1
    OBVIOUS
<1>1. /\ n \in Nat /\ n \notin LeadIds /\ LeadIds \union {n} = 1 .. n
      /\ Cardinality(LeadIds \union {n}) = n
  <2>1. PICK k \in Nat : k = Cardinality(LeadIds)
    BY <1>0 DEF LeadsTypeOK
  <2>2. LeadIds = 1 .. k /\ n = k + 1
    BY <1>0, <1>a, <2>1 DEF LeadsTypeOK
  <2>3. n \in Nat /\ n \notin LeadIds /\ LeadIds \union {n} = 1 .. n
    BY <2>1, <2>2, NextNumber
  <2>4. Cardinality(1 .. n) = n
    BY <2>1, <2>2, NextNumber
  <2> QED BY <2>3, <2>4
<1>2. /\ leadRow' = With(leadRow, n, row) /\ madeBy' = With(madeBy, n, by)
      /\ lastOffer' = With(lastOffer, n, row.offer) /\ LeadWritten(j, n, row.email)
      /\ edited' = edited /\ overwritten' = overwritten /\ subscribed' = subscribed
      /\ offersHere' = offersHere
    BY <1>a DEF InsertLead
<1>3. /\ leadRow \in [LeadIds -> LeadState]
      /\ madeBy \in [LeadIds -> {"checkout", "late checkout", "hand"}]
      /\ lastOffer \in [LeadIds -> Offers \union {NoOffer}]
    BY <1>0, LeadTypes
<1>4. /\ LeadIds' = LeadIds \union {n}
      /\ leadRow'[n] = row /\ madeBy'[n] = by /\ lastOffer'[n] = row.offer
      /\ \A l \in LeadIds : /\ leadRow'[l] = leadRow[l] /\ madeBy'[l] = madeBy[l]
                            /\ lastOffer'[l] = lastOffer[l]
    BY <1>1, <1>2, <1>3 DEF With, LeadIds
<1>5. LeadIds' = 1 .. n /\ Cardinality(LeadIds') = n
    BY <1>1, <1>4
<1>6. /\ leadRow' \in [LeadIds' -> LeadState]
      /\ madeBy' \in [LeadIds' -> {"checkout", "late checkout", "hand"}]
      /\ lastOffer' \in [LeadIds' -> Offers \union {NoOffer}]
  <2>1. row.offer \in Offers \union {NoOffer}
    BY DEF LeadState
  <2>2. LeadIds' = DOMAIN leadRow \union {n} /\ LeadIds = DOMAIN leadRow
    BY <1>4 DEF LeadIds
  <2>3. DOMAIN madeBy = DOMAIN leadRow /\ DOMAIN lastOffer = DOMAIN leadRow
    BY <1>3 DEF LeadIds
  <2> QED BY <1>2, <1>3, <2>1, <2>2, <2>3 DEF With
<1>7. /\ leadJob' \in [LeadJobs -> LeadJobState] /\ leadJob'[j] = IdleLeadJob
      /\ \A i \in LeadJobs \ {j} :
            /\ leadJob'[i].step = leadJob[i].step /\ leadJob'[i].lead = leadJob[i].lead
            /\ leadJob'[i].row = leadJob[i].row /\ leadJob'[i].asks = leadJob[i].asks
            /\ leadJob[i].late => leadJob'[i].late
            /\ leadJob[i].lead = n => leadJob'[i].late
            /\ leadJob[i].step = "make" /\ leadJob[i].asks.email = row.email
               => leadJob'[i].late
  <2>1. LeadWritten(j, n, row.email)
    BY <1>2
  <2> QED BY <1>0, <2>1, OthersAreLate, ZenonT(40)
<1>8. LeadsTypeOK'
  <2>1. Cardinality(LeadIds)' = n /\ LeadIds' = 1 .. n
    BY <1>5
  <2>2. subscribed' \subseteq LeadIds' /\ offersHere' \subseteq Offers
    BY <1>0, <1>2, <1>4 DEF LeadsTypeOK
  <2> QED BY <1>1, <1>6, <1>7, <2>1, <2>2 DEF LeadsTypeOK
<1>9. LeadsHere' = LeadsHere \union {n}
    BY <1>4 DEF LeadsHere
<1>10. ASSUME NEW l \in LeadIds' PROVE LeadIsFound(l)'
  <2>1. CASE l = n
    BY <1>2, <1>4, <2>1 DEF LeadIsFound
  <2>2. CASE l # n
    <3>1. l \in LeadIds /\ LeadIsFound(l)
      BY <1>4, <2>2 DEF LeadsInv
    <3> QED BY <1>2, <1>4, <3>1 DEF LeadIsFound
  <2> QED BY <2>1, <2>2
<1>11. LeadsAgree'
  <2>1. \A l \in LeadsHere' : leadRow'[l].offer = lastOffer'[l] \/ l \in overwritten'
    BY <1>10, <1>9, <1>4 DEF LeadIsFound, LeadsHere
  <2>2. ASSUME NEW l \in LeadsHere', NEW k \in LeadsHere', l # k,
               Normal[leadRow'[l].email] = Normal[leadRow'[k].email],
               {madeBy'[l], madeBy'[k]} \subseteq {"checkout", "late checkout"},
               "late checkout" \notin {madeBy'[l], madeBy'[k]},
               {l, k} \intersect edited' = {}
        PROVE  FALSE
    <3>1. CASE l # n /\ k # n
      <4>1. LeadsAgree
        BY DEF LeadsInv
      <4>2. l \in LeadsHere /\ k \in LeadsHere /\ l \in LeadIds /\ k \in LeadIds
        BY <1>9, <3>1 DEF LeadsHere
      <4>3. /\ leadRow'[l] = leadRow[l] /\ madeBy'[l] = madeBy[l]
            /\ leadRow'[k] = leadRow[k] /\ madeBy'[k] = madeBy[k] /\ edited' = edited
        BY <1>2, <1>4, <4>2
      <4> QED BY <2>2, <4>1, <4>2, <4>3 DEF LeadsAgree
    <3>2. ASSUME NEW m \in LeadsHere, by = "checkout", m \notin edited, madeBy[m] = "checkout",
                 Normal[leadRow[m].email] = Normal[row.email]
          PROVE  FALSE
      <4>1. Normal[leadRow[m].email] = leadRow[m].email
        BY <3>2 DEF LeadsInv, LeadIsFound, LeadsHere
      <4> QED BY <4>1, <3>2
    <3>3. CASE l = n
      BY <1>2, <1>4, <1>9, <2>2, <3>2, <3>3, ZenonT(40) DEF LeadsHere
    <3>4. CASE k = n
      BY <1>2, <1>4, <1>9, <2>2, <3>2, <3>4, ZenonT(40) DEF LeadsHere
    <3> QED BY <3>1, <3>3, <3>4
  <2> QED BY <2>1, <2>2 DEF LeadsAgree
<1>12. ASSUME NEW i \in LeadJobs PROVE LeadJobIsLate(i)'
  <2>1. CASE i = j
    BY <1>7, <2>1, IdleLead DEF LeadJobIsLate
  <2>2. CASE i # j
    <3>1. LeadJobIsLate(i)
      BY DEF LeadsInv
    <3>2. /\ leadJob'[i].step = leadJob[i].step /\ leadJob'[i].lead = leadJob[i].lead
          /\ leadJob'[i].row = leadJob[i].row /\ leadJob'[i].asks = leadJob[i].asks
          /\ leadJob[i].late => leadJob'[i].late
          /\ leadJob[i].step = "make" /\ leadJob[i].asks.email = row.email
             => leadJob'[i].late
      BY <1>7, <2>2
    <3>3. ASSUME leadJob[i].step = "make", ~leadJob'[i].late
          PROVE  \A l \in LeadsHere' : leadRow'[l].email # leadJob[i].asks.email
      BY <1>4, <1>9, <3>1, <3>2, <3>3 DEF LeadJobIsLate, LeadsHere
    <3>4. CASE leadJob[i].step = "make"
      BY <3>1, <3>2, <3>3, <3>4 DEF LeadJobIsLate
    <3>5. CASE leadJob[i].step # "make"
      <4>1. \A l \in LeadIds : l \in LeadIds' /\ leadRow'[l] = leadRow[l]
        BY <1>4
      <4> QED BY <1>2, <4>1, <3>1, <3>2, <3>5 DEF LeadJobIsLate
    <3> QED BY <3>4, <3>5
  <2> QED BY <2>1, <2>2
<1> QED BY <1>8, <1>10, <1>11, <1>12 DEF LeadsInv

(* A lead is saved. *)
LEMMA LeadIsSaved ==
    ASSUME LeadsInv, NEW j \in LeadJobs, NEW l, l = leadJob[j].lead,
           leadJob[j].step \in {"upsert", "update"},
           NEW row \in LeadState, row.here, NEW offer \in Offers \union {NoOffer},
           SaveLead(j, row, offer),
           edited \subseteq edited', edited' \subseteq edited \union {l},
           l \in edited' \/ row.email = leadRow[l].email,
           NEW isLate \in BOOLEAN, isLate = leadJob[j].late,
           isLate \/ l \in overwritten \/ row.offer = offer
    PROVE  LeadsInv'
<1>0. LeadsTypeOK /\ l \in LeadIds
    BY DEF LeadsInv, LeadJobIsLate
<1>1. /\ leadRow' = [leadRow EXCEPT ![l] = row] /\ LeadWritten(j, l, row.email)
      /\ lastOffer' = [lastOffer EXCEPT ![l] = offer]
      /\ overwritten' = IF isLate THEN overwritten \union {l} ELSE overwritten
      /\ madeBy' = madeBy /\ subscribed' = subscribed /\ offersHere' = offersHere
    BY DEF SaveLead
<1>2. /\ leadRow \in [LeadIds -> LeadState]
      /\ madeBy \in [LeadIds -> {"checkout", "late checkout", "hand"}]
      /\ lastOffer \in [LeadIds -> Offers \union {NoOffer}]
    BY <1>0, LeadTypes
<1>3. LeadIds' = LeadIds
    BY <1>1, <1>2 DEF LeadIds
<1>4. /\ leadRow'[l] = row /\ lastOffer'[l] = offer
      /\ \A k \in LeadIds \ {l} : leadRow'[k] = leadRow[k] /\ lastOffer'[k] = lastOffer[k]
    BY <1>0, <1>1, <1>2
<1>5. /\ leadJob' \in [LeadJobs -> LeadJobState] /\ leadJob'[j] = IdleLeadJob
      /\ \A i \in LeadJobs \ {j} :
            /\ leadJob'[i].step = leadJob[i].step /\ leadJob'[i].lead = leadJob[i].lead
            /\ leadJob'[i].row = leadJob[i].row /\ leadJob'[i].asks = leadJob[i].asks
            /\ leadJob[i].late => leadJob'[i].late
            /\ leadJob[i].lead = l => leadJob'[i].late
            /\ leadJob[i].step = "make" /\ leadJob[i].asks.email = row.email
               => leadJob'[i].late
    BY <1>0, <1>1, OthersAreLate
<1>6. LeadsTypeOK'
    BY <1>0, <1>1, <1>2, <1>3, <1>5 DEF LeadsTypeOK
<1>7. LeadsHere' = LeadsHere \union {l}
    BY <1>0, <1>3, <1>4 DEF LeadsHere
<1>8. ASSUME NEW k \in LeadIds PROVE LeadIsFound(k)'
  <2>1. LeadIsFound(k)
    BY DEF LeadsInv
  <2>2. CASE k = l
    <3>1. leadRow'[l] = row /\ lastOffer'[l] = offer /\ madeBy'[l] = madeBy[l] /\ row.here
      BY <1>1, <1>4
    <3>3. leadRow'[l].here
      BY <3>1
    <3>4. l \in edited' \/ madeBy'[l] = "hand" \/ Normal[leadRow'[l].email] = leadRow'[l].email
      BY <2>1, <2>2, <3>1 DEF LeadIsFound
    <3>5. leadRow'[l].offer = lastOffer'[l] \/ l \in overwritten'
      BY <1>1, <3>1
    <3> QED BY <2>2, <3>3, <3>4, <3>5 DEF LeadIsFound
  <2>3. CASE k # l
    <3>1. leadRow'[k] = leadRow[k] /\ lastOffer'[k] = lastOffer[k] /\ madeBy'[k] = madeBy[k]
      BY <1>1, <1>4, <2>3
    <3>2. k \in edited' <=> k \in edited
      BY <2>3
    <3>3. k \in overwritten => k \in overwritten'
      BY <1>1
    <3> QED BY <2>1, <3>1, <3>2, <3>3 DEF LeadIsFound
  <2> QED BY <2>2, <2>3
<1>9. \A k \in LeadsHere' : /\ k \in LeadIds
                            /\ k \notin edited' => /\ k \notin edited /\ k \in LeadsHere
                                                   /\ leadRow'[k].email = leadRow[k].email
    BY <1>0, <1>3, <1>4, <1>7 DEF LeadsInv, LeadIsFound, LeadsHere
<1>10. LeadsAgree'
  <2>1. \A k \in LeadsHere' : leadRow'[k].offer = lastOffer'[k] \/ k \in overwritten'
    BY <1>8, <1>9 DEF LeadIsFound
  <2>2. ASSUME NEW m \in LeadsHere', NEW k \in LeadsHere', m # k,
               Normal[leadRow'[m].email] = Normal[leadRow'[k].email],
               {madeBy'[m], madeBy'[k]} \subseteq {"checkout", "late checkout"},
               "late checkout" \notin {madeBy'[m], madeBy'[k]},
               {m, k} \intersect edited' = {}
        PROVE  FALSE
    <3>1. LeadsAgree
      BY DEF LeadsInv
    <3>2. /\ m \in LeadsHere /\ k \in LeadsHere /\ m \notin edited /\ k \notin edited
          /\ leadRow'[m].email = leadRow[m].email /\ leadRow'[k].email = leadRow[k].email
          /\ madeBy' = madeBy
      BY <1>1, <1>9, <2>2
    <3>3. /\ m # k /\ Normal[leadRow[m].email] = Normal[leadRow[k].email]
          /\ {madeBy[m], madeBy[k]} \subseteq {"checkout", "late checkout"}
          /\ "late checkout" \notin {madeBy[m], madeBy[k]} /\ {m, k} \intersect edited = {}
      BY <2>2, <3>2
    <3> QED BY <3>1, <3>2, <3>3 DEF LeadsAgree
  <2> QED BY <2>1, <2>2 DEF LeadsAgree
<1>11. ASSUME NEW i \in LeadJobs PROVE LeadJobIsLate(i)'
  <2>1. CASE i = j
    BY <1>5, <2>1, IdleLead DEF LeadJobIsLate
  <2>2. CASE i # j
    <3>1. LeadJobIsLate(i)
      BY DEF LeadsInv
    <3>2. /\ leadJob'[i].step = leadJob[i].step /\ leadJob'[i].lead = leadJob[i].lead
          /\ leadJob'[i].row = leadJob[i].row /\ leadJob'[i].asks = leadJob[i].asks
          /\ leadJob[i].late => leadJob'[i].late
          /\ leadJob[i].lead = l => leadJob'[i].late
          /\ leadJob[i].step = "make" /\ leadJob[i].asks.email = row.email
             => leadJob'[i].late
      BY <1>5, <2>2
    <3>3. ASSUME leadJob[i].step = "make"
          PROVE  LeadJobIsLate(i)'
      BY <1>4, <1>7, <3>1, <3>2, <3>3 DEF LeadJobIsLate, LeadsHere
    <3>4. ASSUME leadJob[i].step # "make"
          PROVE  LeadJobIsLate(i)'
      <4>1. CASE leadJob[i].lead = l
        <5>1. leadJob'[i].late
          BY <3>2, <4>1
        <5>2. l \in edited' \/ leadJob[i].row.email = leadRow'[l].email
               \/ leadJob[i].step \notin {"upsert", "update"}
          BY <1>4, <1>7, <3>1, <4>1 DEF LeadJobIsLate
        <5> QED BY <1>3, <3>1, <3>2, <3>4, <4>1, <5>1, <5>2 DEF LeadJobIsLate
      <4>2. CASE leadJob[i].lead # l
        <5>1. leadJob[i].lead \in LeadIds => leadRow'[leadJob[i].lead] = leadRow[leadJob[i].lead]
          BY <1>4, <4>2
        <5> QED BY <1>1, <1>3, <3>1, <3>2, <3>4, <5>1 DEF LeadJobIsLate
      <4> QED BY <4>1, <4>2
    <3> QED BY <3>3, <3>4
  <2> QED BY <2>1, <2>2
<1> QED BY <1>3, <1>6, <1>8, <1>10, <1>11 DEF LeadsInv

(* A lead is removed. *)
LEMMA LeadIsRemoved ==
    ASSUME LeadsInv, NEW l \in LeadIds, RemoveLead(l)
    PROVE  LeadsInv'
<1>1. /\ leadRow' = [leadRow EXCEPT ![l].here = FALSE] /\ madeBy' = madeBy
      /\ edited' = edited \union {l} /\ lastOffer' = lastOffer
      /\ overwritten' = overwritten /\ subscribed' = subscribed /\ l \notin subscribed
      /\ offersHere' = offersHere
    BY DEF RemoveLead
<1>2. /\ leadRow \in [LeadIds -> LeadState] /\ leadJob \in [LeadJobs -> LeadJobState]
    BY LeadTypes DEF LeadsInv
<1>3. LeadIds' = LeadIds
    BY <1>1, <1>2 DEF LeadIds
<1>4. /\ leadRow'[l] \in LeadState /\ ~leadRow'[l].here
      /\ leadRow'[l].email = leadRow[l].email /\ leadRow'[l].offer = leadRow[l].offer
      /\ \A k \in LeadIds \ {l} : leadRow'[k] = leadRow[k]
    BY <1>1, <1>2 DEF LeadState
<1>5. LeadsHere' = LeadsHere \ {l}
    BY <1>3, <1>4 DEF LeadsHere
<1>6. ASSUME NEW i \in LeadJobs
      PROVE  /\ leadJob'[i] \in LeadJobState
             /\ leadJob'[i].step = leadJob[i].step /\ leadJob'[i].lead = leadJob[i].lead
             /\ leadJob'[i].row = leadJob[i].row /\ leadJob'[i].asks = leadJob[i].asks
             /\ leadJob[i].late => leadJob'[i].late
             /\ leadJob[i].lead = l => leadJob'[i].late
  <2>1. PICK b \in BOOLEAN : b = (leadJob[i].late \/ leadJob[i].lead = l)
    OBVIOUS
  <2>2. leadJob'[i] = [leadJob[i] EXCEPT !.late = b]
    BY <2>1 DEF RemoveLead
  <2>3. leadJob[i] \in LeadJobState
    BY <1>2
  <2> QED BY <2>1, <2>2, <2>3 DEF LeadJobState
<1>7. LeadsTypeOK'
  <2>1. leadRow' \in [LeadIds -> LeadState]
    BY <1>1, <1>2, <1>4
  <2>2. leadJob' \in [LeadJobs -> LeadJobState]
    BY <1>6 DEF RemoveLead
  <2> QED BY <1>1, <1>3, <2>1, <2>2 DEF LeadsInv, LeadsTypeOK
<1>8. ASSUME NEW k \in LeadIds PROVE LeadIsFound(k)'
    BY <1>1, <1>4 DEF LeadsInv, LeadIsFound
<1>9. LeadsAgree'
  <2>1. LeadsAgree
    BY DEF LeadsInv
  <2>2. \A k \in LeadsHere' : /\ k \in LeadsHere /\ leadRow'[k] = leadRow[k]
                              /\ k \in edited' => k \in edited
    BY <1>1, <1>4, <1>5 DEF LeadsHere
  <2>3. \A k \in LeadsHere' : leadRow'[k].offer = lastOffer'[k] \/ k \in overwritten'
    BY <1>1, <2>1, <2>2 DEF LeadsAgree
  <2>4. ASSUME NEW m \in LeadsHere', NEW k \in LeadsHere', m # k,
               Normal[leadRow'[m].email] = Normal[leadRow'[k].email],
               {madeBy'[m], madeBy'[k]} \subseteq {"checkout", "late checkout"}
        PROVE  "late checkout" \in {madeBy'[m], madeBy'[k]} \/ {m, k} \intersect edited' # {}
    <3>1. /\ m \in LeadsHere /\ k \in LeadsHere
          /\ leadRow'[m] = leadRow[m] /\ leadRow'[k] = leadRow[k]
          /\ madeBy' = madeBy /\ edited \subseteq edited'
      BY <1>1, <2>2
    <3>2. "late checkout" \in {madeBy[m], madeBy[k]} \/ {m, k} \intersect edited # {}
      BY <2>1, <2>4, <3>1 DEF LeadsAgree
    <3> QED BY <3>1, <3>2
  <2> QED BY <2>3, <2>4 DEF LeadsAgree
<1>10. ASSUME NEW i \in LeadJobs PROVE LeadJobIsLate(i)'
  <2>1. LeadJobIsLate(i)
    BY DEF LeadsInv
  <2>2. ASSUME leadJob[i].step = "make" PROVE LeadJobIsLate(i)'
    BY <1>4, <1>5, <1>6, <2>1, <2>2 DEF LeadJobIsLate, LeadsHere
  <2>3. ASSUME leadJob[i].step # "make" PROVE LeadJobIsLate(i)'
    BY <1>1, <1>3, <1>4, <1>6, <2>1, <2>3 DEF LeadJobIsLate
  <2> QED BY <2>2, <2>3
<1> QED BY <1>3, <1>7, <1>8, <1>9, <1>10 DEF LeadsInv

(* A plan is removed: its leads have none, and what requests hold of it is refused. *)
LEMMA OfferIsRemoved ==
    ASSUME LeadsInv, NEW p \in Offers, RemoveOffer(p)
    PROVE  LeadsInv'
<1>1. /\ offersHere' = offersHere \ {p}
      /\ leadRow' = [l \in LeadIds |->
                        [leadRow[l] EXCEPT !.offer = IF @ = p THEN NoOffer ELSE @]]
      /\ lastOffer' = [l \in LeadIds |-> IF lastOffer[l] = p THEN NoOffer ELSE lastOffer[l]]
      /\ subscribed' = subscribed /\ leadJob' = leadJob /\ madeBy' = madeBy
      /\ edited' = edited /\ overwritten' = overwritten
    BY DEF RemoveOffer
<1>2. /\ leadRow \in [LeadIds -> LeadState] /\ leadJob \in [LeadJobs -> LeadJobState]
      /\ lastOffer \in [LeadIds -> Offers \union {NoOffer}]
    BY LeadTypes DEF LeadsInv
<1>3. LeadIds' = LeadIds
    BY <1>1, <1>2 DEF LeadIds
<1>4. ASSUME NEW l \in LeadIds
      PROVE  /\ leadRow'[l] \in LeadState /\ leadRow'[l].here = leadRow[l].here
             /\ leadRow'[l].email = leadRow[l].email
             /\ leadRow'[l].offer = IF leadRow[l].offer = p THEN NoOffer ELSE leadRow[l].offer
             /\ leadRow'[l] = [leadRow[l] EXCEPT !.offer = leadRow'[l].offer]
  <2>1. PICK row : row = leadRow[l]
    OBVIOUS
  <2>2. PICK saved : saved = [row EXCEPT !.offer = IF @ = p THEN NoOffer ELSE @]
    OBVIOUS
  <2>3. row \in LeadState /\ leadRow'[l] = saved
    BY <1>1, <1>2, <2>1, <2>2
  <2>4. /\ saved \in LeadState /\ saved.here = row.here /\ saved.email = row.email
        /\ saved.offer = IF row.offer = p THEN NoOffer ELSE row.offer
    BY ONLY <2>2, <2>3 DEF LeadState
  <2>5. saved = [row EXCEPT !.offer = saved.offer]
    BY ONLY <2>2, <2>3, <2>4 DEF LeadState
  <2> QED BY <2>1, <2>3, <2>4, <2>5
<1>5. LeadsHere' = LeadsHere
    BY <1>3, <1>4 DEF LeadsHere
<1>6. LeadsTypeOK'
  <2>1. leadRow' \in [LeadIds -> LeadState]
    BY <1>1, <1>4
  <2>2. lastOffer' \in [LeadIds -> Offers \union {NoOffer}]
    BY <1>1, <1>2
  <2> QED BY <1>1, <1>3, <2>1, <2>2 DEF LeadsInv, LeadsTypeOK
<1>7. ASSUME NEW k \in LeadIds PROVE LeadIsFound(k)'
  <2>1. LeadIsFound(k)
    BY DEF LeadsInv
  <2>2. lastOffer'[k] = IF lastOffer[k] = p THEN NoOffer ELSE lastOffer[k]
    BY <1>1
  <2>3. leadRow'[k].offer = lastOffer'[k] \/ k \in overwritten'
    BY <1>1, <1>4, <2>1, <2>2 DEF LeadIsFound
  <2> QED BY <1>1, <1>4, <2>1, <2>3 DEF LeadIsFound
<1>8. LeadsAgree'
  <2>1. LeadsAgree
    BY DEF LeadsInv
  <2>2. \A k \in LeadsHere' : leadRow'[k].offer = lastOffer'[k] \/ k \in overwritten'
    BY <1>5, <1>7 DEF LeadIsFound, LeadsHere
  <2>3. ASSUME NEW m \in LeadsHere', NEW k \in LeadsHere', m # k,
               Normal[leadRow'[m].email] = Normal[leadRow'[k].email],
               {madeBy'[m], madeBy'[k]} \subseteq {"checkout", "late checkout"}
        PROVE  "late checkout" \in {madeBy'[m], madeBy'[k]} \/ {m, k} \intersect edited' # {}
    <3>1. /\ m \in LeadsHere /\ k \in LeadsHere /\ madeBy' = madeBy /\ edited' = edited
          /\ leadRow'[m].email = leadRow[m].email /\ leadRow'[k].email = leadRow[k].email
      BY <1>1, <1>4, <1>5 DEF LeadsHere
    <3>2. "late checkout" \in {madeBy[m], madeBy[k]} \/ {m, k} \intersect edited # {}
      BY <2>1, <2>3, <3>1 DEF LeadsAgree
    <3> QED BY <3>1, <3>2
  <2> QED BY <2>2, <2>3 DEF LeadsAgree
<1>9. ASSUME NEW i \in LeadJobs PROVE LeadJobIsLate(i)'
  <2>1. LeadJobIsLate(i)
    BY DEF LeadsInv
  <2>2. ASSUME leadJob[i].step = "make" PROVE LeadJobIsLate(i)'
    <3>1. \A l \in LeadsHere : leadRow'[l].email = leadRow[l].email
      BY <1>4 DEF LeadsHere
    <3> QED BY <1>1, <1>5, <2>1, <2>2, <3>1 DEF LeadJobIsLate
  <2>3. ASSUME leadJob[i].step \in {"upsert", "update"} PROVE LeadJobIsLate(i)'
    <3>1. PICK l : l = leadJob[i].lead
      OBVIOUS
    <3>2. PICK row : row = leadJob[i].row
      OBVIOUS
    <3>3. /\ l \in LeadIds /\ row.here
          /\ \/ leadJob[i].late \/ row = leadRow[l]
             \/ row.offer \in Offers \ offersHere
          /\ l \in edited \/ row.email = leadRow[l].email
      BY <2>1, <2>3, <3>1, <3>2 DEF LeadJobIsLate
    <3>4. \/ leadJob[i].late \/ row = leadRow'[l]
          \/ row.offer \in Offers \ offersHere'
      <4>1. CASE row = leadRow[l] /\ row.offer # p
        <5>1. leadRow'[l] = [row EXCEPT !.offer = row.offer]
          BY <1>4, <3>3, <4>1
        <5>2. row \in LeadState
          BY <1>2, <3>3, <4>1
        <5>3. leadRow'[l] = row
          BY ONLY <5>1, <5>2 DEF LeadState
        <5> QED BY <5>3
      <4>2. CASE row = leadRow[l] /\ row.offer = p
        BY <1>1, <4>2
      <4>3. CASE row.offer \in Offers \ offersHere
        BY <1>1, <4>3
      <4> QED BY <3>3, <4>1, <4>2, <4>3
    <3>5. leadRow'[l].email = leadRow[l].email
      BY <1>4, <3>3
    <3> QED BY <1>1, <1>3, <2>3, <3>1, <3>2, <3>3, <3>4, <3>5 DEF LeadJobIsLate
  <2>4. ASSUME leadJob[i].step = "idle" PROVE LeadJobIsLate(i)'
    BY <1>1, <2>4 DEF LeadJobIsLate
  <2> QED BY <1>2, <2>2, <2>3, <2>4 DEF LeadJobState
<1> QED BY <1>3, <1>6, <1>7, <1>8, <1>9 DEF LeadsInv

-----------------------------------------------------------------------------
LEMMA LeadsInvInit == LeadsInit => LeadsInv
<1> SUFFICES ASSUME LeadsInit PROVE LeadsInv
    OBVIOUS
<1>1. LeadIds = {} /\ LeadsHere = {}
    BY DEF LeadsInit, LeadIds, LeadsHere
<1>2. Cardinality({}) = 0
    BY FS_EmptySet
<1>3. LeadsTypeOK
    BY <1>1, <1>2, IdleLead DEF LeadsInit, LeadsTypeOK, LeadIds
<1>4. \A j \in LeadJobs : LeadJobIsLate(j)
    BY IdleLead DEF LeadsInit, LeadJobIsLate
<1> QED BY <1>1, <1>3, <1>4 DEF LeadsInv, LeadsAgree

(* Requests that ask. *)
LEMMA LeadAsks ==
    ASSUME LeadsInv, NEW j \in LeadJobs,
           \/ \E a \in Written, p \in Offers \union {NoOffer}, l \in LeadIds :
                 UpdateLead(j, l, a, p)
           \/ \E a \in Written, p \in Offers : Upsert(j, a, p)
           \/ LeadJobStops(j)
    PROVE  LeadsInv'
<1>1. LeadsTypeOK /\ subscribed \subseteq LeadIds
    BY DEF LeadsInv, LeadsTypeOK
<1>5. LeadIds \subseteq Nat
  <2>1. LeadIds = 1 .. Cardinality(LeadIds) /\ Cardinality(LeadIds) \in Nat
    BY <1>1 DEF LeadsTypeOK
  <2> QED BY <2>1
<1>2. ASSUME NEW a \in Written, NEW p \in Offers \union {NoOffer}, NEW l \in LeadIds,
             UpdateLead(j, l, a, p)
      PROVE  LeadsInv'
  <2>1. PICK job : job = [IdleLeadJob EXCEPT !.step = "update", !.lead = l, !.asks = Row(a, p),
                                             !.row = leadRow[l]]
    OBVIOUS
  <2>2. leadRow[l] \in LeadState /\ Row(a, p) \in LeadState /\ l \in Nat
    <3>1. Row(a, p) \in LeadState
      BY DEF Row, LeadState
    <3> QED BY <1>1, <1>5, <3>1, LeadTypes
  <2>3. /\ job \in LeadJobState /\ job.step = "update" /\ job.lead = l
        /\ job.row = leadRow[l]
    BY <2>1, <2>2, IdleLead DEF LeadJobState
  <2>4. AsksLead(j, job) /\ l \in LeadsHere
    BY <1>2, <2>1 DEF UpdateLead
  <2> QED BY <1>1, <2>3, <2>4, LeadJobMoves DEF AsksLead
<1>3. ASSUME NEW a \in Written, NEW p \in Offers, Upsert(j, a, p) PROVE LeadsInv'
  <2>1. PICK asks : asks = Row(NormalOf(a), p)
    OBVIOUS
  <2>2. /\ asks \in LeadState /\ asks.here /\ Normal[asks.email] = asks.email
        /\ asks.email = NormalOf(a)
    BY <2>1, LeadsAssumption DEF Row, LeadState, NormalOf
  <2>3. PICK job : job = [IdleLeadJob EXCEPT !.asks = asks]
    OBVIOUS
  <2>4. job \in LeadJobState
    BY <2>2, <2>3, IdleLead DEF LeadJobState
  <2>5. CASE /\ {l \in LeadsHere : leadRow[l].email = NormalOf(a)} = {}
             /\ AsksLead(j, [job EXCEPT !.step = "make"])
    <3>1. PICK make : make = [job EXCEPT !.step = "make"]
      OBVIOUS
    <3>2. make \in LeadJobState /\ make.step = "make" /\ make.asks = asks
      BY <2>3, <2>4, <3>1, IdleLead DEF LeadJobState
    <3> QED BY <1>1, <2>2, <2>5, <3>1, <3>2, LeadJobMoves DEF AsksLead
  <2>6. ASSUME NEW l \in LeadsHere,
               AsksLead(j, [job EXCEPT !.step = "upsert", !.lead = l, !.row = leadRow[l]])
        PROVE  LeadsInv'
    <3>1. PICK up : up = [job EXCEPT !.step = "upsert", !.lead = l, !.row = leadRow[l]]
      OBVIOUS
    <3>2. leadRow[l] \in LeadState /\ l \in Nat
      BY <1>1, <1>5, LeadTypes DEF LeadsHere
    <3>3. /\ up \in LeadJobState /\ up.step = "upsert" /\ up.lead = l
          /\ up.row = leadRow[l]
      BY <2>4, <3>1, <3>2 DEF LeadJobState
    <3> QED BY <1>1, <2>6, <3>1, <3>3, LeadJobMoves DEF AsksLead
  <2> QED BY <1>3, <2>1, <2>3, <2>5, <2>6 DEF Upsert
<1>4. CASE LeadJobStops(j)
    BY <1>1, <1>4, IdleLead, LeadJobMoves DEF LeadJobStops
<1> QED BY <1>2, <1>3, <1>4

(* Requests that write. *)
LEMMA LeadWrites ==
    ASSUME LeadsInv, NEW j \in LeadJobs,
           \/ \E a \in Written, p \in Offers \union {NoOffer} : CreateLead(j, a, p)
           \/ UpsertCreate(j) \/ UpsertSave(j) \/ UpdateLeadSave(j)
    PROVE  LeadsInv'
<1>0. LeadsTypeOK /\ LeadJobIsLate(j)
    BY DEF LeadsInv
<1>1. ASSUME NEW a \in Written, NEW p \in Offers \union {NoOffer}, CreateLead(j, a, p)
      PROVE  LeadsInv'
  <2>1. Row(a, p) \in LeadState /\ Row(a, p).here
    BY DEF Row, LeadState
  <2> QED BY <1>1, <2>1, LeadIsInserted DEF CreateLead
<1>a. /\ leadJob[j].late \in BOOLEAN
      /\ leadJob[j].row \in LeadState /\ leadJob[j].asks \in LeadState
      /\ leadJob[j].asks.email \in Written
      /\ leadJob[j].row.offer \in Offers \union {NoOffer}
      /\ leadJob[j].asks.offer \in Offers \union {NoOffer}
    BY <1>0, LeadTypes
<1>2. CASE UpsertCreate(j)
  <2>1. PICK by : by = IF leadJob[j].late THEN "late checkout" ELSE "checkout"
    OBVIOUS
  <2>2. /\ by \in {"checkout", "late checkout", "hand"}
        /\ by = "checkout" => ~leadJob[j].late
    BY <2>1
  <2>3. InsertLead(j, leadJob[j].asks, by) /\ leadJob[j].step = "make"
    BY <1>2, <2>1 DEF UpsertCreate
  <2> QED BY <1>0, <1>a, <2>2, <2>3, LeadIsInserted DEF LeadJobIsLate
<1>3. CASE UpsertSave(j)
  <2>1. PICK row : row = [leadJob[j].row EXCEPT !.offer = leadJob[j].asks.offer]
    OBVIOUS
  <2>2. /\ row \in LeadState /\ row.here = leadJob[j].row.here
        /\ row.email = leadJob[j].row.email /\ row.offer = leadJob[j].asks.offer
    BY <1>a, <2>1 DEF LeadState
  <2>3. /\ SaveLead(j, row, leadJob[j].asks.offer) /\ leadJob[j].step = "upsert"
        /\ edited' = edited
    BY <1>3, <2>1 DEF UpsertSave
  <2>4. PICK isLate \in BOOLEAN : isLate = leadJob[j].late
    BY <1>a
  <2> QED BY <1>0, <1>a, <2>2, <2>3, <2>4, LeadIsSaved DEF LeadJobIsLate
<1>4. CASE UpdateLeadSave(j)
  <2>1. PICK l : l = leadJob[j].lead
    OBVIOUS
  <2>2. PICK row : row = [leadJob[j].row EXCEPT !.email = leadJob[j].asks.email,
                              !.offer = OfferSaved(@, leadJob[j].asks.offer)]
    OBVIOUS
  <2>3. PICK offer : offer = IF lastOffer[l] = NoOffer THEN leadJob[j].asks.offer
                             ELSE lastOffer[l]
    OBVIOUS
  <2>4. /\ SaveLead(j, row, offer) /\ leadJob[j].step = "update"
        /\ edited' = IF leadJob[j].asks.email = leadJob[j].row.email THEN edited
                     ELSE edited \union {l}
    BY <1>4, <2>1, <2>2, <2>3 DEF UpdateLeadSave
  <2>6. OfferSaved(leadJob[j].row.offer, leadJob[j].asks.offer) \in Offers \union {NoOffer}
    BY <1>a DEF OfferSaved
  <2>7. /\ row \in LeadState /\ row.here = leadJob[j].row.here
        /\ row.email = leadJob[j].asks.email
        /\ row.offer = OfferSaved(leadJob[j].row.offer, leadJob[j].asks.offer)
    BY <1>a, <2>2, <2>6 DEF LeadState
  <2>14. leadJob[j].row.offer \in offersHere \union {NoOffer}
    <3>1. row.offer \in offersHere \union {NoOffer}
      BY <2>4 DEF SaveLead, OfferIsThere
    <3> QED BY <2>7, <3>1 DEF OfferSaved
  <2>5. /\ l \in LeadIds /\ leadJob[j].row.here
        /\ leadJob[j].late \/ leadJob[j].row = leadRow[l]
        /\ l \in edited \/ leadJob[j].row.email = leadRow[l].email
    BY <1>0, <2>1, <2>4, <2>14, LeadsAssumption DEF LeadJobIsLate
  <2>8. offer \in Offers \union {NoOffer}
    BY <1>0, <1>a, <2>3, <2>5, LeadTypes
  <2>9. PICK isLate \in BOOLEAN : isLate = leadJob[j].late
    BY <1>a
  <2>10. isLate \/ l \in overwritten \/ row.offer = offer
    BY <2>3, <2>5, <2>7, <2>9 DEF LeadsInv, LeadIsFound, OfferSaved
  <2>11. \/ edited' = edited /\ row.email = leadJob[j].row.email
         \/ edited' = edited \union {l}
    BY <2>4, <2>7
  <2>12. edited \subseteq edited' /\ edited' \subseteq edited \union {l}
    BY <2>11
  <2>13. l \in edited' \/ row.email = leadRow[l].email
    BY <2>5, <2>11
  <2> QED BY <2>1, <2>4, <2>5, <2>7, <2>8, <2>9, <2>10, <2>12, <2>13, LeadIsSaved, ZenonT(40)
<1> QED BY <1>1, <1>2, <1>3, <1>4

LEMMA LeadsInvStep ==
    ASSUME LeadsInv, [LeadsNext]_leadVars
    PROVE  LeadsInv'
<1>1. CASE UNCHANGED leadVars
  <2>1. /\ UNCHANGED <<leadRow, offersHere, subscribed, leadJob, leadPast>>
        /\ LeadIds' = LeadIds /\ LeadsHere' = LeadsHere
    BY <1>1 DEF leadVars, leadPast, LeadIds, LeadsHere
  <2>2. LeadsTypeOK'
    BY <2>1 DEF LeadsInv, LeadsTypeOK, leadPast
  <2>3. LeadsAgree'
    <3>1. LeadsAgree
      BY DEF LeadsInv
    <3> QED BY <2>1, <3>1, ZenonT(40) DEF LeadsAgree, leadPast
  <2>4. \A l \in LeadIds : LeadIsFound(l)'
    BY <2>1 DEF LeadsInv, LeadIsFound, leadPast
  <2>5. \A j \in LeadJobs : LeadJobIsLate(j)'
    BY <2>1 DEF LeadsInv, LeadJobIsLate, leadPast
  <2> QED BY <2>1, <2>2, <2>3, <2>4, <2>5 DEF LeadsInv
<1>2. ASSUME NEW l \in LeadIds, Subscribe(l) PROVE LeadsInv'
  <2>1. /\ UNCHANGED <<leadRow, offersHere, leadJob, leadPast>> /\ subscribed' \subseteq LeadIds
        /\ LeadIds' = LeadIds /\ LeadsHere' = LeadsHere
    BY <1>2 DEF Subscribe, leadPast, LeadIds, LeadsHere, LeadsInv, LeadsTypeOK
  <2>2. LeadsTypeOK'
    BY <2>1 DEF LeadsInv, LeadsTypeOK, leadPast
  <2>3. LeadsAgree'
    <3>1. LeadsAgree
      BY DEF LeadsInv
    <3> QED BY <2>1, <3>1, ZenonT(40) DEF LeadsAgree, leadPast
  <2>4. \A k \in LeadIds : LeadIsFound(k)'
    BY <2>1 DEF LeadsInv, LeadIsFound, leadPast
  <2>5. \A j \in LeadJobs : LeadJobIsLate(j)'
    BY <2>1 DEF LeadsInv, LeadJobIsLate, leadPast
  <2> QED BY <2>1, <2>2, <2>3, <2>4, <2>5 DEF LeadsInv
<1> QED BY <1>1, <1>2, LeadIsRemoved, OfferIsRemoved, LeadAsks, LeadWrites DEF LeadsNext

(* The inductive invariant of the leads holds: what LeadsService's requests hold of the leads
   is as old as their flags say, and unedited leads are found again. *)
THEOREM LeadsInvHolds == LeadsSpec => []LeadsInv
<1>1. LeadsInit => LeadsInv
    BY LeadsInvInit
<1>2. LeadsInv /\ [LeadsNext]_leadVars => LeadsInv'
    BY LeadsInvStep
<1> QED BY <1>1, <1>2, PTL DEF LeadsSpec

-----------------------------------------------------------------------------
(* TenantRow.tla: the row, its images and its users. *)
TenantSteps == {"idle", "update", "colour", "clearFor", "clear", "store", "uploadSave",
                "deleteSave"}

LEMMA IdleTenant ==
    /\ IdleTenantJob \in TenantJobState /\ IdleTenantJob.step = "idle"
    /\ IdleTenantJob.row \in TenantState /\ IdleTenantJob.row.plan = NoPlan
    /\ \A k \in Kinds : IdleTenantJob.row.image[k] = 0
    /\ IdleTenantJob.deleted = FALSE /\ IdleTenantJob.late = FALSE
<1>1. Shows \in [Kinds -> Nat] /\ \A k \in Kinds : Shows[k] = 0
    BY DEF Shows
<1>2. IdleTenantJob.row = [here |-> FALSE, plan |-> NoPlan, colour |-> 0, image |-> Shows]
    BY DEF IdleTenantJob
<1>3. IdleTenantJob.row \in TenantState /\ IdleTenantJob.row.plan = NoPlan
      /\ IdleTenantJob.row.image = Shows
    BY <1>1, <1>2 DEF TenantState
<1>4. IdleTenantJob \in TenantJobState
    BY <1>3 DEF IdleTenantJob, TenantJobState
<1> QED BY <1>1, <1>3, <1>4 DEF IdleTenantJob

(* The parts of the types that the steps use. *)
LEMMA TenantTypes ==
    ASSUME TenantRowTypeOK
    PROVE  /\ tenant \in TenantState /\ tenant.here \in BOOLEAN
           /\ tenant.image \in [Kinds -> Nat]
           /\ tenantJob \in [TenantJobs -> TenantJobState]
           /\ \A n \in stored : n \in DOMAIN images /\ n # 0 /\ images[n] \in Kinds
           /\ 0 \notin DOMAIN images /\ 0 \notin stored
           /\ \A j \in TenantJobs :
                 /\ tenantJob[j].step \in TenantSteps
                 /\ tenantJob[j].late \in BOOLEAN /\ tenantJob[j].deleted \in BOOLEAN
                 /\ tenantJob[j].row \in TenantState /\ tenantJob[j].row.here \in BOOLEAN
                 /\ tenantJob[j].row.image \in [Kinds -> Nat]
                 /\ tenantJob[j].plan \in Plans \union {NoPlan}
                 /\ tenantJob[j].row.plan \in Plans \union {NoPlan}
                 /\ tenantJob[j].users \subseteq Officers
<1>1. /\ tenant \in TenantState /\ tenantJob \in [TenantJobs -> TenantJobState]
      /\ stored \subseteq DOMAIN images
    BY DEF TenantRowTypeOK
<1>2. tenant.here \in BOOLEAN /\ tenant.image \in [Kinds -> Nat]
    BY <1>1 DEF TenantState
<1>3. 0 \notin DOMAIN images /\ \A n \in DOMAIN images : n # 0 /\ images[n] \in Kinds
  <2>1. PICK k \in Nat : k = Cardinality(DOMAIN images)
    BY DEF TenantRowTypeOK
  <2>2. DOMAIN images = 1 .. k
    BY <2>1 DEF TenantRowTypeOK
  <2>3. 0 \notin 1 .. k
    OBVIOUS
  <2>4. images \in [DOMAIN images -> Kinds]
    BY DEF TenantRowTypeOK
  <2> QED BY <2>2, <2>3, <2>4
<1>4. ASSUME NEW j \in TenantJobs
      PROVE  /\ tenantJob[j].step \in TenantSteps
             /\ tenantJob[j].late \in BOOLEAN /\ tenantJob[j].deleted \in BOOLEAN
             /\ tenantJob[j].row \in TenantState /\ tenantJob[j].plan \in Plans \union {NoPlan}
             /\ tenantJob[j].users \subseteq Officers
    BY <1>1 DEF TenantJobState, TenantSteps
<1>5. \A row \in TenantState : /\ row.here \in BOOLEAN /\ row.image \in [Kinds -> Nat]
                               /\ row.plan \in Plans \union {NoPlan}
    BY DEF TenantState
<1> QED BY <1>1, <1>2, <1>3, <1>4, <1>5

(* What the writers of the row leave of the other requests. *)
SameButLate(i) ==
    /\ tenantJob'[i].step = tenantJob[i].step /\ tenantJob'[i].row = tenantJob[i].row
    /\ tenantJob'[i].users = tenantJob[i].users /\ tenantJob'[i].kind = tenantJob[i].kind
    /\ tenantJob'[i].plan = tenantJob[i].plan /\ tenantJob'[i].deleted = tenantJob[i].deleted

LEMMA BecomesLate ==
    ASSUME TenantRowTypeOK, NEW i \in TenantJobs, NEW b \in BOOLEAN,
           tenantJob'[i] = [tenantJob[i] EXCEPT !.late = b]
    PROVE  /\ SameButLate(i) /\ tenantJob'[i].late = b /\ tenantJob'[i] \in TenantJobState
<1>1. tenantJob[i] \in TenantJobState
    BY DEF TenantRowTypeOK
<1> QED BY <1>1 DEF SameButLate, TenantJobState

(* A request begins with a copy of the row, or stops. *)
LEMMA OneTenantJob ==
    ASSUME TenantInv, NEW j \in TenantJobs, NEW job \in TenantJobState,
           tenantJob' = [tenantJob EXCEPT ![j] = job],
           UNCHANGED <<tenant, planRows, officer, stored, images, stale, undeleted, during,
                       moved, firstPlan>>,
           halved' \in BOOLEAN, halved => halved', tenantJob[j].deleted => halved',
           \/ job.step = "idle" /\ \A k \in Kinds : job.row.image[k] = 0
           \/ job.row = tenant /\ tenant.here /\ job.step \in {"update", "colour"}
           \/ /\ job.row = tenant /\ tenant.here /\ job.step \in {"clearFor", "clear"}
              /\ job.kind \in Kinds,
           job.step = "update" => job.users = Ours, job.deleted = FALSE
    PROVE  TenantInv'
<1>0. TenantRowTypeOK /\ ImagesHold
    BY DEF TenantInv
<1>1. /\ tenantJob'[j] = job /\ \A i \in TenantJobs \ {j} : tenantJob'[i] = tenantJob[i]
    BY <1>0, TenantTypes
<1>2. TenantRowTypeOK'
    BY <1>0 DEF TenantRowTypeOK
<1>3. \A k : halved' \/ Running(k) \subseteq Running(k)'
    BY <1>1 DEF Running
<1>4. ShownIsStored'
    BY <1>0, <1>3 DEF ImagesHold, ShownIsStored
<1>5. ShowsKinds(tenant)'
    BY <1>0 DEF ImagesHold, ShowsKinds
<1>6. ASSUME NEW n \in stored PROVE StoredIsShown(n)'
  <2>1. StoredIsShown(n)
    BY <1>0 DEF ImagesHold
  <2>2. ASSUME NEW i \in TenantJobs, HasStored(i), NewImage(i) = n
        PROVE  StoredIsShown(n)'
    <3>1. CASE i # j
      BY <1>1, <2>2, <3>1 DEF StoredIsShown, HasStored, NewImage
    <3>2. CASE i = j
      BY <1>0, <2>2, <3>2 DEF ImagesHold, JobImagesHold, HasStored, StoredIsShown
    <3> QED BY <3>1, <3>2
  <2> QED BY <2>1, <2>2 DEF StoredIsShown
<1>7. ASSUME NEW i \in TenantJobs PROVE JobImagesHold(i)'
  <2>1. JobImagesHold(i) /\ TenantRowTypeOK
    BY <1>0 DEF ImagesHold
  <2>2. CASE i # j
    <3>1. tenantJob'[i] = tenantJob[i] /\ HasStored(i)' = HasStored(i)
          /\ NewImage(i)' = NewImage(i)
      BY <1>1, <2>2 DEF HasStored, NewImage
    <3>2. ShowsKinds(tenantJob[i].row)'
      BY <2>1, <3>1 DEF JobImagesHold, ShowsKinds
    <3>3. tenantJob[i].step # "idle" /\ ~tenantJob[i].late => RowIsCurrent(i)'
      BY <2>1, <3>1 DEF JobImagesHold, RowIsCurrent
    <3>4. IsCleared(i)' = IsCleared(i)
      BY <3>1 DEF IsCleared
    <3>5. ASSUME HasStored(i) PROVE StoredIsOwn(i)'
      <4>1. StoredIsOwn(i) /\ tenantJob[i].kind \in Kinds /\ NewImage(i) # 0
        BY <2>1, <3>5, TenantTypes DEF JobImagesHold, HasStored, StoredIsOwn
      <4>2. job.row.image[tenantJob[i].kind] # NewImage(i)
        BY <4>1 DEF StoredIsOwn
      <4> QED BY <1>1, <3>1, <4>1, <4>2 DEF StoredIsOwn
    <3> QED BY <2>1, <3>1, <3>2, <3>3, <3>4, <3>5 DEF JobImagesHold
  <2>3. CASE i = j
    <3>1. ShowsKinds(job.row)'
      BY <1>5 DEF ShowsKinds
    <3>2. job.step # "idle" => RowIsCurrent(j)'
      BY <1>1 DEF RowIsCurrent
    <3> QED BY <1>1, <2>3, <3>1, <3>2 DEF JobImagesHold, HasStored
  <2> QED BY <2>2, <2>3
<1>8. OfficersHold'
  <2>1. UsersStay' /\ \A u \in (moved \ during)' : officer'[u] \in {"other", "gone"}
    BY DEF TenantInv, OfficersHold, UsersStay
  <2>2. ASSUME NEW i \in TenantJobs, tenantJob'[i].step = "update" PROVE ListIsCurrent(i)'
    <3>1. CASE i # j
      BY <1>1, <2>2, <3>1 DEF TenantInv, OfficersHold, ListIsCurrent
    <3>2. CASE i = j
      BY <1>1, <2>2, <3>2 DEF ListIsCurrent, Ours
    <3> QED BY <3>1, <3>2
  <2> QED BY <2>1, <2>2 DEF OfficersHold
<1>9. PlanStays'
    BY DEF TenantInv, PlanStays
<1> QED BY <1>2, <1>4, <1>5, <1>6, <1>7, <1>8, <1>9 DEF TenantInv, ImagesHold

(* The row is saved. *)
LEMMA TenantIsSaved ==
    ASSUME TenantInv, NEW j \in TenantJobs, NEW row \in TenantState, SaveTenant(j, row),
           tenantJob[j].step \in {"update", "colour", "uploadSave", "deleteSave"},
           row.here = tenantJob[j].row.here,
           NEW isLate \in BOOLEAN, isLate = tenantJob[j].late,
           IF tenantJob[j].step = "deleteSave"
           THEN \A k \in Kinds : row.image[k] = IF k = tenantJob[j].kind THEN 0
                                                ELSE tenantJob[j].row.image[k]
           ELSE \A k \in Kinds : row.image[k] = tenantJob[j].row.image[k],
           stale \/ isLate \/ row.plan = firstPlan', firstPlan' \in Plans \union {NoPlan},
           UNCHANGED <<stored, images, halved, undeleted, during, moved>>,
           officer' \in [Officers -> {"new", "ours", "none", "other", "gone"}],
           OfficersHold'
    PROVE  TenantInv'
<1>0. TenantRowTypeOK /\ ImagesHold /\ JobImagesHold(j)
    BY DEF TenantInv, ImagesHold
<1>1. /\ tenant' = row /\ row.plan \in planRows \union {NoPlan} /\ planRows' = planRows
      /\ stale' = (stale \/ isLate) /\ TenantWritten(j)
    BY DEF SaveTenant
<1>2. /\ tenantJob'[j] = IdleTenantJob
      /\ \A i \in TenantJobs \ {j} :
            /\ SameButLate(i) /\ tenantJob'[i] \in TenantJobState
            /\ tenantJob[i].step # "idle" => tenantJob'[i].late
  <2>1. tenantJob'[j] = IdleTenantJob
    BY <1>1 DEF TenantWritten
  <2>2. ASSUME NEW i \in TenantJobs \ {j}
        PROVE  /\ SameButLate(i) /\ tenantJob'[i] \in TenantJobState
               /\ tenantJob[i].step # "idle" => tenantJob'[i].late
    <3>1. PICK b \in BOOLEAN : b = (tenantJob[i].step # "idle")
      OBVIOUS
    <3>2. tenantJob'[i] = [tenantJob[i] EXCEPT !.late = b]
      BY <1>1, <3>1 DEF TenantWritten
    <3> QED BY <1>0, <3>1, <3>2, BecomesLate
  <2> QED BY <2>1, <2>2
<1>3. TenantRowTypeOK'
  <2>1. tenantJob' \in [TenantJobs -> TenantJobState]
    <3>1. \A i \in TenantJobs : tenantJob'[i] \in TenantJobState
      BY <1>2, IdleTenant
    <3>2. tenantJob' = [i \in TenantJobs |-> tenantJob'[i]]
      BY <1>1 DEF TenantWritten
    <3> QED BY <3>1, <3>2
  <2> QED BY <1>0, <1>1, <2>1 DEF TenantRowTypeOK
<1>4. /\ tenantJob[j].step \in {"uploadSave", "deleteSave"} => tenantJob[j].kind \in Kinds
      /\ ShowsKinds(tenantJob[j].row)
      /\ ~isLate => RowIsCurrent(j) /\ (tenantJob[j].step \in {"uploadSave", "deleteSave"}
                                      => IsCleared(j))
    BY <1>0 DEF JobImagesHold
<1>5. ShowsKinds(tenant)'
    BY <1>1, <1>4 DEF ShowsKinds
<1>7. ASSUME ~isLate PROVE \A k \in Kinds : row.image[k] = tenant.image[k]
                            \/ /\ k = tenantJob[j].kind /\ row.image[k] \in stored \union {0}
                               /\ tenant.image[k] \notin stored \/ tenant.image[k] \in undeleted
  <2>1. CASE tenantJob[j].step = "deleteSave"
    BY <1>4, <1>7, <2>1 DEF RowIsCurrent, IsCleared, HasStored
  <2>2. CASE tenantJob[j].step = "uploadSave"
    BY <1>0, <1>4, <1>7, <2>2
       DEF RowIsCurrent, IsCleared, HasStored, JobImagesHold, StoredIsOwn, NewImage
  <2>3. CASE tenantJob[j].step \in {"update", "colour"}
    BY <1>4, <1>7, <2>3 DEF RowIsCurrent, HasStored
  <2> QED BY <2>1, <2>2, <2>3
<1>8. ASSUME NEW n \in stored PROVE StoredIsShown(n)'
  <2>1. StoredIsShown(n) /\ images[n] \in Kinds /\ n # 0
    BY <1>0, TenantTypes DEF ImagesHold
  <2>2. CASE isLate
    BY <1>1, <2>2 DEF StoredIsShown
  <2>3. CASE ~isLate
    <3>1. CASE tenant.image[images[n]] = n
      BY <1>1, <1>7, <2>1, <2>3, <3>1 DEF StoredIsShown
    <3>2. CASE n \in undeleted \/ ~tenant.here \/ stale \/ halved
      BY <1>1, <1>4, <2>3, <3>2 DEF StoredIsShown, RowIsCurrent
    <3>3. ASSUME NEW i \in TenantJobs \ {j}, HasStored(i), NewImage(i) = n
          PROVE  StoredIsShown(n)'
      BY <1>2, <3>3 DEF StoredIsShown, HasStored, NewImage, SameButLate
    <3>4. CASE HasStored(j) /\ NewImage(j) = n
      <4>1. images[n] = tenantJob[j].kind
        BY <1>0, <1>4, <2>1, <3>4 DEF ShowsKinds, NewImage, HasStored
      <4> QED BY <1>1, <1>4, <3>4, <4>1 DEF StoredIsShown, HasStored, NewImage
    <3> QED BY <2>1, <3>1, <3>2, <3>3, <3>4 DEF StoredIsShown
  <2> QED BY <2>2, <2>3
<1>9. ASSUME NEW i \in TenantJobs PROVE JobImagesHold(i)'
  <2>1. CASE i = j
    <3>1. ShowsKinds(tenantJob[j].row)'
      BY <1>2, IdleTenant DEF ShowsKinds
    <3> QED BY <1>2, <2>1, <3>1, IdleTenant DEF JobImagesHold, HasStored
  <2>2. CASE i # j
    <3>1. JobImagesHold(i)
      BY <1>0 DEF ImagesHold
    <3>2. SameButLate(i) /\ (tenantJob[i].step # "idle" => tenantJob'[i].late)
          /\ HasStored(i)' = HasStored(i) /\ NewImage(i)' = NewImage(i)
      BY <1>2, <2>2 DEF SameButLate, HasStored, NewImage
    <3>3. ShowsKinds(tenantJob[i].row)'
      BY <3>1, <3>2 DEF JobImagesHold, ShowsKinds, SameButLate
    <3>4. ASSUME HasStored(i) PROVE StoredIsOwn(i)'
      <4>1. /\ StoredIsOwn(i) /\ tenantJob[i].kind \in Kinds /\ NewImage(i) # 0
        BY <1>0, <3>1, <3>4, TenantTypes DEF JobImagesHold, HasStored, StoredIsOwn
      <4>2. row.image[tenantJob[i].kind] # NewImage(i)
        BY <2>2, <4>1 DEF StoredIsOwn
      <4>3. ASSUME NEW m \in TenantJobs \ {i}
            PROVE  tenantJob'[m].row.image[tenantJob[i].kind] # NewImage(i)
        <5>1. CASE m = j
          BY <1>2, <4>1, <5>1, IdleTenant
        <5>2. CASE m # j
          BY <1>2, <4>1, <5>2 DEF StoredIsOwn, SameButLate
        <5> QED BY <5>1, <5>2
      <4> QED BY <1>1, <3>2, <4>1, <4>2, <4>3 DEF StoredIsOwn, SameButLate
    <3>5. tenantJob'[i].row = tenantJob[i].row /\ tenantJob'[i].step = tenantJob[i].step
          /\ tenantJob'[i].deleted = tenantJob[i].deleted
          /\ tenantJob'[i].kind = tenantJob[i].kind
      BY <3>2 DEF SameButLate
    <3> QED BY <3>1, <3>2, <3>3, <3>4, <3>5 DEF JobImagesHold
  <2> QED BY <2>1, <2>2
<1>10. ShownIsStored'
  <2>1. ASSUME NEW k \in Kinds, row.image[k] # 0
        PROVE  row.image[k] \in stored \/ stale' \/ halved \/ Running(k)' # {}
    <3>1. CASE isLate
      BY <1>1, <3>1
    <3>2. CASE ~isLate
      <4>1. CASE k = tenantJob[j].kind /\ tenantJob[j].step \in {"uploadSave", "deleteSave"}
        BY <1>0, <2>1, <4>1 DEF JobImagesHold, HasStored, StoredIsOwn, NewImage
      <4>2. CASE ~(k = tenantJob[j].kind /\ tenantJob[j].step \in {"uploadSave", "deleteSave"})
        <5>1. row.image[k] = tenant.image[k]
          BY <1>4, <3>2, <4>2 DEF RowIsCurrent, HasStored
        <5>2. Running(k) \subseteq Running(k)'
          <6>1. tenantJob[j].kind # k \/ ~tenantJob[j].deleted
            BY <1>0, <4>2 DEF JobImagesHold
          <6> QED BY <1>2, <6>1 DEF Running, SameButLate
        <5> QED BY <1>0, <1>1, <2>1, <5>1, <5>2 DEF ImagesHold, ShownIsStored
      <4> QED BY <4>1, <4>2
    <3> QED BY <3>1, <3>2
  <2>2. ASSUME NEW n \in stored
        PROVE  \/ tenant'.image[images[n]] = n \/ n \in undeleted
               \/ ~tenant'.here \/ stale' \/ halved \/ Running(images[n])' # {}
    <3>1. ASSUME NEW i \in TenantJobs, HasStored(i)', NewImage(i)' = n
          PROVE  Running(images[n])' # {}
      <4>1. /\ tenantJob'[i].deleted /\ tenantJob'[i].kind \in Kinds
            /\ ShowsKinds(tenantJob[i].row)'
        BY <1>9, <3>1 DEF JobImagesHold, HasStored
      <4>2. images[n] = tenantJob'[i].kind
        BY <1>0, <3>1, <4>1, TenantTypes DEF ShowsKinds, NewImage
      <4> QED BY <4>1, <4>2 DEF Running
    <3> QED BY <1>8, <3>1 DEF StoredIsShown
  <2> QED BY <1>1, <1>5, <2>1, <2>2 DEF ShownIsStored, ShowsKinds
<1>11. PlanStays'
    BY <1>1 DEF PlanStays
<1> QED BY <1>3, <1>5, <1>8, <1>9, <1>10, <1>11 DEF TenantInv, ImagesHold

(* The image that the copy shows is deleted. *)
LEMMA ImageIsCleared ==
    ASSUME TenantInv, NEW j \in TenantJobs, NEW fails \in BOOLEAN, Clear(j, fails)
    PROVE  TenantInv'
<1>0. TenantRowTypeOK /\ ImagesHold /\ JobImagesHold(j)
    BY DEF TenantInv, ImagesHold
<1>a. PICK m : m = tenantJob[j].row.image[tenantJob[j].kind]
    OBVIOUS
<1>b. PICK step : step = IF tenantJob[j].step = "clear" THEN "deleteSave" ELSE "store"
    OBVIOUS
<1>1. /\ tenantJob[j].step \in {"clearFor", "clear"} /\ tenantJob[j].kind \in Kinds
      /\ UNCHANGED <<tenant, planRows, officer, tenantAsks, images, stale, halved, during,
                     moved, firstPlan>>
      /\ stored' \subseteq stored /\ stored \subseteq stored' \union {m}
      /\ \A x \in undeleted : x \in undeleted'
      /\ m \notin stored' \/ m \in undeleted'
      /\ stored' = IF fails THEN stored ELSE stored \ KeyOf(m)
      /\ tenantJob' = [tenantJob EXCEPT ![j].deleted = TRUE, ![j].step = step]
  <2>1. /\ tenantJob[j].step \in {"clearFor", "clear"}
        /\ UNCHANGED <<tenant, planRows, officer, tenantAsks, images, stale, halved, during,
                       moved, firstPlan>>
        /\ stored' = IF fails THEN stored ELSE stored \ KeyOf(m)
        /\ undeleted' = IF fails THEN undeleted \union {m} ELSE undeleted
        /\ tenantJob' = [tenantJob EXCEPT ![j].deleted = TRUE, ![j].step = step]
    BY <1>a, <1>b DEF Clear
  <2>2. tenantJob[j].kind \in Kinds
    BY <1>0, <2>1 DEF JobImagesHold
  <2>3. m \notin stored' \/ m \in undeleted'
    BY <1>0, <2>1, TenantTypes DEF KeyOf
  <2>4. stored' \subseteq stored /\ stored \subseteq stored' \union {m}
    BY <2>1 DEF KeyOf
  <2> QED BY <2>1, <2>2, <2>3, <2>4
<1>2. /\ tenantJob'[j].step = step /\ step \in {"deleteSave", "store"}
      /\ tenantJob'[j].deleted = TRUE
      /\ tenantJob'[j].row = tenantJob[j].row /\ tenantJob'[j].kind = tenantJob[j].kind
      /\ tenantJob'[j].late = tenantJob[j].late /\ tenantJob'[j] \in TenantJobState
      /\ \A i \in TenantJobs \ {j} : tenantJob'[i] = tenantJob[i]
  <2>1. tenantJob \in [TenantJobs -> TenantJobState] /\ step \in {"deleteSave", "store"}
    BY <1>0, <1>b DEF TenantRowTypeOK
  <2>2. tenantJob'[j] = [tenantJob[j] EXCEPT !.deleted = TRUE, !.step = step]
        /\ \A i \in TenantJobs \ {j} : tenantJob'[i] = tenantJob[i]
    BY <1>1, <2>1
  <2>3. tenantJob[j] \in TenantJobState
    BY <2>1
  <2> QED BY <2>1, <2>2, <2>3 DEF TenantJobState
<1>3. TenantRowTypeOK'
  <2>1. tenantJob' \in [TenantJobs -> TenantJobState]
    BY <1>0, <1>1, <1>2, TenantTypes
  <2> QED BY <1>0, <1>1, <2>1 DEF TenantRowTypeOK
<1>4. \A k : Running(k) \subseteq Running(k)'
    BY <1>2 DEF Running
<1>5. /\ \A k : k = tenantJob[j].kind => j \in Running(k)'
      /\ \A i \in TenantJobs : HasStored(i)' = HasStored(i) /\ NewImage(i)' = NewImage(i)
  <2>1. \A k : k = tenantJob[j].kind => j \in Running(k)'
    BY <1>2 DEF Running
  <2>2. ASSUME NEW i \in TenantJobs
        PROVE  HasStored(i)' = HasStored(i) /\ NewImage(i)' = NewImage(i)
    <3>1. CASE i = j
      BY <1>1, <1>2, <3>1 DEF HasStored, NewImage
    <3>2. CASE i # j
      BY <1>2, <3>2 DEF HasStored, NewImage
    <3> QED BY <3>1, <3>2
  <2> QED BY <2>1, <2>2
<1>6. m # 0 => m \in DOMAIN images /\ images[m] = tenantJob[j].kind
    BY <1>0, <1>1, <1>a DEF JobImagesHold, ShowsKinds
<1>7. ShowsKinds(tenant)'
    BY <1>0, <1>1 DEF ImagesHold, ShowsKinds
<1>8. ASSUME NEW n \in stored' PROVE StoredIsShown(n)'
  <2>1. StoredIsShown(n)
    BY <1>0, <1>1 DEF ImagesHold
  <2>2. ASSUME NEW i \in TenantJobs, HasStored(i), NewImage(i) = n
        PROVE  HasStored(i)' /\ NewImage(i)' = n
    BY <1>5, <2>2
  <2>3. n \in undeleted => n \in undeleted'
    BY <1>1
  <2>4. UNCHANGED <<tenant, images, stale, halved>>
    BY <1>1
  <2> QED BY <2>1, <2>2, <2>3, <2>4 DEF StoredIsShown
<1>9. ShownIsStored'
  <2>1. ASSUME NEW k \in Kinds, tenant.image[k] # 0
        PROVE  /\ images[tenant.image[k]] = k
               /\ tenant.image[k] \in stored' \/ stale \/ halved \/ Running(k)' # {}
    <3>1. /\ images[tenant.image[k]] = k
          /\ tenant.image[k] \in stored \/ stale \/ halved \/ Running(k) # {}
      BY <1>0, <2>1 DEF ImagesHold, ShownIsStored
    <3>2. CASE tenant.image[k] = m
      <4>1. k = tenantJob[j].kind
        BY <1>6, <2>1, <3>1, <3>2
      <4>2. Running(k)' # {}
        BY <1>5, <4>1
      <4> QED BY <3>1, <4>2
    <3>3. CASE tenant.image[k] # m
      BY <1>1, <1>4, <3>1, <3>3
    <3> QED BY <3>1, <3>2, <3>3
  <2>2. ASSUME NEW n \in stored'
        PROVE  \/ tenant.image[images[n]] = n \/ n \in undeleted'
               \/ ~tenant.here \/ stale \/ halved \/ Running(images[n])' # {}
    <3>1. n \in stored /\ (n \in undeleted => n \in undeleted')
      BY <1>1
    <3>2. \/ tenant.image[images[n]] = n \/ n \in undeleted
          \/ ~tenant.here \/ stale \/ halved \/ Running(images[n]) # {}
      BY <1>0, <3>1 DEF ImagesHold, ShownIsStored
    <3>3. Running(images[n]) \subseteq Running(images[n])'
      BY <1>1, <1>4
    <3> QED BY <3>1, <3>2, <3>3
  <2> QED BY <1>1, <2>1, <2>2 DEF ShownIsStored
<1>10. ASSUME NEW i \in TenantJobs PROVE JobImagesHold(i)'
  <2>0. JobImagesHold(i)
    BY <1>0 DEF ImagesHold
  <2>1. CASE i = j
    <3>1. ShowsKinds(tenantJob[j].row)'
      BY <1>0, <1>1, <1>2 DEF JobImagesHold, ShowsKinds
    <3>2. ~tenantJob[j].late => RowIsCurrent(j)'
      BY <1>0, <1>1, <1>2 DEF JobImagesHold, RowIsCurrent, HasStored
    <3>3. ~tenantJob[j].late => IsCleared(j)'
      BY <1>0, <1>1, <1>2, <1>a, SMTT(40) DEF JobImagesHold, RowIsCurrent, HasStored, IsCleared
    <3> QED BY <1>1, <1>2, <2>1, <3>1, <3>2, <3>3 DEF JobImagesHold, HasStored
  <2>2. CASE i # j
    <3>1. tenantJob'[i] = tenantJob[i]
      BY <1>2, <2>2
    <3>2. ShowsKinds(tenantJob[i].row)'
      BY <1>1, <2>0, <3>1 DEF JobImagesHold, ShowsKinds
    <3>3. tenantJob[i].step # "idle" /\ ~tenantJob[i].late => RowIsCurrent(i)'
      BY <1>1, <2>0, <3>1 DEF JobImagesHold, RowIsCurrent, HasStored
    <3>4. IsCleared(i) => IsCleared(i)'
      <4>1. PICK x : x = tenant.image[tenantJob[i].kind]
        OBVIOUS
      <4>2. (x \notin stored => x \notin stored') /\ (x \in undeleted => x \in undeleted')
        BY <1>1
      <4> QED BY <1>1, <3>1, <4>1, <4>2 DEF IsCleared
    <3>5. ASSUME HasStored(i) PROVE StoredIsOwn(i)'
      <4>1. StoredIsOwn(i) /\ tenantJob[i].kind \in Kinds /\ NewImage(i) # 0
        BY <1>0, <2>0, <3>5, TenantTypes DEF JobImagesHold, HasStored, StoredIsOwn
      <4>2. images[NewImage(i)] = tenantJob[i].kind
        BY <2>0, <4>1 DEF JobImagesHold, ShowsKinds, NewImage
      <4>3. NewImage(i) # m
        BY <1>6, <1>a, <2>2, <4>1, <4>2 DEF StoredIsOwn
      <4>4. \A l \in TenantJobs : tenantJob'[l].row = tenantJob[l].row
        BY <1>2
      <4> QED BY <1>1, <1>5, <3>1, <4>1, <4>3, <4>4 DEF StoredIsOwn
    <3> QED BY <1>5, <2>0, <3>1, <3>2, <3>3, <3>4, <3>5 DEF JobImagesHold
  <2> QED BY <2>1, <2>2
<1>11. OfficersHold'
  <2>1. UsersStay' /\ \A u \in (moved \ during)' : officer'[u] \in {"other", "gone"}
    BY <1>1 DEF TenantInv, OfficersHold, UsersStay
  <2>2. ASSUME NEW i \in TenantJobs, tenantJob'[i].step = "update" PROVE ListIsCurrent(i)'
    <3>1. i # j
      BY <1>2, <2>2
    <3> QED BY <1>1, <1>2, <2>2, <3>1, ZenonT(40) DEF TenantInv, OfficersHold, ListIsCurrent
  <2> QED BY <2>1, <2>2 DEF OfficersHold
<1>12. PlanStays'
    BY <1>1 DEF TenantInv, PlanStays
<1> QED BY <1>3, <1>7, <1>8, <1>9, <1>10, <1>11, <1>12 DEF TenantInv, ImagesHold

(* An image is stored. *)
LEMMA ImageIsStored ==
    ASSUME TenantInv, NEW j \in TenantJobs, Store(j)
    PROVE  TenantInv'
<1>0. TenantRowTypeOK /\ ImagesHold /\ JobImagesHold(j)
    BY DEF TenantInv, ImagesHold
<1>a. PICK k \in Nat : k = Cardinality(DOMAIN images)
    BY <1>0 DEF TenantRowTypeOK
<1>b. PICK n : n = k + 1
    OBVIOUS
<1>c. PICK kind : kind = tenantJob[j].kind
    OBVIOUS
<1>1. /\ DOMAIN images = 1 .. k /\ n \in Nat /\ n # 0 /\ n \notin DOMAIN images
      /\ 1 .. n = DOMAIN images \union {n} /\ Cardinality(1 .. n) = n
  <2>1. DOMAIN images = 1 .. k
    BY <1>0, <1>a DEF TenantRowTypeOK
  <2>2. n \in Nat /\ n # 0 /\ n \notin 1 .. k /\ 1 .. n = 1 .. k \union {n}
    BY <1>b, NextNumber
  <2>3. Cardinality(1 .. n) = n
    BY <1>b, NextNumber
  <2> QED BY <2>1, <2>2, <2>3
<1>2. /\ tenantJob[j].step = "store" /\ tenantJob[j].deleted /\ kind \in Kinds
      /\ UNCHANGED <<tenant, planRows, officer, tenantAsks, stale, halved, undeleted, during,
                     moved, firstPlan>>
      /\ stored' = stored \union {n}
      /\ images' = [i \in 1 .. n |-> IF i = n THEN kind ELSE images[i]]
      /\ tenantJob' = [tenantJob EXCEPT ![j].step = "uploadSave", ![j].row.image[kind] = n]
    BY <1>0, <1>a, <1>b, <1>c DEF Store, JobImagesHold
<1>3. /\ DOMAIN images' = 1 .. n /\ images'[n] = kind
      /\ \A i \in DOMAIN images : images'[i] = images[i]
    BY <1>1, <1>2
<1>4. /\ tenantJob'[j].step = "uploadSave" /\ tenantJob'[j].deleted = tenantJob[j].deleted
      /\ tenantJob'[j].kind = kind /\ tenantJob'[j].late = tenantJob[j].late
      /\ tenantJob'[j].row.here = tenantJob[j].row.here
      /\ tenantJob'[j].row.plan = tenantJob[j].row.plan
      /\ tenantJob'[j].row.image[kind] = n /\ tenantJob'[j] \in TenantJobState
      /\ \A l \in Kinds \ {kind} : tenantJob'[j].row.image[l] = tenantJob[j].row.image[l]
      /\ \A i \in TenantJobs \ {j} : tenantJob'[i] = tenantJob[i]
  <2>1. /\ tenantJob \in [TenantJobs -> TenantJobState] /\ tenantJob[j].row \in TenantState
        /\ tenantJob[j].row.image \in [Kinds -> Nat]
    BY <1>0, TenantTypes
  <2>2. PICK image : image = [tenantJob[j].row.image EXCEPT ![kind] = n]
    OBVIOUS
  <2>3. image \in [Kinds -> Nat] /\ image[kind] = n
        /\ \A l \in Kinds \ {kind} : image[l] = tenantJob[j].row.image[l]
    BY <1>1, <1>2, <2>1, <2>2
  <2>4. PICK row : row = [tenantJob[j].row EXCEPT !.image = image]
    OBVIOUS
  <2>5. /\ row \in TenantState /\ row.image = image /\ row.here = tenantJob[j].row.here
        /\ row.plan = tenantJob[j].row.plan
    BY <2>1, <2>3, <2>4 DEF TenantState
  <2>6. /\ tenantJob'[j] = [tenantJob[j] EXCEPT !.step = "uploadSave", !.row = row]
        /\ \A i \in TenantJobs \ {j} : tenantJob'[i] = tenantJob[i]
    BY <1>2, <2>1, <2>2, <2>4
  <2>7. tenantJob[j] \in TenantJobState
    BY <2>1
  <2>8. /\ tenantJob'[j].step = "uploadSave" /\ tenantJob'[j].row = row
        /\ tenantJob'[j].deleted = tenantJob[j].deleted
        /\ tenantJob'[j].kind = tenantJob[j].kind /\ tenantJob'[j].late = tenantJob[j].late
        /\ tenantJob'[j] \in TenantJobState
    BY <2>5, <2>6, <2>7 DEF TenantJobState
  <2> QED BY <1>c, <2>3, <2>5, <2>6, <2>8
<1>5. TenantRowTypeOK'
  <2>1. tenantJob' \in [TenantJobs -> TenantJobState]
    BY <1>0, <1>2, <1>4, TenantTypes
  <2>2. images' \in [DOMAIN images' -> Kinds]
    BY <1>0, <1>1, <1>2, <1>3 DEF TenantRowTypeOK
  <2>3. Cardinality(DOMAIN images') = n /\ stored' \subseteq DOMAIN images'
    BY <1>0, <1>1, <1>2, <1>3 DEF TenantRowTypeOK
  <2> QED BY <1>0, <1>1, <1>2, <1>3, <2>1, <2>2, <2>3 DEF TenantRowTypeOK
<1>6. \A l : Running(l)' = Running(l)
  <2>1. ASSUME NEW i \in TenantJobs
        PROVE  /\ tenantJob'[i].deleted = tenantJob[i].deleted
               /\ tenantJob'[i].kind = tenantJob[i].kind
    BY <1>4, <1>c
  <2> QED BY <2>1 DEF Running
<1>7. /\ j \in Running(kind)' /\ HasStored(j)' /\ NewImage(j)' = n /\ ~HasStored(j)
      /\ \A i \in TenantJobs \ {j} : HasStored(i)' = HasStored(i) /\ NewImage(i)' = NewImage(i)
    BY <1>2, <1>4 DEF Running, HasStored, NewImage
<1>8. ASSUME NEW row, ShowsKinds(row) PROVE ShowsKinds(row)'
    BY <1>1, <1>3, <1>8 DEF ShowsKinds
<1>9. ShowsKinds(tenant)'
    BY <1>0, <1>2, <1>8 DEF ImagesHold, ShowsKinds
<1>d. \A i \in stored : i \in DOMAIN images /\ i # n
    BY <1>0, <1>1, TenantTypes
<1>10. ASSUME NEW i \in stored' PROVE StoredIsShown(i)'
  <2>1. CASE i = n
    BY <1>7, <2>1 DEF StoredIsShown
  <2>2. CASE i # n
    <3>1. StoredIsShown(i) /\ images'[i] = images[i]
      BY <1>0, <1>2, <1>3, <1>d, <2>2 DEF ImagesHold
    <3> QED BY <1>2, <1>7, <3>1 DEF StoredIsShown
  <2> QED BY <2>1, <2>2
<1>11. ShownIsStored'
  <2>1. ASSUME NEW l \in Kinds, tenant.image[l] # 0
        PROVE  /\ images'[tenant.image[l]] = l
               /\ tenant.image[l] \in stored' \/ stale \/ halved \/ Running(l) # {}
    <3>1. tenant.image[l] \in DOMAIN images /\ images[tenant.image[l]] = l
      BY <1>0, <2>1 DEF ImagesHold, ShowsKinds
    <3> QED BY <1>0, <1>2, <1>3, <2>1, <3>1 DEF ImagesHold, ShownIsStored
  <2>2. ASSUME NEW i \in stored'
        PROVE  \/ tenant.image[images'[i]] = i \/ i \in undeleted
               \/ ~tenant.here \/ stale \/ halved \/ Running(images'[i]) # {}
    <3>1. CASE i = n
      BY <1>3, <1>6, <1>7, <3>1
    <3>2. CASE i # n
      BY <1>0, <1>2, <1>3, <1>d, <3>2 DEF ImagesHold, ShownIsStored
    <3> QED BY <3>1, <3>2
  <2> QED BY <1>2, <1>6, <2>1, <2>2 DEF ShownIsStored
<1>12. ASSUME NEW i \in TenantJobs PROVE JobImagesHold(i)'
  <2>0. JobImagesHold(i)
    BY <1>0 DEF ImagesHold
  <2>1. CASE i = j
    <3>1. ShowsKinds(tenantJob[j].row)'
      BY <1>0, <1>1, <1>3, <1>4 DEF JobImagesHold, ShowsKinds
    <3>2. ~tenantJob[j].late => RowIsCurrent(j)'
      BY <1>0, <1>2, <1>4, <1>c DEF JobImagesHold, RowIsCurrent, HasStored
    <3>e. tenant.image[kind] # n
      BY <1>0, <1>1, <1>2 DEF ImagesHold, ShowsKinds
    <3>3. ~tenantJob[j].late => IsCleared(j)'
      <4>1. ~tenantJob[j].late => IsCleared(j)
        BY <1>0, <1>2 DEF JobImagesHold
      <4>2. PICK x : x = tenant.image[kind]
        OBVIOUS
      <4>3. IsCleared(j) => x \notin stored' \/ x \in undeleted'
        BY <1>2, <1>c, <3>e, <4>2 DEF IsCleared
      <4>4. tenant' = tenant /\ tenantJob'[j].kind = kind
        BY <1>2, <1>4
      <4> QED BY <4>1, <4>2, <4>3, <4>4 DEF IsCleared
    <3>4. \A l \in TenantJobs \ {j} : tenantJob[l].row.image[kind] # n
      BY <1>0, <1>1, <1>2 DEF ImagesHold, JobImagesHold, ShowsKinds
    <3>5. StoredIsOwn(j)'
      BY <1>2, <1>4, <1>7, <3>4, <3>e DEF StoredIsOwn
    <3> QED BY <1>2, <1>4, <2>1, <3>1, <3>2, <3>3, <3>5 DEF JobImagesHold, HasStored
  <2>2. CASE i # j
    <3>1. tenantJob'[i] = tenantJob[i]
      BY <1>4, <2>2
    <3>2. ShowsKinds(tenantJob[i].row)'
      BY <1>1, <1>3, <2>0, <3>1 DEF JobImagesHold, ShowsKinds
    <3>3. tenantJob[i].step # "idle" /\ ~tenantJob[i].late => RowIsCurrent(i)'
      BY <1>2, <2>0, <3>1 DEF JobImagesHold, RowIsCurrent, HasStored
    <3>4. ASSUME tenantJob[i].deleted, IsCleared(i) PROVE IsCleared(i)'
      <4>1. tenantJob[i].kind \in Kinds
        BY <2>0, <3>4 DEF JobImagesHold
      <4>2. tenant.image[tenantJob[i].kind] # n
        BY <1>0, <1>1, <4>1 DEF ImagesHold, ShowsKinds
      <4> QED BY <1>2, <3>1, <3>4, <4>2 DEF IsCleared
    <3>5. ASSUME HasStored(i) PROVE StoredIsOwn(i)'
      <4>1. /\ StoredIsOwn(i) /\ tenantJob[i].kind \in Kinds
            /\ NewImage(i) \in DOMAIN images
        BY <1>d, <2>0, <3>5 DEF JobImagesHold, HasStored, StoredIsOwn
      <4>2. ASSUME NEW l \in TenantJobs \ {i}
            PROVE  tenantJob'[l].row.image[tenantJob[i].kind] # NewImage(i)
        <5>1. CASE l = j /\ tenantJob[i].kind = kind
          BY <1>1, <1>4, <4>1, <5>1
        <5>2. CASE ~(l = j /\ tenantJob[i].kind = kind)
          BY <1>4, <4>1, <5>2 DEF StoredIsOwn
        <5> QED BY <5>1, <5>2
      <4> QED BY <1>2, <1>7, <2>2, <3>1, <4>1, <4>2 DEF StoredIsOwn
    <3> QED BY <1>7, <2>0, <2>2, <3>1, <3>2, <3>3, <3>4, <3>5 DEF JobImagesHold
  <2> QED BY <2>1, <2>2
<1>13. OfficersHold'
  <2>1. UsersStay' /\ \A u \in (moved \ during)' : officer'[u] \in {"other", "gone"}
    BY <1>2 DEF TenantInv, OfficersHold, UsersStay
  <2>2. ASSUME NEW i \in TenantJobs, tenantJob'[i].step = "update" PROVE ListIsCurrent(i)'
    <3>1. i # j
      BY <1>4, <2>2
    <3>2. tenantJob'[i] = tenantJob[i] /\ officer' = officer /\ during' = during
      BY <1>2, <1>4, <3>1
    <3> QED BY <2>2, <3>2 DEF TenantInv, OfficersHold, ListIsCurrent
  <2> QED BY <2>1, <2>2 DEF OfficersHold
<1>14. PlanStays'
    BY <1>2 DEF TenantInv, PlanStays
<1> QED BY <1>5, <1>9, <1>10, <1>11, <1>12, <1>13, <1>14 DEF TenantInv, ImagesHold

(* The row changes, and with it the lateness of the requests, but no image that is shown. *)
LEMMA TenantIsChanged ==
    ASSUME TenantInv, TenantRowTypeOK', OfficersHold', PlanStays',
           UNCHANGED <<stored, images, stale, halved, undeleted>>,
           \A i \in TenantJobs :
               /\ SameButLate(i)
               /\ tenantJob[i].step # "idle" /\ tenantJob[i].late => tenantJob'[i].late,
           \/ ~tenant'.here /\ \A k \in Kinds : tenant'.image[k] = 0
           \/ tenant'.here = tenant.here /\ tenant'.image = tenant.image,
           \A i \in TenantJobs :
               tenantJob[i].step # "idle" /\ ~tenantJob'[i].late => tenant' = tenant
    PROVE  TenantInv'
<1>0. TenantRowTypeOK /\ ImagesHold
    BY DEF TenantInv
<1>1. \A k : Running(k)' = Running(k)
    BY DEF Running, SameButLate
<1>2. \A i \in TenantJobs : HasStored(i)' = HasStored(i) /\ NewImage(i)' = NewImage(i)
    BY DEF HasStored, NewImage, SameButLate
<1>3. \A k \in Kinds : tenant'.image[k] = 0 \/ tenant'.image[k] = tenant.image[k]
    OBVIOUS
<1>4. ShowsKinds(tenant)'
    BY <1>0, <1>3 DEF ImagesHold, ShowsKinds
<1>5. ShownIsStored'
  <2>1. ShownIsStored
    BY <1>0 DEF ImagesHold
  <2>2. ASSUME NEW k \in Kinds, tenant'.image[k] # 0
        PROVE  /\ images[tenant'.image[k]] = k
               /\ tenant'.image[k] \in stored \/ stale \/ halved \/ Running(k) # {}
    BY <1>3, <2>1, <2>2 DEF ShownIsStored
  <2>3. ASSUME NEW n \in stored
        PROVE  \/ tenant'.image[images[n]] = n \/ n \in undeleted
               \/ ~tenant'.here \/ stale \/ halved \/ Running(images[n]) # {}
    BY <2>1 DEF ShownIsStored
  <2> QED BY <1>1, <2>2, <2>3 DEF ShownIsStored
<1>6. ASSUME NEW n \in stored PROVE StoredIsShown(n)'
  <2>1. StoredIsShown(n)
    BY <1>0 DEF ImagesHold
  <2> QED BY <1>2, <2>1 DEF StoredIsShown
<1>7. ASSUME NEW i \in TenantJobs PROVE JobImagesHold(i)'
  <2>1. JobImagesHold(i)
    BY <1>0 DEF ImagesHold
  <2>2. /\ tenantJob'[i].step = tenantJob[i].step /\ tenantJob'[i].row = tenantJob[i].row
        /\ tenantJob'[i].kind = tenantJob[i].kind
        /\ tenantJob'[i].deleted = tenantJob[i].deleted
        /\ tenantJob[i].step # "idle" /\ tenantJob[i].late => tenantJob'[i].late
    BY DEF SameButLate
  <2>3. ShowsKinds(tenantJob[i].row)'
    BY <2>1, <2>2 DEF JobImagesHold, ShowsKinds
  <2>4. tenantJob[i].step # "idle" /\ ~tenantJob'[i].late => RowIsCurrent(i)'
    BY <2>1, <2>2, <1>2 DEF JobImagesHold, RowIsCurrent
  <2>5. ASSUME tenantJob[i].deleted, IsCleared(i) PROVE IsCleared(i)'
    <3>1. tenantJob[i].kind \in Kinds /\ 0 \notin stored
      BY <1>0, <2>1, <2>5, TenantTypes DEF JobImagesHold
    <3> QED BY <1>3, <2>2, <2>5, <3>1 DEF IsCleared
  <2>6. ASSUME HasStored(i) PROVE StoredIsOwn(i)'
    <3>1. StoredIsOwn(i) /\ tenantJob[i].kind \in Kinds /\ NewImage(i) # 0
      BY <1>0, <2>1, <2>6, TenantTypes DEF JobImagesHold, HasStored, StoredIsOwn
    <3>2. \A l \in TenantJobs : tenantJob'[l].row = tenantJob[l].row
      BY DEF SameButLate
    <3> QED BY <1>2, <1>3, <2>2, <3>1, <3>2 DEF StoredIsOwn
  <2> QED BY <1>2, <2>1, <2>2, <2>3, <2>4, <2>5, <2>6 DEF JobImagesHold
<1> QED BY <1>4, <1>5, <1>6, <1>7 DEF TenantInv, ImagesHold

LEMMA TenantIsRemoved ==
    ASSUME TenantInv, RemoveTenant
    PROVE  TenantInv'
<1>0. TenantRowTypeOK
    BY DEF TenantInv
<1>a. PICK row : row = [IdleTenantJob.row EXCEPT !.here = FALSE]
    OBVIOUS
<1>b. /\ row \in TenantState /\ row.here = FALSE /\ row.plan = NoPlan
      /\ \A k \in Kinds : row.image[k] = 0
    BY <1>a, IdleTenant DEF TenantState
<1>1. /\ tenant' = row /\ firstPlan' = NoPlan
      /\ officer' = [u \in Officers |-> IF officer[u] = "ours" THEN "gone" ELSE officer[u]]
      /\ UNCHANGED <<planRows, stored, images, stale, halved, undeleted, during, moved>>
      /\ tenantJob' = [i \in TenantJobs |->
             [tenantJob[i] EXCEPT !.late = tenantJob[i].step # "idle"]]
    BY <1>a DEF RemoveTenant
<1>2. ASSUME NEW i \in TenantJobs
      PROVE  /\ SameButLate(i) /\ tenantJob'[i] \in TenantJobState
             /\ tenantJob[i].step # "idle" => tenantJob'[i].late
  <2>1. PICK b \in BOOLEAN : b = (tenantJob[i].step # "idle")
    OBVIOUS
  <2>2. tenantJob'[i] = [tenantJob[i] EXCEPT !.late = b]
    BY <1>1, <2>1
  <2> QED BY <1>0, <2>1, <2>2, BecomesLate
<1>3. TenantRowTypeOK'
  <2>1. tenantJob' \in [TenantJobs -> TenantJobState]
    BY <1>1, <1>2
  <2> QED BY <1>0, <1>1, <1>b, <2>1 DEF TenantRowTypeOK
<1>4. OfficersHold'
  <2>1. UsersStay'
    BY <1>0, <1>1 DEF TenantInv, OfficersHold, UsersStay
  <2>2. \A u \in moved \ during : officer'[u] \in {"other", "gone"}
    BY <1>0, <1>1 DEF TenantInv, OfficersHold, TenantRowTypeOK
  <2>3. ASSUME NEW i \in TenantJobs, tenantJob[i].step = "update" PROVE ListIsCurrent(i)'
    BY <1>0, <1>1, <1>2, <2>3
       DEF TenantInv, OfficersHold, ListIsCurrent, TenantRowTypeOK, SameButLate
  <2> QED BY <1>1, <1>2, <2>1, <2>2, <2>3 DEF OfficersHold, SameButLate
<1>5. PlanStays'
    BY <1>1, <1>b DEF PlanStays
<1> QED BY <1>1, <1>2, <1>3, <1>4, <1>5, <1>b, TenantIsChanged

LEMMA PlanIsRemoved ==
    ASSUME TenantInv, NEW p \in Plans, RemovePlan(p)
    PROVE  TenantInv'
<1>0. TenantRowTypeOK
    BY DEF TenantInv
<1>a. PICK plan : plan = IF tenant.plan = p THEN NoPlan ELSE tenant.plan
    OBVIOUS
<1>1. /\ tenant' = [tenant EXCEPT !.plan = plan] /\ planRows' = planRows \ {p}
      /\ firstPlan' = IF firstPlan = p THEN NoPlan ELSE firstPlan
      /\ UNCHANGED <<officer, stored, images, stale, halved, undeleted, during, moved>>
      /\ tenantJob' = [i \in TenantJobs |-> [tenantJob[i] EXCEPT
             !.late = @ \/ (tenantJob[i].step # "idle" /\ tenant.plan = p)]]
    BY <1>a DEF RemovePlan
<1>b. /\ tenant' \in TenantState /\ tenant'.plan = plan /\ tenant'.here = tenant.here
      /\ tenant'.image = tenant.image /\ plan \in (planRows \ {p}) \union {NoPlan}
      /\ tenant.plan # p => tenant' = tenant
    BY <1>0, <1>1, <1>a DEF TenantRowTypeOK, TenantState
<1>2. ASSUME NEW i \in TenantJobs
      PROVE  /\ SameButLate(i) /\ tenantJob'[i] \in TenantJobState
             /\ tenantJob[i].late => tenantJob'[i].late
             /\ tenantJob[i].step # "idle" /\ tenant.plan = p => tenantJob'[i].late
  <2>1. PICK b \in BOOLEAN :
            b = (tenantJob[i].late \/ (tenantJob[i].step # "idle" /\ tenant.plan = p))
    OBVIOUS
  <2>2. tenantJob'[i] = [tenantJob[i] EXCEPT !.late = b]
    BY <1>1, <2>1
  <2> QED BY <1>0, <2>1, <2>2, BecomesLate
<1>3. TenantRowTypeOK'
  <2>1. tenantJob' \in [TenantJobs -> TenantJobState]
    BY <1>1, <1>2
  <2>2. firstPlan' \in Plans \union {NoPlan} /\ planRows' \subseteq Plans
    BY <1>0, <1>1 DEF TenantRowTypeOK
  <2> QED BY <1>0, <1>1, <1>b, <2>1, <2>2 DEF TenantRowTypeOK
<1>4. OfficersHold'
  <2>1. UsersStay' /\ \A u \in (moved \ during)' : officer'[u] \in {"other", "gone"}
    BY <1>1 DEF TenantInv, OfficersHold, UsersStay
  <2>2. ASSUME NEW i \in TenantJobs, tenantJob'[i].step = "update" PROVE ListIsCurrent(i)'
    <3>1. tenantJob'[i].users = tenantJob[i].users /\ tenantJob[i].step = "update"
      BY <1>2, <2>2 DEF SameButLate
    <3> QED BY <1>1, <3>1 DEF TenantInv, OfficersHold, ListIsCurrent
  <2> QED BY <2>1, <2>2 DEF OfficersHold
<1>5. PlanStays'
    BY <1>1, <1>a, <1>b DEF TenantInv, PlanStays
<1> QED BY <1>1, <1>2, <1>3, <1>4, <1>5, <1>b, TenantIsChanged

(* A user comes or goes. *)
LEMMA OfficerChanges ==
    ASSUME TenantInv, NEW u \in Officers,
           CreateOfficer(u) \/ MoveOfficer(u) \/ RemoveOfficer(u)
    PROVE  TenantInv'
<1>0. TenantRowTypeOK
    BY DEF TenantInv
<1>a. PICK state \in {"ours", "other", "gone"} :
          /\ OfficerBecomes(u, state) /\ (state = "ours" => officer[u] = "new")
    BY DEF CreateOfficer, MoveOfficer, RemoveOfficer
<1>1. /\ officer' = [officer EXCEPT ![u] = state]
      /\ moved' = IF state = "other" THEN moved \union {u} ELSE moved
      /\ during' = IF \E j \in TenantJobs : tenantJob[j].step = "update"
                   THEN during \union {u} ELSE during
      /\ UNCHANGED <<tenant, planRows, stored, tenantJob, images, stale, halved, undeleted,
                     firstPlan>>
    BY <1>a DEF OfficerBecomes
<1>2. officer'[u] = state /\ \A v \in Officers \ {u} : officer'[v] = officer[v]
    BY <1>0, <1>1 DEF TenantRowTypeOK
<1>3. TenantRowTypeOK'
    BY <1>0, <1>1, <1>a DEF TenantRowTypeOK
<1>4. \A v \in during : v \in during'
    BY <1>1
<1>5. OfficersHold'
  <2>1. UsersStay'
    <3>1. ASSUME NEW v \in Officers, v # u,
                 officer'[v] = "none" \/ (officer'[v] = "ours" /\ v \in moved')
          PROVE  v \in during'
      <4>1. officer[v] = "none" \/ (officer[v] = "ours" /\ v \in moved)
        BY <1>1, <1>2, <3>1
      <4> QED BY <1>4, <4>1 DEF TenantInv, OfficersHold, UsersStay
    <3>2. ASSUME officer'[u] = "none" \/ (officer'[u] = "ours" /\ u \in moved')
          PROVE  u \in during'
      <4>1. officer[u] = "new" /\ u \in moved
        BY <1>1, <1>2, <1>a, <3>2
      <4> QED BY <1>4, <4>1 DEF TenantInv, OfficersHold
    <3> QED BY <3>1, <3>2 DEF UsersStay
  <2>2. ASSUME NEW v \in moved', v \notin during' PROVE officer'[v] \in {"other", "gone"}
    <3>1. CASE v = u
      <4>1. CASE state = "ours"
        <5>1. officer[u] = "new" /\ u \in moved /\ u \notin during
          BY <1>1, <1>4, <1>a, <2>2, <3>1, <4>1
        <5> QED BY <5>1 DEF TenantInv, OfficersHold
      <4>2. CASE state # "ours"
        BY <1>2, <3>1, <4>2
      <4> QED BY <4>1, <4>2
    <3>2. CASE v # u
      <4>1. v \in moved /\ v \notin during /\ v \in Officers
        BY <1>0, <1>1, <1>4, <2>2, <3>2 DEF TenantRowTypeOK
      <4> QED BY <1>2, <3>2, <4>1 DEF TenantInv, OfficersHold
    <3> QED BY <3>1, <3>2
  <2>3. ASSUME NEW i \in TenantJobs, tenantJob[i].step = "update" PROVE ListIsCurrent(i)'
    <3>1. u \in during'
      BY <1>1, <2>3
    <3>2. \A v \in Officers \ during' : v \in Officers \ during /\ officer'[v] = officer[v]
      BY <1>2, <1>4, <3>1
    <3> QED BY <1>1, <2>3, <3>2 DEF TenantInv, OfficersHold, ListIsCurrent
  <2> QED BY <1>1, <2>1, <2>2, <2>3 DEF OfficersHold
<1>6. ASSUME NEW i \in TenantJobs PROVE SameButLate(i) /\ tenantJob'[i].late = tenantJob[i].late
    BY <1>1 DEF SameButLate
<1>7. PlanStays'
    BY <1>1 DEF TenantInv, PlanStays
<1> QED BY <1>1, <1>3, <1>5, <1>6, <1>7, TenantIsChanged

-----------------------------------------------------------------------------
(* The actions. *)
LEMMA TenantReads ==
    ASSUME TenantInv, NEW j \in TenantJobs,
           \/ \E p \in Plans \union {NoPlan} : UpdateTenant(j, p)
           \/ Branding(j) \/ TenantJobStops(j)
           \/ \E k \in Kinds : UploadImage(j, k) \/ DeleteImage(j, k)
    PROVE  TenantInv'
<1>0. /\ TenantRowTypeOK /\ JobImagesHold(j) /\ tenant \in TenantState
      /\ halved \in BOOLEAN
    BY DEF TenantInv, ImagesHold, TenantRowTypeOK
<1>1. ASSUME NEW job \in TenantJobState, FindTenant(j, job), job.row = tenant,
             \/ job.step \in {"update", "colour"}
             \/ job.step \in {"clearFor", "clear"} /\ job.kind \in Kinds,
             job.step = "update" => job.users = Ours, job.deleted = FALSE
      PROVE  TenantInv'
  <2>1. tenantJob[j].deleted => halved'
    BY <1>0, <1>1 DEF FindTenant, JobImagesHold
  <2>2. /\ tenantJob' = [tenantJob EXCEPT ![j] = job] /\ tenant.here
        /\ UNCHANGED <<tenant, planRows, officer, stored, images, stale, halved, undeleted,
                       during, moved, firstPlan>>
    BY <1>1 DEF FindTenant, tenantPast
  <2> QED BY <1>0, <1>1, <2>1, <2>2, OneTenantJob
<1>2. ASSUME NEW p \in Plans \union {NoPlan}, UpdateTenant(j, p) PROVE TenantInv'
  <2>1. PICK job : job = [IdleTenantJob EXCEPT !.step = "update", !.row = tenant,
                                               !.users = Ours, !.plan = p]
    OBVIOUS
  <2>2. Ours \in SUBSET Officers
    BY DEF Ours
  <2>3. /\ job \in TenantJobState /\ job.step = "update" /\ job.row = tenant
        /\ job.users = Ours /\ job.deleted = FALSE
    BY <1>0, <2>1, <2>2, IdleTenant DEF TenantJobState
  <2> QED BY <1>1, <1>2, <2>1, <2>3 DEF UpdateTenant
<1>3. CASE Branding(j)
  <2>1. PICK job : job = [IdleTenantJob EXCEPT !.step = "colour", !.row = tenant]
    OBVIOUS
  <2>2. /\ job \in TenantJobState /\ job.step = "colour" /\ job.row = tenant
        /\ job.deleted = FALSE
    BY <1>0, <2>1, IdleTenant DEF TenantJobState
  <2> QED BY <1>1, <1>3, <2>1, <2>2 DEF Branding
<1>4. ASSUME NEW k \in Kinds, UploadImage(j, k) \/ DeleteImage(j, k) PROVE TenantInv'
  <2>1. PICK step \in {"clearFor", "clear"} :
            FindTenant(j, [IdleTenantJob EXCEPT !.step = step, !.row = tenant, !.kind = k])
    BY <1>4 DEF UploadImage, DeleteImage
  <2>2. PICK job : job = [IdleTenantJob EXCEPT !.step = step, !.row = tenant, !.kind = k]
    OBVIOUS
  <2>3. /\ job \in TenantJobState /\ job.step = step /\ job.row = tenant
        /\ job.kind = k /\ job.deleted = FALSE
    BY <1>0, <2>2, IdleTenant DEF TenantJobState
  <2> QED BY <1>1, <2>1, <2>2, <2>3
<1>5. CASE TenantJobStops(j)
  <2>1. PICK deleted \in BOOLEAN : deleted = tenantJob[j].deleted
    BY <1>0, TenantTypes
  <2>2. /\ halved' = (halved \/ deleted) /\ tenantJob' = [tenantJob EXCEPT ![j] = IdleTenantJob]
        /\ UNCHANGED <<tenant, planRows, officer, stored, images, stale, undeleted, during,
                       moved, firstPlan>>
    BY <1>5, <2>1 DEF TenantJobStops
  <2> QED BY <1>0, <2>1, <2>2, IdleTenant, OneTenantJob
<1> QED BY <1>2, <1>3, <1>4, <1>5

LEMMA OtherSaves ==
    ASSUME TenantInv, NEW j \in TenantJobs, BrandingSave(j) \/ ImageSave(j)
    PROVE  TenantInv'
<1>0. /\ TenantRowTypeOK /\ JobImagesHold(j)
      /\ tenantJob[j].row \in TenantState /\ tenantJob[j].row.image \in [Kinds -> Nat]
      /\ firstPlan \in Plans \union {NoPlan}
    BY TenantTypes DEF TenantInv, ImagesHold, TenantRowTypeOK
<1>1. PICK isLate \in BOOLEAN : isLate = tenantJob[j].late
    BY TenantTypes DEF TenantInv
<1>2. ASSUME NEW row \in TenantState, SaveTenant(j, row), row.plan = tenantJob[j].row.plan,
             tenantJob[j].step \in {"colour", "uploadSave", "deleteSave"},
             row.here = tenantJob[j].row.here,
             IF tenantJob[j].step = "deleteSave"
             THEN \A k \in Kinds : row.image[k] = IF k = tenantJob[j].kind THEN 0
                                                  ELSE tenantJob[j].row.image[k]
             ELSE \A k \in Kinds : row.image[k] = tenantJob[j].row.image[k],
             UNCHANGED <<officer, stored, images, halved, undeleted, during, moved, firstPlan>>
      PROVE  TenantInv'
  <2>1. stale \/ isLate \/ row.plan = firstPlan
    <3>1. ~isLate => row.plan = tenant.plan
      BY <1>0, <1>1, <1>2 DEF JobImagesHold, RowIsCurrent
    <3> QED BY <3>1 DEF TenantInv, PlanStays
  <2>2. OfficersHold'
    <3>1. UsersStay' /\ \A u \in (moved \ during)' : officer'[u] \in {"other", "gone"}
      BY <1>2 DEF TenantInv, OfficersHold, UsersStay
    <3>2. ASSUME NEW i \in TenantJobs, tenantJob'[i].step = "update" PROVE ListIsCurrent(i)'
      <4>1. tenantJob[i].step = "update" /\ tenantJob'[i].users = tenantJob[i].users
        <5>1. i # j
          BY <1>2, <3>2, IdleTenant DEF SaveTenant, TenantWritten
        <5>2. PICK b \in BOOLEAN : b = (tenantJob[i].step # "idle")
          OBVIOUS
        <5>3. tenantJob'[i] = [tenantJob[i] EXCEPT !.late = b]
          BY <1>2, <5>1, <5>2 DEF SaveTenant, TenantWritten
        <5>4. SameButLate(i)
          BY <1>0, <5>2, <5>3, BecomesLate
        <5> QED BY <3>2, <5>4 DEF SameButLate
      <4> QED BY <1>2, <4>1 DEF TenantInv, OfficersHold, ListIsCurrent
    <3> QED BY <3>1, <3>2 DEF OfficersHold
  <2> QED BY <1>0, <1>1, <1>2, <2>1, <2>2, TenantIsSaved DEF TenantRowTypeOK
<1>3. CASE BrandingSave(j)
  <2>1. PICK row : row = [tenantJob[j].row EXCEPT !.colour = 1 - @]
    OBVIOUS
  <2>2. /\ row \in TenantState /\ row.here = tenantJob[j].row.here
        /\ row.plan = tenantJob[j].row.plan /\ row.image = tenantJob[j].row.image
    BY <1>0, <2>1 DEF TenantState
  <2>3. /\ SaveTenant(j, row) /\ tenantJob[j].step = "colour"
        /\ UNCHANGED <<officer, stored, images, halved, undeleted, during, moved, firstPlan>>
    BY <1>3, <2>1 DEF BrandingSave
  <2> QED BY <1>2, <2>2, <2>3
<1>4. CASE ImageSave(j)
  <2>1. /\ tenantJob[j].step \in {"uploadSave", "deleteSave"}
        /\ UNCHANGED <<officer, stored, images, halved, undeleted, during, moved, firstPlan>>
    BY <1>4 DEF ImageSave
  <2>2. CASE tenantJob[j].step = "uploadSave"
    <3>1. SaveTenant(j, tenantJob[j].row)
      BY <1>4, <2>2 DEF ImageSave
    <3> QED BY <1>0, <1>2, <2>1, <2>2, <3>1
  <2>3. CASE tenantJob[j].step = "deleteSave"
    <3>1. PICK row : row = [tenantJob[j].row EXCEPT !.image[tenantJob[j].kind] = 0]
      OBVIOUS
    <3>2. /\ row \in TenantState /\ row.here = tenantJob[j].row.here
          /\ row.plan = tenantJob[j].row.plan
          /\ \A k \in Kinds : row.image[k] = IF k = tenantJob[j].kind THEN 0
                                             ELSE tenantJob[j].row.image[k]
      <4>1. PICK image : image = [tenantJob[j].row.image EXCEPT ![tenantJob[j].kind] = 0]
        OBVIOUS
      <4>2. /\ image \in [Kinds -> Nat]
            /\ \A k \in Kinds : image[k] = IF k = tenantJob[j].kind THEN 0
                                           ELSE tenantJob[j].row.image[k]
        BY <1>0, <4>1
      <4>3. row = [tenantJob[j].row EXCEPT !.image = image]
        BY <1>0, <3>1, <4>1
      <4>4. row \in TenantState /\ row.image = image /\ row.here = tenantJob[j].row.here
            /\ row.plan = tenantJob[j].row.plan
        BY <1>0, <4>2, <4>3 DEF TenantState
      <4> QED BY <4>2, <4>4
    <3>3. SaveTenant(j, row)
      BY <1>4, <2>3, <3>1 DEF ImageSave
    <3> QED BY <1>2, <2>1, <2>3, <3>2, <3>3
  <2> QED BY <2>1, <2>2, <2>3
<1> QED BY <1>3, <1>4

LEMMA UpdateSaves ==
    ASSUME TenantInv, NEW j \in TenantJobs, UpdateTenantSave(j)
    PROVE  TenantInv'
<1>0. /\ TenantRowTypeOK /\ JobImagesHold(j) /\ OfficersHold
      /\ tenantJob[j].row \in TenantState /\ tenantJob[j].plan \in Plans \union {NoPlan}
      /\ tenantJob[j].row.plan \in Plans \union {NoPlan}
      /\ firstPlan \in Plans \union {NoPlan}
    BY TenantTypes DEF TenantInv, ImagesHold, TenantRowTypeOK
<1>a. PICK isLate \in BOOLEAN : isLate = tenantJob[j].late
    BY TenantTypes DEF TenantInv
<1>b. PICK plan : plan = PlanSaved(tenantJob[j].row.plan, tenantJob[j].plan)
    OBVIOUS
<1>c. PICK row : row = [tenantJob[j].row EXCEPT !.plan = plan]
    OBVIOUS
<1>1. /\ tenantJob[j].step = "update" /\ SaveTenant(j, row)
      /\ officer' = [u \in Officers |-> ListSaved(u, tenantJob[j].users)]
      /\ firstPlan' = IF firstPlan = NoPlan THEN tenantJob[j].plan ELSE firstPlan
      /\ UNCHANGED <<stored, images, halved, undeleted, during, moved>>
    BY <1>b, <1>c DEF UpdateTenantSave
<1>2. /\ row \in TenantState /\ row.here = tenantJob[j].row.here
      /\ row.image = tenantJob[j].row.image /\ row.plan = plan
    BY <1>0, <1>b, <1>c DEF TenantState, PlanSaved
<1>3. stale \/ isLate \/ row.plan = firstPlan'
  <2>1. ~isLate => tenantJob[j].row.plan = tenant.plan
    BY <1>0, <1>1, <1>a DEF JobImagesHold, RowIsCurrent
  <2>2. ~isLate /\ ~stale => tenantJob[j].row.plan = firstPlan
    BY <2>1 DEF TenantInv, PlanStays
  <2> QED BY <1>1, <1>2, <1>b, <2>2 DEF PlanSaved
<1>4. officer' \in [Officers -> {"new", "ours", "none", "other", "gone"}]
    BY <1>0, <1>1 DEF TenantRowTypeOK, ListSaved
<1>5. ListIsCurrent(j)
    BY <1>0, <1>1 DEF OfficersHold
<1>6. ASSUME NEW u \in Officers, u \notin during PROVE officer'[u] = officer[u]
    BY <1>1, <1>5, <1>6 DEF ListIsCurrent, ListSaved
<1>7. OfficersHold'
  <2>1. UsersStay'
    BY <1>0, <1>1, <1>6 DEF OfficersHold, UsersStay
  <2>2. \A u \in moved \ during : officer'[u] \in {"other", "gone"}
    BY <1>0, <1>6 DEF OfficersHold, TenantRowTypeOK
  <2>3. ASSUME NEW i \in TenantJobs, tenantJob'[i].step = "update" PROVE ListIsCurrent(i)'
    <3>1. tenantJob[i].step = "update" /\ tenantJob'[i].users = tenantJob[i].users
      <4>1. i # j
        BY <1>1, <2>3, IdleTenant DEF SaveTenant, TenantWritten
      <4>2. PICK b \in BOOLEAN : b = (tenantJob[i].step # "idle")
        OBVIOUS
      <4>3. tenantJob'[i] = [tenantJob[i] EXCEPT !.late = b]
        BY <1>1, <4>1, <4>2 DEF SaveTenant, TenantWritten
      <4>4. SameButLate(i)
        BY <1>0, <4>2, <4>3, BecomesLate
      <4> QED BY <2>3, <4>4 DEF SameButLate
    <3> QED BY <1>0, <1>1, <1>6, <3>1 DEF OfficersHold, ListIsCurrent
  <2> QED BY <1>1, <2>1, <2>2, <2>3 DEF OfficersHold
<1>8. firstPlan' \in Plans \union {NoPlan}
    BY <1>0, <1>1
<1> QED BY <1>0, <1>1, <1>2, <1>3, <1>4, <1>7, <1>8, <1>a, TenantIsSaved

LEMMA TenantInvInit == TenantRowInit => TenantInv
<1> SUFFICES ASSUME TenantRowInit PROVE TenantInv
    OBVIOUS
<1>1. Shows \in [Kinds -> Nat] /\ \A k \in Kinds : Shows[k] = 0
    BY DEF Shows
<1>2. /\ tenant \in TenantState /\ tenant.plan = NoPlan
      /\ \A k \in Kinds : tenant.image[k] = 0
    BY <1>1 DEF TenantRowInit, TenantState
<1>3. DOMAIN images = {} /\ Cardinality(DOMAIN images) = 0
  <2>1. DOMAIN images = {}
    BY DEF TenantRowInit
  <2>2. Cardinality({}) = 0
    BY FS_EmptySet
  <2> QED BY <2>1, <2>2
<1>4. TenantRowTypeOK
  <2>1. DOMAIN images = 1 .. Cardinality(DOMAIN images) /\ Cardinality(DOMAIN images) \in Nat
    <3>1. {} = 1 .. 0 /\ 0 \in Nat
      OBVIOUS
    <3> QED BY <1>3, <3>1
  <2>2. images \in [DOMAIN images -> Kinds] /\ stored \subseteq DOMAIN images
    BY <1>3 DEF TenantRowInit
  <2> QED BY <1>2, <2>1, <2>2, IdleTenant DEF TenantRowInit, TenantRowTypeOK
<1>5. ImagesHold
  <2>1. ShownIsStored /\ ShowsKinds(tenant) /\ stored = {}
    BY <1>2 DEF TenantRowInit, ShownIsStored, ShowsKinds
  <2>2. ASSUME NEW j \in TenantJobs PROVE JobImagesHold(j)
    BY IdleTenant DEF TenantRowInit, JobImagesHold, ShowsKinds, HasStored
  <2> QED BY <2>1, <2>2 DEF ImagesHold
<1>6. OfficersHold
    BY IdleTenant DEF TenantRowInit, OfficersHold, UsersStay
<1>7. PlanStays
    BY <1>2 DEF TenantRowInit, PlanStays
<1> QED BY <1>4, <1>5, <1>6, <1>7 DEF TenantInv

LEMMA TenantInvStep ==
    ASSUME TenantInv, [TenantRowNext]_tenantVars
    PROVE  TenantInv'
<1>1. CASE UNCHANGED tenantVars
  <2>1. /\ UNCHANGED <<tenant, planRows, officer, stored, tenantJob, images, stale, halved,
                       undeleted, during, moved, firstPlan>>
    BY <1>1 DEF tenantVars
  <2>2. TenantRowTypeOK'
    BY <2>1 DEF TenantInv, TenantRowTypeOK
  <2>3. OfficersHold'
    BY <2>1 DEF TenantInv, OfficersHold, UsersStay, ListIsCurrent
  <2>4. PlanStays'
    BY <2>1 DEF TenantInv, PlanStays
  <2>5. ASSUME NEW i \in TenantJobs PROVE SameButLate(i) /\ tenantJob'[i].late = tenantJob[i].late
    BY <2>1 DEF SameButLate
  <2> QED BY <2>1, <2>2, <2>3, <2>4, <2>5, TenantIsChanged
<1>2. CASE TenantRowNext
    BY <1>2, TenantIsRemoved, PlanIsRemoved, OfficerChanges, UpdateSaves, TenantReads, OtherSaves,
       ImageIsStored, ImageIsCleared DEF TenantRowNext
<1> QED BY <1>1, <1>2

(* The inductive invariant of the tenant's row holds: what a request holds of the row, its
   images and its list of users is as old as the request's flags say. *)
THEOREM TenantInvHolds == TenantRowSpec => []TenantInv
<1>1. TenantRowInit => TenantInv
    BY TenantInvInit
<1>2. TenantInv /\ [TenantRowNext]_tenantVars => TenantInv'
    BY TenantInvStep
<1> QED BY <1>1, <1>2, PTL DEF TenantRowSpec

-----------------------------------------------------------------------------
(* MCAccess.tla: a behaviour of one of the parts. *)
PartsHold == AccessTypeOK /\ RowsAreKept

LEMMA PartsInit == Init => PartsHold
<1>1. SessionsInit => SessionsInv /\ RowAsAsked
    BY SessionsTypeInit, KicksHoldInit DEF SessionsInv, KicksHold, SessionsInit, RowAsAsked
<1>2. LeadsInv => LeadsAgree
    BY DEF LeadsInv
<1>3. TenantInv => TenantRowHolds
    BY DEF TenantInv, ImagesHold, OfficersHold, TenantRowHolds
<1> QED BY <1>1, <1>2, <1>3, PermissionsInitInv, LeaderInit, TenantInvInit, LeadsInvInit
        DEF Init, PartsHold, AccessTypeOK, RowsAreKept

LEMMA PartsStep ==
    ASSUME PartsHold, [Next]_vars
    PROVE  PartsHold'
<1>0. /\ part' = part
      /\ part = "sessions" => [SessionsNext]_sessionVars
      /\ part = "permissions" => [PermissionsNext]_permissionsVars
      /\ part = "leaders" => [LeaderAccessNext]_leaderVars
      /\ part = "tenants" => [TenantRowNext]_tenantVars
      /\ part = "leads" => [LeadsNext]_leadVars
    BY DEF Next, vars
<1>1. part = "sessions" => SessionsInv' /\ RowAsAsked'
    <2>1. SessionsInv => SessionsTypeOK
        BY DEF SessionsInv
    <2> QED BY <1>0, <2>1, SessionsInvStep, RowAsAskedStep DEF PartsHold, AccessTypeOK, RowsAreKept
<1>2. part = "permissions" => PermissionsInv'
    BY <1>0, PermissionsInvStep DEF PartsHold, AccessTypeOK
<1>3. part = "leaders" => LeaderInv'
    BY <1>0, LeaderInvStep DEF PartsHold, AccessTypeOK
<1>4. part = "tenants" => TenantInv' /\ TenantRowHolds'
    <2>1. part = "tenants" => TenantInv'
        BY <1>0, TenantInvStep DEF PartsHold, AccessTypeOK
    <2>2. TenantInv' => TenantRowHolds'
        BY DEF TenantInv, ImagesHold, OfficersHold, TenantRowHolds
    <2> QED BY <2>1, <2>2
<1>5. part = "leads" => LeadsInv' /\ LeadsAgree'
    <2>1. part = "leads" => LeadsInv'
        BY <1>0, LeadsInvStep DEF PartsHold, AccessTypeOK
    <2>2. LeadsInv' => LeadsAgree'
        BY DEF LeadsInv
    <2> QED BY <2>1, <2>2
<1> QED BY <1>0, <1>1, <1>2, <1>3, <1>4, <1>5 DEF PartsHold, AccessTypeOK, RowsAreKept

LEMMA PartsAlways == Spec => []PartsHold
<1>1. PartsHold /\ [Next]_vars => PartsHold'
    BY PartsStep
<1> QED BY PartsInit, <1>1, PTL DEF Spec

(* All variables of the sessions, permissions, leaders' logins, tenants and leads keep their *)
(* types, and each part its inductive invariant, in the composition that TLC checks.         *)
THEOREM AccessInvHolds == Spec => []AccessTypeOK
<1>1. PartsHold => AccessTypeOK
    BY DEF PartsHold
<1> QED BY <1>1, PartsAlways, PTL

(* A user's row, a tenant's with its images, its users and its plan, and the leads of an     *)
(* address, say what the requests asked, unless a copy older than another's save was saved,  *)
(* a request stopped between two statements, or somebody edited or removed what it asked     *)
(* (auth.service.ts, users.service.ts, tenants.service.ts, tenant-branding.service.ts,       *)
(* leads.service.ts).                                                                        *)
THEOREM RowsAlwaysKept == Spec => []RowsAreKept
<1>1. PartsHold => RowsAreKept
    BY DEF PartsHold
<1> QED BY <1>1, PartsAlways, PTL
=============================================================================
