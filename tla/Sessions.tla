------------------------------ MODULE Sessions ------------------------------
(***************************************************************************)
(* Who may use the back end: AuthService, the two JWT strategies, the      *)
(* writes of UsersService, and the webhook that switches a user on again   *)
(* when its subscription is paid.  A session is a chain of tokens, the     *)
(* first minted by a login, the others by refreshes.  What ends it is a    *)
(* column of the user's row: active, or sessionsValidAfter (cutoff here),  *)
(* which is compared with the second a token was minted in.                *)
(*                                                                         *)
(* Every write but the two bulk kicks reads the whole row, waits, and      *)
(* saves the whole row.  `asked` and `lost` are history: the last value an *)
(* operation asked for, and the columns in which a save put back something *)
(* older than that.                                                        *)
(***************************************************************************)
EXTENDS Naturals, FiniteSets

CONSTANTS Users,          \* rows of the table users, by id
          Tenants,        \* the user sets a bulk kick is for: all, or a tenant's
          Passwords,
          SessionJobs,    \* requests at work
          TicksPerSecond, \* the clock is finer than a token's iat
          MaxTick,        \* bound: the clock stops here
          MaxKicks,       \* bound: kicks of one user
          MaxTokens,      \* bound: tokens in use at once
          MaxWrites       \* bound: profile and administrator's updates

ASSUME SessionsAssumption ==
    /\ Users # {} /\ Tenants \subseteq SUBSET Users
    /\ Passwords # {}
    /\ TicksPerSecond \in Nat \ {0}
    /\ MaxTick \in Nat \ {0} /\ MaxKicks \in Nat
    /\ MaxTokens \in Nat /\ MaxWrites \in Nat

VARIABLES clock, userRow, tokens, session, kicks, asked, lost, writes

sessionVars == <<clock, userRow, tokens, session, kicks, asked, lost, writes>>

Ticks == 0 .. MaxTick
\* "new" has no row yet, "gone" had one; cutoff 0 is the NULL of a row never kicked
UserRow == [state : {"new", "here", "gone"}, active : BOOLEAN, password : Passwords,
            cutoff : Ticks]
\* known: the kicks of its user when the login behind it was checked;
\* late: it, or a token it descends from, was minted in spite of a kick
Token == [user : Users, iat : Ticks, known : 0 .. MaxKicks, late : BOOLEAN]
Columns == {"state", "active", "password", "cutoff"}
SessionSteps == {"idle", "loginSave", "mint", "refresh", "profile", "profileSave",
                 "update", "reactivate", "kick", "kickMany"}
SessionJob == [step : SessionSteps, user : Users, row : UserRow, known : 0 .. MaxKicks,
               since : 0 .. MaxKicks, late : BOOLEAN, at : Ticks]

Second(t) == t \div TicksPerSecond
IsRevoked(tk, row) == Second(tk.iat) * TicksPerSecond < row.cutoff
\* JwtStrategy.validate and JwtRefreshStrategy.validate
IsAccepted(tk) ==
    LET row == userRow[tk.user] IN
    row.state = "here" /\ row.active /\ ~IsRevoked(tk, row)

Blank == [step |-> "idle", user |-> CHOOSE u \in Users : TRUE,
          row |-> [state |-> "new", active |-> TRUE,
                   password |-> CHOOSE p \in Passwords : TRUE, cutoff |-> 0],
          known |-> 0, since |-> 0, late |-> FALSE, at |-> 0]

SessionsInit ==
    /\ clock = 1
    /\ userRow = [u \in Users |-> Blank.row]
    /\ asked = userRow
    /\ tokens = {}
    /\ session = [j \in SessionJobs |-> Blank]
    /\ kicks = [u \in Users |-> 0]
    /\ lost = [u \in Users |-> {}]
    /\ writes = 0

history == <<kicks, asked, lost, writes>>

SessionTick ==
    /\ clock < MaxTick
    /\ clock' = clock + 1
    /\ UNCHANGED <<userRow, tokens, session, history>>

\* a token expires, or its bearer forgets it
TokenEnds(tk) ==
    /\ tk \in tokens
    /\ tokens' = tokens \ {tk}
    /\ UNCHANGED <<clock, userRow, session, history>>

----------------------------------------------------------------------------
(* Requests: login and refresh *)

\* the request stops: refused, not found, a conflict, or no active subscription
SessionEnds(j) ==
    /\ session[j].step # "idle"
    /\ session' = [session EXCEPT ![j] = Blank]
    /\ UNCHANGED <<clock, userRow, tokens, history>>

\* an idle request reads the row of u, and goes on at `to`
Reads(j, u, to) ==
    /\ session[j].step = "idle"
    /\ userRow[u].state = "here"
    /\ session' = [session EXCEPT ![j] = [step |-> to, user |-> u, row |-> userRow[u],
                                          known |-> kicks[u], since |-> kicks[u],
                                          late |-> FALSE, at |-> clock]]
    /\ UNCHANGED <<clock, userRow, tokens, history>>

\* repository.save(user): every column as the request holds it; a row removed
\* meanwhile is inserted again.  What it did not mean to write and differs is lost
SaveUser(u, row, meant) ==
    /\ userRow' = [userRow EXCEPT ![u] = row]
    /\ lost' = [lost EXCEPT ![u] =
                  (@ \ meant) \union {c \in Columns \ meant : row[c] # userRow[u][c]}]

\* login: find by address, compare the password, refuse the inactive
Login(j, u, p) ==
    /\ userRow[u].password = p /\ userRow[u].active
    /\ Reads(j, u, "loginSave")

\* login, after ensureActiveSubscription: lastLoginAt, saved with the rest of the row
LoginSave(j) ==
    /\ session[j].step = "loginSave"
    /\ SaveUser(session[j].user, session[j].row, {})
    /\ session' = [session EXCEPT ![j].step = "mint", ![j].row = Blank.row]
    /\ UNCHANGED <<clock, tokens, kicks, asked, writes>>

\* generateTokens, after the modules were read
Mint(j) ==
    LET s == session[j] IN
    /\ s.step = "mint" /\ Cardinality(tokens) < MaxTokens
    /\ tokens' = tokens \union
         {[user |-> s.user, iat |-> clock, known |-> s.known,
           late |-> s.late \/ s.since # kicks[s.user]]}
    /\ session' = [session EXCEPT ![j] = Blank]
    /\ UNCHANGED <<clock, userRow, history>>

\* a guarded request whose token JwtStrategy or JwtRefreshStrategy accepts
Enters(j, tk, to) ==
    /\ session[j].step = "idle" /\ tk \in tokens /\ IsAccepted(tk)
    /\ session' = [session EXCEPT ![j] =
                     [Blank EXCEPT !.step = to, !.user = tk.user,
                                   !.known = tk.known, !.since = kicks[tk.user],
                                   !.late = tk.late]]
    /\ UNCHANGED <<clock, userRow, tokens, history>>

\* Mutant: JwtRefreshStrategy does not compare the cutoff
RefreshAnyAge(j, tk) ==
    /\ session[j].step = "idle" /\ tk \in tokens
    /\ userRow[tk.user].state = "here" /\ userRow[tk.user].active
    /\ session' = [session EXCEPT ![j] = [Blank EXCEPT
                     !.step = "refresh", !.user = tk.user, !.known = tk.known,
                     !.since = kicks[tk.user], !.late = tk.late]]
    /\ UNCHANGED <<clock, userRow, tokens, history>>

Refresh(j, tk) == Enters(j, tk, "refresh")

\* refreshToken reads the row again, but does not look at the cutoff again
RefreshFind(j) ==
    LET row == userRow[session[j].user] IN
    /\ session[j].step = "refresh" /\ row.state = "here" /\ row.active
    /\ session' = [session EXCEPT ![j].step = "mint"]
    /\ UNCHANGED <<clock, userRow, tokens, history>>

----------------------------------------------------------------------------
(* Requests: the profile and the user administration *)

Profile(j, tk) == Enters(j, tk, "profile")

\* updateProfile finds its user, and compares the current password
ProfileFind(j, p) ==
    LET u == session[j].user IN
    /\ session[j].step = "profile" /\ userRow[u].state = "here"
    /\ userRow[u].password = p
    /\ session' = [session EXCEPT ![j].step = "profileSave", ![j].row = userRow[u]]
    /\ UNCHANGED <<clock, userRow, tokens, history>>

\* updateProfile saves: a new password, or (p the old one) only the name
ProfileSave(j, p) ==
    LET s == session[j]
        set == IF p = s.row.password THEN {} ELSE {"password"}
    IN
    /\ s.step = "profileSave" /\ writes < MaxWrites
    /\ SaveUser(s.user, [s.row EXCEPT !.password = p], set)
    /\ asked' = IF set = {} THEN asked ELSE [asked EXCEPT ![s.user].password = p]
    /\ session' = [session EXCEPT ![j] = Blank]
    /\ writes' = writes + 1
    /\ UNCHANGED <<clock, tokens, kicks>>

UpdateFind(j, u) == Reads(j, u, "update")

\* Mutant: a falsy active in the dto is taken for a missing one
UpdateRowIfTruthy(row, active, p) == [row EXCEPT !.active = @ \/ active, !.password = p]
\* UsersService.update, also LeadersService.resetAccessPassword: what the dto has
UpdateRow(row, active, p) == [row EXCEPT !.active = active, !.password = p]

Update(j, dto) ==
    LET s == session[j]
        active == IF "active" \in DOMAIN dto THEN dto.active ELSE s.row.active
        p == IF "password" \in DOMAIN dto THEN dto.password ELSE s.row.password
    IN
    /\ s.step = "update" /\ writes < MaxWrites
    /\ SaveUser(s.user, UpdateRow(s.row, active, p), DOMAIN dto)
    /\ asked' = [asked EXCEPT ![s.user] = [c \in DOMAIN @ |->
                   IF c \in DOMAIN dto THEN dto[c] ELSE @[c]]]
    /\ session' = [session EXCEPT ![j] = Blank]
    /\ writes' = writes + 1
    /\ UNCHANGED <<clock, tokens, kicks>>

\* extendSubscriberAccess finds the subscriber of a charge together with its user
ReactivateFind(j, u) == ~userRow[u].active /\ Reads(j, u, "reactivate")

\* and, after it saved the subscriber, saves the user it had found inactive as active
Reactivate(j) ==
    LET s == session[j] IN
    /\ s.step = "reactivate"
    /\ SaveUser(s.user, [s.row EXCEPT !.active = TRUE], {"active"})
    /\ asked' = [asked EXCEPT ![s.user].active = TRUE]
    /\ session' = [session EXCEPT ![j] = Blank]
    /\ UNCHANGED <<clock, tokens, kicks, writes>>

\* register, or UsersService.create
CreateUser(u) ==
    /\ userRow[u].state = "new"
    /\ userRow' = [userRow EXCEPT ![u].state = "here"]
    /\ asked' = [asked EXCEPT ![u].state = "here"]
    /\ UNCHANGED <<clock, tokens, session, kicks, lost, writes>>

\* UsersService.remove: its find and its DELETE have nothing between them to lose
RemoveUser(u) ==
    /\ userRow[u].state = "here"
    /\ userRow' = [userRow EXCEPT ![u].state = "gone"]
    /\ asked' = [asked EXCEPT ![u].state = "gone"]
    /\ lost' = [lost EXCEPT ![u] = @ \ {"state"}]
    /\ UNCHANGED <<clock, tokens, session, kicks, writes>>

----------------------------------------------------------------------------
(* Requests: kicks.  Each takes its cutoff before it writes it. *)

\* the kicks counted, and the tokens of `who` a cutoff of `now` comes too early for
CountKicks(who, now) ==
    /\ \A u \in who : kicks[u] < MaxKicks
    /\ kicks' = [u \in Users |-> IF u \in who THEN kicks[u] + 1 ELSE kicks[u]]
    /\ tokens' = {[tk EXCEPT !.late = @ \/ /\ tk.user \in who /\ tk.iat >= now
                                           /\ ~IsRevoked(tk, userRow[tk.user])] :
                    tk \in tokens}

\* a cutoff older than the row's takes a later kick back
Overtaken(u, now) == IF now < userRow[u].cutoff THEN {} ELSE {"cutoff"}

\* kickUserSession: find, then save the whole row
KickFind(j, u) == Reads(j, u, "kick")

KickUser(j) ==
    LET s == session[j] IN
    /\ s.step = "kick"
    /\ CountKicks({s.user}, s.at)
    /\ SaveUser(s.user, [s.row EXCEPT !.cutoff = s.at], Overtaken(s.user, s.at))
    /\ session' = [session EXCEPT ![j] = Blank]
    /\ UNCHANGED <<clock, asked, writes>>

KickManyStarts(j) ==
    /\ session[j].step = "idle"
    /\ session' = [session EXCEPT ![j] = [Blank EXCEPT !.step = "kickMany", !.at = clock]]
    /\ UNCHANGED <<clock, userRow, tokens, history>>

\* kickAllSessions and kickTenantSessions: one UPDATE, perhaps not of the caller's row
KickMany(j, group, except) ==
    LET now == session[j].at
        who == {u \in group \ except : userRow[u].state = "here"}
    IN
    /\ session[j].step = "kickMany"
    /\ CountKicks(who, now)
    /\ userRow' = [u \in Users |->
                     IF u \in who THEN [userRow[u] EXCEPT !.cutoff = now] ELSE userRow[u]]
    /\ lost' = [u \in Users |->
                  IF u \notin who THEN lost[u]
                  ELSE IF now < userRow[u].cutoff THEN lost[u] \union {"cutoff"}
                  ELSE lost[u] \ {"cutoff"}]
    /\ session' = [session EXCEPT ![j] = Blank]
    /\ UNCHANGED <<clock, asked, writes>>

Dto == [active : BOOLEAN] \union [password : Passwords]

SessionsNext ==
    \/ SessionTick
    \/ \E u \in Users : CreateUser(u) \/ RemoveUser(u)
    \/ \E tk \in tokens : TokenEnds(tk)
    \/ \E j \in SessionJobs :
          \/ SessionEnds(j) \/ LoginSave(j) \/ Mint(j) \/ RefreshFind(j)
          \/ Reactivate(j) \/ KickUser(j) \/ KickManyStarts(j)
          \/ \E u \in Users : UpdateFind(j, u) \/ ReactivateFind(j, u) \/ KickFind(j, u)
          \/ \E u \in Users, p \in Passwords : Login(j, u, p)
          \/ \E tk \in tokens : Refresh(j, tk) \/ Profile(j, tk)
          \/ \E p \in Passwords : ProfileFind(j, p) \/ ProfileSave(j, p)
          \/ \E dto \in Dto : Update(j, dto)
          \/ \E group \in Tenants, except \in {{}} \union {{u} : u \in Users} :
                KickMany(j, group, except)

SessionsSpec == SessionsInit /\ [][SessionsNext]_sessionVars

----------------------------------------------------------------------------
(* Properties *)

SessionsTypeOK ==
    /\ clock \in Ticks
    /\ userRow \in [Users -> UserRow]
    /\ tokens \subseteq Token
    /\ session \in [SessionJobs -> SessionJob]
    /\ kicks \in [Users -> 0 .. MaxKicks]
    /\ asked \in [Users -> UserRow]
    /\ lost \in [Users -> SUBSET Columns]
    /\ writes \in 0 .. MaxWrites

\* A kick ends every session opened before it, except those it raced with: a
\* session minted while the kick was under way (late), or a kick whose cutoff a
\* save of an older row, or an older kick, has taken back (AuthService.kick*).
OldSessionsEnd ==
    \A tk \in tokens :
        IsAccepted(tk) /\ tk.known < kicks[tk.user] =>
            tk.late \/ "cutoff" \in lost[tk.user]

\* A session opened after the last kick is never older than the cutoff: only the
\* rounding of iat to whole seconds can have it refused (the strategies' iat * 1000).
NewSessionsWork ==
    \A tk \in tokens : tk.known = kicks[tk.user] => userRow[tk.user].cutoff <= tk.iat

\* Kicks end the sessions they are for, and no others.
KickEndsSessions == OldSessionsEnd /\ NewSessionsWork

\* A deactivation, a new password and a removal stay until another is asked for, by an
\* administrator, the user, or a charge, which asks for an active user
\* (extendSubscriberAccess): logins and kicks, which save the whole row, undo none of them,
\* and nothing else does, unless a request saved a row it had read before (lost).
RowAsAsked ==
    \A u \in Users : \A c \in {"state", "active", "password"} \ lost[u] :
        userRow[u][c] = asked[u][c]

----------------------------------------------------------------------------
(* The inductive invariant behind KickEndsSessions *)

\* Nothing is of a time to come: tokens, cutoffs, and what requests hold of them.
TimesPassed ==
    /\ \A tk \in tokens : tk.iat <= clock
    /\ \A u \in Users : userRow[u].cutoff <= clock
    /\ \A j \in SessionJobs : session[j].at <= clock /\ session[j].row.cutoff <= clock

\* A token from before a kick is late, or refused, or the kick was taken back.
TokensAgree ==
    \A tk \in tokens :
        /\ tk.known <= kicks[tk.user]
        /\ tk.known < kicks[tk.user] /\ ~tk.late =>
              IsRevoked(tk, userRow[tk.user]) \/ "cutoff" \in lost[tk.user]
        /\ tk.known = kicks[tk.user] => userRow[tk.user].cutoff <= tk.iat

\* No request can save a cutoff that a token from after the last kick would not bear, and
\* one that is to mint for a session from before a kick, without a kick since it entered,
\* entered because the kick was taken back.
JobsAgree ==
    \A j \in SessionJobs :
        LET s == session[j] IN
        /\ s.known <= kicks[s.user] /\ s.since <= kicks[s.user]
        /\ \A tk \in tokens :
              tk.user = s.user /\ tk.known = kicks[s.user] => s.row.cutoff <= tk.iat
        /\ /\ s.step \in {"loginSave", "refresh", "mint"} /\ ~s.late
           /\ s.since = kicks[s.user] /\ s.known < kicks[s.user]
           => "cutoff" \in lost[s.user]

SessionsInv == SessionsTypeOK /\ TimesPassed /\ TokensAgree /\ JobsAgree
=============================================================================
