---------------------------- MODULE LeaderAccess ----------------------------
(***************************************************************************)
(* The login of a leader or of a staff member (LeadersService,             *)
(* StaffService): a row of users and the userId of the holder's row, with  *)
(* no foreign key between them, written by separate statements.  A login   *)
(* of role LEADER is limited to the voters of the leader that points to it.*)
(***************************************************************************)
EXTENDS Naturals, FiniteSets

CONSTANTS Leaders, Staff,   \* the holders of logins
          Logins,           \* rows of users that can be made for them
          LinkJobs,         \* requests at work
          NoLogin, NoHolder,
          MaxEditsOfUserId  \* bound: forms that name a userId, removals

Holders == Leaders \union Staff

ASSUME LeaderAccessAssumption ==
    /\ Leaders \intersect Staff = {} /\ Holders # {}
    /\ NoLogin \notin Logins /\ NoHolder \notin Holders
    /\ MaxEditsOfUserId \in Nat

VARIABLES holder,   \* holder -> its row: "new" has none yet, "gone" had one
          login,    \* login -> "unused", "here" or "gone"
          madeFor,  \* history: login -> the holder it was created for
          loose,    \* history: logins whose link another request, a failure, a
                    \* removal or a hand-written userId broke
          linkJob, formEdits

leaderVars == <<holder, login, madeFor, loose, linkJob, formEdits>>

HolderRow == [state : {"new", "here", "gone"}, userId : Logins \union {NoLogin}]
IdleLink == [step |-> "idle", holder |-> CHOOSE h \in Holders : TRUE,
             userId |-> NoLogin, login |-> NoLogin]

LeaderAccessInit ==
    /\ holder = [h \in Holders |-> [state |-> "new", userId |-> NoLogin]]
    /\ login = [a \in Logins |-> "unused"]
    /\ madeFor = [a \in Logins |-> NoHolder]
    /\ loose = {}
    /\ linkJob = [j \in LinkJobs |-> IdleLink]
    /\ formEdits = 0

\* the request reads the holder's row, and goes on at `to`
FindsHolder(j, h, to) ==
    /\ linkJob[j].step = "idle" /\ holder[h].state = "here"
    /\ linkJob' = [linkJob EXCEPT ![j] = [step |-> to, holder |-> h,
                                          userId |-> holder[h].userId, login |-> NoLogin]]
    /\ UNCHANGED <<holder, login, madeFor, loose, formEdits>>

\* repository.save(holder): the userId of the request's copy
SaveHolder(h, a) ==
    holder' = [holder EXCEPT ![h] = [state |-> "here", userId |-> a]]

\* the logins that save, by a request that read `was`, takes from or gives to h behind
\* another's back
Broken(h, was, a) ==
    {b \in Logins : /\ b \in {holder[h].userId, a}
                    /\ holder[h].userId # was \/ holder[h].state # "here"}

Done(j) == linkJob' = [linkJob EXCEPT ![j] = IdleLink]

\* a request stops between its statements: refused, not found, failed, or the process died
LinkEnds(j) ==
    LET s == linkJob[j] IN
    /\ s.step # "idle"
    /\ loose' = loose \union (IF s.step \in {"grantSave", "newSave"} THEN {s.login}
                              ELSE IF s.step = "revokeSave" THEN {s.userId} ELSE {})
    /\ Done(j)
    /\ UNCHANGED <<holder, login, madeFor, formEdits>>

\* usersService.create: addresses are unique, so a login is made once
CreateLogin(j, a, to) ==
    /\ login[a] = "unused"
    /\ login' = [login EXCEPT ![a] = "here"]
    /\ madeFor' = [madeFor EXCEPT ![a] = linkJob[j].holder]
    /\ linkJob' = [linkJob EXCEPT ![j].step = to, ![j].login = a]
    /\ UNCHANGED <<holder, loose, formEdits>>

\* LeadersService.create and StaffService.create, without access and with it: every
\* request makes a holder of its own
CreateHolder(j, h) ==
    /\ linkJob[j].step = "idle" /\ holder[h].state = "new"
    /\ \A i \in LinkJobs : ~(linkJob[i].holder = h /\ linkJob[i].step \in {"new", "newSave"})
    /\ \/ /\ SaveHolder(h, NoLogin)
          /\ UNCHANGED linkJob
       \/ /\ linkJob' = [linkJob EXCEPT ![j] = [IdleLink EXCEPT !.step = "new", !.holder = h]]
          /\ UNCHANGED holder
    /\ UNCHANGED <<login, madeFor, loose, formEdits>>
\* or with the userId of its form
CreateForLogin(h, a) ==
    /\ holder[h].state = "new" /\ formEdits < MaxEditsOfUserId
    /\ \A i \in LinkJobs : ~(linkJob[i].holder = h /\ linkJob[i].step \in {"new", "newSave"})
    /\ a \in Logins /\ login[a] # "unused"
    /\ SaveHolder(h, a)
    /\ loose' = loose \union {a}
    /\ formEdits' = formEdits + 1
    /\ UNCHANGED <<login, madeFor, linkJob>>
CreateNewLogin(j, a) == linkJob[j].step = "new" /\ CreateLogin(j, a, "newSave")
CreateHolderSave(j) ==
    LET s == linkJob[j] IN
    /\ s.step = "newSave"
    /\ SaveHolder(s.holder, s.login)
    /\ Done(j)
    /\ UNCHANGED <<login, madeFor, loose, formEdits>>

\* grantAccess
Grant(j, h) ==
    /\ h \in Leaders /\ holder[h].userId = NoLogin
    /\ FindsHolder(j, h, "grant")
GrantLogin(j, a) == linkJob[j].step = "grant" /\ CreateLogin(j, a, "grantSave")
GrantSave(j) ==
    LET s == linkJob[j] IN
    /\ s.step = "grantSave"
    /\ SaveHolder(s.holder, s.login)
    /\ loose' = loose \union Broken(s.holder, s.userId, s.login)
    /\ Done(j)
    /\ UNCHANGED <<login, madeFor, formEdits>>

\* revokeAccess; a login the Users page has removed is not found, and the leader keeps
\* its userId: it can be neither revoked nor granted again
Revoke(j, h) ==
    /\ h \in Leaders /\ holder[h].userId # NoLogin
    /\ FindsHolder(j, h, "revoke")
RevokeLogin(j) ==
    LET s == linkJob[j] IN
    /\ s.step = "revoke" /\ login[s.userId] = "here"
    /\ login' = [login EXCEPT ![s.userId] = "gone"]
    /\ linkJob' = [linkJob EXCEPT ![j].step = "revokeSave"]
    /\ UNCHANGED <<holder, madeFor, loose, formEdits>>

\* Mutant: an undefined userId, which the save leaves out
RevokedUndefined(userId) == userId

\* the userId that is saved
Revoked(userId) == NoLogin

RevokeSave(j) ==
    LET s == linkJob[j] IN
    /\ s.step = "revokeSave"
    /\ SaveHolder(s.holder, Revoked(s.userId))
    /\ loose' = loose \union Broken(s.holder, s.userId, s.userId)
    /\ Done(j)
    /\ UNCHANGED <<login, madeFor, formEdits>>

\* TenantAwareService.update of a holder: its whole row, the form's userId if it has
\* one, which may be null
UpdateHolder(j, h) == FindsHolder(j, h, "update")
UpdateHolderSave(j) ==
    LET s == linkJob[j] IN
    /\ s.step = "update"
    /\ SaveHolder(s.holder, s.userId)
    /\ loose' = loose \union Broken(s.holder, s.userId, s.userId)
    /\ Done(j)
    /\ UNCHANGED <<login, madeFor, formEdits>>
UpdateUserId(j, a) ==
    LET s == linkJob[j] IN
    /\ s.step = "update" /\ formEdits < MaxEditsOfUserId
    /\ a # NoLogin => login[a] # "unused"
    /\ SaveHolder(s.holder, a)
    /\ loose' = loose \union ({holder[s.holder].userId, s.userId, a} \ {NoLogin})
    /\ formEdits' = formEdits + 1
    /\ Done(j)
    /\ UNCHANGED <<login, madeFor>>

\* TenantAwareService.remove leaves the login; UsersService.remove leaves the holder
RemoveHolder(h) ==
    /\ holder[h].state = "here" /\ formEdits < MaxEditsOfUserId
    /\ holder' = [holder EXCEPT ![h] = [state |-> "gone", userId |-> NoLogin]]
    /\ loose' = loose \union ({holder[h].userId} \ {NoLogin})
    /\ formEdits' = formEdits + 1
    /\ UNCHANGED <<login, madeFor, linkJob>>
RemoveLogin(a) ==
    /\ login[a] = "here" /\ formEdits < MaxEditsOfUserId
    /\ login' = [login EXCEPT ![a] = "gone"]
    /\ loose' = loose \union {a}
    /\ formEdits' = formEdits + 1
    /\ UNCHANGED <<holder, madeFor, linkJob>>

LeaderAccessNext ==
    \/ \E h \in Holders : RemoveHolder(h) \/ \E a \in Logins : CreateForLogin(h, a)
    \/ \E a \in Logins : RemoveLogin(a)
    \/ \E j \in LinkJobs :
          \/ LinkEnds(j) \/ CreateHolderSave(j) \/ GrantSave(j)
          \/ RevokeLogin(j) \/ RevokeSave(j) \/ UpdateHolderSave(j)
          \/ \E h \in Holders : CreateHolder(j, h) \/ Grant(j, h) \/ Revoke(j, h)
                                \/ UpdateHolder(j, h)
          \/ \E a \in Logins : CreateNewLogin(j, a) \/ GrantLogin(j, a)
          \/ \E a \in Logins \union {NoLogin} : UpdateUserId(j, a)

LeaderAccessSpec == LeaderAccessInit /\ [][LeaderAccessNext]_leaderVars

----------------------------------------------------------------------------
(* Properties *)

LeaderAccessTypeOK ==
    /\ holder \in [Holders -> HolderRow]
    /\ login \in [Logins -> {"unused", "here", "gone"}]
    /\ madeFor \in [Logins -> Holders \union {NoHolder}]
    /\ loose \subseteq Logins
    /\ linkJob \in [LinkJobs -> [step : {"idle", "new", "newSave", "grant", "grantSave",
                                         "revoke", "revokeSave", "update"},
                                 holder : Holders, userId : Logins \union {NoLogin},
                                 login : Logins \union {NoLogin}]]
    /\ formEdits \in 0 .. MaxEditsOfUserId

InLink(a) ==
    \E j \in LinkJobs : \/ linkJob[j].step \in {"newSave", "grantSave"} /\ linkJob[j].login = a
                        \/ linkJob[j].step = "revokeSave" /\ linkJob[j].userId = a

\* A login that can be used is the userId of the one holder it was made for, and of
\* no other, and a holder's userId is a login that can be used: so a leader's login
\* sees that leader's voters.  Exceptions: a request under way, and a link that two
\* requests at once, a failure half-way, a removal or a form's userId broke.
LeaderLinkHasCause ==
    \A a \in Logins \ loose : ~InLink(a) =>
        \A h \in Holders :
            holder[h].userId = a <=> login[a] = "here" /\ madeFor[a] = h

----------------------------------------------------------------------------
(* The inductive invariant behind LeaderLinkHasCause *)

\* about to give a login it made to its holder
Giving(j) == linkJob[j].step \in {"newSave", "grantSave"}
Given(a) == \E j \in LinkJobs : Giving(j) /\ linkJob[j].login = a

\* A request that made a login made it for its holder, alone; the login is there until
\* something breaks the link.
GivingIsNew ==
    /\ \A j \in LinkJobs : Giving(j) =>
          LET a == linkJob[j].login IN
          /\ a \in Logins /\ madeFor[a] = linkJob[j].holder
          /\ login[a] # "unused" /\ (login[a] = "here" \/ a \in loose)
    /\ \A i, j \in LinkJobs :
          Giving(i) /\ Giving(j) /\ linkJob[i].login = linkJob[j].login => i = j

\* What the later steps of a request rely on: what it read, and what it did since.
StepsFollow ==
    \A j \in LinkJobs :
        LET s == linkJob[j] IN
        /\ s.step \in {"revoke", "revokeSave"} => s.userId \in Logins
        /\ s.step = "revokeSave" => login[s.userId] = "gone"
        /\ s.step \notin {"revoke", "revokeSave", "update"} => s.userId = NoLogin
        /\ s.step \in {"new", "newSave"} =>
              /\ holder[s.holder].state = "new"
              /\ \A i \in LinkJobs : linkJob[i].step \in {"new", "newSave"}
                                     /\ linkJob[i].holder = s.holder => i = j
        /\ s.step \in {"grant", "grantSave", "revoke", "revokeSave", "update"} =>
              holder[s.holder].state # "new"

\* A link that nothing broke, in a row or in a request's copy of one, is to a login that
\* was made for that holder and given to it.
LinksAreGiven ==
    /\ \A h \in Holders : holder[h].state # "here" => holder[h].userId = NoLogin
    /\ \A h \in Holders, a \in Logins \ loose :
          holder[h].userId = a => madeFor[a] = h /\ ~Given(a)
    /\ \A j \in LinkJobs, a \in Logins \ loose :
          linkJob[j].userId = a =>
              madeFor[a] = linkJob[j].holder /\ login[a] # "unused" /\ ~Given(a)

LeaderInv == /\ LeaderAccessTypeOK /\ GivingIsNew /\ StepsFollow /\ LinksAreGiven
             /\ LeaderLinkHasCause
=============================================================================
