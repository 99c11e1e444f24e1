---------------------------- MODULE Permissions ----------------------------
(***************************************************************************)
(* What a request may do: PermissionsService, the cache of role defaults   *)
(* it keeps in the process, and the two guards of the feature controllers, *)
(* ModuleAccessGuard and PermissionsGuard.                                 *)
(*                                                                         *)
(* The rows of role_permissions and of user_permission_overrides are       *)
(* edited in the same way, the owner's rows deleted by one statement and   *)
(* the new ones inserted by the next, so both are `granted` here: owner to *)
(* <<key, effect>> pairs, a role's pairs all with "allow".  Only the       *)
(* defaults of a role are cached.                                          *)
(***************************************************************************)
EXTENDS Naturals, FiniteSets

CONSTANTS Roles, Members,   \* the owners of rows
          MemberRole,       \* member -> role
          SuperAdmin,       \* the role that may do everything
          Modules,          \* module keys
          CoreModules,      \* those toggleModule keeps enabled
          Catalog,          \* rows of the table permissions: <<module, action>>
          Seeded,           \* owner -> the rows it starts with
          Editors, Queries, \* requests at work
          NoKey,            \* the route asks for no permission
          MaxEdits          \* bound: edits, toggles and crashes

Owners == Roles \union Members
PermissionKeys == Modules \X {"VIEW", "CREATE", "EDIT", "DELETE"}
Grants == Catalog \X {"allow", "deny"}
NullModules == [list |-> FALSE, keys |-> {}]
Cached(keys) == [full |-> TRUE, keys |-> keys]
Miss == [full |-> FALSE, keys |-> {}]

ASSUME PermissionsAssumption ==
    /\ MemberRole \in [Members -> Roles]
    /\ Catalog \subseteq PermissionKeys /\ NoKey \notin PermissionKeys
    /\ CoreModules \subseteq Modules
    /\ Roles \intersect Members = {}
    /\ Roles # {} /\ Members # {}
    /\ Seeded \in [Owners -> SUBSET Grants]
    /\ MaxEdits \in Nat

VARIABLES granted,    \* the rows of each owner
          cache,      \* roleDefaultsCache
          enabled,    \* the modules enabled for the tenant
          allowed,    \* users.allowedModules
          editor, query,
          requested,  \* history: the rows of an owner's last edit to succeed
          spoilt,     \* history: its last edit failed half-way, or met another
          late,       \* history: the cache was filled with rows since replaced
          edits

permissionsVars == <<granted, cache, enabled, allowed, editor, query,
                     requested, spoilt, late, edits>>

Keys(rows, effect) == {k \in Catalog : <<k, effect>> \in rows}
IdleEditor == [step |-> "idle", owner |-> CHOOSE r \in Roles : TRUE, rows |-> {},
               twice |-> FALSE, met |-> FALSE]
IdleQuery == [step |-> "idle", member |-> CHOOSE m \in Members : TRUE, need |-> NoKey,
              keys |-> {}, denied |-> {}]

PermissionsInit ==
    /\ granted = Seeded
    /\ requested = granted
    /\ cache = [r \in Roles |-> Miss]
    /\ enabled = Modules
    /\ allowed \in [Members -> {NullModules} \union [list : {TRUE}, keys : SUBSET Modules]]
    /\ editor = [e \in Editors |-> IdleEditor]
    /\ query = [q \in Queries |-> IdleQuery]
    /\ spoilt = [o \in Owners |-> FALSE]
    /\ late = [r \in Roles |-> FALSE]
    /\ edits = 0

----------------------------------------------------------------------------
(* Edits: setRoleDefaults and setUserOverrides *)

\* the keys a request still holds as denied, once the overrides of m are `rows`
DeniedUntilNow(m, rows) ==
    query' = [q \in Queries |->
                IF query[q].member = m
                THEN [query[q] EXCEPT !.denied = @ \intersect Keys(rows, "deny")]
                ELSE query[q]]

SetGranted(o, rows) ==
    /\ granted' = [granted EXCEPT ![o] = rows]
    /\ DeniedUntilNow(o, rows)

\* keyToIdMap: keys outside the catalog are dropped; a key named twice is kept
EditStarts(e, o, rows, twice) ==
    /\ editor[e].step = "idle" /\ edits < MaxEdits
    /\ o \in Roles => Keys(rows, "deny") = {}
    /\ Keys(rows, "deny") \intersect Keys(rows, "allow") = {}
    /\ twice => rows # {}
    /\ editor' = [editor EXCEPT ![e] = [step |-> "delete", owner |-> o, rows |-> rows,
                                        twice |-> twice, met |-> FALSE]]
    /\ edits' = edits + 1
    /\ UNCHANGED <<granted, cache, enabled, allowed, query, requested, spoilt, late>>

\* Mutant: nothing is deleted when there is nothing to insert
RemainingIfNone(rows, new) == IF new = {} THEN rows ELSE {}

\* what the DELETE of the owner's rows leaves of them
Remaining(rows, new) == {}

EditDelete(e) ==
    LET o == editor[e].owner
        others == {f \in Editors \ {e} : editor[f].step = "save" /\ editor[f].owner = o}
    IN
    /\ editor[e].step = "delete"
    /\ SetGranted(o, Remaining(granted[o], editor[e].rows))
    /\ editor' = [f \in Editors |->
                    IF f = e THEN [editor[e] EXCEPT !.step = "save", !.met = others # {}]
                    ELSE IF f \in others THEN [editor[f] EXCEPT !.met = TRUE]
                    ELSE editor[f]]
    /\ UNCHANGED <<cache, enabled, allowed, requested, spoilt, late, edits>>

\* one INSERT per key, in one transaction: owner and permission are unique
CanInsert(e) ==
    LET s == editor[e] IN
    /\ ~s.twice
    /\ \A g \in s.rows : \A h \in granted[s.owner] : g[1] # h[1]

EditSave(e) ==
    LET o == editor[e].owner IN
    /\ editor[e].step = "save" /\ CanInsert(e)
    /\ SetGranted(o, granted[o] \union editor[e].rows)
    /\ requested' = [requested EXCEPT ![o] = editor[e].rows]
    /\ spoilt' = [spoilt EXCEPT ![o] = editor[e].met]
    /\ editor' = [editor EXCEPT ![e] =
                    IF o \in Roles THEN [@ EXCEPT !.step = "invalidate"] ELSE IdleEditor]
    /\ UNCHANGED <<cache, enabled, allowed, late, edits>>

\* the INSERT fails: the rows stay deleted and the cache is not invalidated
EditFails(e) ==
    /\ editor[e].step = "save"
    /\ spoilt' = [spoilt EXCEPT ![editor[e].owner] = TRUE]
    /\ editor' = [editor EXCEPT ![e] = IdleEditor]
    /\ UNCHANGED <<granted, cache, enabled, allowed, query, requested, late, edits>>

\* Mutant: the cache is invalidated only when rows were inserted
InvalidatedIfSome(entry, rows) == IF rows = {} THEN entry ELSE Miss

Invalidated(entry, rows) == Miss

\* invalidateCache(role); the refill that follows is a reader like any other
EditInvalidate(e) ==
    LET r == editor[e].owner IN
    /\ editor[e].step = "invalidate"
    /\ cache' = [cache EXCEPT ![r] = Invalidated(@, editor[e].rows)]
    /\ late' = [late EXCEPT ![r] = FALSE]
    /\ editor' = [editor EXCEPT ![e] = IdleEditor]
    /\ UNCHANGED <<granted, enabled, allowed, query, requested, spoilt, edits>>

\* Mutant: core modules are not looked at
MayToggleAny(m) == TRUE

MayToggle(m) == m \in enabled => m \notin CoreModules

\* toggleModule
ToggleModule(m) ==
    /\ edits < MaxEdits /\ MayToggle(m)
    /\ enabled' = IF m \in enabled THEN enabled \ {m} ELSE enabled \union {m}
    /\ edits' = edits + 1
    /\ UNCHANGED <<granted, cache, allowed, editor, query, requested, spoilt, late>>

\* the process restarts: requests and the cache are gone
PermissionsCrash ==
    /\ edits < MaxEdits
    /\ spoilt' = [o \in Owners |-> spoilt[o] \/
                    \E e \in Editors : editor[e].step = "save" /\ editor[e].owner = o]
    /\ editor' = [e \in Editors |-> IdleEditor]
    /\ query' = [q \in Queries |-> IdleQuery]
    /\ cache' = [r \in Roles |-> Miss]
    /\ late' = [r \in Roles |-> FALSE]
    /\ edits' = edits + 1
    /\ UNCHANGED <<granted, enabled, allowed, requested>>

----------------------------------------------------------------------------
(* A guarded request of a member *)

Goes(q, to, keys) ==
    /\ query' = [query EXCEPT ![q].step = to, ![q].keys = keys]
    /\ UNCHANGED <<granted, enabled, allowed, editor, requested, spoilt, edits>>

\* JwtStrategy.validate calls getEffectivePermissions, which looks in the cache first
QueryStarts(q, m, need) ==
    LET r == MemberRole[m] IN
    /\ query[q].step = "idle"
    /\ query' = [query EXCEPT ![q] =
         [step |-> IF r = SuperAdmin THEN "guard"
                   ELSE IF cache[r].full THEN "overrides" ELSE "query",
          member |-> m, need |-> need,
          keys |-> IF r = SuperAdmin THEN Catalog ELSE cache[r].keys,
          denied |-> Keys(granted[m], "deny")]]
    /\ UNCHANGED <<granted, cache, enabled, allowed, editor, requested, spoilt, late, edits>>

\* getRoleDefaults finds the rows ...
QueryDefaults(q) ==
    /\ query[q].step = "query"
    /\ Goes(q, "store", Keys(granted[MemberRole[query[q].member]], "allow"))
    /\ UNCHANGED <<cache, late>>

\* ... and stores what it found, though an edit may have come and gone
QueryStore(q) ==
    LET r == MemberRole[query[q].member] IN
    /\ query[q].step = "store"
    /\ cache' = [cache EXCEPT ![r] = Cached(query[q].keys)]
    /\ late' = [late EXCEPT ![r] = query[q].keys # Keys(granted[r], "allow")]
    /\ Goes(q, "overrides", query[q].keys)

\* Mutant: the overrides only add
EffectivePermissionsUnion(defaults, rows) == defaults \union Keys(rows, "allow")

EffectivePermissions(defaults, rows) ==
    (defaults \union Keys(rows, "allow")) \ Keys(rows, "deny")

QueryOverrides(q) ==
    /\ query[q].step = "overrides"
    /\ Goes(q, "guard", EffectivePermissions(query[q].keys, granted[query[q].member]))
    /\ UNCHANGED <<cache, late>>

\* ModuleAccessGuard: a list, the empty one too, restricts the member to it
ModuleGuardPasses(m, module) ==
    \/ MemberRole[m] = SuperAdmin
    \/ module \in enabled /\ (allowed[m].list => module \in allowed[m].keys)

\* PermissionsGuard: the key the route names, or the one inferred from its verb
PermissionsGuardPasses(m, need, keys) == MemberRole[m] = SuperAdmin \/ need \in keys

QueryGuard(q) ==
    LET s == query[q] IN
    /\ s.step = "guard"
    /\ s.need # NoKey => /\ ModuleGuardPasses(s.member, s.need[1])
                         /\ PermissionsGuardPasses(s.member, s.need, s.keys)
    /\ Goes(q, "granted", s.keys)
    /\ UNCHANGED <<cache, late>>

\* the request was refused, or failed, or is served
QueryEnds(q) ==
    /\ query[q].step # "idle"
    /\ query' = [query EXCEPT ![q] = IdleQuery]
    /\ UNCHANGED <<granted, cache, enabled, allowed, editor, requested, spoilt, late, edits>>

PermissionsNext ==
    \/ PermissionsCrash
    \/ \E m \in Modules : ToggleModule(m)
    \/ \E e \in Editors :
          \/ EditDelete(e) \/ EditSave(e) \/ EditFails(e) \/ EditInvalidate(e)
          \/ \E o \in Owners, rows \in SUBSET Grants, twice \in BOOLEAN :
                EditStarts(e, o, rows, twice)
    \/ \E q \in Queries :
          \/ QueryDefaults(q) \/ QueryStore(q) \/ QueryOverrides(q)
          \/ QueryGuard(q) \/ QueryEnds(q)
          \/ \E m \in Members, need \in Catalog \union {NoKey} : QueryStarts(q, m, need)

PermissionsSpec == PermissionsInit /\ [][PermissionsNext]_permissionsVars

----------------------------------------------------------------------------
(* Properties *)

PermissionsTypeOK ==
    /\ granted \in [Owners -> SUBSET Grants]
    /\ cache \in [Roles -> [full : BOOLEAN, keys : SUBSET Catalog]]
    /\ enabled \subseteq Modules /\ CoreModules \subseteq enabled
    /\ allowed \in [Members -> [list : BOOLEAN, keys : SUBSET Modules]]
    /\ editor \in [Editors -> [step : {"idle", "delete", "save", "invalidate"},
                               owner : Owners, rows : SUBSET Grants,
                               twice : BOOLEAN, met : BOOLEAN]]
    /\ query \in [Queries -> [step : {"idle", "query", "store", "overrides", "guard", "granted"},
                              member : Members, need : Catalog \union {NoKey},
                              keys : SUBSET Catalog, denied : SUBSET Catalog]]
    /\ requested \in [Owners -> SUBSET Grants]
    /\ spoilt \in [Owners -> BOOLEAN]
    /\ late \in [Roles -> BOOLEAN]
    /\ edits \in 0 .. MaxEdits

InEdit(o, steps) == \E e \in Editors : editor[e].owner = o /\ editor[e].step \in steps

\* What the cache says of a role is what the table says, unless an edit is between
\* its delete and its invalidation, or failed there, or a reader that queried
\* before an edit stored after it; nothing else makes PermissionsService stale.
StaleCacheHasCause ==
    \A r \in Roles :
        cache[r].full /\ cache[r].keys # Keys(granted[r], "allow") =>
            InEdit(r, {"save", "invalidate"}) \/ spoilt[r] \/ late[r]

\* An edit that neither failed nor met another leaves exactly the rows it was
\* given: two administrators one after the other, a cache in any state, and a
\* restart do not mix or lose rows.
RowsAsRequested ==
    \A o \in Owners : ~spoilt[o] /\ ~InEdit(o, {"save"}) => granted[o] = requested[o]

\* A key that stayed denied to a member through a whole request is not granted to
\* it, whatever the cache, the defaults and the edits under way say.
DenyHolds ==
    \A q \in Queries :
        query[q].step = "granted" /\ MemberRole[query[q].member] # SuperAdmin =>
            query[q].need \notin query[q].denied

\* What a request is judged by is current: StaleCacheHasCause and DenyHolds.
PermissionsAreCurrent == StaleCacheHasCause /\ DenyHolds

----------------------------------------------------------------------------
(* What the proofs add to the properties above: the inductive invariant *)

\* An edit between its statements that met no other finds the owner's rows deleted and is
\* the only one there.
AloneOrMet ==
    \A e \in Editors : editor[e].step = "save" /\ ~editor[e].met =>
        /\ granted[editor[e].owner] = {}
        /\ \A f \in Editors : editor[f].step = "save" /\ editor[f].owner = editor[e].owner
                             => f = e

\* What a request holds as denied is denied now, and once it has been through the overrides
\* it has none of it; a request that passed the guards has the key it needs.
JudgedByOverrides ==
    \A q \in Queries :
        LET s == query[q] IN
        /\ s.denied \subseteq Keys(granted[s.member], "deny")
        /\ s.step \in {"guard", "granted"} /\ MemberRole[s.member] # SuperAdmin =>
              s.keys \intersect s.denied = {}
        /\ s.step = "granted" /\ MemberRole[s.member] # SuperAdmin =>
              s.need \in s.keys \union {NoKey}

PermissionsInv == /\ PermissionsTypeOK /\ AloneOrMet /\ RowsAsRequested
                  /\ StaleCacheHasCause /\ JudgedByOverrides
=============================================================================
