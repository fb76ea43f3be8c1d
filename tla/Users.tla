------------------------------- MODULE Users -------------------------------
(***************************************************************************)
(* Users, roles and permission overrides: how a request is let in          *)
(* (authenticate, requirePermission), what the user endpoints then write,  *)
(* and the seed script that is run again on a database in use.  A request  *)
(* is one step per database statement; the two statements of               *)
(* getEffectivePermissions run in any order.  The replacement of overrides *)
(* is a transaction at READ COMMITTED: each of its statements sees what    *)
(* was committed when it began.                                            *)
(*                                                                         *)
(* Users are numbered in creation order; a user who holds a live session   *)
(* is a user (AuthSessions).  One shop; profile fields are left out.  A    *)
(* refused request has no effect and is answered by Fail.                  *)
(***************************************************************************)
EXTENDS Naturals, Sequences

CONSTANTS
    Slots,              \* requests the server handles at once
    Inputs,             \* bodies of a replacement, a subset of Bodies
    Overridden,         \* bounds: users whose overrides are replaced, users,
    MaxUsers,           \* committed replacements, runs of the seed
    MaxReplacements,
    MaxSeeds

Keys == {"user.manage", "customer.read"}

\* The permission that all user endpoints require.
Asked == {"user.manage"}

\* What becomes of each key; allow and deny are disjoint by the schema.
Bodies == [Keys -> {"allow", "deny", "none"}]

VARIABLES
    users,              \* the User table
    rolePermissions,    \* the RolePermission table: the keys of each role
    overrides,          \* the UserPermissionOverride table
    request,            \* what each slot is doing
    seed,               \* where the seed script is
    commits             \* replacements committed so far

vars == <<users, rolePermissions, overrides, request, seed, commits>>

-----------------------------------------------------------------------------
\* MANAGER, ACCOUNTANT, DRIVER and VIEWER differ from OPERATOR in keys that no
\* user endpoint asks for.
Roles == {"OWNER", "ADMIN", "OPERATOR"}

\* LOCKED is treated like INACTIVE everywhere.
UserStatuses == {"ACTIVE", "INACTIVE"}

Wildcard == [ADMIN |-> {"*"}, OPERATOR |-> Keys \ {"user.manage"}]  \* mutant: ADMIN like OWNER

SeedPermissions == [ADMIN |-> Keys, OPERATOR |-> Keys \ {"user.manage"}]

UserRow == [role : Roles, status : UserStatuses]

\* at: the replacement that made the row, which is its identity; since: how many
\* were committed when that one took its snapshot (no column, for the properties).
OverrideRow == [user : 1 .. MaxUsers, key : Keys, allow : BOOLEAN, since : Nat, at : Nat]

\* held: the actor had the permission at some moment since authenticate read
\* the role; moved: if not, which of the three tables behind it changed for the
\* actor.
\* Both are for the properties, no code keeps them.
Tables == {"users", "rolePermissions", "overrides"}

Requests ==
    [phase : {"idle"}]
    \cup [phase : {"permissions"}, actor : 1 .. MaxUsers, role : Roles,
          unread : SUBSET {"rolePermissions", "overrides"}, ofRole : SUBSET Asked,
          allowed : SUBSET Asked, denied : SUBSET Asked, held : BOOLEAN, moved : SUBSET Tables]
    \cup [phase : {"admitted"}, actor : 1 .. MaxUsers, role : Roles,
          held : BOOLEAN, moved : SUBSET Tables]
    \cup [phase : {"delete", "insert"}, user : 1 .. MaxUsers, input : Inputs,
          rows : SUBSET OverrideRow, since : Nat]

Seeds == [run : 0 .. MaxSeeds, phase : {"idle", "delete", "create", "owner"}]

TypeOK ==
    /\ users \in Seq(UserRow) /\ Len(users) <= MaxUsers
    /\ rolePermissions \in [{"ADMIN", "OPERATOR"} -> SUBSET Keys]
    /\ \A row \in overrides : row \in OverrideRow /\ row.at <= commits
    /\ \A r \in Slots :
          CASE request[r].phase \in {"delete", "insert"} ->
                   /\ request[r].user \in DOMAIN users /\ request[r].since <= commits
                   /\ \A row \in request[r].rows : row \in OverrideRow /\ row.user = request[r].user
            [] OTHER -> request[r] \in Requests
    /\ seed \in Seeds
    /\ commits \in 0 .. MaxReplacements

Idle == [phase |-> "idle"]

RowsOf(u, rows) == {row \in rows : row.user = u}

KeysOf(u, allow) == {row.key : row \in {o \in RowsOf(u, overrides) : o.allow = allow}}

-----------------------------------------------------------------------------
\* Whether u has the permission that the user endpoints ask for.
HoldsIn(u, us, permissions, rows) ==
    LET Has(allow) == \E row \in rows :
                         row.user = u /\ row.key = "user.manage" /\ row.allow = allow
    IN  \/ us[u].role = "OWNER"
        \/ Has(TRUE)
        \/ "user.manage" \in permissions[us[u].role] /\ ~Has(FALSE)

Changed(condition, table) == IF condition THEN {table} ELSE {}

\* What a write does to the history a request carries while it is let in.
Watching(us, permissions, rows) ==
    [r \in Slots |->
        IF request[r].phase # "permissions" THEN request[r]
        ELSE LET u == request[r].actor IN
             IF request[r].held \/ HoldsIn(u, us, permissions, rows)
             THEN [request[r] EXCEPT !.held = TRUE, !.moved = {}]
             ELSE [request[r] EXCEPT
                      !.moved = @ \cup Changed(us[u].role # users[u].role, "users")
                                  \cup Changed(permissions # rolePermissions, "rolePermissions")
                                  \cup Changed(RowsOf(u, rows) # RowsOf(u, overrides), "overrides")]]

\* A write of slot r commits and the request goes on as `next`.
Write(r, next, us, rows) ==
    /\ users' = us
    /\ overrides' = rows
    /\ request' = [Watching(us, rolePermissions, rows) EXCEPT ![r] = next]
    /\ UNCHANGED <<rolePermissions, seed>>

Goto(r, next) ==
    /\ request' = [request EXCEPT ![r] = next]
    /\ UNCHANGED <<users, rolePermissions, overrides, seed, commits>>

-----------------------------------------------------------------------------
\* After the first run of the seed.
Init ==
    /\ users = <<[role |-> "OWNER", status |-> "ACTIVE"]>>
    /\ rolePermissions = SeedPermissions
    /\ overrides = {}
    /\ request = [r \in Slots |-> Idle]
    /\ seed = [run |-> 0, phase |-> "idle"]
    /\ commits = 0

\* authenticate; for an owner no query follows.
Authenticate(r, u) ==
    /\ request[r].phase = "idle" /\ users[u].status = "ACTIVE"
    /\ Goto(r, IF users[u].role = "OWNER"
               THEN [phase |-> "admitted", actor |-> u, role |-> "OWNER", held |-> TRUE, moved |-> {}]
               ELSE [phase |-> "permissions", actor |-> u, role |-> users[u].role,
                     unread |-> {"rolePermissions", "overrides"},
                     ofRole |-> {}, allowed |-> {}, denied |-> {},
                     held |-> HoldsIn(u, users, rolePermissions, overrides), moved |-> {}])

ReadRolePermissions(r) ==
    /\ request[r].phase = "permissions" /\ "rolePermissions" \in request[r].unread
    /\ Goto(r, [request[r] EXCEPT !.unread = @ \ {"rolePermissions"}, !.ofRole = rolePermissions[request[r].role] \cap Asked])

ReadOverrides(r) ==
    /\ request[r].phase = "permissions" /\ "overrides" \in request[r].unread
    /\ Goto(r, [request[r] EXCEPT !.unread = @ \ {"overrides"},
                                  !.allowed = KeysOf(request[r].actor, TRUE) \cap Asked,
                                  !.denied = KeysOf(request[r].actor, FALSE) \cap Asked])

AllowsOnly(ofRole, allowed, denied) == ofRole \cup allowed  \* mutant: a denial is not applied

EffectivePermissions(ofRole, allowed, denied) == (ofRole \cup allowed) \ denied

RequirePermission(r) ==
    /\ request[r].phase = "permissions" /\ request[r].unread = {}
    /\ Goto(r, IF Asked \subseteq EffectivePermissions(request[r].ofRole, request[r].allowed,
                                                        request[r].denied)
               THEN [phase |-> "admitted", actor |-> request[r].actor, role |-> request[r].role,
                     held |-> request[r].held, moved |-> request[r].moved]
               ELSE Idle)

\* Refused, not found, a unique column taken, a deadlock broken, the connection
\* or the server gone: the request ends and its transaction is rolled back.
Fail(r) ==
    /\ request[r].phase # "idle"
    /\ Goto(r, Idle)

-----------------------------------------------------------------------------
MayGive(actorRole, role) == role = "OWNER" => actorRole = "OWNER"

\* The password is hashed between the check and the insert.
CreateUser(r, role) ==
    /\ request[r].phase = "admitted"
    /\ Len(users) < MaxUsers
    /\ MayGive(request[r].role, role)
    /\ Write(r, Idle, Append(users, [role |-> role, status |-> "ACTIVE"]), overrides)
    /\ UNCHANGED commits

UpdateUser(r, u, role) ==
    /\ request[r].phase = "admitted"
    /\ MayGive(request[r].role, role)
    /\ Write(r, Idle, [users EXCEPT ![u].role = role], overrides)
    /\ UNCHANGED commits

AnyStatus(actor, u, status) == TRUE  \* mutant: no SELF_DEACTIVATION_NOT_ALLOWED

NotOwnAccount(actor, u, status) == u = actor => status = "ACTIVE"

\* The revocation of the sessions that follows is in AuthSessions.
UpdateUserStatus(r, u, status) ==
    /\ request[r].phase = "admitted"
    /\ NotOwnAccount(request[r].actor, u, status)
    /\ Write(r, Idle, [users EXCEPT ![u].status = status], overrides)
    /\ UNCHANGED commits

-----------------------------------------------------------------------------
\* deleteMany takes its snapshot, and then the lock of every row in it.
BeginReplacement(r, u, input) ==
    /\ request[r].phase = "admitted"
    /\ Goto(r, [phase |-> "delete", user |-> u, input |-> input,
                rows |-> RowsOf(u, overrides), since |-> commits])

\* The rows of user u that other open transactions have deleted.
LockedByOthers(r, u) ==
    UNION {request[s].rows : s \in {t \in Slots \ {r} :
               request[t].phase = "insert" /\ request[t].user = u}}

NamedRows(r) ==  \* mutant: only the keys of the input are replaced
    {row \in request[r].rows \cap overrides : request[r].input[row.key] # "none"}

FoundRows(r) == request[r].rows \cap overrides

\* It waits for the others and passes over a row that one of them deleted.
DeleteOverrides(r) ==
    /\ request[r].phase = "delete"
    /\ request[r].rows \cap LockedByOthers(r, request[r].user) = {}
    /\ Goto(r, [request[r] EXCEPT !.phase = "insert", !.rows = FoundRows(r)])

\* The unique column is violated by a row that this transaction did not delete.
KeyTaken(r, key) ==
    \E row \in RowsOf(request[r].user, overrides) \ request[r].rows : row.key = key

NewRows(r) ==
    {[user |-> request[r].user, key |-> key, allow |-> request[r].input[key] = "allow",
      since |-> request[r].since, at |-> commits + 1] :
     key \in {k \in Keys : request[r].input[k] # "none"}}

\* createMany, which waits for a row with its key that another transaction has
\* deleted and not committed, and the commit.
CommitReplacement(r) ==
    /\ request[r].phase = "insert"
    /\ commits < MaxReplacements
    /\ \A row \in NewRows(r) :
          /\ ~KeyTaken(r, row.key)
          /\ row.key \notin {locked.key : locked \in LockedByOthers(r, request[r].user)}
    /\ Write(r, Idle, users, (overrides \ request[r].rows) \cup NewRows(r))
    /\ commits' = commits + 1

-----------------------------------------------------------------------------
\* The seed script, run again: for each role its permissions are deleted and
\* then created, and at last the owner is made an active owner again.  ADMIN is
\* the only role whose permissions matter to the user endpoints.
WritePermissions(keys) ==
    LET now == [rolePermissions EXCEPT !["ADMIN"] = keys] IN
    /\ rolePermissions' = now
    /\ request' = Watching(users, now, overrides)
    /\ UNCHANGED <<users, overrides, commits>>

BeginSeed ==
    /\ seed.phase = "idle" /\ seed.run < MaxSeeds
    /\ seed' = [run |-> seed.run + 1, phase |-> "delete"]
    /\ UNCHANGED <<users, rolePermissions, overrides, request, commits>>

DeleteRolePermissions ==
    /\ seed.phase = "delete"
    /\ seed' = [seed EXCEPT !.phase = "create"]
    /\ WritePermissions({})

CreateRolePermissions ==
    /\ seed.phase = "create"
    /\ seed' = [seed EXCEPT !.phase = "owner"]
    /\ WritePermissions(SeedPermissions["ADMIN"])

UpsertOwner ==
    /\ seed.phase = "owner"
    /\ seed' = [seed EXCEPT !.phase = "idle"]
    /\ users' = [users EXCEPT ![1] = [role |-> "OWNER", status |-> "ACTIVE"]]
    /\ request' = Watching(users', rolePermissions, overrides)
    /\ UNCHANGED <<rolePermissions, overrides, commits>>

StopSeed ==
    /\ seed.phase # "idle"
    /\ seed' = [seed EXCEPT !.phase = "idle"]
    /\ UNCHANGED <<users, rolePermissions, overrides, request, commits>>

-----------------------------------------------------------------------------
Seed == BeginSeed \/ DeleteRolePermissions \/ CreateRolePermissions \/ UpsertOwner \/ StopSeed

Handle(r) ==
    \/ \E role \in Roles : CreateUser(r, role)
    \/ \E u \in DOMAIN users :
          \/ \E role \in Roles : UpdateUser(r, u, role)
          \/ \E status \in UserStatuses : UpdateUserStatus(r, u, status)
          \/ u \in Overridden /\ \E input \in Inputs : BeginReplacement(r, u, input)
    \/ DeleteOverrides(r) \/ CommitReplacement(r)

Next ==
    \/ \E r \in Slots :
          \/ \E u \in DOMAIN users : Authenticate(r, u)
          \/ ReadRolePermissions(r) \/ ReadOverrides(r) \/ RequirePermission(r)
          \/ Handle(r) \/ Fail(r)
    \/ Seed

Spec == Init /\ [][Next]_vars

-----------------------------------------------------------------------------
\* The role, the role's permissions and the overrides are read at three moments.
\* Whoever is let in to manage users was allowed to at some moment since the
\* first of them, unless two of the three tables changed meanwhile: only then
\* may the parts that were read add up to a permission that was never granted.
\* Of requests that are refused, by a role the seed left empty too, it says nothing.
AdmittedHeldPermission ==
    \A r \in Slots : request[r].phase = "admitted" =>
        request[r].held \/ \E table, other \in request[r].moved : table # other

\* However many replacements of a user's overrides run at once, what is left is
\* from requests that overlapped: each took its snapshot before the other was
\* committed, and rows that a replacement could see are gone.
OverridesOfConcurrent ==
    \A row, other \in overrides : row.user = other.user => row.since < other.at

SomeoneActive == \E u \in DOMAIN users : users[u].status = "ACTIVE"

ByOvertaken ==
    SomeoneActive /\ ~SomeoneActive' =>
        \E r \in Slots : /\ request[r].phase = "admitted"
                         /\ request'[r] = Idle
                         /\ users[request[r].actor].status # "ACTIVE"

\* The last active user is deactivated only by a request whose actor was
\* deactivated after it had been let in: one request at a time never locks
\* everybody out.
LastActiveOvertaken == [][ByOvertaken]_vars
=============================================================================
