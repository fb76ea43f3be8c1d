---------------------------- MODULE Users_proofs ----------------------------
(***************************************************************************)
(* Proofs about Users, for any number of concurrent requests, users,       *)
(* replacements and runs of the seed: what is left of concurrent           *)
(* replacements, what a permission check that reads three tables at three  *)
(* moments can be fooled by, the types, and who deactivates the last       *)
(* active user.                                                            *)
(***************************************************************************)
EXTENDS Users, SequenceTheorems, TLAPS

(***************************************************************************)
(* Requests as functions.                                                  *)
(***************************************************************************)
\* What every proof needs to know of the requests.
Shaped == request = [r \in Slots |-> request[r]] /\ \A r \in Slots : "phase" \in DOMAIN request[r]

\* A write changes no other field of a request that is being let in than its
\* history, and nothing of any other request.
LEMMA WatchingShape ==
    ASSUME Shaped, NEW us, NEW permissions, NEW rows, NEW r \in Slots
    PROVE  LET q == Watching(us, permissions, rows)[r] IN
           /\ "phase" \in DOMAIN q
           /\ q.phase = request[r].phase
           /\ request[r].phase # "permissions" => q = request[r]
<1> DEFINE q == Watching(us, permissions, rows)[r]
<1>1. CASE request[r].phase # "permissions"
  BY <1>1 DEF Watching, Shaped
<1>2. CASE request[r].phase = "permissions"
  <2>1. \E held, moved : q = [request[r] EXCEPT !.held = held, !.moved = moved]
             \/ q = [request[r] EXCEPT !.moved = moved]
    BY <1>2 DEF Watching
  <2> QED
    BY <1>2, <2>1 DEF Shaped
<1> QED
  BY <1>1, <1>2

\* Every step keeps the shape.
LEMMA ShapedStep == Shaped /\ [Next]_vars => Shaped'
<1> SUFFICES ASSUME Shaped, [Next]_vars PROVE Shaped'
  OBVIOUS
<1>1. ASSUME NEW r \in Slots, NEW next, Goto(r, next), "phase" \in DOMAIN next
      PROVE  Shaped'
  BY <1>1 DEF Goto, Shaped
<1>2. ASSUME NEW r \in Slots, NEW us, NEW rows, Write(r, Idle, us, rows)
      PROVE  Shaped'
  <2> DEFINE w == Watching(us, rolePermissions, rows)
  <2>1. w = [s \in Slots |-> w[s]] /\ \A s \in Slots : "phase" \in DOMAIN w[s]
    BY WatchingShape DEF Watching
  <2>2. request' = [w EXCEPT ![r] = Idle]
    BY <1>2 DEF Write
  <2> HIDE DEF w
  <2> QED
    BY <2>1, <2>2 DEF Shaped, Idle
<1>3. ASSUME NEW us, NEW permissions, NEW rows, request' = Watching(us, permissions, rows)
      PROVE  Shaped'
  <2> DEFINE w == Watching(us, permissions, rows)
  <2>1. w = [s \in Slots |-> w[s]] /\ \A s \in Slots : "phase" \in DOMAIN w[s]
    BY WatchingShape DEF Watching
  <2> HIDE DEF w
  <2> QED
    BY <1>3, <2>1 DEF Shaped, w
<1>4. ASSUME NEW r \in Slots, NEW u, Authenticate(r, u)
      PROVE  Shaped'
  BY <1>4, <1>1 DEF Authenticate
<1>5. ASSUME NEW r \in Slots, ReadRolePermissions(r) \/ ReadOverrides(r) \/ DeleteOverrides(r)
      PROVE  Shaped'
  BY <1>5 DEF ReadRolePermissions, ReadOverrides, DeleteOverrides, Goto, Shaped
<1>6. ASSUME NEW r \in Slots, RequirePermission(r) \/ Fail(r)
      PROVE  Shaped'
  BY <1>6, <1>1 DEF RequirePermission, Fail, Idle
<1>7. ASSUME NEW r \in Slots, NEW u, NEW input, BeginReplacement(r, u, input)
      PROVE  Shaped'
  BY <1>7, <1>1 DEF BeginReplacement
<1>8. ASSUME NEW r \in Slots, NEW u, NEW x,
             CreateUser(r, x) \/ UpdateUser(r, u, x) \/ UpdateUserStatus(r, u, x) \/ CommitReplacement(r)
      PROVE  Shaped'
  BY <1>8, <1>2 DEF CreateUser, UpdateUser, UpdateUserStatus, CommitReplacement
<1>9. CASE DeleteRolePermissions \/ CreateRolePermissions \/ UpsertOwner
  BY <1>9, <1>3 DEF DeleteRolePermissions, CreateRolePermissions, UpsertOwner, WritePermissions
<1>10. CASE BeginSeed \/ StopSeed \/ UNCHANGED vars
  BY <1>10 DEF BeginSeed, StopSeed, vars, Shaped
<1> QED
  BY <1>4, <1>5, <1>6, <1>7, <1>8, <1>9, <1>10 DEF Next, Handle, Seed

\* In every state requests have their shape.
LEMMA ShapedAlways == Spec => []Shaped
<1>1. Init => Shaped
  BY DEF Init, Shaped, Idle
<1> QED
  BY <1>1, ShapedStep, PTL DEF Spec

(***************************************************************************)
(* Replacements of overrides.                                              *)
(***************************************************************************)
Replacing(r) == request[r].phase \in {"delete", "insert"}

\* A replacement takes or has taken every row that it could see when it began and
\* that is still there; OverridesOfConcurrent does not say so while it is under way.
SeenIsTaken ==
    \A r \in Slots : Replacing(r) =>
        /\ {"user", "rows", "since"} \subseteq DOMAIN request[r]
        /\ request[r].since \in Nat /\ request[r].since <= commits
        /\ \A row \in overrides :
              row.user = request[r].user /\ row.at <= request[r].since => row \in request[r].rows

\* Rows are from replacements that took their snapshot before they committed.
RowsDated ==
    /\ commits \in Nat
    /\ \A row \in overrides : /\ row.since \in Nat /\ row.at \in Nat
                              /\ row.since < row.at /\ row.at <= commits

ReplacementInv == RowsDated /\ SeenIsTaken /\ OverridesOfConcurrent

\* Most steps leave the rows, and the requests that replace rows, as they are.
LEMMA OthersKeep ==
    ASSUME ReplacementInv, UNCHANGED <<overrides, commits>>,
           \A r \in Slots : Replacing(r)' => request'[r] = request[r]
    PROVE  ReplacementInv'
BY DEF ReplacementInv, RowsDated, SeenIsTaken, OverridesOfConcurrent, Replacing

\* The new rows of a replacement follow every row it leaves, which it could not
\* see, and have keys of their own.
LEMMA CommitKeeps ==
    ASSUME Shaped, ReplacementInv, NEW r \in Slots, CommitReplacement(r)
    PROVE  ReplacementInv'
<1> DEFINE q    == request[r]
           kept == overrides \ q.rows
           new  == NewRows(r)
<1>1. /\ q.phase = "insert" /\ Replacing(r)
      /\ \A row \in new : ~KeyTaken(r, row.key)
      /\ overrides' = kept \cup new
      /\ commits' = commits + 1
  BY DEF CommitReplacement, Write, Replacing
<1>2. q.since \in Nat /\ q.since <= commits /\ commits \in Nat
  BY <1>1 DEF ReplacementInv, SeenIsTaken, RowsDated
<1>3. \A row \in new : /\ row.user = q.user /\ row.since = q.since /\ row.at = commits + 1
                      /\ row.key \in Keys
                      /\ row = [user |-> q.user, key |-> row.key, allow |-> q.input[row.key] = "allow",
                               since |-> q.since, at |-> commits + 1]
  BY DEF NewRows
<1>4. \A row \in kept : row.user = q.user => ~(row.at <= q.since)
  BY <1>1 DEF ReplacementInv, SeenIsTaken
<1>5. \A row \in kept : /\ row.since \in Nat /\ row.at \in Nat /\ row.since < row.at
                       /\ row.at <= commits
  BY DEF ReplacementInv, RowsDated
<1> HIDE DEF q, kept, new
<1>6. RowsDated'
  BY <1>1, <1>2, <1>3, <1>5 DEF RowsDated
<1>7. OverridesOfConcurrent'
  <2>1. \A row, other \in kept : row.user = other.user => row.since < other.at
    BY DEF kept, ReplacementInv, OverridesOfConcurrent
  <2>2. \A row \in new, other \in kept : row.user = other.user => row.since < other.at
    BY <1>2, <1>3, <1>4, <1>5
  <2>3. \A row \in kept, other \in new : row.since < other.at
    BY <1>2, <1>3, <1>5
  <2>4. \A row, other \in new : row.since < other.at
    BY <1>2, <1>3
  <2> QED
    BY <1>1, <2>1, <2>2, <2>3, <2>4 DEF OverridesOfConcurrent
<1>8. SeenIsTaken'
  <2> SUFFICES ASSUME NEW s \in Slots, Replacing(s)'
               PROVE  /\ {"user", "rows", "since"} \subseteq DOMAIN request'[s]
                      /\ request'[s].since \in Nat /\ request'[s].since <= commits'
                      /\ \A row \in overrides' : row.user = request'[s].user /\ row.at <= request'[s].since
                                                  => row \in request'[s].rows
    BY DEF SeenIsTaken
  <2> DEFINE w == Watching(users, rolePermissions, kept \cup new)
  <2>1. request' = [w EXCEPT ![r] = Idle]
    BY DEF CommitReplacement, Write, kept, new, q
  <2>2. w = [t \in Slots |-> w[t]]
    BY DEF Watching
  <2>3. /\ w[s].phase = request[s].phase
        /\ request[s].phase # "permissions" => w[s] = request[s]
    BY WatchingShape
  <2> HIDE DEF w
  <2>4. s # r
    BY <2>1, <2>2 DEF Replacing, Idle
  <2>5. request'[s] = request[s] /\ Replacing(s)
    BY <2>1, <2>2, <2>3, <2>4 DEF Replacing
  <2>6. {"user", "rows", "since"} \subseteq DOMAIN request[s] /\ request[s].since \in Nat /\ request[s].since <= commits
    BY <2>5 DEF ReplacementInv, SeenIsTaken
  <2>7. \A row \in kept : row.user = request[s].user /\ row.at <= request[s].since => row \in request[s].rows
    BY <2>5 DEF ReplacementInv, SeenIsTaken, kept
  <2>8. \A row \in new : ~(row.at <= request[s].since)
    BY <1>2, <1>3, <2>6
  <2> QED
    BY <1>1, <1>2, <2>5, <2>6, <2>7, <2>8
<1> QED
  BY <1>6, <1>7, <1>8 DEF ReplacementInv

\* Every step keeps the invariant.
LEMMA ReplacementStep == Shaped /\ ReplacementInv /\ [Next]_vars => ReplacementInv'
<1> SUFFICES ASSUME Shaped, ReplacementInv, [Next]_vars PROVE ReplacementInv'
  OBVIOUS
<1>1. ASSUME NEW r \in Slots, NEW next, Goto(r, next), next.phase \notin {"delete", "insert"}
      PROVE  ReplacementInv'
  <2>1. \A s \in Slots : Replacing(s)' => request'[s] = request[s]
    BY <1>1 DEF Goto, Shaped, Replacing
  <2> QED
    BY <1>1, <2>1, OthersKeep DEF Goto
<1>2. ASSUME NEW us, NEW permissions, NEW rows, UNCHANGED <<overrides, commits>>,
             \A s \in Slots : \/ request'[s] = Watching(us, permissions, rows)[s]
                              \/ request'[s] = Idle
      PROVE  ReplacementInv'
  <2>1. \A s \in Slots : Replacing(s)' => request'[s] = request[s]
    BY <1>2, WatchingShape DEF Replacing, Idle
  <2> QED
    BY <1>2, <2>1, OthersKeep
<1>3. ASSUME NEW r \in Slots, NEW u, Authenticate(r, u)
      PROVE  ReplacementInv'
  BY <1>3, <1>1 DEF Authenticate
<1>4. ASSUME NEW r \in Slots, ReadRolePermissions(r) \/ ReadOverrides(r)
      PROVE  ReplacementInv'
  <2>1. \A s \in Slots : Replacing(s)' => request'[s] = request[s]
    BY <1>4 DEF ReadRolePermissions, ReadOverrides, Goto, Shaped, Replacing
  <2> QED
    BY <1>4, <2>1, OthersKeep DEF ReadRolePermissions, ReadOverrides, Goto
<1>5. ASSUME NEW r \in Slots, RequirePermission(r) \/ Fail(r)
      PROVE  ReplacementInv'
  BY <1>5, <1>1 DEF RequirePermission, Fail, Idle
<1>6. ASSUME NEW r \in Slots, NEW u, NEW input, BeginReplacement(r, u, input)
      PROVE  ReplacementInv'
  <2> DEFINE next == [phase |-> "delete", user |-> u, input |-> input,
                      rows |-> RowsOf(u, overrides), since |-> commits]
  <2>1. request' = [request EXCEPT ![r] = next] /\ UNCHANGED <<overrides, commits>>
    BY <1>6 DEF BeginReplacement, Goto
  <2>2. \A row \in overrides : row.user = u => row \in RowsOf(u, overrides)
    BY DEF RowsOf
  <2>3. \A s \in Slots : request'[s] = IF s = r THEN next ELSE request[s]
    BY <2>1 DEF Shaped
  <2>4. SeenIsTaken'
    BY <2>1, <2>2, <2>3 DEF SeenIsTaken, Replacing, ReplacementInv, RowsDated
  <2> QED
    BY <2>1, <2>4 DEF ReplacementInv, RowsDated, OverridesOfConcurrent
<1>7. ASSUME NEW r \in Slots, DeleteOverrides(r)
      PROVE  ReplacementInv'
  <2>1. /\ request' = [request EXCEPT ![r] = [request[r] EXCEPT !.phase = "insert", !.rows = FoundRows(r)]]
        /\ Replacing(r) /\ UNCHANGED <<overrides, commits>>
    BY <1>7 DEF DeleteOverrides, Goto, Replacing
  <2>2. \A s \in Slots : s # r => request'[s] = request[s]
    BY <2>1 DEF Shaped
  <2>0. {"user", "rows", "since"} \subseteq DOMAIN request[r]
    BY <2>1 DEF ReplacementInv, SeenIsTaken
  <2>3. /\ request'[r].user = request[r].user /\ request'[r].since = request[r].since
        /\ request'[r].rows = FoundRows(r) /\ DOMAIN request'[r] = DOMAIN request[r]
    BY <2>0, <2>1 DEF Shaped
  <2>4. \A row \in overrides : row.user = request[r].user /\ row.at <= request[r].since
                                  => row \in request'[r].rows
    BY <2>1, <2>3 DEF ReplacementInv, SeenIsTaken, FoundRows
  <2>5. SeenIsTaken'
    BY <2>0, <2>1, <2>2, <2>3, <2>4 DEF SeenIsTaken, Replacing, ReplacementInv
  <2> QED
    BY <2>1, <2>5 DEF ReplacementInv, RowsDated, OverridesOfConcurrent
<1>8. ASSUME NEW r \in Slots, NEW u, NEW x,
             CreateUser(r, x) \/ UpdateUser(r, u, x) \/ UpdateUserStatus(r, u, x)
      PROVE  ReplacementInv'
  <2>1. \E us : Write(r, Idle, us, overrides) /\ UNCHANGED commits
    BY <1>8 DEF CreateUser, UpdateUser, UpdateUserStatus
  <2>2. PICK us : Write(r, Idle, us, overrides) /\ UNCHANGED commits
    BY <2>1
  <2> DEFINE w == Watching(us, rolePermissions, overrides)
  <2>3. w = [s \in Slots |-> w[s]] /\ request' = [w EXCEPT ![r] = Idle]
    BY <2>2 DEF Watching, Write
  <2> HIDE DEF w
  <2>4. \A s \in Slots : request'[s] = w[s] \/ request'[s] = Idle
    BY <2>3
  <2> QED
    BY <1>2, <2>2, <2>4 DEF w, Write
<1>9. ASSUME NEW r \in Slots, CommitReplacement(r)
      PROVE  ReplacementInv'
  BY <1>9, CommitKeeps
<1>10. CASE DeleteRolePermissions \/ CreateRolePermissions \/ UpsertOwner
  BY <1>10, <1>2 DEF DeleteRolePermissions, CreateRolePermissions, UpsertOwner, WritePermissions
<1>11. CASE BeginSeed \/ StopSeed \/ UNCHANGED vars
  BY <1>11, OthersKeep DEF BeginSeed, StopSeed, vars
<1> QED
  BY <1>3, <1>4, <1>5, <1>6, <1>7, <1>8, <1>9, <1>10, <1>11 DEF Next, Handle, Seed

\* The invariant of replacements, from the beginning on.
LEMMA ReplacementsKept == Spec => []ReplacementInv
<1>1. Init => ReplacementInv
  BY DEF Init, Idle, ReplacementInv, RowsDated, SeenIsTaken, OverridesOfConcurrent, Replacing
<1> QED
  BY <1>1, ShapedAlways, ReplacementStep, PTL DEF Spec

(***************************************************************************)
(* However many replacements of a user's overrides run at once, what is    *)
(* left is from requests that overlapped.                                  *)
(***************************************************************************)
THEOREM MixedOnlyIfConcurrent == Spec => []OverridesOfConcurrent
<1>1. ReplacementInv => OverridesOfConcurrent
  BY DEF ReplacementInv
<1> QED
  BY <1>1, ReplacementsKept, PTL

(***************************************************************************)
(* Admission.                                                              *)
(***************************************************************************)
Limited == {"ADMIN", "OPERATOR"}

TablesTyped ==
    /\ users \in Seq(UserRow)
    /\ rolePermissions \in [Limited -> SUBSET Keys]

LetIn == [phase : {"permissions"}, actor : Nat, role : Limited,
          unread : SUBSET {"rolePermissions", "overrides"}, ofRole : SUBSET Asked,
          allowed : SUBSET Asked, denied : SUBSET Asked, held : BOOLEAN, moved : SUBSET Tables]

KeysIn(u, rows, allow) == {row.key : row \in {o \in RowsOf(u, rows) : o.allow = allow}}

TwoOf(moved) == \E table, other \in moved : table # other

\* What the check will have of the role and of the overrides if nothing changes.
OfRole(q, permissions) ==
    IF "rolePermissions" \in q.unread THEN permissions[q.role] \cap Asked ELSE q.ofRole

OfUser(q, rows, allow) ==
    IF "overrides" \in q.unread THEN KeysIn(q.actor, rows, allow) \cap Asked
    ELSE IF allow THEN q.allowed ELSE q.denied

\* As long as the actor did not hold the permission and at most one table moved,
\* the request would be refused if it went on at once; of a table that did not
\* move it knows, or will read, what is there.
Fits(q, us, permissions, rows) ==
    /\ q \in LetIn
    /\ q.actor \in DOMAIN us
    /\ ~q.held =>
          /\ "users" \notin q.moved => us[q.actor].role = q.role
          /\ "rolePermissions" \notin q.moved => OfRole(q, permissions) = permissions[q.role] \cap Asked
          /\ "overrides" \notin q.moved =>
                \A allow \in BOOLEAN : OfUser(q, rows, allow) = KeysIn(q.actor, rows, allow) \cap Asked
          /\ ~TwoOf(q.moved) =>
                ~(Asked \subseteq EffectivePermissions(OfRole(q, permissions), OfUser(q, rows, TRUE),
                                                      OfUser(q, rows, FALSE)))

AdmissionInv ==
    /\ TablesTyped
    /\ \A r \in Slots :
          /\ request[r].phase = "permissions" => Fits(request[r], users, rolePermissions, overrides)
          /\ request[r].phase = "admitted" => request[r].held \/ TwoOf(request[r].moved)

\* Who does not hold the permission would be refused by a check that reads all
\* three tables now.
LEMMA NotHeldIsRefused ==
    ASSUME NEW u, NEW us, NEW permissions, NEW rows, us[u].role # "OWNER",
           ~HoldsIn(u, us, permissions, rows)
    PROVE  ~(Asked \subseteq EffectivePermissions(permissions[us[u].role] \cap Asked,
                                                 KeysIn(u, rows, TRUE) \cap Asked,
                                                 KeysIn(u, rows, FALSE) \cap Asked))
BY DEF HoldsIn, EffectivePermissions, KeysIn, RowsOf, Asked

\* A write that commits while the request is let in: either the actor held the
\* permission, or the request is now refused at once, or two tables have moved.
LEMMA WriteFits ==
    ASSUME Shaped, TablesTyped, NEW r \in Slots, request[r].phase = "permissions",
           Fits(request[r], users, rolePermissions, overrides),
           NEW us \in Seq(UserRow), DOMAIN users \subseteq DOMAIN us,
           NEW permissions \in [Limited -> SUBSET Keys], NEW rows,
           \/ permissions = rolePermissions /\ rows = overrides
           \/ us = users /\ rows = overrides
           \/ us = users /\ permissions = rolePermissions
    PROVE  Fits(Watching(us, permissions, rows)[r], us, permissions, rows)
<1> DEFINE q    == request[r]
           w    == Watching(us, permissions, rows)[r]
           u    == q.actor
           now  == q.moved \cup Changed(us[u].role # users[u].role, "users")
                     \cup Changed(permissions # rolePermissions, "rolePermissions")
                     \cup Changed(RowsOf(u, rows) # RowsOf(u, overrides), "overrides")
<1>1. q \in LetIn /\ u \in DOMAIN users /\ u \in DOMAIN us
  BY DEF Fits
<1>2. CASE q.held \/ HoldsIn(u, us, permissions, rows)
  <2>1. w = [q EXCEPT !.held = TRUE, !.moved = {}]
    BY <1>2 DEF Watching
  <2>2. w \in LetIn /\ w.held /\ w.actor = u
    BY <1>1, <2>1 DEF LetIn
  <2> QED
    BY <1>1, <2>2 DEF Fits
<1>3. CASE ~q.held /\ ~HoldsIn(u, us, permissions, rows)
  <2>1. w = [q EXCEPT !.moved = now]
    BY <1>3 DEF Watching
  <2>2. now \subseteq Tables /\ q.moved \subseteq now
    BY <1>1 DEF LetIn, Changed, Tables
  <2> HIDE DEF now
  <2>3. /\ w \in LetIn /\ w.moved = now /\ w.held = q.held /\ w.actor = u /\ w.role = q.role
        /\ w.unread = q.unread /\ w.ofRole = q.ofRole /\ w.allowed = q.allowed /\ w.denied = q.denied
    BY <1>1, <2>1, <2>2 DEF LetIn
  <2>4. /\ "users" \notin now => us[u].role = users[u].role
        /\ "rolePermissions" \notin now => permissions = rolePermissions
        /\ "overrides" \notin now => RowsOf(u, rows) = RowsOf(u, overrides)
    BY DEF now, Changed
  <2> HIDE DEF w
  <2>5. "overrides" \notin now => \A allow : KeysIn(u, rows, allow) = KeysIn(u, overrides, allow)
    BY <2>4 DEF KeysIn
  <2>6. "users" \notin now => us[u].role = q.role
    BY <1>3, <2>2, <2>4 DEF Fits
  <2>7. "rolePermissions" \notin now => OfRole(w, permissions) = permissions[q.role] \cap Asked
    BY <1>3, <2>2, <2>3, <2>4 DEF Fits, OfRole
  <2>8. "overrides" \notin now =>
            \A allow \in BOOLEAN : OfUser(w, rows, allow) = KeysIn(u, rows, allow) \cap Asked
    BY <1>3, <2>2, <2>3, <2>5 DEF Fits, OfUser
  <2>9. ASSUME ~TwoOf(now)
        PROVE  ~(Asked \subseteq EffectivePermissions(OfRole(w, permissions), OfUser(w, rows, TRUE),
                                                     OfUser(w, rows, FALSE)))
    <3>0. ASSUME us[u].role = q.role,
                 OfRole(w, permissions) = permissions[q.role] \cap Asked,
                 \A allow \in BOOLEAN : OfUser(w, rows, allow) = KeysIn(u, rows, allow) \cap Asked
          PROVE  ~(Asked \subseteq EffectivePermissions(OfRole(w, permissions), OfUser(w, rows, TRUE),
                                                       OfUser(w, rows, FALSE)))
      <4>1. us[u].role # "OWNER"
        BY <1>1, <3>0 DEF LetIn, Limited
      <4>2. /\ OfRole(w, permissions) = permissions[us[u].role] \cap Asked
            /\ OfUser(w, rows, TRUE) = KeysIn(u, rows, TRUE) \cap Asked
            /\ OfUser(w, rows, FALSE) = KeysIn(u, rows, FALSE) \cap Asked
        BY <3>0
      <4> QED
        BY <1>3, <4>1, <4>2, NotHeldIsRefused
    <3>1. CASE "users" \in now
      <4>1. "rolePermissions" \notin now /\ "overrides" \notin now /\ ~TwoOf(q.moved)
        BY <2>2, <2>9, <3>1 DEF TwoOf
      <4>2. permissions = rolePermissions
        BY <2>4, <4>1
      <4>3. OfRole(w, permissions) = OfRole(q, rolePermissions)
        BY <2>3, <4>2 DEF OfRole
      <4>4. \A allow \in BOOLEAN : OfUser(w, rows, allow) = OfUser(q, overrides, allow)
        BY <2>3, <2>5, <4>1 DEF OfUser
      <4> QED
        BY <1>3, <4>1, <4>3, <4>4 DEF Fits
    <3>2. CASE "users" \notin now /\ "rolePermissions" \notin now /\ "overrides" \notin now
      BY <2>6, <2>7, <2>8, <3>0, <3>2
    <3>3. CASE "users" \notin now /\ "rolePermissions" \in now
      <4>1. "overrides" \notin now /\ ~TwoOf(q.moved)
        BY <2>2, <2>9, <3>3 DEF TwoOf
      <4>2. CASE "rolePermissions" \in q.unread
        <5>1. OfRole(w, permissions) = permissions[q.role] \cap Asked
          BY <2>3, <4>2 DEF OfRole
        <5> QED
          BY <2>6, <2>8, <3>0, <3>3, <4>1, <5>1
      <4>3. CASE "rolePermissions" \notin q.unread
        <5>1. OfRole(w, permissions) = OfRole(q, rolePermissions)
          BY <2>3, <4>3 DEF OfRole
        <5>2. \A allow \in BOOLEAN : OfUser(w, rows, allow) = OfUser(q, overrides, allow)
          BY <2>3, <2>5, <4>1 DEF OfUser
        <5> QED
          BY <1>3, <4>1, <5>1, <5>2 DEF Fits
      <4> QED
        BY <4>2, <4>3
    <3>4. CASE "users" \notin now /\ "rolePermissions" \notin now /\ "overrides" \in now
      <4>1. ~TwoOf(q.moved)
        BY <2>2, <2>9 DEF TwoOf
      <4>2. CASE "overrides" \in q.unread
        <5>1. \A allow \in BOOLEAN : OfUser(w, rows, allow) = KeysIn(u, rows, allow) \cap Asked
          BY <2>3, <4>2 DEF OfUser
        <5> QED
          BY <2>6, <2>7, <3>0, <3>4, <5>1
      <4>3. CASE "overrides" \notin q.unread
        <5>1. \A allow \in BOOLEAN : OfUser(w, rows, allow) = OfUser(q, overrides, allow)
          BY <2>3, <4>3 DEF OfUser
        <5>2. OfRole(w, permissions) = OfRole(q, rolePermissions)
          BY <2>3, <2>4, <3>4 DEF OfRole
        <5> QED
          BY <1>3, <4>1, <5>1, <5>2 DEF Fits
      <4> QED
        BY <4>2, <4>3
    <3> QED
      BY <3>1, <3>2, <3>3, <3>4
  <2>10. Fits(w, us, permissions, rows)
    BY <1>1, <2>3, <2>6, <2>7, <2>8, <2>9 DEF Fits
  <2> QED
    BY <2>10 DEF w
<1> QED
  BY <1>2, <1>3

\* A request that begins knows what is in the tables.
LEMMA BegunFits ==
    ASSUME TablesTyped, NEW u \in DOMAIN users, users[u].role # "OWNER"
    PROVE  Fits([phase |-> "permissions", actor |-> u, role |-> users[u].role,
                 unread |-> {"rolePermissions", "overrides"},
                 ofRole |-> {}, allowed |-> {}, denied |-> {},
                 held |-> HoldsIn(u, users, rolePermissions, overrides), moved |-> {}],
                users, rolePermissions, overrides)
<1> DEFINE q == [phase |-> "permissions", actor |-> u, role |-> users[u].role,
                 unread |-> {"rolePermissions", "overrides"},
                 ofRole |-> {}, allowed |-> {}, denied |-> {},
                 held |-> HoldsIn(u, users, rolePermissions, overrides), moved |-> {}]
<1>1. users[u] \in UserRow /\ u \in Nat
  BY LenProperties, ElementOfSeq DEF TablesTyped
<1>2. HoldsIn(u, users, rolePermissions, overrides) \in BOOLEAN
  BY DEF HoldsIn
<1>3. q \in LetIn
  BY <1>1, <1>2 DEF LetIn, Limited, UserRow, Roles
<1>4. OfRole(q, rolePermissions) = rolePermissions[users[u].role] \cap Asked
  BY DEF OfRole
<1>5. \A allow \in BOOLEAN : OfUser(q, overrides, allow) = KeysIn(u, overrides, allow) \cap Asked
  BY DEF OfUser
<1>6. /\ q.actor = u /\ q.role = users[u].role
      /\ q.held = HoldsIn(u, users, rolePermissions, overrides)
  OBVIOUS
<1> HIDE DEF q
<1>7. ~q.held => ~(Asked \subseteq EffectivePermissions(OfRole(q, rolePermissions), OfUser(q, overrides, TRUE),
                                                       OfUser(q, overrides, FALSE)))
  BY <1>4, <1>5, <1>6, NotHeldIsRefused
<1>8. Fits(q, users, rolePermissions, overrides)
  BY <1>3, <1>4, <1>5, <1>6, <1>7 DEF Fits
<1> QED
  BY <1>8 DEF q

\* Reading one of the two tables changes nothing of what the check will have.
LEMMA ReadFits ==
    ASSUME NEW q \in LetIn, Fits(q, users, rolePermissions, overrides),
           NEW p \in LetIn, p.actor = q.actor, p.role = q.role, p.held = q.held, p.moved = q.moved,
           OfRole(p, rolePermissions) = OfRole(q, rolePermissions),
           \A allow \in BOOLEAN : OfUser(p, overrides, allow) = OfUser(q, overrides, allow)
    PROVE  Fits(p, users, rolePermissions, overrides)
BY DEF Fits

\* Steps that write no table.
LEMMA GotoAdmits ==
    ASSUME Shaped, AdmissionInv, NEW r \in Slots, NEW next, Goto(r, next),
           next.phase = "permissions" => Fits(next, users, rolePermissions, overrides),
           next.phase = "admitted" => next.held \/ TwoOf(next.moved)
    PROVE  AdmissionInv'
<1>1. \A s \in Slots : request'[s] = IF s = r THEN next ELSE request[s]
  BY DEF Goto, Shaped
<1>2. users' = users /\ rolePermissions' = rolePermissions /\ overrides' = overrides
  BY DEF Goto
<1> SUFFICES ASSUME NEW s \in Slots
             PROVE  /\ request'[s].phase = "permissions" =>
                          Fits(request'[s], users, rolePermissions, overrides)
                    /\ request'[s].phase = "admitted" => request'[s].held \/ TwoOf(request'[s].moved)
  BY <1>2 DEF AdmissionInv, TablesTyped, Fits, OfRole, OfUser
<1> QED
  BY <1>1 DEF AdmissionInv

\* Steps that write one table.
LEMMA WriteAdmits ==
    ASSUME Shaped, AdmissionInv, NEW us \in Seq(UserRow), DOMAIN users \subseteq DOMAIN us,
           NEW permissions \in [Limited -> SUBSET Keys], NEW rows,
           \/ permissions = rolePermissions /\ rows = overrides
           \/ us = users /\ rows = overrides
           \/ us = users /\ permissions = rolePermissions,
           users' = us, rolePermissions' = permissions, overrides' = rows,
           \A s \in Slots : request'[s] \in {Watching(us, permissions, rows)[s], Idle}
    PROVE  AdmissionInv'
<1> SUFFICES ASSUME NEW s \in Slots
             PROVE  /\ request'[s].phase = "permissions" => Fits(request'[s], us, permissions, rows)
                    /\ request'[s].phase = "admitted" => request'[s].held \/ TwoOf(request'[s].moved)
  BY DEF AdmissionInv, TablesTyped, Fits, OfRole, OfUser
<1>1. CASE request'[s] = Idle
  BY <1>1 DEF Idle
<1>2. CASE request'[s] = Watching(us, permissions, rows)[s] /\ request[s].phase = "permissions"
  <2>1. Fits(request'[s], us, permissions, rows)
    BY <1>2, WriteFits DEF AdmissionInv
  <2>2. request'[s].phase = "permissions"
    BY <1>2, WatchingShape
  <2> QED
    BY <2>1, <2>2
<1>3. CASE request'[s] = Watching(us, permissions, rows)[s] /\ request[s].phase # "permissions"
  <2>1. request'[s] = request[s]
    BY <1>3, WatchingShape
  <2> QED
    BY <1>3, <2>1 DEF AdmissionInv
<1> QED
  BY <1>1, <1>2, <1>3

\* The same for the writes of a request.
LEMMA RequestAdmits ==
    ASSUME Shaped, AdmissionInv, NEW r \in Slots, NEW us \in Seq(UserRow),
           DOMAIN users \subseteq DOMAIN us, NEW rows, us = users \/ rows = overrides,
           Write(r, Idle, us, rows)
    PROVE  AdmissionInv'
<1> DEFINE w == Watching(us, rolePermissions, rows)
<1>1. w = [s \in Slots |-> w[s]] /\ request' = [w EXCEPT ![r] = Idle]
  BY DEF Watching, Write
<1> HIDE DEF w
<1>2. \A s \in Slots : request'[s] \in {w[s], Idle}
  BY <1>1
<1>3. /\ users' = us /\ rolePermissions' = rolePermissions /\ overrides' = rows
      /\ rolePermissions \in [Limited -> SUBSET Keys]
  BY DEF Write, AdmissionInv, TablesTyped
<1> QED
  BY <1>2, <1>3, WriteAdmits DEF w

\* Every step keeps the invariant.
LEMMA AdmissionStep == Shaped /\ AdmissionInv /\ [Next]_vars => AdmissionInv'
<1> SUFFICES ASSUME Shaped, AdmissionInv, [Next]_vars PROVE AdmissionInv'
  OBVIOUS
<1>1. ASSUME NEW r \in Slots, NEW u \in DOMAIN users, Authenticate(r, u)
      PROVE  AdmissionInv'
  <2>1. CASE users[u].role = "OWNER"
    BY <1>1, <2>1, GotoAdmits DEF Authenticate
  <2>2. CASE users[u].role # "OWNER"
    BY <1>1, <2>2, GotoAdmits, BegunFits DEF Authenticate, AdmissionInv
  <2> QED
    BY <2>1, <2>2
<1>2. ASSUME NEW r \in Slots, ReadRolePermissions(r)
      PROVE  AdmissionInv'
  <2> DEFINE q == request[r]
             p == [q EXCEPT !.unread = @ \ {"rolePermissions"}, !.ofRole = rolePermissions[q.role] \cap Asked]
  <2>1. Goto(r, p) /\ Fits(q, users, rolePermissions, overrides) /\ "rolePermissions" \in q.unread
    BY <1>2 DEF ReadRolePermissions, AdmissionInv
  <2>2. q \in LetIn
    BY <2>1 DEF Fits
  <2>3. /\ p \in LetIn /\ p.actor = q.actor /\ p.role = q.role /\ p.held = q.held /\ p.moved = q.moved
        /\ p.unread = q.unread \ {"rolePermissions"} /\ p.ofRole = rolePermissions[q.role] \cap Asked
        /\ p.allowed = q.allowed /\ p.denied = q.denied /\ p.phase = "permissions"
    BY <2>2 DEF LetIn
  <2> HIDE DEF p, q
  <2>4. /\ OfRole(p, rolePermissions) = OfRole(q, rolePermissions)
        /\ \A allow \in BOOLEAN : OfUser(p, overrides, allow) = OfUser(q, overrides, allow)
    BY <2>1, <2>3 DEF OfRole, OfUser
  <2>5. Fits(p, users, rolePermissions, overrides)
    BY <2>1, <2>2, <2>3, <2>4, ReadFits
  <2> QED
    BY <2>1, <2>3, <2>5, GotoAdmits
<1>3. ASSUME NEW r \in Slots, ReadOverrides(r)
      PROVE  AdmissionInv'
  <2> DEFINE q == request[r]
             p == [q EXCEPT !.unread = @ \ {"overrides"},
                            !.allowed = KeysOf(q.actor, TRUE) \cap Asked,
                            !.denied = KeysOf(q.actor, FALSE) \cap Asked]
  <2>1. Goto(r, p) /\ Fits(q, users, rolePermissions, overrides) /\ "overrides" \in q.unread
    BY <1>3 DEF ReadOverrides, AdmissionInv
  <2>2. q \in LetIn
    BY <2>1 DEF Fits
  <2>3. /\ p \in LetIn /\ p.actor = q.actor /\ p.role = q.role /\ p.held = q.held /\ p.moved = q.moved
        /\ p.unread = q.unread \ {"overrides"} /\ p.ofRole = q.ofRole
        /\ p.allowed = KeysOf(q.actor, TRUE) \cap Asked
        /\ p.denied = KeysOf(q.actor, FALSE) \cap Asked /\ p.phase = "permissions"
    BY <2>2 DEF LetIn
  <2> HIDE DEF p, q
  <2>4. /\ OfRole(p, rolePermissions) = OfRole(q, rolePermissions)
        /\ \A allow \in BOOLEAN : OfUser(p, overrides, allow) = OfUser(q, overrides, allow)
    BY <2>1, <2>3 DEF OfRole, OfUser, KeysOf, KeysIn
  <2>5. Fits(p, users, rolePermissions, overrides)
    BY <2>1, <2>2, <2>3, <2>4, ReadFits
  <2> QED
    BY <2>1, <2>3, <2>5, GotoAdmits
<1>4. ASSUME NEW r \in Slots, RequirePermission(r)
      PROVE  AdmissionInv'
  <2> DEFINE q == request[r]
             p == [phase |-> "admitted", actor |-> q.actor, role |-> q.role,
                   held |-> q.held, moved |-> q.moved]
  <2>1. /\ q.unread = {} /\ Fits(q, users, rolePermissions, overrides)
        /\ \/ Asked \subseteq EffectivePermissions(q.ofRole, q.allowed, q.denied) /\ Goto(r, p)
           \/ Goto(r, Idle)
    BY <1>4 DEF RequirePermission, AdmissionInv
  <2>2. CASE Goto(r, Idle)
    BY <2>2, GotoAdmits DEF Idle
  <2>3. CASE Asked \subseteq EffectivePermissions(q.ofRole, q.allowed, q.denied) /\ Goto(r, p)
    <3>1. /\ OfRole(q, rolePermissions) = q.ofRole
          /\ OfUser(q, overrides, TRUE) = q.allowed /\ OfUser(q, overrides, FALSE) = q.denied
      BY <2>1 DEF OfRole, OfUser
    <3>2. q.held \/ TwoOf(q.moved)
      BY <2>1, <2>3, <3>1 DEF Fits
    <3> QED
      BY <2>3, <3>2, GotoAdmits
  <2> QED
    BY <2>1, <2>2, <2>3
<1>5. ASSUME NEW r \in Slots, Fail(r)
      PROVE  AdmissionInv'
  BY <1>5, GotoAdmits DEF Fail, Idle
<1>6. ASSUME NEW r \in Slots, NEW u, NEW input, BeginReplacement(r, u, input)
      PROVE  AdmissionInv'
  BY <1>6, GotoAdmits DEF BeginReplacement
<1>7. ASSUME NEW r \in Slots, DeleteOverrides(r)
      PROVE  AdmissionInv'
  <2>1. [request[r] EXCEPT !.phase = "insert", !.rows = FoundRows(r)].phase = "insert"
    BY DEF Shaped
  <2> QED
    BY <1>7, <2>1, GotoAdmits DEF DeleteOverrides
<1>8. users \in Seq(UserRow) /\ rolePermissions \in [Limited -> SUBSET Keys]
  BY DEF AdmissionInv, TablesTyped
<1>9. ASSUME NEW u \in DOMAIN users, NEW row \in UserRow
      PROVE  [users EXCEPT ![u] = row] \in Seq(UserRow) /\ DOMAIN [users EXCEPT ![u] = row] = DOMAIN users
  BY <1>8, ExceptSeq, LenProperties
<1>10. ASSUME NEW u \in DOMAIN users, NEW role \in Roles, NEW status \in UserStatuses
       PROVE  /\ [users[u] EXCEPT !.role = role] \in UserRow
              /\ [users[u] EXCEPT !.status = status] \in UserRow
  <2>1. users[u] \in UserRow
    BY <1>8, LenProperties, ElementOfSeq
  <2> QED
    BY <2>1 DEF UserRow
<1>11. ASSUME NEW r \in Slots, NEW role \in Roles, CreateUser(r, role)
       PROVE  AdmissionInv'
  <2> DEFINE us == Append(users, [role |-> role, status |-> "ACTIVE"])
  <2>1. us \in Seq(UserRow) /\ DOMAIN users \subseteq DOMAIN us
    BY <1>8, AppendProperties, LenProperties DEF UserRow, UserStatuses
  <2> QED
    BY <1>11, <2>1, RequestAdmits DEF CreateUser
<1>12. ASSUME NEW r \in Slots, NEW u \in DOMAIN users, NEW role \in Roles, UpdateUser(r, u, role)
       PROVE  AdmissionInv'
  BY <1>9, <1>10, <1>12, RequestAdmits DEF UpdateUser, UserStatuses
<1>13. ASSUME NEW r \in Slots, NEW u \in DOMAIN users, NEW status \in UserStatuses,
              UpdateUserStatus(r, u, status)
       PROVE  AdmissionInv'
  BY <1>9, <1>10, <1>13, RequestAdmits DEF UpdateUserStatus, Roles
<1>14. ASSUME NEW r \in Slots, CommitReplacement(r)
       PROVE  AdmissionInv'
  BY <1>8, <1>14, RequestAdmits DEF CommitReplacement
<1>15. ASSUME NEW keys \in SUBSET Keys, WritePermissions(keys)
       PROVE  AdmissionInv'
  <2> DEFINE now == [rolePermissions EXCEPT !["ADMIN"] = keys]
  <2>1. now \in [Limited -> SUBSET Keys]
    BY <1>8 DEF Limited
  <2>2. /\ rolePermissions' = now /\ request' = Watching(users, now, overrides)
        /\ users' = users /\ overrides' = overrides
    BY <1>15 DEF WritePermissions
  <2> HIDE DEF now
  <2> QED
    BY <1>8, <2>1, <2>2, WriteAdmits
<1>16. CASE DeleteRolePermissions \/ CreateRolePermissions
  BY <1>15, <1>16 DEF DeleteRolePermissions, CreateRolePermissions, SeedPermissions
<1>17. CASE UpsertOwner
  <2> DEFINE us == [users EXCEPT ![1] = [role |-> "OWNER", status |-> "ACTIVE"]]
  <2>1. [role |-> "OWNER", status |-> "ACTIVE"] \in UserRow
    BY DEF UserRow, Roles, UserStatuses
  <2>2. 1 \in DOMAIN users => us \in Seq(UserRow) /\ DOMAIN users \subseteq DOMAIN us
    BY <1>9, <2>1
  <2>3. 1 \notin DOMAIN users => us = users
    BY <1>8, LenProperties
  <2>4. us \in Seq(UserRow) /\ DOMAIN users \subseteq DOMAIN us
    BY <1>8, <2>2, <2>3
  <2>5. /\ users' = us /\ request' = Watching(us, rolePermissions, overrides)
        /\ rolePermissions' = rolePermissions /\ overrides' = overrides
    BY <1>17 DEF UpsertOwner
  <2> HIDE DEF us
  <2> QED
    BY <1>8, <2>4, <2>5, WriteAdmits
<1>18. CASE BeginSeed \/ StopSeed \/ UNCHANGED vars
  BY <1>18 DEF BeginSeed, StopSeed, vars, AdmissionInv, TablesTyped, Fits, OfRole, OfUser
<1> QED
  BY <1>1, <1>2, <1>3, <1>4, <1>5, <1>6, <1>7, <1>11, <1>12, <1>13, <1>14, <1>16, <1>17, <1>18
  DEF Next, Handle, Seed

\* The invariant of admissions, from the beginning on.
LEMMA AdmissionKept == Spec => []AdmissionInv
<1>1. Init => AdmissionInv
  <2> SUFFICES ASSUME Init PROVE AdmissionInv
    OBVIOUS
  <2>1. [role |-> "OWNER", status |-> "ACTIVE"] \in UserRow
    BY DEF UserRow, Roles, UserStatuses
  <2>2. users \in Seq(UserRow)
    BY <2>1 DEF Init
  <2>3. rolePermissions \in [Limited -> SUBSET Keys]
    BY DEF Init, SeedPermissions, Limited
  <2> QED
    BY <2>2, <2>3 DEF Init, AdmissionInv, TablesTyped, Idle
<1> QED
  BY <1>1, ShapedAlways, AdmissionStep, PTL DEF Spec

(***************************************************************************)
(* Whoever is let in to manage users held the permission at some moment    *)
(* since authenticate, unless two of the three tables changed meanwhile:   *)
(* for any number of users, requests and writes in between.                *)
(***************************************************************************)
THEOREM AdmittedHeld == Spec => []AdmittedHeldPermission
<1>1. AdmissionInv => AdmittedHeldPermission
  BY DEF AdmissionInv, AdmittedHeldPermission, TwoOf
<1> QED
  BY <1>1, AdmissionKept, PTL

(***************************************************************************)
(* Types.                                                                  *)
(***************************************************************************)
\* What a request carries while the tables are us and n replacements are
\* committed; what it carries while it is let in is part of Fits.
SlotTyped(q, us, n) ==
    /\ q.phase \in {"idle", "permissions", "admitted", "delete", "insert"}
    /\ q.phase = "idle" => q = Idle
    /\ q.phase = "admitted" =>
          q \in [phase : {"admitted"}, actor : DOMAIN us, role : Roles,
                 held : BOOLEAN, moved : SUBSET Tables]
    /\ q.phase \in {"delete", "insert"} =>
          /\ q.user \in DOMAIN us /\ q.since \in Nat /\ q.since <= n
          /\ \A row \in q.rows : row \in OverrideRow /\ row.user = q.user

TypeInv ==
    /\ users \in Seq(UserRow) /\ Len(users) <= MaxUsers
    /\ commits \in 0 .. MaxReplacements
    /\ seed \in Seeds
    /\ \A row \in overrides : row \in OverrideRow /\ row.at <= commits
    /\ \A r \in Slots : SlotTyped(request[r], users, commits)

\* What the type theorem needs of the bounds.
Bounded == MaxUsers \in Nat \ {0} /\ MaxReplacements \in Nat /\ MaxSeeds \in Nat

\* A request stays well typed when users are added and replacements committed.
LEMMA SlotKept ==
    ASSUME NEW q, NEW us, NEW vs, NEW n \in Nat, NEW m \in Nat, SlotTyped(q, us, n),
           DOMAIN us \subseteq DOMAIN vs, n <= m
    PROVE  SlotTyped(q, vs, m)
<1>1. ASSUME q.phase \in {"delete", "insert"}
      PROVE  /\ q.user \in DOMAIN vs /\ q.since \in Nat /\ q.since <= m
             /\ \A row \in q.rows : row \in OverrideRow /\ row.user = q.user
  BY <1>1 DEF SlotTyped
<1>2. ASSUME q.phase = "admitted"
      PROVE  q \in [phase : {"admitted"}, actor : DOMAIN vs, role : Roles,
                    held : BOOLEAN, moved : SUBSET Tables]
  BY <1>2 DEF SlotTyped
<1> QED
  BY <1>1, <1>2 DEF SlotTyped

\* A free slot is well typed.
LEMMA IdleSlot == \A us, n : SlotTyped(Idle, us, n)
BY DEF SlotTyped, Idle

\* The types, put together from those of the tables and of the requests that are
\* being let in.
LEMMA TypedParts ==
    ASSUME Bounded, TypeInv, AdmissionInv
    PROVE  TypeOK
<1>1. DOMAIN users \subseteq 1 .. MaxUsers
  BY LenProperties DEF TypeInv, Bounded
<1>2. ASSUME NEW r \in Slots
      PROVE  CASE request[r].phase \in {"delete", "insert"} ->
                     /\ request[r].user \in DOMAIN users /\ request[r].since <= commits
                     /\ \A row \in request[r].rows : row \in OverrideRow /\ row.user = request[r].user
               [] OTHER -> request[r] \in Requests
  <2> DEFINE q == request[r]
  <2>1. SlotTyped(q, users, commits)
    BY DEF TypeInv
  <2>2. CASE q.phase \in {"delete", "insert"}
    BY <2>1, <2>2 DEF SlotTyped
  <2>3. CASE q.phase = "permissions"
    <3>1. q \in LetIn /\ q.actor \in DOMAIN users
      BY <2>3 DEF AdmissionInv, Fits
    <3> HIDE DEF q
    <3>2. q \in [phase : {"permissions"}, actor : 1 .. MaxUsers, role : Roles,
                 unread : SUBSET {"rolePermissions", "overrides"}, ofRole : SUBSET Asked,
                 allowed : SUBSET Asked, denied : SUBSET Asked, held : BOOLEAN, moved : SUBSET Tables]
      BY <1>1, <3>1 DEF LetIn, Limited, Roles
    <3>3. q \in Requests
      BY <3>2 DEF Requests
    <3> QED
      BY <2>3, <3>3 DEF q
  <2>4. CASE q.phase = "admitted"
    <3>1. q \in [phase : {"admitted"}, actor : DOMAIN users, role : Roles,
                 held : BOOLEAN, moved : SUBSET Tables]
      BY <2>1, <2>4 DEF SlotTyped
    <3> HIDE DEF q
    <3>2. q \in [phase : {"admitted"}, actor : 1 .. MaxUsers, role : Roles,
                 held : BOOLEAN, moved : SUBSET Tables]
      BY <1>1, <3>1
    <3>3. q \in Requests
      BY <3>2 DEF Requests
    <3> QED
      BY <2>4, <3>3 DEF q
  <2>5. CASE q.phase = "idle"
    BY <2>1, <2>5 DEF SlotTyped, Idle, Requests
  <2> QED
    BY <2>1, <2>2, <2>3, <2>4, <2>5 DEF SlotTyped
<1>3. rolePermissions \in [{"ADMIN", "OPERATOR"} -> SUBSET Keys]
  BY DEF AdmissionInv, TablesTyped, Limited
<1> QED
  BY <1>2, <1>3 DEF TypeInv, TypeOK

\* A user added, and a user changed.
LEMMA UserAdded ==
    ASSUME users \in Seq(UserRow), NEW role \in Roles,
           users' = Append(users, [role |-> role, status |-> "ACTIVE"])
    PROVE  /\ users' \in Seq(UserRow) /\ DOMAIN users \subseteq DOMAIN users'
           /\ Len(users') = Len(users) + 1
           /\ \A u \in DOMAIN users : users'[u].status = users[u].status
<1>1. [role |-> role, status |-> "ACTIVE"] \in UserRow
  BY DEF UserRow, UserStatuses
<1> QED
  BY <1>1, AppendProperties, LenProperties

\* An update of a user changes no other.
LEMMA UserChanged ==
    ASSUME users \in Seq(UserRow), NEW u, NEW row, u \in DOMAIN users => row \in UserRow,
           users' = [users EXCEPT ![u] = row]
    PROVE  /\ users' \in Seq(UserRow) /\ DOMAIN users' = DOMAIN users /\ Len(users') = Len(users)
           /\ u \in DOMAIN users => users'[u] = row
           /\ \A v \in DOMAIN users \ {u} : users'[v] = users[v]
<1>1. CASE u \in DOMAIN users
  BY <1>1, ExceptSeq, LenProperties
<1>2. CASE u \notin DOMAIN users
  <2>1. users' = users
    BY <1>2, LenProperties
  <2> QED
    BY <1>2, <2>1
<1> QED
  BY <1>1, <1>2

\* Users are added and change, and none goes.
LEMMA UsersGrow ==
    ASSUME users \in Seq(UserRow), Len(users) <= MaxUsers, Bounded, [Next]_vars
    PROVE  /\ users' \in Seq(UserRow) /\ Len(users') <= MaxUsers
           /\ DOMAIN users \subseteq DOMAIN users'
<1>0. \A u \in DOMAIN users : users[u] \in UserRow
  BY LenProperties, ElementOfSeq
<1>1. ASSUME NEW r \in Slots, NEW role \in Roles, CreateUser(r, role)
      PROVE  /\ users' \in Seq(UserRow) /\ Len(users') <= MaxUsers
             /\ DOMAIN users \subseteq DOMAIN users'
  BY <1>1, UserAdded, LenProperties DEF CreateUser, Write, Bounded
<1>2. ASSUME NEW r \in Slots, NEW u \in DOMAIN users, NEW role \in Roles, UpdateUser(r, u, role)
      PROVE  /\ users' \in Seq(UserRow) /\ Len(users') <= MaxUsers
             /\ DOMAIN users \subseteq DOMAIN users'
  <2>1. [users[u] EXCEPT !.role = role] \in UserRow
    BY <1>0 DEF UserRow
  <2>2. users' = [users EXCEPT ![u] = [users[u] EXCEPT !.role = role]]
    BY <1>2 DEF UpdateUser, Write
  <2> QED
    BY <2>1, <2>2, UserChanged
<1>3. ASSUME NEW r \in Slots, NEW u \in DOMAIN users, NEW status \in UserStatuses,
             UpdateUserStatus(r, u, status)
      PROVE  /\ users' \in Seq(UserRow) /\ Len(users') <= MaxUsers
             /\ DOMAIN users \subseteq DOMAIN users'
  <2>1. [users[u] EXCEPT !.status = status] \in UserRow
    BY <1>0 DEF UserRow
  <2>2. users' = [users EXCEPT ![u] = [users[u] EXCEPT !.status = status]]
    BY <1>3 DEF UpdateUserStatus, Write
  <2> QED
    BY <2>1, <2>2, UserChanged
<1>4. CASE UpsertOwner
  <2>1. [role |-> "OWNER", status |-> "ACTIVE"] \in UserRow
    BY DEF UserRow, Roles, UserStatuses
  <2>2. users' = [users EXCEPT ![1] = [role |-> "OWNER", status |-> "ACTIVE"]]
    BY <1>4 DEF UpsertOwner
  <2> QED
    BY <2>1, <2>2, UserChanged
<1>5. CASE UNCHANGED users
  BY <1>5
<1>6. ASSUME NEW r, NEW u, NEW input,
             \/ Authenticate(r, u) \/ ReadRolePermissions(r) \/ ReadOverrides(r) \/ RequirePermission(r)
             \/ BeginReplacement(r, u, input) \/ DeleteOverrides(r) \/ CommitReplacement(r) \/ Fail(r)
             \/ BeginSeed \/ DeleteRolePermissions \/ CreateRolePermissions \/ StopSeed \/ UNCHANGED vars
      PROVE  UNCHANGED users
  BY <1>6 DEF Authenticate, ReadRolePermissions, ReadOverrides, RequirePermission, BeginReplacement,
              DeleteOverrides, CommitReplacement, Fail, Goto, Write, BeginSeed, DeleteRolePermissions,
              CreateRolePermissions, WritePermissions, StopSeed, vars
<1> QED
  BY <1>1, <1>2, <1>3, <1>4, <1>5, <1>6 DEF Next, Handle, Seed

\* A slot goes on as `next`, or every slot keeps what it has but for the history
\* of those that are being let in.
LEMMA SlotsTyped ==
    ASSUME Shaped, TypeInv, Bounded, commits' \in Nat, commits <= commits',
           DOMAIN users \subseteq DOMAIN users',
           \A s \in Slots : \/ request'[s] = request[s]
                            \/ SlotTyped(request'[s], users', commits')
                            \/ \E us, permissions, rows : request'[s] = Watching(us, permissions, rows)[s]
    PROVE  \A s \in Slots : SlotTyped(request'[s], users', commits')
<1> SUFFICES ASSUME NEW s \in Slots PROVE SlotTyped(request'[s], users', commits')
  OBVIOUS
<1>1. SlotTyped(request[s], users, commits) /\ commits \in Nat
  BY DEF TypeInv, Bounded
<1>2. SlotTyped(request[s], users', commits')
  BY <1>1, SlotKept
<1>3. ASSUME NEW us, NEW permissions, NEW rows, request'[s] = Watching(us, permissions, rows)[s]
      PROVE  SlotTyped(request'[s], users', commits')
  <2>1. /\ request'[s].phase = request[s].phase
        /\ request[s].phase # "permissions" => request'[s] = request[s]
    BY <1>3, WatchingShape
  <2> QED
    BY <1>2, <2>1 DEF SlotTyped
<1> QED
  BY <1>2, <1>3

\* What each step makes of the requests.
LEMMA SlotsStep ==
    ASSUME Shaped, TypeInv, AdmissionInv, ReplacementInv, Bounded, commits' \in Nat, commits <= commits',
           DOMAIN users \subseteq DOMAIN users', [Next]_vars
    PROVE  \A s \in Slots : SlotTyped(request'[s], users', commits')
<1>0. commits \in Nat
  BY DEF TypeInv, Bounded
<1>1. ASSUME NEW r \in Slots, NEW next, Goto(r, next), SlotTyped(next, users, commits)
      PROVE  \A s \in Slots : SlotTyped(request'[s], users', commits')
  <2>1. \A s \in Slots : request'[s] = IF s = r THEN next ELSE request[s]
    BY <1>1 DEF Goto, Shaped
  <2>2. SlotTyped(next, users', commits')
    BY <1>0, <1>1, SlotKept
  <2> QED
    BY <2>1, <2>2, SlotsTyped
<1>2. ASSUME NEW r \in Slots, NEW us, NEW rows, Write(r, Idle, us, rows)
      PROVE  \A s \in Slots : SlotTyped(request'[s], users', commits')
  <2> DEFINE w == Watching(us, rolePermissions, rows)
  <2>1. w = [s \in Slots |-> w[s]] /\ request' = [w EXCEPT ![r] = Idle]
    BY <1>2 DEF Watching, Write
  <2> HIDE DEF w
  <2>2. \A s \in Slots : request'[s] = Idle \/ request'[s] = w[s]
    BY <2>1
  <2> QED
    BY <2>2, IdleSlot, SlotsTyped DEF w
<1>3. ASSUME NEW us, NEW permissions, NEW rows, request' = Watching(us, permissions, rows)
      PROVE  \A s \in Slots : SlotTyped(request'[s], users', commits')
  BY <1>3, SlotsTyped
<1>4. ASSUME NEW r \in Slots, NEW u \in DOMAIN users, Authenticate(r, u)
      PROVE  \A s \in Slots : SlotTyped(request'[s], users', commits')
  <2>1. CASE users[u].role = "OWNER"
    <3> DEFINE next == [phase |-> "admitted", actor |-> u, role |-> "OWNER", held |-> TRUE, moved |-> {}]
    <3>1. SlotTyped(next, users, commits)
      BY DEF SlotTyped, Roles
    <3>2. Goto(r, next)
      BY <1>4, <2>1 DEF Authenticate
    <3> HIDE DEF next
    <3> QED
      BY <1>1, <3>1, <3>2
  <2>2. CASE users[u].role # "OWNER"
    <3>1. PICK next : Goto(r, next) /\ next.phase = "permissions"
      BY <1>4, <2>2 DEF Authenticate
    <3>2. SlotTyped(next, users, commits)
      BY <3>1 DEF SlotTyped
    <3> QED
      BY <1>1, <3>1, <3>2
  <2> QED
    BY <2>1, <2>2
<1>5. ASSUME NEW r \in Slots, ReadRolePermissions(r) \/ ReadOverrides(r)
      PROVE  \A s \in Slots : SlotTyped(request'[s], users', commits')
  <2>1. request[r].phase = "permissions" /\ request[r] \in LetIn
    BY <1>5 DEF ReadRolePermissions, ReadOverrides, AdmissionInv, Fits
  <2>2. ASSUME NEW next, Goto(r, next), next.phase = "permissions"
        PROVE  \A s \in Slots : SlotTyped(request'[s], users', commits')
    <3>1. SlotTyped(next, users, commits)
      BY <2>2 DEF SlotTyped
    <3> QED
      BY <1>1, <2>2, <3>1
  <2>3. CASE ReadRolePermissions(r)
    <3> DEFINE next == [request[r] EXCEPT !.unread = @ \ {"rolePermissions"},
                                          !.ofRole = rolePermissions[request[r].role] \cap Asked]
    <3>1. next.phase = "permissions" /\ Goto(r, next)
      BY <2>1, <2>3 DEF LetIn, ReadRolePermissions
    <3> HIDE DEF next
    <3> QED
      BY <2>2, <3>1
  <2>4. CASE ReadOverrides(r)
    <3> DEFINE next == [request[r] EXCEPT !.unread = @ \ {"overrides"},
                                          !.allowed = KeysOf(request[r].actor, TRUE) \cap Asked,
                                          !.denied = KeysOf(request[r].actor, FALSE) \cap Asked]
    <3>1. next.phase = "permissions" /\ Goto(r, next)
      BY <2>1, <2>4 DEF LetIn, ReadOverrides
    <3> HIDE DEF next
    <3> QED
      BY <2>2, <3>1
  <2> QED
    BY <1>5, <2>3, <2>4
<1>6. ASSUME NEW r \in Slots, RequirePermission(r)
      PROVE  \A s \in Slots : SlotTyped(request'[s], users', commits')
  <2> DEFINE q    == request[r]
             next == [phase |-> "admitted", actor |-> q.actor, role |-> q.role,
                      held |-> q.held, moved |-> q.moved]
  <2>1. q \in LetIn /\ q.actor \in DOMAIN users
    BY <1>6 DEF RequirePermission, AdmissionInv, Fits
  <2>2. Goto(r, next) \/ Goto(r, Idle)
    BY <1>6 DEF RequirePermission
  <2> HIDE DEF q
  <2>3. SlotTyped(next, users, commits)
    BY <2>1 DEF SlotTyped, LetIn, Limited, Roles
  <2> HIDE DEF next
  <2> QED
    BY <1>1, <2>2, <2>3, IdleSlot
<1>7. ASSUME NEW r \in Slots, Fail(r)
      PROVE  \A s \in Slots : SlotTyped(request'[s], users', commits')
  BY <1>1, <1>7, IdleSlot DEF Fail
<1>8. ASSUME NEW r \in Slots, NEW u \in DOMAIN users, NEW input, BeginReplacement(r, u, input)
      PROVE  \A s \in Slots : SlotTyped(request'[s], users', commits')
  <2> DEFINE next == [phase |-> "delete", user |-> u, input |-> input,
                      rows |-> RowsOf(u, overrides), since |-> commits]
  <2>1. \A row \in RowsOf(u, overrides) : row \in OverrideRow /\ row.user = u
    BY DEF RowsOf, TypeInv
  <2>2. SlotTyped(next, users, commits)
    BY <1>0, <2>1 DEF SlotTyped
  <2>3. Goto(r, next)
    BY <1>8 DEF BeginReplacement
  <2> HIDE DEF next
  <2> QED
    BY <1>1, <2>2, <2>3
<1>9. ASSUME NEW r \in Slots, DeleteOverrides(r)
      PROVE  \A s \in Slots : SlotTyped(request'[s], users', commits')
  <2> DEFINE q    == request[r]
             next == [q EXCEPT !.phase = "insert", !.rows = FoundRows(r)]
  <2>1. Goto(r, next) /\ q.phase = "delete" /\ {"phase", "user", "rows", "since"} \subseteq DOMAIN q
    BY <1>9 DEF DeleteOverrides, ReplacementInv, SeenIsTaken, Replacing, Shaped
  <2>2. /\ q.user \in DOMAIN users /\ q.since \in Nat /\ q.since <= commits
        /\ \A row \in FoundRows(r) : row \in OverrideRow /\ row.user = q.user
    BY <2>1 DEF TypeInv, SlotTyped, FoundRows
  <2> HIDE DEF q
  <2>3. /\ next.phase = "insert" /\ next.user = q.user /\ next.since = q.since
        /\ next.rows = FoundRows(r)
    BY <2>1
  <2> HIDE DEF next
  <2>4. SlotTyped(next, users, commits)
    BY <2>2, <2>3 DEF SlotTyped
  <2> QED
    BY <1>1, <2>1, <2>4
<1>10. ASSUME NEW r \in Slots, NEW u, NEW x,
              CreateUser(r, x) \/ UpdateUser(r, u, x) \/ UpdateUserStatus(r, u, x) \/ CommitReplacement(r)
       PROVE  \A s \in Slots : SlotTyped(request'[s], users', commits')
  BY <1>2, <1>10 DEF CreateUser, UpdateUser, UpdateUserStatus, CommitReplacement
<1>11. CASE DeleteRolePermissions \/ CreateRolePermissions \/ UpsertOwner
  BY <1>3, <1>11 DEF DeleteRolePermissions, CreateRolePermissions, UpsertOwner, WritePermissions
<1>12. CASE BeginSeed \/ StopSeed \/ UNCHANGED vars
  BY <1>12, SlotsTyped DEF BeginSeed, StopSeed, vars
<1> QED
  BY <1>4, <1>5, <1>6, <1>7, <1>8, <1>9, <1>10, <1>11, <1>12 DEF Next, Handle, Seed

\* The tables, the seed and the number of replacements.
LEMMA TablesStep ==
    ASSUME Shaped, TypeInv, ReplacementInv, Bounded, [Next]_vars
    PROVE  /\ commits' \in 0 .. MaxReplacements /\ commits <= commits'
           /\ seed' \in Seeds
           /\ \A row \in overrides' : row \in OverrideRow /\ row.at <= commits'
<1>0. commits \in Nat /\ commits <= MaxReplacements /\ MaxReplacements \in Nat /\ MaxSeeds \in Nat
  BY DEF TypeInv, Bounded
<1>1. ASSUME NEW r \in Slots, CommitReplacement(r)
      PROVE  /\ commits' \in 0 .. MaxReplacements /\ commits <= commits'
             /\ seed' \in Seeds
             /\ \A row \in overrides' : row \in OverrideRow /\ row.at <= commits'
  <2>1. /\ commits' = commits + 1 /\ commits < MaxReplacements /\ seed' = seed
        /\ overrides' \subseteq overrides \cup NewRows(r)
        /\ request[r].phase = "insert"
    BY <1>1 DEF CommitReplacement, Write
  <2>2. request[r].user \in 1 .. MaxUsers /\ request[r].since \in Nat
    BY <2>1, LenProperties DEF TypeInv, SlotTyped, Bounded
  <2>3. \A row \in NewRows(r) : row \in OverrideRow /\ row.at = commits + 1
    <3> TAKE row \in NewRows(r)
    <3>1. PICK key \in Keys :
             row = [user |-> request[r].user, key |-> key, allow |-> request[r].input[key] = "allow",
                    since |-> request[r].since, at |-> commits + 1]
      BY DEF NewRows
    <3>2. (request[r].input[key] = "allow") \in BOOLEAN /\ commits + 1 \in Nat
      BY <1>0
    <3> QED
      BY <2>2, <3>1, <3>2 DEF OverrideRow
  <2>4. \A row \in overrides : row \in OverrideRow /\ row.at <= commits + 1
    <3> TAKE row \in overrides
    <3>1. row \in OverrideRow /\ row.at \in Nat /\ row.at <= commits
      BY DEF TypeInv, OverrideRow
    <3> QED
      BY <1>0, <3>1
  <2>5. commits + 1 \in 0 .. MaxReplacements /\ commits <= commits + 1
    BY <1>0, <2>1
  <2>6. \A row \in NewRows(r) : row.at <= commits + 1
    BY <1>0, <2>3
  <2>7. seed' \in Seeds
    BY <2>1 DEF TypeInv
  <2> QED
    BY <2>1, <2>3, <2>4, <2>5, <2>6, <2>7
<1>2. ASSUME UNCHANGED <<overrides, commits>>, seed' \in Seeds
      PROVE  /\ commits' \in 0 .. MaxReplacements /\ commits <= commits'
             /\ seed' \in Seeds
             /\ \A row \in overrides' : row \in OverrideRow /\ row.at <= commits'
  BY <1>0, <1>2 DEF TypeInv
<1>3. ASSUME NEW r, NEW u, NEW x,
             \/ Authenticate(r, u) \/ ReadRolePermissions(r) \/ ReadOverrides(r) \/ RequirePermission(r)
             \/ BeginReplacement(r, u, x) \/ DeleteOverrides(r) \/ Fail(r)
             \/ CreateUser(r, x) \/ UpdateUser(r, u, x) \/ UpdateUserStatus(r, u, x) \/ UNCHANGED vars
      PROVE  UNCHANGED <<overrides, commits, seed>>
  BY <1>3 DEF Authenticate, ReadRolePermissions, ReadOverrides, RequirePermission, BeginReplacement,
              DeleteOverrides, Fail, Goto, Write, CreateUser, UpdateUser, UpdateUserStatus, vars
<1>4. CASE Seed
  <2>1. UNCHANGED <<overrides, commits>>
    BY <1>4 DEF Seed, BeginSeed, DeleteRolePermissions, CreateRolePermissions, UpsertOwner, StopSeed,
                WritePermissions
  <2>2. seed \in Seeds
    BY DEF TypeInv
  <2>3. seed' \in Seeds
    BY <1>0, <1>4, <2>2 DEF Seeds, Seed, BeginSeed, DeleteRolePermissions, CreateRolePermissions,
                            UpsertOwner, StopSeed
  <2> QED
    BY <1>2, <2>1, <2>3
<1> QED
  BY <1>1, <1>2, <1>3, <1>4 DEF Next, Handle, TypeInv

\* Every step keeps the types.
LEMMA TypeStep ==
    Bounded /\ Shaped /\ TypeInv /\ AdmissionInv /\ ReplacementInv /\ [Next]_vars => TypeInv'
<1> SUFFICES ASSUME Bounded, Shaped, TypeInv, AdmissionInv, ReplacementInv, [Next]_vars PROVE TypeInv'
  OBVIOUS
<1>1. users' \in Seq(UserRow) /\ Len(users') <= MaxUsers /\ DOMAIN users \subseteq DOMAIN users'
  BY UsersGrow DEF TypeInv
<1>2. /\ commits' \in 0 .. MaxReplacements /\ commits <= commits' /\ seed' \in Seeds
      /\ \A row \in overrides' : row \in OverrideRow /\ row.at <= commits'
  BY TablesStep
<1>3. commits' \in Nat
  BY <1>2 DEF Bounded
<1>4. \A s \in Slots : SlotTyped(request'[s], users', commits')
  BY <1>1, <1>2, <1>3, SlotsStep
<1> QED
  BY <1>1, <1>2, <1>4 DEF TypeInv

\* The invariant of types, from the beginning on.
LEMMA TypesKept == ASSUME Bounded PROVE Spec => []TypeInv /\ []AdmissionInv
<1>1. Init => TypeInv
  <2> SUFFICES ASSUME Init PROVE TypeInv
    OBVIOUS
  <2>1. [role |-> "OWNER", status |-> "ACTIVE"] \in UserRow
    BY DEF UserRow, Roles, UserStatuses
  <2>2. users \in Seq(UserRow) /\ Len(users) = 1
    BY <2>1 DEF Init
  <2>3. seed \in Seeds
    BY DEF Init, Seeds, Bounded
  <2> QED
    BY <2>2, <2>3, IdleSlot DEF Init, TypeInv, Bounded
<1>2. Spec => []AdmissionInv
  BY AdmissionKept
<1> QED
  BY <1>1, <1>2, ShapedAlways, ReplacementsKept, TypeStep, PTL DEF Spec

(***************************************************************************)
(* Users, permissions, overrides and requests keep their types, for any    *)
(* bounds: in particular a replacement or an admitted request is about a   *)
(* user there is.                                                          *)
(***************************************************************************)
THEOREM TypeCorrect ==
    ASSUME MaxUsers \in Nat \ {0}, MaxReplacements \in Nat, MaxSeeds \in Nat
    PROVE  Spec => []TypeOK
<1>1. Bounded
  BY DEF Bounded
<1>2. TypeInv /\ AdmissionInv => TypeOK
  BY <1>1, TypedParts
<1> QED
  BY <1>1, <1>2, TypesKept, PTL

(***************************************************************************)
(* Who is active.                                                          *)
(***************************************************************************)
\* Everybody who is there stays, with the status there was.
StatusesKept == \A u \in DOMAIN users : u \in DOMAIN users' /\ users'[u].status = users[u].status

\* Where no status changes, somebody active stays so.
LEMMA ActiveStays == StatusesKept /\ SomeoneActive => SomeoneActive'
BY DEF StatusesKept, SomeoneActive

\* Only a change of status makes somebody inactive.
LEMMA StatusesStep ==
    ASSUME users \in Seq(UserRow), [Next]_vars
    PROVE  \/ StatusesKept
           \/ UpsertOwner
           \/ \E r \in Slots, u \in DOMAIN users, status \in UserStatuses : UpdateUserStatus(r, u, status)
<1>0. \A u \in DOMAIN users : users[u] \in UserRow
  BY LenProperties, ElementOfSeq
<1>1. ASSUME NEW r \in Slots, NEW role \in Roles, CreateUser(r, role)
      PROVE  StatusesKept
  BY <1>1, UserAdded DEF CreateUser, Write, StatusesKept
<1>2. ASSUME NEW r \in Slots, NEW u \in DOMAIN users, NEW role \in Roles, UpdateUser(r, u, role)
      PROVE  StatusesKept
  <2> DEFINE row == [users[u] EXCEPT !.role = role]
  <2>1. row \in UserRow /\ row.status = users[u].status
    BY <1>0 DEF UserRow
  <2>2. users' = [users EXCEPT ![u] = row]
    BY <1>2 DEF UpdateUser, Write
  <2> HIDE DEF row
  <2> QED
    BY <2>1, <2>2, UserChanged DEF StatusesKept
<1>3. ASSUME NEW r, NEW u, NEW input,
             \/ Authenticate(r, u) \/ ReadRolePermissions(r) \/ ReadOverrides(r) \/ RequirePermission(r)
             \/ BeginReplacement(r, u, input) \/ DeleteOverrides(r) \/ CommitReplacement(r) \/ Fail(r)
             \/ BeginSeed \/ DeleteRolePermissions \/ CreateRolePermissions \/ StopSeed \/ UNCHANGED vars
      PROVE  StatusesKept
  BY <1>3 DEF Authenticate, ReadRolePermissions, ReadOverrides, RequirePermission, BeginReplacement,
              DeleteOverrides, CommitReplacement, Fail, Goto, Write, BeginSeed, DeleteRolePermissions,
              CreateRolePermissions, WritePermissions, StopSeed, vars, StatusesKept
<1> QED
  BY <1>1, <1>2, <1>3 DEF Next, Handle, Seed

\* The seed makes the owner active, if anybody.
LEMMA OwnerActive ==
    ASSUME users \in Seq(UserRow), UpsertOwner, SomeoneActive
    PROVE  SomeoneActive'
<1> DEFINE row == [role |-> "OWNER", status |-> "ACTIVE"]
<1>1. row \in UserRow /\ row.status = "ACTIVE"
  BY DEF UserRow, Roles, UserStatuses
<1>2. users' = [users EXCEPT ![1] = row]
  BY DEF UpsertOwner
<1> HIDE DEF row
<1> QED
  BY <1>1, <1>2, UserChanged DEF SomeoneActive

\* An actor who is active stays so.
LEMMA ActorActive ==
    ASSUME TypeInv, NEW r \in Slots, NEW u \in DOMAIN users, NEW status \in UserStatuses,
           UpdateUserStatus(r, u, status), users[request[r].actor].status = "ACTIVE"
    PROVE  SomeoneActive'
<1> DEFINE actor == request[r].actor
           row   == [users[u] EXCEPT !.status = status]
<1>1. users[u] \in UserRow
  BY LenProperties, ElementOfSeq DEF TypeInv
<1>2. row \in UserRow /\ row.status = status
  BY <1>1 DEF UserRow
<1>3. users' = [users EXCEPT ![u] = row] /\ (u = actor => status = "ACTIVE")
  BY DEF UpdateUserStatus, Write, NotOwnAccount
<1>4. actor \in DOMAIN users
  BY DEF UpdateUserStatus, TypeInv, SlotTyped
<1> HIDE DEF row, actor
<1>5. actor \in DOMAIN users' /\ users'[actor].status = "ACTIVE"
  BY <1>2, <1>3, <1>4, UserChanged DEF TypeInv, actor
<1> QED
  BY <1>5 DEF SomeoneActive

\* After an update the slot is idle.
LEMMA UpdateAnswered ==
    ASSUME Shaped, NEW r \in Slots, NEW u, NEW status, UpdateUserStatus(r, u, status)
    PROVE  request[r].phase = "admitted" /\ request'[r] = Idle
<1>1. \E us : Write(r, Idle, us, overrides) /\ request[r].phase = "admitted"
  BY DEF UpdateUserStatus
<1>2. PICK us : Write(r, Idle, us, overrides)
  BY <1>1
<1> DEFINE w == Watching(us, rolePermissions, overrides)
<1>3. w = [s \in Slots |-> w[s]] /\ request' = [w EXCEPT ![r] = Idle]
  BY <1>2 DEF Watching, Write
<1> HIDE DEF w
<1> QED
  BY <1>1, <1>3

(***************************************************************************)
(* The last active user is deactivated only by a request whose actor was   *)
(* deactivated after it had been let in: for any number of users, requests *)
(* and runs of the seed.                                                   *)
(***************************************************************************)
THEOREM LastOnlyOvertaken ==
    ASSUME MaxUsers \in Nat \ {0}, MaxReplacements \in Nat, MaxSeeds \in Nat
    PROVE  Spec => LastActiveOvertaken
<1>1. Bounded
  BY DEF Bounded
<1>2. Shaped /\ TypeInv /\ [Next]_vars => ByOvertaken
  <2> SUFFICES ASSUME Shaped, TypeInv, [Next]_vars, SomeoneActive, ~SomeoneActive'
               PROVE  \E r \in Slots : /\ request[r].phase = "admitted"
                                       /\ request'[r] = Idle
                                       /\ users[request[r].actor].status # "ACTIVE"
    BY DEF ByOvertaken
  <2>1. users \in Seq(UserRow)
    BY DEF TypeInv
  <2>2. PICK r \in Slots, u \in DOMAIN users, status \in UserStatuses : UpdateUserStatus(r, u, status)
    BY <2>1, StatusesStep, ActiveStays, OwnerActive
  <2> QED
    BY <2>2, ActorActive, UpdateAnswered
<1> QED
  BY <1>1, <1>2, TypesKept, ShapedAlways, PTL DEF Spec, LastActiveOvertaken
=============================================================================
