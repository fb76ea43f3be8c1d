---------------------------- MODULE AuthSessions ----------------------------
(***************************************************************************)
(* Refresh sessions: login, rotateRefreshToken, logout and the session     *)
(* revocation of updateUserStatus.  A request is one step per database     *)
(* statement or, for the SERIALIZABLE rotation, a step for its snapshot    *)
(* and one for its end: the rotation is not retried, and fails when the    *)
(* row it updates was changed since the snapshot.                          *)
(*                                                                         *)
(* Session n has refresh token n, so that holding a token and naming a     *)
(* session are the same; a client may present any token ever issued.       *)
(* Wrong passwords and unknown tokens are refused without effect.          *)
(***************************************************************************)
EXTENDS Naturals, Sequences

CONSTANTS
    Slots,          \* requests the server handles at once
    Users,
    MaxSessions     \* bound on the number of rows

ASSUME ConstantsAssumption == MaxSessions \in Nat

VARIABLES status, sessions, request

vars == <<status, sessions, request>>

-----------------------------------------------------------------------------
UserStatuses == {"ACTIVE", "INACTIVE", "LOCKED"}

Tokens == 1 .. MaxSessions

\* familyId is the session the login made; replacedByTokenHash is 0 for null.
Session == [user : Users, family : Tokens, revoked : BOOLEAN, expired : BOOLEAN,
            replacedBy : 0 .. MaxSessions]

Requests ==
    [phase : {"idle"}]
    \cup [phase : {"verifyPassword"}, user : Users]
    \cup [phase : {"rotate"}, token : Tokens, current : Session, active : BOOLEAN]
    \cup [phase : {"revoke"}, targets : SUBSET Tokens]
    \cup [phase : {"revokeAll"}, user : Users]

TypeOK ==
    /\ status \in [Users -> UserStatuses]
    /\ sessions \in Seq(Session) /\ Len(sessions) <= MaxSessions
    /\ request \in [Slots -> Requests]

Idle == [phase |-> "idle"]

Authenticates(s) ==
    ~sessions[s].revoked /\ ~sessions[s].expired /\ status[sessions[s].user] = "ACTIVE"

Revoked(targets) ==
    [s \in DOMAIN sessions |->
        IF s \in targets THEN [sessions[s] EXCEPT !.revoked = TRUE] ELSE sessions[s]]

Answer(r) == request' = [request EXCEPT ![r] = Idle]

-----------------------------------------------------------------------------
Init ==
    /\ status = [u \in Users |-> "ACTIVE"]
    /\ sessions = <<>>
    /\ request = [r \in Slots |-> Idle]

BeginLogin(r, u) ==
    /\ request[r].phase = "idle"
    /\ status[u] = "ACTIVE"
    /\ request' = [request EXCEPT ![r] = [phase |-> "verifyPassword", user |-> u]]
    /\ UNCHANGED <<status, sessions>>

\* The password hash is compared between the two statements.
FinishLogin(r) ==
    /\ request[r].phase = "verifyPassword"
    /\ Len(sessions) < MaxSessions
    /\ sessions' = Append(sessions, [user |-> request[r].user, family |-> Len(sessions) + 1,
                                     revoked |-> FALSE, expired |-> FALSE, replacedBy |-> 0])
    /\ Answer(r)
    /\ UNCHANGED status

-----------------------------------------------------------------------------
BeginRotation(r, token) ==
    /\ request[r].phase = "idle"
    /\ request' = [request EXCEPT ![r] =
                      [phase |-> "rotate", token |-> token, current |-> sessions[token],
                       active |-> status[sessions[token].user] = "ACTIVE"]]
    /\ UNCHANGED <<status, sessions>>

\* A revoked token is presented: the transaction revokes its family and then
\* throws, which rolls the revocation back.
DetectReuse(r) ==
    /\ request[r].phase = "rotate"
    /\ request[r].current.revoked
    /\ Answer(r)
    /\ UNCHANGED <<status, sessions>>

\* The same for an expired session or an inactive user.
RefuseRotation(r) ==
    /\ request[r].phase = "rotate"
    /\ ~request[r].current.revoked
    /\ request[r].current.expired \/ ~request[r].active
    /\ Answer(r)
    /\ UNCHANGED <<status, sessions>>

ReadCommitted(r) == TRUE  \* mutant: the default isolation level

\* First updater wins: the row is as in the snapshot, or the update fails.
Unchanged(r) ==
    sessions[request[r].token] = [request[r].current EXCEPT
                                     !.expired = sessions[request[r].token].expired]

NoFamily(current, next) == 0  \* mutant: familyId is not set

FamilyOf(current, next) == current.family

OldKept(current, next) ==  \* mutant: revokedAt is not set
    [current EXCEPT !.replacedBy = next]

Replaced(current, next) == [current EXCEPT !.revoked = TRUE, !.replacedBy = next]

Rotate(r) ==
    LET current == request[r].current
        token   == request[r].token
        next    == Len(sessions) + 1
    IN
    /\ request[r].phase = "rotate"
    /\ ~current.revoked /\ ~current.expired /\ request[r].active
    /\ Unchanged(r)
    /\ next <= MaxSessions
    /\ sessions' = Append([sessions EXCEPT ![token] = Replaced(@, next)],
                          [user |-> current.user, family |-> FamilyOf(current, next),
                           revoked |-> FALSE, expired |-> FALSE, replacedBy |-> 0])
    /\ Answer(r)
    /\ UNCHANGED status

-----------------------------------------------------------------------------
\* logout revokes the session of the access token and the refresh token sent
\* along, in two parallel statements.
BeginLogout(r, session, token) ==
    /\ request[r].phase = "idle"
    /\ Authenticates(session)
    /\ request' = [request EXCEPT ![r] = [phase |-> "revoke", targets |-> {session, token}]]
    /\ UNCHANGED <<status, sessions>>

\* The statement that sets the status; revoking the sessions is another one,
\* whose own snapshot sees no session that is created while it runs.
UpdateUserStatus(r, u, new) ==
    /\ request[r].phase = "idle"
    /\ status' = [status EXCEPT ![u] = new]
    /\ request' = [request EXCEPT ![r] = IF new = "ACTIVE" THEN Idle
                                         ELSE [phase |-> "revokeAll", user |-> u]]
    /\ UNCHANGED sessions

BeginRevocation(r) ==
    /\ request[r].phase = "revokeAll"
    /\ request' = [request EXCEPT ![r] =
                      [phase |-> "revoke",
                       targets |-> {s \in DOMAIN sessions :
                                       sessions[s].user = request[r].user /\ ~sessions[s].revoked}]]
    /\ UNCHANGED <<status, sessions>>

\* One row at a time; the request is answered after the last.
RevokeOne(r, s) ==
    LET rest == request[r].targets \ {s} IN
    /\ request[r].phase = "revoke" /\ s \in request[r].targets
    /\ sessions' = Revoked({s})
    /\ request' = [request EXCEPT ![r] = IF rest = {} THEN Idle
                                         ELSE [phase |-> "revoke", targets |-> rest]]
    /\ UNCHANGED status

\* A conflict, a timeout or a crash ends the request where it is; there is
\* nothing to revoke when no session of the user is live.
Fail(r) ==
    /\ request[r].phase # "idle"
    /\ Answer(r)
    /\ UNCHANGED <<status, sessions>>

Expire(s) ==
    /\ ~sessions[s].expired
    /\ sessions' = [sessions EXCEPT ![s].expired = TRUE]
    /\ UNCHANGED <<status, request>>

Next ==
    \/ \E r \in Slots :
          \/ \E u \in Users : BeginLogin(r, u) \/ \E new \in UserStatuses : UpdateUserStatus(r, u, new)
          \/ \E token \in DOMAIN sessions :
                \/ BeginRotation(r, token) \/ RevokeOne(r, token)
                \/ \E session \in DOMAIN sessions : BeginLogout(r, session, token)
          \/ FinishLogin(r) \/ DetectReuse(r) \/ RefuseRotation(r) \/ Rotate(r)
          \/ BeginRevocation(r) \/ Fail(r)
    \/ \E s \in DOMAIN sessions : Expire(s)

Spec == Init /\ [][Next]_vars

-----------------------------------------------------------------------------
Family(f) == {s \in DOMAIN sessions : sessions[s].family = f}

Live(f) == {s \in Family(f) : ~sessions[s].revoked}

\* The sessions of a family are one chain of replacements from the login on:
\* however many clients present the same token at once, one of them gets the
\* successor, and at most the last token of the chain is live.
FamilyIsChain ==
    \A s \in DOMAIN sessions :
        LET f == sessions[s].family IN
        /\ f \in Family(f) /\ sessions[s].user = sessions[f].user
        /\ s \in Live(f) => Live(f) = {s}
        /\ sessions[s].replacedBy # 0 =>
              sessions[s].revoked /\ sessions[s].replacedBy \in Family(f)
        /\ s # f => \E p \in Family(f) : {q \in Family(f) : sessions[q].replacedBy = s} = {p}

\* A family without a live session, after a logout or a status change, never gets
\* one again, not even through a rotation that was under way.  A family is not
\* signed out by a logout that comes after the rotation of the token it names: the
\* successor stays live.
SignedOutStaysOut ==
    [][\A f \in DOMAIN sessions : Family(f) # {} /\ Live(f) = {} => Live(f)' = {}]_vars

\* When a client is told that its token was reused and the session family was
\* revoked, no session of that family is live.
ReuseRevokesFamily ==
    [][\A r \in Slots, f \in DOMAIN sessions :
          DetectReuse(r) /\ f = request[r].current.family => Live(f)' = {}]_vars
=============================================================================
