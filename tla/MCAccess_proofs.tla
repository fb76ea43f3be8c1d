-------------------------- MODULE MCAccess_proofs --------------------------
(***************************************************************************)
(* Proofs about AuthSessions, for any number of users, sessions and        *)
(* concurrent requests: types, the chain that a session family is, and     *)
(* that a family that was signed out stays signed out.  Then that these    *)
(* and the theorems about Users hold of MCAccess, where requests to the    *)
(* user endpoints run beside those about sessions.                         *)
(***************************************************************************)
EXTENDS MCAccess, SequenceTheorems, TLAPS

(***************************************************************************)
(* Type correctness.                                                       *)
(***************************************************************************)
\* Rotations refer to rows that exist, which TypeOK does not say.
RotationsRefer ==
    \A r \in Slots : request[r].phase = "rotate" => request[r].token \in DOMAIN sessions

TypeInv == TypeOK /\ RotationsRefer

\* What the type invariant says of the table and of a rotation.
LEMMA TypedFacts ==
    ASSUME TypeInv
    PROVE  /\ Len(sessions) \in Nat /\ Len(sessions) <= MaxSessions
           /\ DOMAIN sessions = 1 .. Len(sessions) /\ DOMAIN sessions \subseteq Tokens
           /\ \A s \in DOMAIN sessions : sessions[s] \in Session
           /\ \A r \in Slots : request[r].phase = "rotate" =>
                 /\ request[r].token \in DOMAIN sessions
                 /\ request[r].current \in Session
<1>1. /\ Len(sessions) \in Nat /\ Len(sessions) <= MaxSessions
      /\ DOMAIN sessions = 1 .. Len(sessions)
      /\ \A s \in DOMAIN sessions : sessions[s] \in Session
  BY LenProperties, ElementOfSeq DEF TypeInv, TypeOK
<1>2. DOMAIN sessions \subseteq Tokens
  BY <1>1, ConstantsAssumption DEF Tokens
<1>3. \A r \in Slots : request[r].phase = "rotate" => request[r].current \in Session
  <2> SUFFICES ASSUME NEW r \in Slots, request[r].phase = "rotate"
               PROVE  request[r].current \in Session
    OBVIOUS
  <2>1. request[r] \in Requests
    BY DEF TypeInv, TypeOK
  <2>2. request[r] \in [phase : {"rotate"}, token : Tokens, current : Session, active : BOOLEAN]
    BY <2>1 DEF Requests
  <2> QED
    BY <2>2
<1> QED
  BY <1>1, <1>2, <1>3 DEF TypeInv, RotationsRefer

\* A step that appends or changes rows keeps the table's type.
LEMMA TableTyped ==
    ASSUME TypeInv, NEW rows, NEW n \in Nat, n <= MaxSessions,
           rows = [s \in 1 .. n |-> rows[s]], \A s \in 1 .. n : rows[s] \in Session
    PROVE  rows \in Seq(Session) /\ Len(rows) = n
<1>1. rows \in [1 .. n -> Session]
  OBVIOUS
<1>2. rows \in Seq(Session)
  BY <1>1, SeqDef
<1> QED
  BY <1>1, <1>2, LenProperties

\* Every step keeps the types.
LEMMA TypeStep == TypeInv /\ [Next]_vars => TypeInv'
<1> SUFFICES ASSUME TypeInv, [Next]_vars PROVE TypeInv'
  OBVIOUS
<1>0. /\ status \in [Users -> UserStatuses] /\ request \in [Slots -> Requests]
      /\ sessions \in Seq(Session)
  BY DEF TypeInv, TypeOK
<1>1. ASSUME NEW r \in Slots, NEW next \in Requests, request' = [request EXCEPT ![r] = next],
             UNCHANGED sessions, status' \in [Users -> UserStatuses],
             next.phase = "rotate" => next.token \in DOMAIN sessions
      PROVE  TypeInv'
  BY <1>0, <1>1 DEF TypeInv, TypeOK, RotationsRefer
<1>2. Idle \in Requests /\ Idle.phase = "idle"
  BY DEF Idle, Requests
<1>3. ASSUME NEW r \in Slots, NEW u \in Users, BeginLogin(r, u)
      PROVE  TypeInv'
  <2>1. [phase |-> "verifyPassword", user |-> u] \in Requests
    BY DEF Requests
  <2> QED
    BY <1>0, <1>1, <1>3, <2>1 DEF BeginLogin
<1>4. ASSUME NEW r \in Slots, NEW u \in Users, NEW new \in UserStatuses, UpdateUserStatus(r, u, new)
      PROVE  TypeInv'
  <2>1. [phase |-> "revokeAll", user |-> u] \in Requests
    BY DEF Requests
  <2> QED
    BY <1>0, <1>1, <1>2, <1>4, <2>1 DEF UpdateUserStatus
<1>5. ASSUME NEW r \in Slots, NEW token \in DOMAIN sessions, BeginRotation(r, token)
      PROVE  TypeInv'
  <2> DEFINE next == [phase |-> "rotate", token |-> token, current |-> sessions[token],
                      active |-> status[sessions[token].user] = "ACTIVE"]
  <2>1. next \in Requests
    BY TypedFacts DEF Requests
  <2> QED
    BY <1>0, <1>1, <1>5, <2>1 DEF BeginRotation
<1>6. ASSUME NEW r \in Slots, DetectReuse(r) \/ RefuseRotation(r) \/ Fail(r)
      PROVE  TypeInv'
  BY <1>0, <1>1, <1>2, <1>6 DEF DetectReuse, RefuseRotation, Fail, Answer
<1>7. ASSUME NEW r \in Slots, NEW session \in DOMAIN sessions, NEW token \in DOMAIN sessions,
             BeginLogout(r, session, token)
      PROVE  TypeInv'
  <2>1. [phase |-> "revoke", targets |-> {session, token}] \in Requests
    BY TypedFacts DEF Requests
  <2> QED
    BY <1>0, <1>1, <1>7, <2>1 DEF BeginLogout
<1>8. ASSUME NEW r \in Slots, BeginRevocation(r)
      PROVE  TypeInv'
  <2> DEFINE targets == {s \in DOMAIN sessions :
                            sessions[s].user = request[r].user /\ ~sessions[s].revoked}
  <2>1. [phase |-> "revoke", targets |-> targets] \in Requests
    BY TypedFacts DEF Requests
  <2> QED
    BY <1>0, <1>1, <1>8, <2>1 DEF BeginRevocation
<1>9. ASSUME NEW rows \in Seq(Session), Len(rows) <= MaxSessions, Len(sessions) <= Len(rows),
             sessions' = rows, UNCHANGED status,
             \/ UNCHANGED request
             \/ \E r \in Slots : request' = [request EXCEPT ![r] = Idle]
             \/ \E r \in Slots, targets \in SUBSET Tokens :
                   request' = [request EXCEPT ![r] = [phase |-> "revoke", targets |-> targets]]
      PROVE  TypeInv'
  <2>1. sessions' \in Seq(Session) /\ Len(sessions') <= MaxSessions
    BY <1>9
  <2>2. DOMAIN sessions \subseteq DOMAIN sessions'
    BY <1>9, <2>1, TypedFacts, LenProperties
  <2>3. \A targets \in SUBSET Tokens : [phase |-> "revoke", targets |-> targets] \in Requests
    BY DEF Requests
  <2>4. request' \in [Slots -> Requests]
    BY <1>0, <1>2, <1>9, <2>3
  <2>5. RotationsRefer'
    <3> SUFFICES ASSUME NEW s \in Slots, request'[s].phase = "rotate"
                 PROVE  request'[s].token \in DOMAIN sessions'
      BY DEF RotationsRefer
    <3>1. request'[s] = request[s]
      BY <1>0, <1>2, <1>9
    <3> QED
      BY <2>2, <3>1 DEF TypeInv, RotationsRefer
  <2> QED
    BY <1>0, <1>9, <2>1, <2>4, <2>5 DEF TypeInv, TypeOK
<1>10. ASSUME NEW r \in Slots, FinishLogin(r)
       PROVE  TypeInv'
  <2> DEFINE n    == Len(sessions) + 1
             new  == [user |-> request[r].user, family |-> n, revoked |-> FALSE,
                      expired |-> FALSE, replacedBy |-> 0]
             rows == Append(sessions, new)
  <2>1. n \in Nat /\ n <= MaxSessions /\ Len(sessions) <= n
    BY <1>10, TypedFacts, ConstantsAssumption DEF FinishLogin
  <2>2. request[r] \in [phase : {"verifyPassword"}, user : Users]
    BY <1>0, <1>10 DEF FinishLogin, Requests
  <2>3. new \in Session
    BY <2>1, <2>2, ConstantsAssumption DEF Session, Tokens
  <2> HIDE DEF new
  <2>4. rows \in Seq(Session) /\ Len(rows) = n
    BY <1>0, <2>3, AppendProperties
  <2>5. sessions' = rows /\ request' = [request EXCEPT ![r] = Idle] /\ UNCHANGED status
    BY <1>10 DEF FinishLogin, Answer, new
  <2> HIDE DEF rows, n
  <2> QED
    BY <1>9, <2>1, <2>4, <2>5
<1>11. ASSUME NEW r \in Slots, Rotate(r)
       PROVE  TypeInv'
  <2> DEFINE current == request[r].current
             token   == request[r].token
             n       == Len(sessions) + 1
             new     == [user |-> current.user, family |-> FamilyOf(current, n),
                         revoked |-> FALSE, expired |-> FALSE, replacedBy |-> 0]
             old     == [sessions EXCEPT ![token] = Replaced(@, n)]
             rows    == Append(old, new)
  <2>1. n \in Nat /\ n <= MaxSessions /\ Len(sessions) <= n
    BY <1>11, TypedFacts, ConstantsAssumption DEF Rotate
  <2>2. current \in Session /\ token \in DOMAIN sessions
    BY <1>11, TypedFacts DEF Rotate
  <2>3. new \in Session
    BY <2>2, ConstantsAssumption DEF Session, FamilyOf
  <2>4. sessions[token] \in Session /\ token \in 1 .. Len(sessions)
    BY <2>2, TypedFacts
  <2>5. Replaced(sessions[token], n) \in Session
    <3>1. n \in 0 .. MaxSessions
      BY <2>1, ConstantsAssumption
    <3>2. ASSUME NEW row \in Session, NEW k \in 0 .. MaxSessions
          PROVE  [row EXCEPT !.revoked = TRUE, !.replacedBy = k] \in Session
      BY DEF Session
    <3> QED
      BY <2>4, <3>1, <3>2 DEF Replaced
  <2>6. old \in Seq(Session) /\ Len(old) = Len(sessions)
    BY <1>0, <2>4, <2>5, ExceptSeq
  <2> HIDE DEF new, old
  <2>7. rows \in Seq(Session) /\ Len(rows) = n
    BY <2>3, <2>6, AppendProperties
  <2>8. sessions' = rows /\ request' = [request EXCEPT ![r] = Idle] /\ UNCHANGED status
    BY <1>11 DEF Rotate, Answer, new, old
  <2> HIDE DEF rows, n
  <2> QED
    BY <1>9, <2>1, <2>7, <2>8
<1>12. ASSUME NEW r \in Slots, NEW s \in DOMAIN sessions, RevokeOne(r, s)
       PROVE  TypeInv'
  <2> DEFINE rows == Revoked({s})
  <2>1. rows = [t \in 1 .. Len(sessions) |-> rows[t]]
    BY TypedFacts DEF Revoked
  <2>2. \A t \in 1 .. Len(sessions) : rows[t] \in Session
    BY TypedFacts DEF Revoked, Session
  <2>3. request[r] \in [phase : {"revoke"}, targets : SUBSET Tokens]
    BY <1>0, <1>12 DEF RevokeOne, Requests
  <2> DEFINE rest == request[r].targets \ {s}
  <2>5. rest \in SUBSET Tokens
    BY <2>3
  <2>6. sessions' = rows /\ UNCHANGED status
    BY <1>12 DEF RevokeOne
  <2>7. \/ request' = [request EXCEPT ![r] = Idle]
        \/ request' = [request EXCEPT ![r] = [phase |-> "revoke", targets |-> rest]]
    BY <1>12 DEF RevokeOne
  <2> HIDE DEF rows
  <2>8. rows \in Seq(Session) /\ Len(rows) = Len(sessions)
    BY <2>1, <2>2, TypedFacts, TableTyped
  <2> QED
    BY <1>9, <2>5, <2>6, <2>7, <2>8, TypedFacts
<1>13. ASSUME NEW s \in DOMAIN sessions, Expire(s)
       PROVE  TypeInv'
  <2> DEFINE rows == [sessions EXCEPT ![s].expired = TRUE]
  <2>1. rows = [t \in 1 .. Len(sessions) |-> rows[t]]
    BY <1>0, LenProperties
  <2>2. \A t \in 1 .. Len(sessions) : rows[t] \in Session
    BY TypedFacts DEF Session
  <2>3. sessions' = rows /\ UNCHANGED <<status, request>>
    BY <1>13 DEF Expire
  <2> HIDE DEF rows
  <2>4. rows \in Seq(Session) /\ Len(rows) = Len(sessions)
    BY <2>1, <2>2, TypedFacts, TableTyped
  <2> QED
    BY <1>9, <2>3, <2>4, TypedFacts
<1>14. CASE UNCHANGED vars
  BY <1>14 DEF vars, TypeInv, TypeOK, RotationsRefer
<1> QED
  BY <1>3, <1>4, <1>5, <1>6, <1>7, <1>8, <1>10, <1>11, <1>12, <1>13, <1>14 DEF Next

\* The types hold from the beginning on, with what they need to be inductive.
LEMMA TypeInvariance == Spec => []TypeInv
<1>1. Init => TypeInv
  <2> SUFFICES ASSUME Init PROVE TypeInv
    OBVIOUS
  <2>1. sessions \in Seq(Session) /\ Len(sessions) <= MaxSessions
    BY ConstantsAssumption DEF Init
  <2>2. request \in [Slots -> Requests]
    BY DEF Init, Idle, Requests
  <2> QED
    BY <2>1, <2>2 DEF Init, TypeInv, TypeOK, RotationsRefer, UserStatuses, Idle
<1> QED
  BY <1>1, TypeStep, PTL DEF Spec

(***************************************************************************)
(* Users, sessions and requests keep their types.                          *)
(***************************************************************************)
THEOREM TypeCorrect == Spec => []TypeOK
<1>1. TypeInv => TypeOK
  BY DEF TypeInv
<1> QED
  BY <1>1, TypeInvariance, PTL

(***************************************************************************)
(* What a step does to the table of sessions, as the proofs below need it. *)
(***************************************************************************)
\* Only flags are set: a revocation, an expiry, or nothing.
Flagged ==
    /\ DOMAIN sessions' = DOMAIN sessions
    /\ \A s \in DOMAIN sessions :
          /\ sessions'[s].user = sessions[s].user
          /\ sessions'[s].family = sessions[s].family
          /\ sessions'[s].replacedBy = sessions[s].replacedBy
          /\ sessions[s].revoked => sessions'[s].revoked

\* A login adds a session that is its own family.
LoggedIn ==
    LET n == Len(sessions) + 1 IN
    /\ DOMAIN sessions' = 1 .. n
    /\ \A s \in DOMAIN sessions : sessions'[s] = sessions[s]
    /\ sessions'[n].family = n /\ ~sessions'[n].revoked /\ sessions'[n].replacedBy = 0

\* A rotation replaces a session that is live when it commits.
RotatedToken(token) ==
    LET n == Len(sessions) + 1 IN
    /\ ~sessions[token].revoked
    /\ DOMAIN sessions' = 1 .. n
    /\ \A s \in DOMAIN sessions \ {token} : sessions'[s] = sessions[s]
    /\ sessions'[token].user = sessions[token].user
    /\ sessions'[token].family = sessions[token].family
    /\ sessions'[token].revoked /\ sessions'[token].replacedBy = n
    /\ sessions'[n].user = sessions[token].user
    /\ sessions'[n].family = sessions[token].family
    /\ ~sessions'[n].revoked /\ sessions'[n].replacedBy = 0

\* Every step is one of the three.
LEMMA StepOfTable ==
    ASSUME TypeInv, [Next]_vars
    PROVE  Flagged \/ LoggedIn \/ \E token \in DOMAIN sessions : RotatedToken(token)
<1>0. sessions \in Seq(Session)
  BY DEF TypeInv, TypeOK
<1>1. CASE UNCHANGED sessions
  BY <1>1 DEF Flagged
<1>2. ASSUME NEW r \in Slots, NEW s \in DOMAIN sessions, RevokeOne(r, s)
      PROVE  Flagged
  <2>1. sessions' = Revoked({s})
    BY <1>2 DEF RevokeOne
  <2> QED
    BY <2>1, TypedFacts DEF Flagged, Revoked, Session
<1>3. ASSUME NEW s \in DOMAIN sessions, Expire(s)
      PROVE  Flagged
  BY <1>3, TypedFacts DEF Flagged, Expire, Session
<1>4. ASSUME NEW r \in Slots, FinishLogin(r)
      PROVE  LoggedIn
  <2> DEFINE n   == Len(sessions) + 1
             new == [user |-> request[r].user, family |-> n, revoked |-> FALSE,
                     expired |-> FALSE, replacedBy |-> 0]
  <2>1. sessions' = Append(sessions, new)
    BY <1>4 DEF FinishLogin
  <2>2. /\ DOMAIN sessions' = 1 .. n /\ sessions'[n] = new
        /\ \A s \in DOMAIN sessions : sessions'[s] = sessions[s]
    BY <1>0, <2>1, TypedFacts
  <2> QED
    BY <2>2 DEF LoggedIn
<1>5. ASSUME NEW r \in Slots, Rotate(r)
      PROVE  \E token \in DOMAIN sessions : RotatedToken(token)
  <2> DEFINE current == request[r].current
             token   == request[r].token
             n       == Len(sessions) + 1
             new     == [user |-> current.user, family |-> FamilyOf(current, n),
                         revoked |-> FALSE, expired |-> FALSE, replacedBy |-> 0]
             old     == [sessions EXCEPT ![token] = Replaced(@, n)]
  <2>1. current \in Session /\ token \in DOMAIN sessions /\ sessions[token] \in Session
    BY <1>5, TypedFacts DEF Rotate
  <2>2. /\ sessions[token].user = current.user /\ sessions[token].family = current.family
        /\ sessions[token].revoked = current.revoked /\ ~current.revoked
    BY <1>5, <2>1 DEF Rotate, Unchanged, Session
  <2>3. sessions' = Append(old, new)
    BY <1>5 DEF Rotate
  <2>4. /\ DOMAIN sessions' = 1 .. n /\ sessions'[n] = new
        /\ \A s \in DOMAIN sessions : sessions'[s] = old[s]
    BY <1>0, <2>3, TypedFacts
  <2>5. /\ sessions'[token] = Replaced(sessions[token], n)
        /\ \A s \in DOMAIN sessions \ {token} : sessions'[s] = sessions[s]
    BY <2>1, <2>4
  <2>6. /\ sessions'[token].user = sessions[token].user
        /\ sessions'[token].family = sessions[token].family
        /\ sessions'[token].revoked /\ sessions'[token].replacedBy = n
    BY <2>1, <2>5 DEF Replaced, Session
  <2>7. /\ sessions'[n].user = sessions[token].user
        /\ sessions'[n].family = sessions[token].family
        /\ ~sessions'[n].revoked /\ sessions'[n].replacedBy = 0
    BY <2>2, <2>4 DEF FamilyOf
  <2> QED
    BY <2>1, <2>2, <2>4, <2>5, <2>6, <2>7 DEF RotatedToken
<1> QED
  BY <1>1, <1>2, <1>3, <1>4, <1>5 DEF Next, vars, BeginLogin, UpdateUserStatus, BeginRotation,
     BeginLogout, DetectReuse, RefuseRotation, BeginRevocation, Fail

(***************************************************************************)
(* A family without a live session never has one again.                    *)
(***************************************************************************)
THEOREM SignedOutIsFinal == Spec => SignedOutStaysOut
<1>1. TypeInv /\ [Next]_vars =>
         \A f \in DOMAIN sessions : Family(f) # {} /\ Live(f) = {} => Live(f)' = {}
  <2> SUFFICES ASSUME TypeInv, [Next]_vars, NEW f \in DOMAIN sessions, Live(f) = {},
                      NEW s \in Live(f)'
               PROVE  FALSE
    OBVIOUS
  <2>1. s \in DOMAIN sessions' /\ sessions'[s].family = f /\ ~sessions'[s].revoked
    BY DEF Live, Family
  <2>2. \A t \in DOMAIN sessions : sessions[t].family = f => sessions[t].revoked
    BY DEF Live, Family
  <2>3. CASE Flagged
    BY <2>1, <2>2, <2>3 DEF Flagged
  <2>4. CASE LoggedIn
    BY <2>1, <2>2, <2>4, TypedFacts DEF LoggedIn
  <2>5. ASSUME NEW token \in DOMAIN sessions, RotatedToken(token)
        PROVE  FALSE
    BY <2>1, <2>2, <2>5, TypedFacts DEF RotatedToken
  <2> QED
    BY <2>3, <2>4, <2>5, StepOfTable
<1> QED
  BY <1>1, TypeInvariance, PTL DEF Spec, SignedOutStaysOut

(***************************************************************************)
(* Session families are chains.                                            *)
(***************************************************************************)
\* FamilyIsChain row by row, in four parts.
Rooted ==
    \A s \in DOMAIN sessions :
        /\ sessions[s].family \in DOMAIN sessions
        /\ sessions[sessions[s].family].family = sessions[s].family
        /\ sessions[s].user = sessions[sessions[s].family].user

OneLive ==
    \A s, t \in DOMAIN sessions :
        ~sessions[s].revoked /\ ~sessions[t].revoked /\ sessions[s].family = sessions[t].family
            => s = t

Forward ==
    \A s \in DOMAIN sessions :
        sessions[s].replacedBy # 0 =>
            /\ sessions[s].revoked /\ sessions[s].replacedBy \in DOMAIN sessions
            /\ sessions[sessions[s].replacedBy].family = sessions[s].family

Replaces(p, s) ==
    p \in DOMAIN sessions /\ sessions[p].family = sessions[s].family /\ sessions[p].replacedBy = s

Backward ==
    \A s \in DOMAIN sessions :
        s # sessions[s].family =>
            \E p \in DOMAIN sessions : Replaces(p, s) /\ \A q : Replaces(q, s) => q = p

Chain == Rooted /\ OneLive /\ Forward /\ Backward

\* The invariant implies the property.
LEMMA ChainIsChain == Chain => FamilyIsChain
<1> SUFFICES ASSUME Chain, NEW s \in DOMAIN sessions
             PROVE  LET f == sessions[s].family IN
                    /\ f \in Family(f) /\ sessions[s].user = sessions[f].user
                    /\ s \in Live(f) => Live(f) = {s}
                    /\ sessions[s].replacedBy # 0 =>
                          sessions[s].revoked /\ sessions[s].replacedBy \in Family(f)
                    /\ s # f => \E p \in Family(f) :
                                   {q \in Family(f) : sessions[q].replacedBy = s} = {p}
  BY DEF FamilyIsChain
<1> DEFINE f == sessions[s].family
<1>1. f \in Family(f) /\ sessions[s].user = sessions[f].user
  BY DEF Chain, Rooted, Family
<1>2. s \in Live(f) => Live(f) = {s}
  BY DEF Chain, OneLive, Family, Live
<1>3. sessions[s].replacedBy # 0 => sessions[s].revoked /\ sessions[s].replacedBy \in Family(f)
  BY DEF Chain, Forward, Family
<1>4. s # f => \E p \in Family(f) : {q \in Family(f) : sessions[q].replacedBy = s} = {p}
  <2> SUFFICES ASSUME s # f
               PROVE  \E p \in Family(f) : {q \in Family(f) : sessions[q].replacedBy = s} = {p}
    OBVIOUS
  <2>1. PICK p \in DOMAIN sessions : Replaces(p, s) /\ \A q : Replaces(q, s) => q = p
    BY DEF Chain, Backward
  <2>2. p \in Family(f) /\ {q \in Family(f) : sessions[q].replacedBy = s} = {p}
    BY <2>1 DEF Replaces, Family
  <2> QED
    BY <2>2
<1> QED
  BY <1>1, <1>2, <1>3, <1>4

\* Setting flags keeps the chains.
LEMMA FlaggedChain ==
    ASSUME Chain, Flagged
    PROVE  Chain'
<1>1. Rooted'
  BY DEF Chain, Rooted, Flagged
<1>2. OneLive'
  BY DEF Chain, OneLive, Flagged
<1>3. Forward'
  BY DEF Chain, Forward, Flagged
<1>4. Backward'
  <2> SUFFICES ASSUME NEW s \in DOMAIN sessions', s # sessions'[s].family
               PROVE  \E p \in DOMAIN sessions' : Replaces(p, s)' /\ \A q : Replaces(q, s)' => q = p
    BY DEF Backward
  <2>1. \A q : Replaces(q, s)' <=> Replaces(q, s)
    BY DEF Flagged, Replaces
  <2> QED
    BY <2>1 DEF Chain, Backward, Flagged
<1> QED
  BY <1>1, <1>2, <1>3, <1>4 DEF Chain

\* A login starts a chain of its own.
LEMMA LoggedInChain ==
    ASSUME TypeInv, Chain, LoggedIn
    PROVE  Chain'
<1> DEFINE n == Len(sessions) + 1
<1>1. /\ n \notin DOMAIN sessions /\ DOMAIN sessions' = DOMAIN sessions \cup {n} /\ n # 0
      /\ 0 \notin DOMAIN sessions
  BY TypedFacts DEF LoggedIn
<1>2. /\ \A s \in DOMAIN sessions : sessions'[s] = sessions[s]
      /\ sessions'[n].family = n /\ ~sessions'[n].revoked /\ sessions'[n].replacedBy = 0
  BY DEF LoggedIn
<1> HIDE DEF n
<1>3. Rooted'
  BY <1>1, <1>2 DEF Chain, Rooted
<1>4. OneLive'
  BY <1>1, <1>2 DEF Chain, Rooted, OneLive
<1>5. Forward'
  BY <1>1, <1>2 DEF Chain, Forward
<1>6. Backward'
  <2> SUFFICES ASSUME NEW s \in DOMAIN sessions', s # sessions'[s].family
               PROVE  \E p \in DOMAIN sessions' : Replaces(p, s)' /\ \A q : Replaces(q, s)' => q = p
    BY DEF Backward
  <2>1. s \in DOMAIN sessions
    BY <1>1, <1>2
  <2>2. \A q : Replaces(q, s)' <=> Replaces(q, s)
    BY <1>1, <1>2, <2>1 DEF Replaces
  <2> QED
    BY <1>1, <1>2, <2>1, <2>2 DEF Chain, Backward
<1> QED
  BY <1>3, <1>4, <1>5, <1>6 DEF Chain

\* A rotation lengthens the chain of the token by one.
LEMMA RotatedChain ==
    ASSUME TypeInv, Chain, NEW token \in DOMAIN sessions, RotatedToken(token)
    PROVE  Chain'
<1> DEFINE n == Len(sessions) + 1
<1>1. /\ n \notin DOMAIN sessions /\ DOMAIN sessions' = DOMAIN sessions \cup {n} /\ n # 0
      /\ 0 \notin DOMAIN sessions
  BY TypedFacts DEF RotatedToken
<1>2. /\ ~sessions[token].revoked
      /\ \A s \in DOMAIN sessions \ {token} : sessions'[s] = sessions[s]
      /\ sessions'[token].user = sessions[token].user
      /\ sessions'[token].family = sessions[token].family
      /\ sessions'[token].revoked /\ sessions'[token].replacedBy = n
      /\ sessions'[n].user = sessions[token].user
      /\ sessions'[n].family = sessions[token].family
      /\ ~sessions'[n].revoked /\ sessions'[n].replacedBy = 0
  BY DEF RotatedToken
<1> HIDE DEF n
<1>3. \A s \in DOMAIN sessions : /\ sessions'[s].user = sessions[s].user
                                /\ sessions'[s].family = sessions[s].family
                                /\ s # token => sessions'[s] = sessions[s]
  BY <1>2
<1>4. sessions[token].replacedBy = 0
  BY <1>2 DEF Chain, Forward
<1>5. Rooted'
  BY <1>1, <1>2, <1>3 DEF Chain, Rooted
<1>6. OneLive'
  BY <1>1, <1>2, <1>3 DEF Chain, OneLive
<1>7. Forward'
  BY <1>1, <1>2, <1>3 DEF Chain, Forward
<1>8. Backward'
  <2> SUFFICES ASSUME NEW s \in DOMAIN sessions', s # sessions'[s].family
               PROVE  \E p \in DOMAIN sessions' : Replaces(p, s)' /\ \A q : Replaces(q, s)' => q = p
    BY DEF Backward
  <2>1. CASE s = n
    <3>1. \A q \in DOMAIN sessions : sessions[q].replacedBy # n
      BY <1>1 DEF Chain, Forward
    <3>2. Replaces(token, s)'
      BY <1>1, <1>2, <2>1 DEF Replaces
    <3>3. \A q : Replaces(q, s)' => q = token
      BY <1>1, <1>2, <1>3, <2>1, <3>1 DEF Replaces
    <3> QED
      BY <1>1, <3>2, <3>3
  <2>2. CASE s \in DOMAIN sessions
    <3>1. \A q : Replaces(q, s)' <=> Replaces(q, s)
      BY <1>1, <1>2, <1>3, <1>4, <2>2 DEF Replaces
    <3>2. s # sessions[s].family
      <4>1. CASE s = token
        BY <1>2, <4>1
      <4>2. CASE s # token
        BY <1>2, <2>2, <4>2
      <4> QED
        BY <4>1, <4>2
    <3>3. PICK p \in DOMAIN sessions : Replaces(p, s) /\ \A q : Replaces(q, s) => q = p
      BY <2>2, <3>2 DEF Chain, Backward
    <3> QED
      BY <1>1, <3>1, <3>3
  <2> QED
    BY <1>1, <2>1, <2>2
<1> QED
  BY <1>5, <1>6, <1>7, <1>8 DEF Chain

(***************************************************************************)
(* However many clients present a token at once, its family stays one      *)
(* chain with at most one live session.                                    *)
(***************************************************************************)
THEOREM FamiliesAreChains == Spec => []FamilyIsChain
<1>1. Init => Chain
  BY DEF Init, Chain, Rooted, OneLive, Forward, Backward
<1>2. TypeInv /\ Chain /\ [Next]_vars => Chain'
  BY StepOfTable, FlaggedChain, LoggedInChain, RotatedChain
<1> QED
  BY <1>1, <1>2, TypeInvariance, ChainIsChain, PTL DEF Spec

(***************************************************************************)
(* Users and permissions, beside the sessions.                             *)
(***************************************************************************)

\* Users again, now with its theorems.
Proved == INSTANCE Users_proofs WITH request <- userRequest

\* The two instances differ in the names of their definitions only.
LEMMA SameInit == Permissions!Init => Proved!Init
BY DEF Permissions!Init, Permissions!Idle, Permissions!SeedPermissions,
   Permissions!Keys, Proved!Init, Proved!Idle, Proved!SeedPermissions,
   Proved!Keys

\* The instance of Users in MCAccess takes the steps of the instance that the
\* theorems are about.
LEMMA SameNext == [Permissions!Next]_(Permissions!vars) => [Proved!Next]_(Proved!vars)
BY DEF Permissions!vars, Proved!vars,
   Permissions!Keys, Permissions!Asked, Permissions!Roles,
   Permissions!UserStatuses, Permissions!SeedPermissions, Permissions!Idle,
   Permissions!RowsOf, Permissions!KeysOf, Permissions!HoldsIn,
   Permissions!Changed, Permissions!Watching, Permissions!Write,
   Permissions!Goto, Permissions!Authenticate, Permissions!ReadRolePermissions,
   Permissions!ReadOverrides, Permissions!EffectivePermissions,
   Permissions!RequirePermission, Permissions!Fail, Permissions!MayGive,
   Permissions!CreateUser, Permissions!UpdateUser, Permissions!NotOwnAccount,
   Permissions!UpdateUserStatus, Permissions!BeginReplacement,
   Permissions!LockedByOthers, Permissions!FoundRows,
   Permissions!DeleteOverrides, Permissions!KeyTaken, Permissions!NewRows,
   Permissions!CommitReplacement, Permissions!WritePermissions,
   Permissions!BeginSeed, Permissions!DeleteRolePermissions,
   Permissions!CreateRolePermissions, Permissions!UpsertOwner,
   Permissions!StopSeed, Permissions!Seed, Permissions!Handle,
   Permissions!Next, Proved!Keys, Proved!Asked, Proved!Roles,
   Proved!UserStatuses, Proved!SeedPermissions, Proved!Idle, Proved!RowsOf,
   Proved!KeysOf, Proved!HoldsIn, Proved!Changed, Proved!Watching,
   Proved!Write, Proved!Goto, Proved!Authenticate, Proved!ReadRolePermissions,
   Proved!ReadOverrides, Proved!EffectivePermissions, Proved!RequirePermission,
   Proved!Fail, Proved!MayGive, Proved!CreateUser, Proved!UpdateUser,
   Proved!NotOwnAccount, Proved!UpdateUserStatus, Proved!BeginReplacement,
   Proved!LockedByOthers, Proved!FoundRows, Proved!DeleteOverrides,
   Proved!KeyTaken, Proved!NewRows, Proved!CommitReplacement,
   Proved!WritePermissions, Proved!BeginSeed, Proved!DeleteRolePermissions,
   Proved!CreateRolePermissions, Proved!UpsertOwner, Proved!StopSeed,
   Proved!Seed, Proved!Handle, Proved!Next

\* A step of the sessions leaves the permissions as they are.
LEMMA PermissionsPart == AccessSpec => Proved!Spec
<1>1. AccessInit => Permissions!Init
  BY DEF AccessInit
<1>2. [AccessNext]_accessVars => [Permissions!Next]_(Permissions!vars)
  BY DEF AccessNext, accessVars, permissionVars, Permissions!vars
<1> QED
  BY <1>1, <1>2, SameInit, SameNext, PTL DEF AccessSpec, Proved!Spec

(***************************************************************************)
(* Whoever is let in held the permission during the check, unless two of   *)
(* the three tables changed meanwhile: for any number of users, requests   *)
(* and runs of the seed.                                                   *)
(***************************************************************************)
THEOREM AccessAdmittedHeld == AccessSpec => []AdmittedHeldPermission
<1>1. Proved!AdmittedHeldPermission => AdmittedHeldPermission
  BY DEF Proved!AdmittedHeldPermission, AdmittedHeldPermission, Permissions!AdmittedHeldPermission
<1>2. Proved!Spec => []Proved!AdmittedHeldPermission
  BY Proved!AdmittedHeld
<1> QED
  BY <1>1, <1>2, PermissionsPart, PTL

(***************************************************************************)
(* Overrides of two replacements are left side by side only when the two   *)
(* overlapped.                                                             *)
(***************************************************************************)
THEOREM AccessMixedOnlyIfConcurrent == AccessSpec => []OverridesOfConcurrent
<1>1. Proved!OverridesOfConcurrent => OverridesOfConcurrent
  BY DEF Proved!OverridesOfConcurrent, OverridesOfConcurrent, Permissions!OverridesOfConcurrent
<1>2. Proved!Spec => []Proved!OverridesOfConcurrent
  BY Proved!MixedOnlyIfConcurrent
<1> QED
  BY <1>1, <1>2, PermissionsPart, PTL

(***************************************************************************)
(* The types of Users, for any bounds.                                     *)
(***************************************************************************)
THEOREM AccessTypeCorrect == AccessSpec => []UsersTypeOK
<1>1. Proved!TypeOK => UsersTypeOK
  BY DEF UsersTypeOK, Proved!TypeOK, Permissions!TypeOK, Proved!UserRow, Permissions!UserRow,
         Proved!Roles, Permissions!Roles, Proved!UserStatuses, Permissions!UserStatuses,
         Proved!Keys, Permissions!Keys, Proved!Asked, Permissions!Asked,
         Proved!OverrideRow, Permissions!OverrideRow, Proved!Tables, Permissions!Tables,
         Proved!Requests, Permissions!Requests, Proved!Seeds, Permissions!Seeds
<1>2. Proved!Spec => []Proved!TypeOK
  BY Proved!TypeCorrect, BoundsAssumption
<1> QED
  BY <1>1, <1>2, PermissionsPart, PTL

(***************************************************************************)
(* Only an overtaken request deactivates the last active user.             *)
(***************************************************************************)
THEOREM AccessLastOnlyOvertaken == AccessSpec => LastActiveOvertaken
<1>1. [Proved!ByOvertaken]_(Proved!vars) => [Permissions!ByOvertaken]_permissionVars
  BY DEF Proved!ByOvertaken, Permissions!ByOvertaken, Proved!SomeoneActive, Permissions!SomeoneActive,
         Proved!Idle, Permissions!Idle, Proved!vars, permissionVars
<1>2. Proved!Spec => Proved!LastActiveOvertaken
  BY Proved!LastOnlyOvertaken, BoundsAssumption
<1> QED
  BY <1>1, <1>2, PermissionsPart, PTL DEF LastActiveOvertaken, Proved!LastActiveOvertaken

\* A step of the permissions leaves the sessions as they are.
LEMMA SessionsPart == AccessSpec => Spec
<1>1. AccessInit => Init
  BY DEF AccessInit
<1>2. [AccessNext]_accessVars => [Next]_vars
  BY DEF AccessNext, accessVars, vars
<1> QED
  BY <1>1, <1>2, PTL DEF AccessSpec, Spec

(***************************************************************************)
(* The sessions keep their types and their chains, and what was signed out *)
(* stays so, while users and permissions change.                           *)
(***************************************************************************)
THEOREM AccessSessions == AccessSpec => []TypeOK /\ []FamilyIsChain /\ SignedOutStaysOut
BY SessionsPart, TypeCorrect, FamiliesAreChains, SignedOutIsFinal, PTL
=============================================================================
