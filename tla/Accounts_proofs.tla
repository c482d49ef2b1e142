-------------------------- MODULE Accounts_proofs --------------------------
(***************************************************************************)
(* What accounts, sessions and one-time codes promise for any number of    *)
(* each.                                                                   *)
(***************************************************************************)
EXTENDS Accounts, TLAPS

\* A code is compared only with guesses that were counted before, and buys a
\* key only in the step that uses it up.
Counted ==
  \A c \in CodeIds :
    /\ otps[c] = NULL => compared[c] = 0 /\ bought[c] = 0
    /\ otps[c] # NULL => compared[c] <= otps[c].attempts
    /\ compared[c] <= MaxAttempts
    /\ bought[c] <= 1
    /\ bought[c] = 1 => otps[c] # NULL /\ otps[c].consumed

\* The inductive invariant, in the parts that different handlers write.
UsersTyped ==
  users \in [Ids -> UserRow \union {NULL}] /\ user_role \in [Ids -> SUBSET Role]
SessionsSound ==
  sessions \in [SessionIds -> SessionRow \union {NULL}] /\ SessionRoleIsHeld
CodesSound ==
  /\ otps \in [CodeIds -> OtpRow \union {NULL}]
  /\ compared \in [CodeIds -> Nat] /\ bought \in [CodeIds -> Nat]
  /\ Counted

IInv == UsersTyped /\ SessionsSound /\ CodesSound

LEMMA NullIsNoRow ==
  /\ NULL \notin UserRow /\ NULL \notin SessionRow /\ NULL \notin OtpRow
  /\ NULL \notin Contacts
  BY AccountsAssumption

LEMMA InitEstablishes == Init => IInv
  BY AccountsAssumption
     DEF Init, IInv, UsersTyped, SessionsSound, CodesSound, SessionRoleIsHeld, Counted, exists

-----------------------------------------------------------------------------
(* Accounts.                                                               *)

LEMMA NewUserTyped ==
  ASSUME NEW type \in UserTypes, NEW contact \in Contacts \union {NULL}, NEW held \in BOOLEAN
  PROVE  newUser(type, contact, held) \in UserRow
  BY AccountsAssumption DEF newUser, UserRow, UserStatus

\* A handler that writes one account and, if it is a new one, its roles.
LEMMA AccountWritten ==
  ASSUME IInv, NEW u \in Ids, NEW row \in UserRow,
         users' = [users EXCEPT ![u] = row],
         user_role' \in [Ids -> SUBSET Role],
         \A v \in Ids : v # u \/ exists(users[u]) => user_role'[v] = user_role[v],
         UNCHANGED sessions
  PROVE  UsersTyped' /\ SessionsSound'
  <1>1. UsersTyped'
    BY DEF IInv, UsersTyped
  <1>2. ASSUME NEW s \in SessionIds, exists(sessions'[s])
        PROVE  /\ exists(users'[sessions'[s].user])
               /\ sessions'[s].active_role \in user_role'[sessions'[s].user]
    <2>1. /\ sessions[s].user \in Ids /\ exists(users[sessions[s].user])
          /\ sessions[s].active_role \in user_role[sessions[s].user]
      BY <1>2 DEF IInv, SessionsSound, SessionRoleIsHeld, SessionRow, exists
    <2> QED
      BY <2>1, NullIsNoRow DEF IInv, UsersTyped, exists
  <1> QED
    BY <1>1, <1>2 DEF IInv, SessionsSound, SessionRoleIsHeld

LEMMA AccountStep ==
  ASSUME IInv, NEW u \in Ids,
         \/ \E type \in UserTypes, contact \in Contacts \union {NULL},
               granted \in grantedSoFar, held \in BOOLEAN :
              Register(u, type, contact, granted, held)
         \/ \E held \in BOOLEAN : RotateKey(u, held)
         \/ Age(u) \/ DeleteMyData(u) \/ Suspend(u) \/ Unsuspend(u)
  PROVE  IInv'
  <1>1. UNCHANGED <<sessions, otps, compared, bought>>
    BY DEF Register, RotateKey, rotateApiKey, Age, DeleteMyData, Suspend, Unsuspend, setStatus
  <1>2. CodesSound'
    BY <1>1 DEF IInv, CodesSound, Counted
  <1>3. ASSUME NEW type \in UserTypes, NEW contact \in Contacts \union {NULL},
               NEW granted \in grantedSoFar, NEW held \in BOOLEAN,
               Register(u, type, contact, granted, held)
        PROVE  UsersTyped' /\ SessionsSound'
    <2>1. granted \in SUBSET Role
      BY DEF grantedSoFar, Role
    <2>2. /\ user_role' \in [Ids -> SUBSET Role]
          /\ \A v \in Ids : v # u \/ exists(users[u]) => user_role'[v] = user_role[v]
      BY <1>3, <2>1 DEF Register, IInv, UsersTyped
    <2> QED
      BY <1>1, <1>3, <2>2, NewUserTyped, AccountWritten DEF Register
  <1>4. ASSUME exists(users[u]), UNCHANGED user_role,
               \E row \in UserRow : users' = [users EXCEPT ![u] = row]
        PROVE  UsersTyped' /\ SessionsSound'
    BY <1>1, <1>4, AccountWritten DEF IInv, UsersTyped
  <1>5. exists(users[u]) => users[u] \in UserRow
    BY DEF IInv, UsersTyped, exists
  <1>6. ASSUME NEW held \in BOOLEAN, RotateKey(u, held) PROVE UsersTyped' /\ SessionsSound'
    <2>1. [users[u] EXCEPT !.held = held] \in UserRow
      BY <1>5, <1>6 DEF RotateKey, rotateApiKey, active, UserRow
    <2>2. exists(users[u]) /\ UNCHANGED user_role
          /\ users' = [users EXCEPT ![u] = [users[u] EXCEPT !.held = held]]
      BY <1>6 DEF RotateKey, rotateApiKey, active, IInv, UsersTyped
    <2> QED
      BY <2>1, <2>2, <1>4
  <1>7. ASSUME Age(u) PROVE UsersTyped' /\ SessionsSound'
    <2>1. [users[u] EXCEPT !.recent = FALSE] \in UserRow
      BY <1>5, <1>7 DEF Age, UserRow
    <2>2. exists(users[u]) /\ UNCHANGED user_role
          /\ users' = [users EXCEPT ![u] = [users[u] EXCEPT !.recent = FALSE]]
      BY <1>7 DEF Age, IInv, UsersTyped
    <2> QED
      BY <2>1, <2>2, <1>4
  <1>8. ASSUME DeleteMyData(u) PROVE UsersTyped' /\ SessionsSound'
    <2> DEFINE row == [users[u] EXCEPT !.status = "deleted", !.contact = NULL,
                                       !.held = FALSE, !.recent = FALSE]
    <2>1. row \in UserRow
      BY <1>5, <1>8 DEF DeleteMyData, active, UserRow, UserStatus
    <2>2. exists(users[u]) /\ UNCHANGED user_role /\ users' = [users EXCEPT ![u] = row]
      BY <1>8 DEF DeleteMyData, active, IInv, UsersTyped
    <2> QED
      BY <2>1, <2>2, <1>4
  <1>9. ASSUME NEW event, setStatus(u, event) PROVE UsersTyped' /\ SessionsSound'
    <2>1. PICK next \in UserStatus : users' = [users EXCEPT ![u].status = next]
      BY <1>9 DEF setStatus
    <2>2. [users[u] EXCEPT !.status = next] \in UserRow
      BY <1>5, <1>9 DEF setStatus, UserRow
    <2>3. exists(users[u]) /\ UNCHANGED user_role
          /\ users' = [users EXCEPT ![u] = [users[u] EXCEPT !.status = next]]
      BY <1>9, <2>1 DEF setStatus, IInv, UsersTyped
    <2> QED
      BY <2>2, <2>3, <1>4
  <1> QED
    BY <1>2, <1>3, <1>6, <1>7, <1>8, <1>9 DEF IInv, Suspend, Unsuspend

-----------------------------------------------------------------------------
(* One-time codes.                                                         *)

\* A handler that writes one code, and counts what it did with it.
LEMMA CodeWritten ==
  ASSUME IInv, NEW c \in CodeIds, NEW row \in OtpRow,
         otps' = [otps EXCEPT ![c] = row],
         NEW guesses \in Nat, NEW keys \in Nat,
         compared' = [compared EXCEPT ![c] = guesses],
         bought' = [bought EXCEPT ![c] = keys],
         guesses <= row.attempts, guesses <= MaxAttempts,
         keys <= 1, keys = 1 => row.consumed
  PROVE  CodesSound'
  <1>1. /\ otps' \in [CodeIds -> OtpRow \union {NULL}]
        /\ compared' \in [CodeIds -> Nat] /\ bought' \in [CodeIds -> Nat]
    BY DEF IInv, CodesSound
  <1>2. /\ otps'[c] = row /\ compared'[c] = guesses /\ bought'[c] = keys
        /\ \A d \in CodeIds \ {c} :
             otps'[d] = otps[d] /\ compared'[d] = compared[d] /\ bought'[d] = bought[d]
    BY DEF IInv, CodesSound
  <1>3. row # NULL
    BY NullIsNoRow
  <1> QED
    BY <1>1, <1>2, <1>3 DEF IInv, CodesSound, Counted

LEMMA RequestStep ==
  ASSUME IInv, NEW c \in CodeIds, NEW email \in Contacts, RequestOtp(c, email)
  PROVE  IInv'
  <1> DEFINE row == [email |-> email, attempts |-> 0, expired |-> FALSE, consumed |-> FALSE]
  <1>1. row \in OtpRow /\ row.attempts = 0 /\ otps' = [otps EXCEPT ![c] = row]
    BY DEF RequestOtp, OtpRow
  <1>2. compared[c] = 0 /\ bought[c] = 0
    BY DEF RequestOtp, IInv, CodesSound, Counted, exists
  <1>3. compared' = [compared EXCEPT ![c] = 0] /\ bought' = [bought EXCEPT ![c] = 0]
    BY <1>2 DEF RequestOtp, IInv, CodesSound
  <1>4. 0 \in Nat /\ 0 <= row.attempts /\ 0 <= MaxAttempts /\ 0 <= 1 /\ 0 # 1
    BY <1>1, AccountsAssumption
  <1> HIDE DEF row
  <1>5. CodesSound'
    BY <1>1, <1>3, <1>4, CodeWritten
  <1> QED
    BY <1>5 DEF RequestOtp, IInv, UsersTyped, SessionsSound, SessionRoleIsHeld

LEMMA CodeStep ==
  ASSUME IInv, NEW c \in CodeIds, ExpireOtp(c) \/ RefuseOtp(c) \/ MistakeOtp(c)
  PROVE  IInv'
  <1>1. otps[c] \in OtpRow
    BY DEF ExpireOtp, RefuseOtp, MistakeOtp, findActive, exists, IInv, CodesSound
  <1>2. /\ compared[c] \in Nat /\ bought[c] \in Nat /\ MaxAttempts \in Nat
        /\ otps[c].attempts \in Nat
        /\ compared[c] <= otps[c].attempts /\ compared[c] <= MaxAttempts
        /\ bought[c] <= 1 /\ (bought[c] = 1 => otps[c].consumed)
    BY <1>1, NullIsNoRow, AccountsAssumption DEF IInv, CodesSound, Counted, OtpRow
  <1>3. UsersTyped' /\ SessionsSound'
    BY DEF ExpireOtp, RefuseOtp, MistakeOtp, IInv, UsersTyped, SessionsSound, SessionRoleIsHeld
  <1>4. CASE ExpireOtp(c)
    <2> DEFINE row == [otps[c] EXCEPT !.expired = TRUE]
    <2>1. /\ row \in OtpRow /\ row.attempts = otps[c].attempts
          /\ row.consumed = otps[c].consumed
      BY <1>1 DEF OtpRow
    <2>2. /\ otps' = [otps EXCEPT ![c] = row]
          /\ compared' = [compared EXCEPT ![c] = compared[c]]
          /\ bought' = [bought EXCEPT ![c] = bought[c]]
      BY <1>4 DEF ExpireOtp, IInv, CodesSound
    <2> HIDE DEF row
    <2> QED
      BY <1>2, <1>3, <2>1, <2>2, CodeWritten DEF IInv
  <1>5. ASSUME RefuseOtp(c) \/ MistakeOtp(c) PROVE IInv'
    <2> DEFINE row == [otps[c] EXCEPT !.attempts = @ + 1]
               guesses == IF RefuseOtp(c) THEN compared[c] ELSE compared[c] + 1
    <2>1. /\ row \in OtpRow /\ row.attempts = otps[c].attempts + 1
          /\ row.consumed = otps[c].consumed
      BY <1>1, <1>2 DEF OtpRow
    <2>2. otps' = [otps EXCEPT ![c] = row] /\ bought' = [bought EXCEPT ![c] = bought[c]]
      BY <1>5 DEF RefuseOtp, MistakeOtp, IInv, CodesSound
    <2>3. compared' = [compared EXCEPT ![c] = guesses]
      BY <1>5 DEF RefuseOtp, MistakeOtp, IInv, CodesSound
    <2>4. guesses \in Nat /\ guesses <= row.attempts /\ guesses <= MaxAttempts
      BY <1>2, <1>5, <2>1 DEF MistakeOtp, attemptsLeft
    <2> HIDE DEF row, guesses
    <2> QED
      BY <1>2, <1>3, <2>1, <2>2, <2>3, <2>4, CodeWritten DEF IInv
  <1> QED
    BY <1>4, <1>5

LEMMA VerifyStep ==
  ASSUME IInv, NEW c \in CodeIds, NEW type \in UserTypes, NEW u \in Ids,
         NEW reached \in {"consumed", "created", "keyed", "answered"},
         VerifyOtp(c, type, u, reached)
  PROVE  IInv'
  <1>1. /\ otps[c] \in OtpRow /\ ~otps[c].consumed
        /\ otps[c].attempts + 1 <= MaxAttempts
    BY DEF VerifyOtp, findActive, attemptsLeft, exists, IInv, CodesSound
  <1>2. /\ compared[c] \in Nat /\ bought[c] \in Nat /\ MaxAttempts \in Nat
        /\ otps[c].attempts \in Nat
        /\ compared[c] <= otps[c].attempts /\ compared[c] <= MaxAttempts
        /\ bought[c] = 0
    BY <1>1, NullIsNoRow, AccountsAssumption DEF IInv, CodesSound, Counted, OtpRow
  <1>3. CodesSound'
    <2> DEFINE row == [otps[c] EXCEPT !.attempts = @ + 1, !.consumed = TRUE]
               keys == IF reached = "answered" THEN 1 ELSE 0
    <2>1. /\ row \in OtpRow /\ row.attempts = otps[c].attempts + 1
          /\ row.consumed = TRUE
      <3>1. otps[c].attempts + 1 \in Nat
        BY <1>2
      <3> QED
        BY <1>1, <3>1 DEF OtpRow
    <2>2. otps' = [otps EXCEPT ![c] = row]
      <3>1. otps' = [otps EXCEPT ![c].attempts = @ + 1, ![c].consumed = TRUE]
        BY DEF VerifyOtp
      <3> QED
        BY <3>1 DEF IInv, CodesSound
    <2>3. compared' = [compared EXCEPT ![c] = compared[c] + 1]
      BY DEF VerifyOtp
    <2>4. bought' = [bought EXCEPT ![c] = keys]
      <3>1. bought' = IF reached = "answered" THEN [bought EXCEPT ![c] = @ + 1] ELSE bought
        BY DEF VerifyOtp
      <3>2. bought = [bought EXCEPT ![c] = 0] /\ bought[c] + 1 = 1
        BY <1>2 DEF IInv, CodesSound
      <3>3. CASE reached = "answered"
        BY <3>1, <3>2, <3>3
      <3>4. CASE reached # "answered"
        BY <3>1, <3>2, <3>4
      <3> QED
        BY <3>3, <3>4
    <2>5. /\ keys \in Nat /\ keys <= 1
          /\ compared[c] + 1 \in Nat /\ compared[c] + 1 <= row.attempts
          /\ compared[c] + 1 <= MaxAttempts
      BY <1>1, <1>2, <2>1
    <2> HIDE DEF row, keys
    <2> QED
      BY <2>1, <2>2, <2>3, <2>4, <2>5, CodeWritten
  <1>4. UsersTyped' /\ SessionsSound'
    <2> DEFINE found == findByEmail(type, otps[c].email)
               row == IF found # {} THEN users[u] ELSE createUser(type, otps[c].email)
    <2>1. otps[c].email \in Contacts
      BY <1>1 DEF OtpRow
    <2>2. row \in UserRow
      <3>1. CASE found # {}
        BY <3>1 DEF VerifyOtp, findByEmail, active, exists, IInv, UsersTyped
      <3>2. CASE found = {}
        BY <2>1, <3>2, NewUserTyped DEF createUser
      <3> QED
        BY <3>1, <3>2
    <2>3. ASSUME NEW held \in BOOLEAN PROVE [row EXCEPT !.held = held] \in UserRow
      BY <2>2 DEF UserRow
    <2>4. /\ user_role' \in [Ids -> SUBSET Role] /\ UNCHANGED <<user_role, sessions>>
      BY DEF VerifyOtp, IInv, UsersTyped
    <2>5. users' = users \/ \E r \in UserRow : users' = [users EXCEPT ![u] = r]
      BY <2>2, <2>3 DEF VerifyOtp
    <2>6. CASE users' = users
      BY <2>4, <2>6 DEF IInv, UsersTyped, SessionsSound, SessionRoleIsHeld
    <2>7. ASSUME NEW r \in UserRow, users' = [users EXCEPT ![u] = r]
          PROVE  UsersTyped' /\ SessionsSound'
      BY <2>4, <2>7, AccountWritten
    <2> QED
      BY <2>5, <2>6, <2>7
  <1> QED
    BY <1>3, <1>4 DEF IInv

-----------------------------------------------------------------------------
(* Sessions.                                                               *)

LEMMA SessionStep ==
  ASSUME IInv, NEW s \in SessionIds,
         \/ \E u \in Ids, role \in Role : Login(s, u, role)
         \/ \E role \in Role : SwitchRole(s, role) \/ Refresh(s, role)
         \/ Logout(s) \/ ExpireSession(s)
  PROVE  IInv'
  <1>1. UNCHANGED <<users, user_role, otps, compared, bought>>
    BY DEF Login, SwitchRole, Refresh, Logout, ExpireSession
  <1>2. UsersTyped' /\ CodesSound'
    BY <1>1 DEF IInv, UsersTyped, CodesSound, Counted
  <1>3. ASSUME NEW row \in SessionRow, sessions' = [sessions EXCEPT ![s] = row],
               exists(users[row.user]), row.active_role \in user_role[row.user]
        PROVE  SessionsSound'
    BY <1>1, <1>3 DEF IInv, SessionsSound, SessionRoleIsHeld, exists
  <1>4. ASSUME NEW u \in Ids, NEW role \in Role, Login(s, u, role) PROVE SessionsSound'
    <2> DEFINE row == [user |-> u, active_role |-> role, expired |-> FALSE, revoked |-> FALSE]
    <2>1. /\ row \in SessionRow /\ row.user = u /\ row.active_role = role
          /\ sessions' = [sessions EXCEPT ![s] = row]
      BY <1>4 DEF Login, SessionRow
    <2>2. exists(users[u]) /\ role \in user_role[u]
      BY <1>4 DEF Login, active
    <2> HIDE DEF row
    <2> QED
      BY <1>3, <2>1, <2>2
  <1>5. exists(sessions[s]) =>
          /\ sessions[s] \in SessionRow /\ exists(users[sessions[s].user])
          /\ sessions[s].active_role \in user_role[sessions[s].user]
    BY DEF IInv, SessionsSound, SessionRoleIsHeld, exists
  <1>6. ASSUME NEW role \in Role, SwitchRole(s, role) \/ Refresh(s, role) PROVE SessionsSound'
    <2>1. PICK expired \in BOOLEAN :
            sessions' = [sessions EXCEPT ![s].active_role = role, ![s].expired = expired]
      <3>1. CASE SwitchRole(s, role)
        <4>1. sessions[s] \in SessionRow
          BY <1>5, <3>1 DEF SwitchRole, live
        <4>2. [sessions[s] EXCEPT !.active_role = role]
                = [sessions[s] EXCEPT !.active_role = role, !.expired = sessions[s].expired]
          BY <4>1 DEF SessionRow
        <4>3. sessions' = [sessions EXCEPT ![s] = [sessions[s] EXCEPT !.active_role = role]]
          BY <3>1 DEF SwitchRole, IInv, SessionsSound
        <4> QED
          BY <4>1, <4>2, <4>3 DEF SessionRow, IInv, SessionsSound
      <3>2. CASE Refresh(s, role)
        BY <3>2 DEF Refresh
      <3> QED
        BY <1>6, <3>1, <3>2
    <2> DEFINE row == [sessions[s] EXCEPT !.active_role = role, !.expired = expired]
    <2>2. sessions[s] \in SessionRow /\ exists(users[sessions[s].user])
          /\ role \in user_role[sessions[s].user]
      BY <1>5, <1>6 DEF SwitchRole, Refresh, live
    <2>3. row \in SessionRow /\ row.user = sessions[s].user /\ row.active_role = role
      BY <2>2 DEF SessionRow
    <2>4. sessions' = [sessions EXCEPT ![s] = row]
      BY <2>1 DEF IInv, SessionsSound
    <2> HIDE DEF row
    <2> QED
      BY <1>3, <2>2, <2>3, <2>4
  <1>7. ASSUME Logout(s) \/ ExpireSession(s) PROVE SessionsSound'
    <2>1. PICK row \in SessionRow :
            /\ sessions' = [sessions EXCEPT ![s] = row]
            /\ row.user = sessions[s].user /\ row.active_role = sessions[s].active_role
      <3>1. sessions[s] \in SessionRow
        BY <1>5, <1>7 DEF Logout, ExpireSession, live
      <3>2. [sessions[s] EXCEPT !.revoked = TRUE] \in SessionRow
            /\ [sessions[s] EXCEPT !.expired = TRUE] \in SessionRow
        BY <3>1 DEF SessionRow
      <3> QED
        BY <1>7, <3>1, <3>2 DEF Logout, ExpireSession, SessionRow
    <2>2. exists(sessions[s])
      BY <1>7 DEF Logout, ExpireSession, live
    <2> QED
      BY <1>3, <1>5, <2>1, <2>2
  <1> QED
    BY <1>2, <1>4, <1>6, <1>7 DEF IInv

-----------------------------------------------------------------------------

LEMMA StepPreserves == IInv /\ [Next]_vars => IInv'
  <1> SUFFICES ASSUME IInv, [Next]_vars PROVE IInv'
    OBVIOUS
  <1>1. CASE UNCHANGED vars
    BY <1>1 DEF vars, IInv, UsersTyped, SessionsSound, CodesSound, SessionRoleIsHeld, Counted
  <1>2. CASE Next
    BY <1>2, AccountStep, RequestStep, CodeStep, VerifyStep, SessionStep DEF Next
  <1> QED
    BY <1>1, <1>2

\* The inductive invariant holds for any sets of accounts, sessions and codes.
THEOREM Invariance == Spec => []IInv
  BY InitEstablishes, StepPreserves, PTL DEF Spec

\* Every table keeps to its schema.
THEOREM TypeCorrect == Spec => []TypeOK
  <1>1. IInv => TypeOK
    BY DEF IInv, UsersTyped, SessionsSound, CodesSound, TypeOK
  <1> QED
    BY <1>1, Invariance, PTL

\* A session acts in a granted role: however far registration got and however
\* often login, header and refresh switched it.
THEOREM RolesAreHeld == Spec => []SessionRoleIsHeld
  <1>1. IInv => SessionRoleIsHeld
    BY DEF IInv, SessionsSound
  <1> QED
    BY <1>1, Invariance, PTL

\* No code is compared with more than MaxAttempts guesses or buys two keys, for
\* any MaxAttempts, any number of codes and any interruption of a call.
THEOREM CodesAreBounded == Spec => []CodesAreSpent
  <1>1. IInv => CodesAreSpent
    BY DEF IInv, CodesSound, Counted, CodesAreSpent
  <1> QED
    BY <1>1, Invariance, PTL

-----------------------------------------------------------------------------
(* What no step does.                                                      *)

\* A step that writes the session s leaves its user alone, and either found it
\* live or revokes it.
LEMMA SessionWritten ==
  ASSUME IInv, NEW s \in SessionIds, exists(sessions[s]),
         \/ \E role \in Role : SwitchRole(s, role) \/ Refresh(s, role)
         \/ Logout(s) \/ ExpireSession(s)
  PROVE  /\ exists(sessions'[s])
         /\ sessions'[s].user = sessions[s].user
         /\ ~live(s) => ~live(s)'
  <1>1. sessions[s] \in SessionRow /\ sessions \in [SessionIds -> SessionRow \union {NULL}]
    BY DEF exists, IInv, SessionsSound
  <1>2. \A role \in Role, flag \in BOOLEAN :
          \A row \in { [sessions[s] EXCEPT !.active_role = role],
                       [sessions[s] EXCEPT !.active_role = role, !.expired = flag],
                       [sessions[s] EXCEPT !.revoked = flag],
                       [sessions[s] EXCEPT !.expired = flag] } :
            row \in SessionRow /\ row.user = sessions[s].user
    BY <1>1 DEF SessionRow
  <1>3. CASE Logout(s)
    <2>1. sessions'[s] = [sessions[s] EXCEPT !.revoked = TRUE]
      BY <1>1, <1>3 DEF Logout
    <2>2. sessions'[s].revoked = TRUE
      BY <1>1, <2>1 DEF SessionRow
    <2>3. sessions'[s] \in SessionRow /\ sessions'[s].user = sessions[s].user
      BY <1>2, <2>1 DEF Role
    <2> QED
      BY <2>2, <2>3, NullIsNoRow DEF live, exists
  <1>4. ASSUME NEW role \in Role, SwitchRole(s, role) \/ Refresh(s, role) \/ ExpireSession(s)
        PROVE  live(s) /\ exists(sessions'[s]) /\ sessions'[s].user = sessions[s].user
    <2>1. live(s)
      BY <1>4 DEF SwitchRole, Refresh, ExpireSession
    <2>2. \/ sessions'[s] = [sessions[s] EXCEPT !.active_role = role]
          \/ sessions'[s] = [sessions[s] EXCEPT !.active_role = role, !.expired = FALSE]
          \/ sessions'[s] = [sessions[s] EXCEPT !.expired = TRUE]
      BY <1>1, <1>4 DEF SwitchRole, Refresh, ExpireSession
    <2> QED
      BY <1>2, <2>1, <2>2, NullIsNoRow DEF exists
  <1> QED
    BY <1>3, <1>4 DEF Role

\* No handler brings a revoked or expired session back, or gives one away.
THEOREM EndedSessionsEnd == Spec => EndedSessionStaysEnded
  <1> DEFINE kept(s) == exists(sessions[s]) =>
               /\ exists(sessions'[s])
               /\ sessions'[s].user = sessions[s].user
               /\ ~live(s) => ~live(s)'
  <1>1. ASSUME NEW s \in SessionIds, sessions'[s] = sessions[s] PROVE kept(s)
    <2>1. live(s)' <=> live(s)
      BY <1>1 DEF live, exists
    <2> QED
      BY <1>1, <2>1 DEF exists
  <1>2. ASSUME IInv, Next, NEW s \in SessionIds PROVE kept(s)
    <2>1. CASE \E u \in Ids, role \in Role, t \in SessionIds : Login(t, u, role)
      <3>1. PICK u \in Ids, role \in Role, t \in SessionIds : Login(t, u, role)
        BY <2>1
      <3>2. CASE t = s
        BY <3>1, <3>2 DEF Login
      <3>3. CASE t # s
        <4>1. sessions'[s] = sessions[s]
          BY <1>2, <3>1, <3>3 DEF Login, IInv, SessionsSound
        <4> QED
          BY <4>1, <1>1
      <3> QED
        BY <3>2, <3>3
    <2>2. ASSUME NEW t \in SessionIds,
                 \/ \E role \in Role : SwitchRole(t, role) \/ Refresh(t, role)
                 \/ Logout(t) \/ ExpireSession(t)
          PROVE  kept(s)
      <3>1. CASE t = s
        BY <1>2, <2>2, <3>1, SessionWritten
      <3>2. CASE t # s
        <4>1. sessions'[s] = sessions[s]
          BY <1>2, <2>2, <3>2
             DEF SwitchRole, Refresh, Logout, ExpireSession, IInv, SessionsSound
        <4> QED
          BY <4>1, <1>1
      <3> QED
        BY <3>1, <3>2
    <2>3. CASE UNCHANGED sessions
      BY <1>1, <2>3
    <2>4. \/ UNCHANGED sessions
          \/ \E u \in Ids, role \in Role, t \in SessionIds : Login(t, u, role)
          \/ \E t \in SessionIds :
               \/ \E role \in Role : SwitchRole(t, role) \/ Refresh(t, role)
               \/ Logout(t) \/ ExpireSession(t)
      <3>1. ASSUME NEW u \in Ids,
                   \/ \E type \in UserTypes, contact \in Contacts \union {NULL},
                         granted \in grantedSoFar, held \in BOOLEAN :
                        Register(u, type, contact, granted, held)
                   \/ \E held \in BOOLEAN : RotateKey(u, held)
                   \/ Age(u) \/ DeleteMyData(u) \/ Suspend(u) \/ Unsuspend(u)
            PROVE  UNCHANGED sessions
        BY <3>1 DEF Register, RotateKey, rotateApiKey, Age, DeleteMyData, Suspend, Unsuspend, setStatus
      <3>2. ASSUME NEW c \in CodeIds,
                   \/ \E email \in Contacts : RequestOtp(c, email)
                   \/ ExpireOtp(c) \/ RefuseOtp(c) \/ MistakeOtp(c)
            PROVE  UNCHANGED sessions
        BY <3>2 DEF RequestOtp, ExpireOtp, RefuseOtp, MistakeOtp
      <3>3. ASSUME NEW c \in CodeIds, NEW type \in UserTypes, NEW u \in Ids,
                   NEW reached \in {"consumed", "created", "keyed", "answered"},
                   VerifyOtp(c, type, u, reached)
            PROVE  UNCHANGED sessions
        BY <3>3 DEF VerifyOtp
      <3> QED
        BY <1>2, <3>1, <3>2, <3>3 DEF Next
    <2> HIDE DEF kept
    <2> QED
      BY <2>1, <2>2, <2>3, <2>4
  <1>3. IInv /\ [Next]_vars => [\A s \in SessionIds : kept(s)]_vars
    BY <1>2
  <1> QED
    BY <1>3, Invariance, PTL DEF Spec, EndedSessionStaysEnded

\* No handler touches what belongs to an account that is suspended or erased, or
\* opens a session for it.
THEOREM InactiveOnesRest == Spec => InactiveAccountsRest
  <1> DEFINE sameAccount(u) ==
               /\ exists(users'[u])
               /\ users'[u].user_type = users[u].user_type /\ user_role'[u] = user_role[u]
               /\ users'[u].contact = users[u].contact /\ users'[u].held = users[u].held
               /\ users[u].status = "deleted" => users'[u].status = "deleted"
             opensNone(u) ==
               \A s \in SessionIds : ~exists(sessions[s]) /\ exists(sessions'[s]) =>
                 sessions'[s].user # u
  <1>1. ASSUME IInv, Next, NEW u \in Ids, exists(users[u]), ~active(u)
        PROVE  sameAccount(u) /\ opensNone(u)
    <2>1. /\ users[u] \in UserRow /\ users \in [Ids -> UserRow \union {NULL}]
          /\ user_role \in [Ids -> SUBSET Role]
          /\ sessions \in [SessionIds -> SessionRow \union {NULL}]
      BY <1>1 DEF IInv, UsersTyped, SessionsSound, exists
    <2>2. UNCHANGED sessions => opensNone(u)
      OBVIOUS
    <2>3. UNCHANGED <<users, user_role>> => sameAccount(u)
      BY <1>1
    <2>4. ASSUME NEW v \in Ids,
                 \/ \E type \in UserTypes, contact \in Contacts \union {NULL},
                       granted \in grantedSoFar, held \in BOOLEAN :
                      Register(v, type, contact, granted, held)
                 \/ \E held \in BOOLEAN : RotateKey(v, held)
                 \/ DeleteMyData(v)
          PROVE  sameAccount(u) /\ opensNone(u)
      <3>1. v # u
        BY <1>1, <2>4 DEF Register, RotateKey, rotateApiKey, DeleteMyData
      <3>2. users'[u] = users[u] /\ user_role'[u] = user_role[u] /\ UNCHANGED sessions
        BY <2>1, <2>4, <3>1 DEF Register, RotateKey, rotateApiKey, DeleteMyData
      <3> QED
        BY <1>1, <2>2, <3>2
    <2>5. ASSUME NEW v \in Ids, Age(v) \/ Suspend(v) \/ Unsuspend(v)
          PROVE  sameAccount(u) /\ opensNone(u)
      <3>1. UNCHANGED <<user_role, sessions>>
        BY <2>5 DEF Age, Suspend, Unsuspend, setStatus
      <3>2. CASE users'[u] = users[u]
        BY <1>1, <2>2, <3>1, <3>2
      <3>3. CASE v = u /\ Age(v)
        <4>1. users'[u] = [users[u] EXCEPT !.recent = FALSE]
          BY <2>1, <3>3 DEF Age
        <4>2. users'[u] \in UserRow /\ users'[u].status = users[u].status
              /\ users'[u].user_type = users[u].user_type
              /\ users'[u].contact = users[u].contact /\ users'[u].held = users[u].held
          BY <2>1, <4>1 DEF UserRow
        <4> QED
          BY <2>2, <3>1, <4>2, NullIsNoRow DEF exists
      <3>4. ASSUME NEW event \in {"suspend", "unsuspend"}, v = u, setStatus(v, event)
            PROVE  sameAccount(u) /\ opensNone(u)
        <4>1. PICK next \in UserStatus :
                /\ applyTransition(userFlow, users[u].status, event, next)
                /\ users' = [users EXCEPT ![u].status = next]
          BY <3>4 DEF setStatus
        <4>2. users[u].status # "deleted"
          BY <3>4, <4>1 DEF applyTransition, userFlow
        <4>3. users'[u] = [users[u] EXCEPT !.status = next]
          BY <2>1, <4>1
        <4>4. users'[u] \in UserRow /\ users'[u].user_type = users[u].user_type
              /\ users'[u].contact = users[u].contact /\ users'[u].held = users[u].held
          BY <2>1, <4>3 DEF UserRow
        <4> QED
          BY <2>2, <3>1, <4>2, <4>4, NullIsNoRow DEF exists
      <3>5. CASE v # u
        <4>1. users'[u] = users[u]
          BY <2>1, <2>5, <3>5 DEF Age, Suspend, Unsuspend, setStatus
        <4> QED
          BY <3>2, <4>1
      <3> QED
        BY <2>5, <3>3, <3>4, <3>5 DEF Suspend, Unsuspend
    <2>6. ASSUME NEW c \in CodeIds,
                 \/ \E email \in Contacts : RequestOtp(c, email)
                 \/ ExpireOtp(c) \/ RefuseOtp(c) \/ MistakeOtp(c)
          PROVE  sameAccount(u) /\ opensNone(u)
      <3>1. UNCHANGED <<users, user_role, sessions>>
        BY <2>6 DEF RequestOtp, ExpireOtp, RefuseOtp, MistakeOtp
      <3> QED
        BY <2>2, <2>3, <3>1
    <2>7. ASSUME NEW c \in CodeIds, NEW type \in UserTypes, NEW v \in Ids,
                 NEW reached \in {"consumed", "created", "keyed", "answered"},
                 VerifyOtp(c, type, v, reached)
          PROVE  sameAccount(u) /\ opensNone(u)
      <3>1. v # u
        BY <1>1, <2>7 DEF VerifyOtp, findByEmail
      <3>2. UNCHANGED <<user_role, sessions>>
        BY <2>7 DEF VerifyOtp
      <3>3. users' = users \/ \E row : users' = [users EXCEPT ![v] = row]
        BY <2>7 DEF VerifyOtp
      <3>4. users'[u] = users[u]
        BY <2>1, <3>1, <3>3
      <3> QED
        BY <1>1, <2>2, <3>2, <3>4
    <2>8. ASSUME NEW t \in SessionIds, NEW v \in Ids, NEW role \in Role, Login(t, v, role)
          PROVE  sameAccount(u) /\ opensNone(u)
      <3>1. v # u /\ UNCHANGED <<users, user_role>>
        BY <1>1, <2>8 DEF Login
      <3>2. /\ sessions'[t].user = v
            /\ \A s \in SessionIds \ {t} : sessions'[s] = sessions[s]
        BY <2>1, <2>8 DEF Login
      <3>3. opensNone(u)
        BY <3>1, <3>2
      <3> QED
        BY <2>3, <3>1, <3>3
    <2>9. ASSUME NEW t \in SessionIds,
                 \/ \E role \in Role : SwitchRole(t, role) \/ Refresh(t, role)
                 \/ Logout(t) \/ ExpireSession(t)
          PROVE  sameAccount(u) /\ opensNone(u)
      <3>1. exists(sessions[t]) /\ UNCHANGED <<users, user_role>>
        BY <2>9 DEF SwitchRole, Refresh, Logout, ExpireSession, live
      <3>2. \A s \in SessionIds \ {t} : sessions'[s] = sessions[s]
        BY <2>1, <2>9 DEF SwitchRole, Refresh, Logout, ExpireSession
      <3>3. opensNone(u)
        BY <3>1, <3>2
      <3> QED
        BY <2>3, <3>1, <3>3
    <2> HIDE DEF sameAccount, opensNone
    <2> QED
      BY <1>1, <2>4, <2>5, <2>6, <2>7, <2>8, <2>9 DEF Next
  <1>2. IInv /\ [Next]_vars =>
          [\A u \in Ids : exists(users[u]) /\ ~active(u) =>
             /\ exists(users'[u])
             /\ users'[u].user_type = users[u].user_type /\ user_role'[u] = user_role[u]
             /\ users'[u].contact = users[u].contact /\ users'[u].held = users[u].held
             /\ users[u].status = "deleted" => users'[u].status = "deleted"
             /\ \A s \in SessionIds : ~exists(sessions[s]) /\ exists(sessions'[s]) =>
                  sessions'[s].user # u]_vars
    BY <1>1
  <1> QED
    BY <1>2, Invariance, PTL DEF Spec, InactiveAccountsRest
=============================================================================
