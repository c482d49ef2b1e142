------------------------------ MODULE Accounts ------------------------------
(***************************************************************************)
(* Accounts and the three ways to act for one: the API key an account was  *)
(* given, a session opened with that key, and a one-time code sent to the  *)
(* account's address, which buys a new key.  The handlers keep users,      *)
(* user_role, session and candidate_otp_codes, each in statements of its   *)
(* own: the process may end between any two of them.                       *)
(*                                                                         *)
(* Keys are not told apart: held says whether somebody holds the one whose *)
(* hash is stored.  Nobody does if the process ended before the answer, or *)
(* if the hash is a placeholder or the poison of an erasure.  Refusals for *)
(* lack of quota or for too many requests are the choice of not acting;    *)
(* the latter keep the codes of one address a minute apart, so that one of *)
(* them is the newest.                                                     *)
(***************************************************************************)
EXTENDS Naturals, Flows

CONSTANTS
  Ids,           \* ids the server may draw for a new account
  Contacts,      \* addresses: users.contact and the e-mail of a code
  UserTypes,     \* bound: the types people register with
  SessionIds,
  CodeIds,       \* ids of one-time codes in the order of their creation: 1..n
  MaxAttempts,   \* OTP_MAX_ATTEMPTS
  NULL

Role == {"pm", "hr", "candidate"}

\* Rows of users, session and candidate_otp_codes.
UserRow ==
  [user_type : Role, contact : Contacts \union {NULL}, status : UserStatus,
   held : BOOLEAN,
   recent : BOOLEAN]        \* has an address and is not a day old
SessionRow ==
  [user : Ids, active_role : Role, expired : BOOLEAN, revoked : BOOLEAN]
OtpRow ==
  [email : Contacts, attempts : Nat, expired : BOOLEAN, consumed : BOOLEAN]

ASSUME AccountsAssumption ==
  /\ UserTypes \subseteq Role
  /\ CodeIds \subseteq Nat /\ MaxAttempts \in Nat \ {0}
  /\ NULL \notin Contacts \union UserRow \union SessionRow \union OtpRow

VARIABLES
  users, user_role, sessions, otps,
  compared,    \* code -> how many calls got as far as comparing a guess
  bought       \* code -> how many keys it bought

vars == <<users, user_role, sessions, otps, compared, bought>>

exists(row) == row # NULL

Init ==
  /\ users = [u \in Ids |-> NULL]
  /\ user_role = [u \in Ids |-> {}]
  /\ sessions = [s \in SessionIds |-> NULL]
  /\ otps = [c \in CodeIds |-> NULL]
  /\ compared = [c \in CodeIds |-> 0]
  /\ bought = [c \in CodeIds |-> 0]

active(u) == exists(users[u]) /\ users[u].status = "active"

\* findActive: the session is neither revoked nor past its time.
live(s) == exists(sessions[s]) /\ ~sessions[s].revoked /\ ~sessions[s].expired

\* The roles somebody acts in as u: with the key the registered one, with a
\* session the session's, while the account still has it.
rolesActedIn(u) ==
  {role \in Role :
     \/ users[u].held /\ role = users[u].user_type
     \/ role \in user_role[u] /\ \E s \in SessionIds :
          live(s) /\ sessions[s].user = u /\ sessions[s].active_role = role}

\* The routes of a role ask for it twice: roleGate compares the role acted in,
\* the handlers behind it compare users.user_type.
admitted(u, role) == role \in rolesActedIn(u) /\ users[u].user_type = role

-----------------------------------------------------------------------------
(* Registration.                                                           *)

newUser(type, contact, held) ==
  [user_type |-> type, contact |-> contact, status |-> "active", held |-> held,
   recent |-> contact # NULL]

\* createCandidate, createHeadhunter, createPm: the hash is a placeholder, which
\* no key matches.
createUser(type, email) == newUser(type, email, FALSE)

\* grantAll inserts the roles one by one, in this order.
grantedSoFar == {{}, {"pm"}, {"pm", "hr"}, Role}

\* The same role refuses an address for a day; another role refuses it if the
\* one row that LIMIT 1 returns for it belongs to a third.
contactIsFree(type, contact) ==
  LET holders == {u \in Ids : active(u) /\ users[u].contact = contact}
  IN  /\ \A u \in Ids : ~ /\ exists(users[u]) /\ users[u].status # "deleted"
                          /\ users[u].user_type = type /\ users[u].contact = contact
                          /\ users[u].recent
      /\ holders = {} \/ \E u \in holders : users[u].user_type = type

\* The caller learns the key only if the process lives to the end.
Register(u, type, contact, granted, held) ==
  /\ ~exists(users[u])
  /\ contact # NULL => contactIsFree(type, contact)
  /\ held => granted = Role
  /\ users' = [users EXCEPT ![u] = newUser(type, contact, held)]
  /\ user_role' = [user_role EXCEPT ![u] = granted]
  /\ UNCHANGED <<sessions, otps, compared, bought>>

\* A day goes by.
Age(u) ==
  /\ exists(users[u]) /\ users[u].recent
  /\ users' = [users EXCEPT ![u].recent = FALSE]
  /\ UNCHANGED <<user_role, sessions, otps, compared, bought>>

-----------------------------------------------------------------------------
(* One-time codes.                                                         *)

RequestOtp(c, email) ==
  /\ ~exists(otps[c])
  /\ \A d \in CodeIds : d < c => exists(otps[d])
  /\ otps' = [otps EXCEPT ![c] =
       [email |-> email, attempts |-> 0, expired |-> FALSE, consumed |-> FALSE]]
  /\ UNCHANGED <<users, user_role, sessions, compared, bought>>

\* The clock passes expires_at; of a used code nobody asks that any more.
ExpireOtp(c) ==
  /\ exists(otps[c]) /\ ~otps[c].consumed /\ ~otps[c].expired
  /\ otps' = [otps EXCEPT ![c].expired = TRUE]
  /\ UNCHANGED <<users, user_role, sessions, compared, bought>>

\* findActive: the newest code of its address that is neither used nor expired.
findActive(c) ==
  LET usable(d) == exists(otps[d]) /\ ~otps[d].consumed /\ ~otps[d].expired
  IN  usable(c) /\ \A d \in CodeIds : usable(d) /\ otps[d].email = otps[c].email => d <= c

\* Mutant: the status is not looked at.
findByEmail_anyStatus(type, email) ==
  {u \in Ids : exists(users[u]) /\ users[u].user_type = type /\ users[u].contact = email}

\* findCandidateByEmail, findHeadhunterByEmail, findPmByEmail: any one of these.
findByEmail(type, email) ==
  {u \in Ids : active(u) /\ users[u].user_type = type /\ users[u].contact = email}

\* Mutant: the attempts are compared with the limit before this one is counted.
attemptsLeft_offByOne(c) == otps[c].attempts <= MaxAttempts

attemptsLeft(c) == otps[c].attempts + 1 <= MaxAttempts

\* Every call counts, the ones that are refused as well; the model counts one
\* refused call per code.
RefuseOtp(c) ==
  /\ findActive(c) /\ ~attemptsLeft(c)
  /\ otps[c].attempts <= MaxAttempts
  /\ otps' = [otps EXCEPT ![c].attempts = @ + 1]
  /\ UNCHANGED <<users, user_role, sessions, compared, bought>>

\* A wrong guess, or the process ends between counting and comparing.
MistakeOtp(c) ==
  /\ findActive(c) /\ attemptsLeft(c)
  /\ otps' = [otps EXCEPT ![c].attempts = @ + 1]
  /\ compared' = [compared EXCEPT ![c] = @ + 1]
  /\ UNCHANGED <<users, user_role, sessions, bought>>

\* The right guess uses up the code, then finds or creates the account, then
\* sets its key, then answers; `reached` is the last of these that happened.
\* An account made here is given no roles.
VerifyOtp(c, type, u, reached) ==
  LET found == findByEmail(type, otps[c].email)
      row   == IF found # {} THEN users[u] ELSE createUser(type, otps[c].email)
  IN  /\ findActive(c) /\ attemptsLeft(c)
      /\ otps' = [otps EXCEPT ![c].attempts = @ + 1, ![c].consumed = TRUE]
      /\ compared' = [compared EXCEPT ![c] = @ + 1]
      /\ IF found # {} THEN u \in found ELSE ~exists(users[u])
      /\ users' = CASE reached = "consumed" -> users
                    [] reached = "created"  -> [users EXCEPT ![u] = row]
                    [] reached = "keyed"    -> [users EXCEPT ![u] = [row EXCEPT !.held = FALSE]]
                    [] reached = "answered" -> [users EXCEPT ![u] = [row EXCEPT !.held = TRUE]]
      /\ bought' = IF reached = "answered" THEN [bought EXCEPT ![c] = @ + 1] ELSE bought
      /\ UNCHANGED <<user_role, sessions>>

-----------------------------------------------------------------------------
(* Sessions.                                                               *)

\* Mutant: the role is the one the account registered as, held or not.
Login_anyRole(s, u, role) ==
  /\ active(u) /\ users[u].held
  /\ role = users[u].user_type
  /\ ~exists(sessions[s])
  /\ sessions' = [sessions EXCEPT ![s] =
       [user |-> u, active_role |-> role, expired |-> FALSE, revoked |-> FALSE]]
  /\ UNCHANGED <<users, user_role, otps, compared, bought>>

Login(s, u, role) ==
  /\ active(u) /\ users[u].held
  /\ role \in user_role[u]
  /\ ~exists(sessions[s])
  /\ sessions' = [sessions EXCEPT ![s] =
       [user |-> u, active_role |-> role, expired |-> FALSE, revoked |-> FALSE]]
  /\ UNCHANGED <<users, user_role, otps, compared, bought>>

\* resolve: any request with the session may name another role in its header;
\* the session keeps it even if the middleware then refuses the account.
SwitchRole(s, role) ==
  /\ live(s)
  /\ role \in user_role[sessions[s].user]
  /\ sessions' = [sessions EXCEPT ![s].active_role = role]
  /\ UNCHANGED <<users, user_role, otps, compared, bought>>

\* Mutant: the time is not looked at before the window slides.
Refresh_evenExpired(s, role) ==
  /\ exists(sessions[s]) /\ ~sessions[s].revoked
  /\ role \in user_role[sessions[s].user]
  /\ sessions' = [sessions EXCEPT ![s].active_role = role, ![s].expired = FALSE]
  /\ UNCHANGED <<users, user_role, otps, compared, bought>>

\* refresh asks nothing of the account.
Refresh(s, role) ==
  /\ live(s)
  /\ role \in user_role[sessions[s].user]
  /\ sessions' = [sessions EXCEPT ![s].active_role = role, ![s].expired = FALSE]
  /\ UNCHANGED <<users, user_role, otps, compared, bought>>

Logout(s) ==
  /\ exists(sessions[s])
  /\ sessions' = [sessions EXCEPT ![s].revoked = TRUE]
  /\ UNCHANGED <<users, user_role, otps, compared, bought>>

\* The clock passes expires_at; of a revoked session nobody asks that any more.
ExpireSession(s) ==
  /\ live(s)
  /\ sessions' = [sessions EXCEPT ![s].expired = TRUE]
  /\ UNCHANGED <<users, user_role, otps, compared, bought>>

-----------------------------------------------------------------------------
(* What the owner and the administrator do with an account.                *)

\* The one UPDATE leaves nothing of the old key.
rotateApiKey(u, held) == users' = [users EXCEPT ![u].held = held]

\* The old key is void at once; sessions opened with it go on.
RotateKey(u, held) ==
  /\ active(u) /\ rolesActedIn(u) # {}
  /\ rotateApiKey(u, held)
  /\ UNCHANGED <<user_role, sessions, otps, compared, bought>>

\* deleteMyData, as far as the account is concerned.
DeleteMyData(u) ==
  /\ active(u) /\ admitted(u, "candidate")
  /\ users' = [users EXCEPT ![u].status = "deleted", ![u].contact = NULL,
                            ![u].held = FALSE, ![u].recent = FALSE]
  /\ UNCHANGED <<user_role, sessions, otps, compared, bought>>

\* Mutant: the event is written for the status it leads to.
setStatus_writesEvent(u, event) ==
  /\ exists(users[u])
  /\ \E next \in UserStatus :
       /\ applyTransition(userFlow, users[u].status, event, next)
       /\ users' = [users EXCEPT ![u].status = event]
  /\ UNCHANGED <<user_role, sessions, otps, compared, bought>>

setStatus(u, event) ==
  /\ exists(users[u])
  /\ \E next \in UserStatus :
       /\ applyTransition(userFlow, users[u].status, event, next)
       /\ users' = [users EXCEPT ![u].status = next]
  /\ UNCHANGED <<user_role, sessions, otps, compared, bought>>

Suspend(u)   == setStatus(u, "suspend")
Unsuspend(u) == setStatus(u, "unsuspend")

Next ==
  \/ \E u \in Ids :
       \/ \E type \in UserTypes, contact \in Contacts \union {NULL},
             granted \in grantedSoFar, held \in BOOLEAN :
            Register(u, type, contact, granted, held)
       \/ \E held \in BOOLEAN : RotateKey(u, held)
       \/ Age(u) \/ DeleteMyData(u) \/ Suspend(u) \/ Unsuspend(u)
  \/ \E c \in CodeIds :
       \/ \E email \in Contacts : RequestOtp(c, email)
       \/ ExpireOtp(c) \/ RefuseOtp(c) \/ MistakeOtp(c)
       \/ \E type \in UserTypes, u \in Ids,
             reached \in {"consumed", "created", "keyed", "answered"} :
            VerifyOtp(c, type, u, reached)
  \/ \E s \in SessionIds :
       \/ \E u \in Ids, role \in Role : Login(s, u, role)
       \/ \E role \in Role : SwitchRole(s, role) \/ Refresh(s, role)
       \/ Logout(s) \/ ExpireSession(s)

Spec == Init /\ [][Next]_vars

-----------------------------------------------------------------------------
(* Properties.                                                             *)

\* Every table holds rows of its schema.
TypeOK ==
  /\ users \in [Ids -> UserRow \union {NULL}]
  /\ user_role \in [Ids -> SUBSET Role]
  /\ sessions \in [SessionIds -> SessionRow \union {NULL}]
  /\ otps \in [CodeIds -> OtpRow \union {NULL}]
  /\ compared \in [CodeIds -> Nat]
  /\ bought \in [CodeIds -> Nat]

\* A one-time code is compared with at most OTP_MAX_ATTEMPTS guesses, however
\* the calls for it, for older and for newer codes of the address alternate,
\* and buys one key at most, wherever the process ended before.
CodesAreSpent ==
  \A c \in CodeIds :
    /\ compared[c] <= MaxAttempts
    /\ bought[c] <= 1
    /\ bought[c] = 1 => otps[c].consumed

\* Whoever acts through a session acts in a role that its account was granted,
\* also if registration was interrupted half way through the grants or the
\* account came from a one-time code, which grants none.
SessionRoleIsHeld ==
  \A s \in SessionIds : exists(sessions[s]) =>
    /\ exists(users[sessions[s].user])
    /\ sessions[s].active_role \in user_role[sessions[s].user]

\* A session that was revoked or has run out is never usable again, whatever
\* refresh, logout and the requests still under way do to its row.
EndedSessionStaysEnded ==
  [][\A s \in SessionIds : exists(sessions[s]) =>
       /\ exists(sessions'[s])
       /\ sessions'[s].user = sessions[s].user
       /\ ~live(s) => ~live(s)']_vars

\* Nothing starts for an account that is suspended or erased: its key, address
\* and roles stay what they are and no session is opened, neither with the
\* old key nor through a code for its address; an erased one stays erased.
InactiveAccountsRest ==
  [][\A u \in Ids : exists(users[u]) /\ ~active(u) =>
       /\ exists(users'[u])
       /\ users'[u].user_type = users[u].user_type /\ user_role'[u] = user_role[u]
       /\ users'[u].contact = users[u].contact /\ users'[u].held = users[u].held
       /\ users[u].status = "deleted" => users'[u].status = "deleted"
       /\ \A s \in SessionIds : ~exists(sessions[s]) /\ exists(sessions'[s]) =>
            sessions'[s].user # u]_vars

-----------------------------------------------------------------------------
(* What the repository says of the program, and it does not do.            *)

\* A caller who meets a 403 on the routes of another role is told to switch
\* the session to that role (skill.md, section 1.2); then they should admit it.
SwitchedRoleIsAdmitted ==
  \A s \in SessionIds :
    live(s) /\ active(sessions[s].user)
      => admitted(sessions[s].user, sessions[s].active_role)
=============================================================================
