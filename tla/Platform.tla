------------------------------ MODULE Platform ------------------------------
(***************************************************************************)
(* The shared SQLite database of the recruitment platform: the tables that *)
(* more than one handler writes, the accounts, and the helpers every       *)
(* handler uses.  The handler modules (JobBoard, Pipeline, SelfApply,      *)
(* Kanban, Commission) extend this one and Recruitment composes them.      *)
(*                                                                         *)
(* The server is one Node process on a synchronous SQLite driver: nothing  *)
(* interleaves inside a handler, so a handler is one action, BEGIN..COMMIT *)
(* or not.  A crash can still fall between two autocommitted statements:   *)
(* the handlers that have several say so in an action of their own.        *)
(*                                                                         *)
(* The daily quota is not counted here: a call refused for want of quota   *)
(* changes none of these tables.                                           *)
(***************************************************************************)
EXTENDS Flows, Naturals, Sequences

CONSTANTS
  Employers, Hunters, Candidates,  \* accounts, by users.user_type: pm, hr, candidate
  Jobs, Anon,     \* ids randomUUID can yield for jobs and for profiles
  NULL,           \* SQL NULL, or no row under that id
  Suspendable,    \* bound: the accounts the administrator suspends
  Pooled,         \* bound: the profiles that are put into the public pool
  Referrers,      \* bound: the referrer ids, or none, that recommend calls carry
  ColumnStages    \* bound: the kanban columns that calls name

User == Employers \union Hunters \union Candidates

\* UNIQUE(anonymized_candidate_id, job_id): at most one recommendation per pair.
Rec == Anon \X Jobs

ASSUME UserTypesAreDisjoint ==
  /\ Employers \intersect Hunters = {}
  /\ Employers \intersect Candidates = {}
  /\ Hunters \intersect Candidates = {}

ASSUME BoundsAreWithinTheSystem ==
  /\ Suspendable \subseteq User
  /\ Pooled \subseteq Anon
  /\ Referrers \subseteq User \union {NULL}
  /\ ColumnStages \subseteq PIPELINE_STAGES

JobRow ==
  [employer_id : Employers \union {NULL}, source_headhunter_id : Hunters \union {NULL},
   created_for_employer_id : Employers \union {NULL}, status : JobStatus]

\* candidates_private and, when has_anon, the candidates_anonymized row made
\* from it; has_pii: name_enc, phone_enc and email_enc hold the contact.
ProfileRow ==
  [headhunter_id : Hunters, candidate_user_id : Candidates,
   has_anon : BOOLEAN, has_pii : BOOLEAN, is_public_pool : BOOLEAN]

RecRow ==
  [status : RecStatus, headhunter_id : Hunters \union {NULL}, employer_id : Employers,
   pickup_headhunter_id : Hunters \union {NULL},
   referrer_headhunter_id : User \union {NULL}, pipeline_stage : PipelineStage]

AppRow ==
  [candidate_user_id : Candidates, pickup_headhunter_id : Hunters \union {NULL},
   withdrawn : BOOLEAN]

AuditRow ==
  [action : {"express_interest", "approve_unlock", "reject_unlock", "unlock_delivery"},
   actor_user_id : User]

\* A webhook_delivery_queue row: `role` is why `target` gets it.
OutboxRow ==
  [rec : Rec, event : {s.event : s \in REC_SIDE_EFFECTS} \union {"placement_created"},
   role : {"candidate", "employer", "primary", "referrer"},
   target : User, pii : BOOLEAN]

PlacementRow ==
  [rec : Rec, primary_headhunter_id : Hunters, referrer_headhunter_id : User \union {NULL},
   status : {"pending_payment", "paid", "cancelled"}]

ASSUME NullIsNoRow ==
  /\ NULL \notin User
  /\ NULL \notin JobRow \union ProfileRow \union RecRow \union AppRow

VARIABLES
  users,       \* users.status
  jobs,        \* jobs
  profiles,    \* candidates_private with candidates_anonymized
  recs,        \* recommendations
  apps,        \* candidate_applications, by the recommendation they belong to
  audit,       \* unlock_audit_log, per recommendation, oldest first
  outbox,      \* webhook_delivery_queue: every row ever queued
  placements   \* placements

vars == <<users, jobs, profiles, recs, apps, audit, outbox, placements>>

Init ==
  /\ users = [u \in User |-> "active"]
  /\ jobs = [j \in Jobs |-> NULL]
  /\ profiles = [a \in Anon |-> NULL]
  /\ recs = [r \in Rec |-> NULL]
  /\ apps = [r \in Rec |-> NULL]
  /\ audit = [r \in Rec |-> << >>]
  /\ outbox = {}
  /\ placements = {}

\* The router lets a request through only while its account is active, whether
\* it shows an API key or a session token; quota.tryConsume asks the same again.
authMiddleware(u) == users[u] = "active"

exists(row) == row # NULL

\* The candidate a recommendation is about, through its profile.
candidateOf(r) == profiles[r[1]].candidate_user_id

profilesOf(c) == {a \in Anon : exists(profiles[a]) /\ profiles[a].candidate_user_id = c}

\* The rows a recommendation step makes its handler queue: those recFlow
\* declares for it, addressed to the candidate or to the employer.
sideEffects(r, from, next) ==
  { [rec |-> r, event |-> s.event, role |-> s.target,
     target |-> IF s.target = "candidate" THEN candidateOf(r) ELSE recs[r].employer_id,
     pii |-> s.pii] :
    s \in {t \in REC_SIDE_EFFECTS : t.from = from /\ t.to = next} }

logUnlock(r, u, action) ==
  audit' = [audit EXCEPT ![r] = Append(@, [action |-> action, actor_user_id |-> u])]

-----------------------------------------------------------------------------
(* Accounts.                                                               *)

Suspend(u) ==
  /\ u \in Suspendable
  /\ \E next \in UserStatus :
       /\ applyTransition(userFlow, users[u], "suspend", next)
       /\ users' = [users EXCEPT ![u] = next]
  /\ UNCHANGED <<jobs, profiles, recs, apps, audit, outbox, placements>>

Unsuspend(u) ==
  /\ \E next \in UserStatus :
       /\ applyTransition(userFlow, users[u], "unsuspend", next)
       /\ users' = [users EXCEPT ![u] = next]
  /\ UNCHANGED <<jobs, profiles, recs, apps, audit, outbox, placements>>

\* Mutant: no transaction, and a crash after its first statement.
DeleteMyData_accountOnly(c) ==
  /\ authMiddleware(c)
  /\ users' = [users EXCEPT ![c] = "deleted"]
  /\ UNCHANGED <<jobs, profiles, recs, apps, audit, outbox, placements>>

\* Mutant: one profile of the candidate is found, as getProfile does.
DeleteMyData_oneProfile(c) ==
  /\ authMiddleware(c)
  /\ users' = [users EXCEPT ![c] = "deleted"]
  /\ \E a \in profilesOf(c) :
       /\ profiles' = [profiles EXCEPT ![a].has_pii = FALSE]
       /\ recs' = [r \in Rec |-> IF r[1] = a /\ exists(recs[r])
                                 THEN [recs[r] EXCEPT !.status = "withdrawn"]
                                 ELSE recs[r]]
  /\ UNCHANGED <<jobs, apps, audit, outbox, placements>>

\* deleteMyData: one transaction over the account, its private rows and every
\* recommendation that is not already withdrawn or placed.
DeleteMyData(c) ==
  /\ authMiddleware(c)
  /\ users' = [users EXCEPT ![c] = "deleted"]
  /\ profiles' = [a \in Anon |-> IF a \in profilesOf(c)
                                 THEN [profiles[a] EXCEPT !.has_pii = FALSE]
                                 ELSE profiles[a]]
  /\ recs' = [r \in Rec |->
               IF /\ exists(recs[r])
                  /\ r[1] \in profilesOf(c)
                  /\ recs[r].status \notin {"withdrawn", "placed"}
               THEN [recs[r] EXCEPT !.status = "withdrawn"]
               ELSE recs[r]]
  /\ UNCHANGED <<jobs, apps, audit, outbox, placements>>
=============================================================================
