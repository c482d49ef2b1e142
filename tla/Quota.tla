------------------------------- MODULE Quota -------------------------------
(***************************************************************************)
(* The daily quota in the users table: what a call costs, the reset that   *)
(* the scheduler makes once a day, and the administrator's changes.        *)
(*                                                                         *)
(* quota_reset_at is 24 hours after the registration until the first reset, *)
(* and the next UTC midnight after each.  What counts is when it falls: on *)
(* the next midnight, later, at some hour of today, or in the past.  The   *)
(* scheduler fires at the midnight of the server, which need not be that   *)
(* of UTC, if it is up.                                                    *)
(***************************************************************************)
EXTENDS Naturals

CONSTANTS
  Users, Hunters, PMs,  \* accounts by users.user_type; the others are candidates
  Newcomers,            \* bound: the accounts registered on the first day
  Suspendable,          \* bound: the accounts the administrator suspends
  Metered,              \* bound: the accounts whose calls have a cost
  QUOTA_PER_DAY,        \* what an account is registered with, by its type
  QuotaInputs           \* bound: the quotas per day the administrator sets

ASSUME QuotaAssumption ==
  /\ Hunters \subseteq Users /\ PMs \subseteq Users /\ Hunters \intersect PMs = {}
  /\ Newcomers \subseteq Users /\ Suspendable \subseteq Users /\ Metered \subseteq Users
  /\ QUOTA_PER_DAY \in [Users -> Nat]
  /\ QuotaInputs \subseteq Nat

VARIABLE users  \* [status, quota_per_day, quota_used, quota_reset_at]

ResetTime == {"later", "today", "midnight", "passed"}

active(u) == users[u].status = "active"

QuotaInit ==
  users = [u \in Users |->
             [status |-> "active", quota_per_day |-> QUOTA_PER_DAY[u], quota_used |-> 0,
              quota_reset_at |-> IF u \in Newcomers THEN "later" ELSE "midnight"]]

hasQuota(u, amount) == users[u].quota_used + amount <= users[u].quota_per_day

\* One UPDATE: it asks and it counts.
tryConsume(u, amount) ==
  /\ active(u)
  /\ hasQuota(u, amount)
  /\ users' = [users EXCEPT ![u].quota_used = @ + amount]

\* What was used stays used, even beyond the new quota.
adjustQuota(u, new_quota) == users' = [users EXCEPT ![u].quota_per_day = new_quota]

\* Mutant: only the accounts that have nothing left are reset.
resetDailyQuota_exhausted ==
  users' = [u \in Users |->
              IF /\ active(u) /\ users[u].quota_reset_at = "passed"
                 /\ users[u].quota_used = users[u].quota_per_day
              THEN [users[u] EXCEPT !.quota_used = 0, !.quota_reset_at = "midnight"]
              ELSE users[u]]

\* quota_reset_at <= now.  An account that is suspended at that moment is passed
\* over, and so is one on the midnight that follows its registration.
resetDailyQuota ==
  users' = [u \in Users |->
              IF active(u) /\ users[u].quota_reset_at = "passed"
              THEN [users[u] EXCEPT !.quota_used = 0, !.quota_reset_at = "midnight"]
              ELSE users[u]]

\* A UTC midnight.
DayBreaks ==
  users' = [u \in Users |->
              [users[u] EXCEPT !.quota_reset_at = IF @ = "later" THEN "today" ELSE "passed"]]

\* 24 hours after its registration.
FirstDayEnds(u) ==
  /\ users[u].quota_reset_at = "today"
  /\ users' = [users EXCEPT ![u].quota_reset_at = "passed"]

suspend(u) == active(u) /\ users' = [users EXCEPT ![u].status = "suspended"]

unsuspend(u) == ~active(u) /\ users' = [users EXCEPT ![u].status = "active"]
=============================================================================
