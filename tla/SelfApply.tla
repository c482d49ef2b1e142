------------------------------ MODULE SelfApply -----------------------------
(***************************************************************************)
(* The candidate portal: a candidate applies to a job directly, a          *)
(* headhunter picks the application up, the candidate answers the offer or *)
(* withdraws.                                                              *)
(***************************************************************************)
EXTENDS Platform

\* The statuses findActiveByCandidateAndJob looks for.
ActiveStatus ==
  {"pending_pickup", "pending", "employer_interested", "considering_offer",
   "candidate_approved", "unlocked"}

insertApplication(c, r) ==
  /\ recs' = [recs EXCEPT ![r] =
                [status |-> "pending_pickup", headhunter_id |-> NULL,
                 employer_id |-> jobs[r[2]].employer_id, pickup_headhunter_id |-> NULL,
                 referrer_headhunter_id |-> NULL, pipeline_stage |-> "submitted"]]
  /\ apps' = [apps EXCEPT ![r] =
                [candidate_user_id |-> c, pickup_headhunter_id |-> NULL,
                 withdrawn |-> FALSE]]

\* Mutant: only UNIQUE stands against a second application.
Apply_noActiveCheck(c, r) ==
  /\ authMiddleware(c)
  /\ exists(jobs[r[2]])
  /\ jobs[r[2]].status = "open"
  /\ jobs[r[2]].employer_id # NULL
  /\ r[1] \in profilesOf(c) /\ profiles[r[1]].has_anon
  /\ ~exists(recs[r])
  /\ insertApplication(c, r)
  /\ UNCHANGED <<users, jobs, profiles, audit, outbox, placements>>

\* getProfile joins without an order and reads one row: any profile of the
\* candidate may be the one; a private row with no anonymized row refuses the
\* call.  A second row for the pair breaks UNIQUE and rolls back.
Apply(c, r) ==
  /\ authMiddleware(c)
  /\ exists(jobs[r[2]])
  /\ jobs[r[2]].status = "open"
  /\ jobs[r[2]].employer_id # NULL
  /\ r[1] \in profilesOf(c) /\ profiles[r[1]].has_anon
  /\ \A a \in profilesOf(c) :
       LET other == recs[<<a, r[2]>>]
       IN  exists(other) => other.status \notin ActiveStatus
  /\ ~exists(recs[r])
  /\ insertApplication(c, r)
  /\ UNCHANGED <<users, jobs, profiles, audit, outbox, placements>>

\* respond: no audit entry and no webhook, whatever the flow declares.
Respond(c, r, action) ==
  /\ authMiddleware(c)
  /\ exists(apps[r])
  /\ apps[r].candidate_user_id = c
  /\ \E next \in RecStatus :
       /\ applyTransition(recFlow, recs[r].status, action, next)
       /\ recs' = [recs EXCEPT ![r].status = next]
  /\ apps' = [apps EXCEPT ![r].withdrawn = @ \/ action = "withdraw"]
  /\ UNCHANGED <<users, jobs, profiles, audit, outbox, placements>>

\* Mutant: the application's own pickup column is forgotten.
Pickup_recommendationOnly(h, r) ==
  /\ authMiddleware(h)
  /\ exists(recs[r])
  /\ recs[r].status = "pending_pickup"
  /\ exists(apps[r])
  /\ recs' = [recs EXCEPT ![r].pickup_headhunter_id = h, ![r].status = "pending"]
  /\ UNCHANGED <<users, jobs, profiles, apps, audit, outbox, placements>>

\* headhunter_id is left as it is.
Pickup(h, r) ==
  /\ authMiddleware(h)
  /\ exists(recs[r])
  /\ recs[r].status = "pending_pickup"
  /\ exists(apps[r])
  /\ recs' = [recs EXCEPT ![r].pickup_headhunter_id = h, ![r].status = "pending"]
  /\ apps' = [apps EXCEPT ![r].pickup_headhunter_id = h]
  /\ UNCHANGED <<users, jobs, profiles, audit, outbox, placements>>
=============================================================================
