------------------------------ MODULE Pipeline ------------------------------
(***************************************************************************)
(* From a headhunter's candidate to the release of the contact details:    *)
(* upload, recommend, withdraw; the employer's interest, the candidate's   *)
(* answer and the employer's unlock.                                       *)
(***************************************************************************)
EXTENDS Platform

insertProfile(h, c, a, hasAnon) ==
  /\ ~exists(profiles[a])
  /\ profiles' = [profiles EXCEPT ![a] =
                    [headhunter_id |-> h, candidate_user_id |-> c,
                     has_anon |-> hasAnon, has_pii |-> TRUE,
                     is_public_pool |-> FALSE]]

\* uploadCandidate checks that the candidate's account exists, not its status.
UploadCandidate(h, c, a) ==
  /\ authMiddleware(h)
  /\ insertProfile(h, c, a, TRUE)
  /\ UNCHANGED <<users, jobs, recs, apps, audit, outbox, placements>>

\* The process dies between the two inserts of uploadCandidate.
UploadCandidateInterrupted(h, c, a) ==
  /\ authMiddleware(h)
  /\ insertProfile(h, c, a, FALSE)
  /\ UNCHANGED <<users, jobs, recs, apps, audit, outbox, placements>>

\* Published again, or removed again, is the same.
setPool(a, isPublic) ==
  /\ exists(profiles[a]) /\ profiles[a].has_anon
  /\ profiles' = [profiles EXCEPT ![a].is_public_pool = isPublic]

PublishToPool(h, a) ==
  /\ authMiddleware(h)
  /\ setPool(a, TRUE)
  /\ profiles[a].headhunter_id = h
  /\ UNCHANGED <<users, jobs, recs, apps, audit, outbox, placements>>

\* The administrator's.
RemoveFromPool(a) ==
  /\ setPool(a, FALSE)
  /\ UNCHANGED <<users, jobs, recs, apps, audit, outbox, placements>>

\* `referrer` is taken from the request: only the foreign key checks it.
RecommendCandidate(h, r, referrer) ==
  /\ authMiddleware(h)
  /\ exists(profiles[r[1]]) /\ profiles[r[1]].has_anon
  /\ profiles[r[1]].headhunter_id = h
  /\ exists(jobs[r[2]])
  /\ jobs[r[2]].status \notin {"closed", "filled", "paused"}
  /\ jobs[r[2]].employer_id # NULL
  /\ ~exists(recs[r])
  /\ recs' = [recs EXCEPT ![r] =
                [status |-> "pending", headhunter_id |-> h,
                 employer_id |-> jobs[r[2]].employer_id, pickup_headhunter_id |-> NULL,
                 referrer_headhunter_id |-> referrer, pipeline_stage |-> "submitted"]]
  /\ UNCHANGED <<users, jobs, profiles, apps, audit, outbox, placements>>

WithdrawRecommendation(h, r) ==
  /\ authMiddleware(h)
  /\ exists(recs[r])
  /\ recs[r].headhunter_id = h
  /\ recs[r].status = "pending"
  /\ recs' = [recs EXCEPT ![r].status = "withdrawn"]
  /\ UNCHANGED <<users, jobs, profiles, apps, audit, outbox, placements>>

\* A step of recFlow with the log entry and the webhook its handler writes in
\* the same transaction.
unlockStep(r, u, event, action) ==
  \E next \in RecStatus :
    /\ applyTransition(recFlow, recs[r].status, event, next)
    /\ recs' = [recs EXCEPT ![r].status = next]
    /\ logUnlock(r, u, action)
    /\ outbox' = outbox \union sideEffects(r, recs[r].status, next)

\* Mutant: "not your recommendation" is not checked.
ExpressInterest_anyEmployer(e, r) ==
  /\ authMiddleware(e)
  /\ exists(recs[r])
  /\ unlockStep(r, e, "express_interest", "express_interest")
  /\ UNCHANGED <<users, jobs, profiles, apps, placements>>

ExpressInterest(e, r) ==
  /\ authMiddleware(e)
  /\ exists(recs[r])
  /\ recs[r].employer_id = e
  /\ unlockStep(r, e, "express_interest", "express_interest")
  /\ UNCHANGED <<users, jobs, profiles, apps, placements>>

\* Mutant: any candidate approves.
ApproveUnlock_anyCandidate(c, r) ==
  /\ authMiddleware(c)
  /\ exists(recs[r])
  /\ unlockStep(r, c, "approve_unlock", "approve_unlock")
  /\ UNCHANGED <<users, jobs, profiles, apps, placements>>

ApproveUnlock(c, r) ==
  /\ authMiddleware(c)
  /\ exists(recs[r])
  /\ candidateOf(r) = c
  /\ unlockStep(r, c, "approve_unlock", "approve_unlock")
  /\ UNCHANGED <<users, jobs, profiles, apps, placements>>

\* rejectUnlock queues nothing, whatever the flow declares.
RejectUnlock(c, r) ==
  /\ authMiddleware(c)
  /\ exists(recs[r])
  /\ candidateOf(r) = c
  /\ \E next \in RecStatus :
       /\ applyTransition(recFlow, recs[r].status, "reject_candidate", next)
       /\ recs' = [recs EXCEPT ![r].status = next]
  /\ logUnlock(r, c, "reject_unlock")
  /\ UNCHANGED <<users, jobs, profiles, apps, outbox, placements>>

\* Mutant: no transaction, and a crash after the status is written.
UnlockContact_statusOnly(e, r) ==
  /\ authMiddleware(e)
  /\ exists(recs[r])
  /\ recs[r].employer_id = e
  /\ recs[r].status = "candidate_approved"
  /\ recs' = [recs EXCEPT ![r].status = "unlocked"]
  /\ UNCHANGED <<users, jobs, profiles, apps, audit, outbox, placements>>

\* With the contact wiped decrypt throws and the transaction rolls back.
UnlockContact(e, r) ==
  /\ authMiddleware(e)
  /\ exists(recs[r])
  /\ recs[r].employer_id = e
  /\ profiles[r[1]].has_pii
  /\ unlockStep(r, e, "unlock", "unlock_delivery")
  /\ UNCHANGED <<users, jobs, profiles, apps, placements>>
=============================================================================
