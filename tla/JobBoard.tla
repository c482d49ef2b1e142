------------------------------ MODULE JobBoard ------------------------------
(***************************************************************************)
(* Job postings: created by an employer, or by a headhunter for an employer *)
(* to claim or reject; paused, resumed and closed by the owner.            *)
(***************************************************************************)
EXTENDS Platform

insertJob(j, employer, source, createdFor) ==
  /\ ~exists(jobs[j])
  /\ jobs' = [jobs EXCEPT ![j] =
                [employer_id |-> employer, source_headhunter_id |-> source,
                 created_for_employer_id |-> createdFor, status |-> "open"]]

CreateJob(e, j) ==
  /\ authMiddleware(e)
  /\ insertJob(j, e, NULL, NULL)
  /\ UNCHANGED <<users, profiles, recs, apps, audit, outbox, placements>>

\* An unclaimed posting; it may name the employer it is meant for.
CreateJobForEmployer(h, j, createdFor) ==
  /\ authMiddleware(h)
  /\ insertJob(j, NULL, h, createdFor)
  /\ UNCHANGED <<users, profiles, recs, apps, audit, outbox, placements>>

\* Mutant: an UPDATE without "employer_id IS NULL".
ClaimJob_evenOwned(e, j) ==
  /\ authMiddleware(e)
  /\ exists(jobs[j])
  /\ jobs[j].status = "open"
  /\ jobs' = [jobs EXCEPT ![j].employer_id = e, ![j].status = "claimed"]
  /\ UNCHANGED <<users, profiles, recs, apps, audit, outbox, placements>>

\* The checks of claimJob and the guarded UPDATE of claimByEmployer.
ClaimJob(e, j) ==
  /\ authMiddleware(e)
  /\ exists(jobs[j])
  /\ jobs[j].employer_id = NULL
  /\ jobs[j].status = "open"
  /\ jobs[j].created_for_employer_id \in {NULL, e}
  /\ jobs' = [jobs EXCEPT ![j].employer_id = e, ![j].status = "claimed"]
  /\ UNCHANGED <<users, profiles, recs, apps, audit, outbox, placements>>

\* An unclaimed posting can be rejected by any employer it might be meant for.
RejectJob(e, j) ==
  /\ authMiddleware(e)
  /\ exists(jobs[j])
  /\ jobs[j].employer_id \in {NULL, e}
  /\ jobs[j].employer_id = NULL => jobs[j].created_for_employer_id \in {NULL, e}
  /\ applyTransition(jobFlow, jobs[j].status, "reject", "closed")
  /\ jobs' = [jobs EXCEPT ![j].status = "closed"]
  /\ UNCHANGED <<users, profiles, recs, apps, audit, outbox, placements>>

\* updateStatusIfCurrent: one UPDATE guarded by the owner and the status.
updateStatusIfCurrent(j, e, allowedFrom, nextStatus) ==
  /\ exists(jobs[j])
  /\ jobs[j].employer_id = e
  /\ jobs[j].status \in allowedFrom
  /\ jobs' = [jobs EXCEPT ![j].status = nextStatus]

PauseJob(e, j) ==
  /\ authMiddleware(e)
  /\ updateStatusIfCurrent(j, e, {"open"}, "paused")
  /\ UNCHANGED <<users, profiles, recs, apps, audit, outbox, placements>>

ResumeJob(e, j) ==
  /\ authMiddleware(e)
  /\ updateStatusIfCurrent(j, e, {"paused"}, "open")
  /\ UNCHANGED <<users, profiles, recs, apps, audit, outbox, placements>>

CloseJob(e, j) ==
  /\ authMiddleware(e)
  /\ updateStatusIfCurrent(j, e, {"open", "paused"}, "closed")
  /\ UNCHANGED <<users, profiles, recs, apps, audit, outbox, placements>>
=============================================================================
