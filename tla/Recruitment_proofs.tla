------------------------- MODULE Recruitment_proofs -------------------------
(***************************************************************************)
(* What the tables of Recruitment promise to one another, for any number   *)
(* of accounts, jobs and profiles.                                         *)
(***************************************************************************)
EXTENDS Recruitment, TLAPS

\* The inductive invariant: rows can be read through a recommendation's keys
\* only because its profile and its job exist, and the application of a
\* recommendation tells which of its columns are filled.
IInv == TypeOK /\ RecEmployerOwnsJob /\ ApplicationMirrorsRecommendation

\* The tables start empty.
LEMMA InitEstablishes == Init => IInv
  BY NullIsNoRow DEF Init, IInv, TypeOK, RecEmployerOwnsJob, ApplicationMirrorsRecommendation,
     UserStatus, exists

\* A recommendation that exists has a row, a profile and a job row to read.
LEMMA RowsBehind ==
  ASSUME IInv, NEW r \in Rec, exists(recs[r])
  PROVE  /\ recs[r] \in RecRow
         /\ r[1] \in Anon /\ r[2] \in Jobs
         /\ profiles[r[1]] \in ProfileRow
         /\ jobs[r[2]] \in JobRow
         /\ candidateOf(r) \in Candidates
  <1>1. r[1] \in Anon /\ r[2] \in Jobs
    BY DEF Rec
  <1>2. recs[r] \in RecRow
    BY DEF IInv, TypeOK, exists
  <1>3. profiles[r[1]] \in ProfileRow /\ jobs[r[2]] \in JobRow
    BY <1>1 DEF IInv, TypeOK, RecEmployerOwnsJob, exists
  <1> QED
    BY <1>1, <1>2, <1>3 DEF candidateOf, ProfileRow

\* Job handlers write jobs only, keep the owner of a job that has one, and
\* give an open posting only to the employer it was made for.
LEMMA JobStep ==
  ASSUME IInv, JobNext
  PROVE  IInv'
  <1>1. PICK j \in Jobs :
          \/ \E e \in Employers : \/ CreateJob(e, j) \/ ClaimJob(e, j) \/ RejectJob(e, j)
                                  \/ PauseJob(e, j) \/ ResumeJob(e, j) \/ CloseJob(e, j)
          \/ \E h \in Hunters, createdFor \in Employers \union {NULL} :
               CreateJobForEmployer(h, j, createdFor)
    BY DEF JobNext
  <1> DEFINE KeepsOwner ==
        /\ UNCHANGED <<users, profiles, recs, apps, audit, outbox, placements>>
        /\ \E row \in JobRow :
             /\ jobs' = [jobs EXCEPT ![j] = row]
             /\ exists(jobs[j]) /\ jobs[j].employer_id # NULL =>
                  row.employer_id = jobs[j].employer_id
             /\ row.employer_id # NULL =>
                  row.created_for_employer_id \in {NULL, row.employer_id}
  <1>2. ASSUME NEW e \in Employers, CreateJob(e, j) PROVE KeepsOwner
    <2> DEFINE row == [employer_id |-> e, source_headhunter_id |-> NULL,
                       created_for_employer_id |-> NULL, status |-> "open"]
    <2>1. row \in JobRow
      BY DEF JobRow, JobStatus
    <2> QED
      BY <1>2, <2>1 DEF CreateJob, insertJob, exists
  <1>3. ASSUME NEW h \in Hunters, NEW createdFor \in Employers \union {NULL},
               CreateJobForEmployer(h, j, createdFor)
        PROVE  KeepsOwner
    <2> DEFINE row == [employer_id |-> NULL, source_headhunter_id |-> h,
                       created_for_employer_id |-> createdFor, status |-> "open"]
    <2>1. row \in JobRow
      BY DEF JobRow, JobStatus
    <2> QED
      BY <1>3, <2>1 DEF CreateJobForEmployer, insertJob, exists
  <1>4. ASSUME NEW e \in Employers, ClaimJob(e, j) PROVE KeepsOwner
    <2> DEFINE row == [jobs[j] EXCEPT !.employer_id = e, !.status = "claimed"]
    <2>1. jobs[j] \in JobRow
      BY <1>4 DEF ClaimJob, IInv, TypeOK, exists
    <2>2. row \in JobRow /\ jobs' = [jobs EXCEPT ![j] = row]
      BY <1>4, <2>1 DEF ClaimJob, JobRow, JobStatus, IInv, TypeOK
    <2>3. row.employer_id = e /\ row.created_for_employer_id \in {NULL, e}
      BY <1>4, <2>1 DEF ClaimJob, JobRow
    <2>4. jobs[j].employer_id = NULL
      BY <1>4 DEF ClaimJob
    <2> HIDE DEF row
    <2> QED
      BY <1>4, <2>2, <2>3, <2>4 DEF ClaimJob
  <1>5. ASSUME exists(jobs[j]), NEW next \in JobStatus,
               jobs' = [jobs EXCEPT ![j].status = next],
               UNCHANGED <<users, profiles, recs, apps, audit, outbox, placements>>
        PROVE  KeepsOwner
    <2> DEFINE row == [jobs[j] EXCEPT !.status = next]
    <2>1. jobs[j] \in JobRow
      BY <1>5 DEF IInv, TypeOK, exists
    <2>2. row \in JobRow /\ jobs' = [jobs EXCEPT ![j] = row]
      BY <1>5, <2>1 DEF JobRow, IInv, TypeOK
    <2>3. /\ row.employer_id = jobs[j].employer_id
          /\ row.employer_id # NULL =>
               row.created_for_employer_id \in {NULL, row.employer_id}
      BY <1>5, <2>1 DEF JobRow, IInv, RecEmployerOwnsJob
    <2> HIDE DEF row
    <2> QED
      BY <1>5, <2>2, <2>3
  <1>6. KeepsOwner
    BY <1>1, <1>2, <1>3, <1>4, <1>5 DEF RejectJob, PauseJob, ResumeJob, CloseJob,
       updateStatusIfCurrent, JobStatus
  <1>7. TypeOK'
    BY <1>6 DEF IInv, TypeOK
  <1>8. RecEmployerOwnsJob'
    <2>1. PICK row \in JobRow :
            /\ jobs' = [jobs EXCEPT ![j] = row]
            /\ exists(jobs[j]) /\ jobs[j].employer_id # NULL =>
                 row.employer_id = jobs[j].employer_id
            /\ row.employer_id # NULL =>
                 row.created_for_employer_id \in {NULL, row.employer_id}
      BY <1>6
    <2>2. row # NULL
      BY NullIsNoRow
    <2>3. jobs'[j] = row /\ \A k \in Jobs \ {j} : jobs'[k] = jobs[k]
      BY <2>1 DEF IInv, TypeOK
    <2>4. ASSUME NEW k \in Jobs, exists(jobs'[k]), jobs'[k].employer_id # NULL
          PROVE  jobs'[k].created_for_employer_id \in {NULL, jobs'[k].employer_id}
      BY <2>1, <2>3, <2>4 DEF IInv, RecEmployerOwnsJob
    <2>5. ASSUME NEW r \in Rec, exists(recs[r])
          PROVE  /\ exists(profiles[r[1]]) /\ profiles[r[1]].has_anon
                 /\ exists(jobs'[r[2]])
                 /\ jobs'[r[2]].employer_id = recs[r].employer_id
      <3>1. /\ r[2] \in Jobs
            /\ exists(profiles[r[1]]) /\ profiles[r[1]].has_anon
            /\ exists(jobs[r[2]])
            /\ jobs[r[2]].employer_id = recs[r].employer_id
        BY <2>5, RowsBehind DEF IInv, RecEmployerOwnsJob
      <3>2. recs[r].employer_id # NULL
        BY <2>5, RowsBehind, NullIsNoRow DEF RecRow, User
      <3> QED
        BY <2>1, <2>2, <2>3, <3>1, <3>2 DEF exists
    <2> QED
      BY <1>6, <2>4, <2>5 DEF RecEmployerOwnsJob, exists
  <1>9. ApplicationMirrorsRecommendation'
    BY <1>6 DEF IInv, ApplicationMirrorsRecommendation, exists, candidateOf
  <1> QED
    BY <1>7, <1>8, <1>9 DEF IInv

\* An upload fills an id no recommendation uses yet.
LEMMA UploadStep ==
  ASSUME IInv, UploadNext
  PROVE  IInv'
  <1>1. PICK h \in Hunters, c \in Candidates, a \in Anon, hasAnon \in BOOLEAN :
          /\ ~exists(profiles[a])
          /\ profiles' = [profiles EXCEPT ![a] =
                            [headhunter_id |-> h, candidate_user_id |-> c,
                             has_anon |-> hasAnon, has_pii |-> TRUE,
                             is_public_pool |-> FALSE]]
          /\ UNCHANGED <<users, jobs, recs, apps, audit, outbox, placements>>
    BY DEF UploadNext, UploadCandidate, UploadCandidateInterrupted, insertProfile
  <1>2. TypeOK'
    BY <1>1 DEF IInv, TypeOK, ProfileRow
  <1>3. \A r \in Rec : exists(recs[r]) => r[1] # a /\ r[1] \in Anon
    BY <1>1, RowsBehind DEF IInv, RecEmployerOwnsJob
  <1>4. \A r \in Rec : exists(recs[r]) => profiles'[r[1]] = profiles[r[1]]
    BY <1>1, <1>3 DEF IInv, TypeOK
  <1>5. RecEmployerOwnsJob'
    BY <1>1, <1>4 DEF IInv, RecEmployerOwnsJob, exists
  <1>6. ApplicationMirrorsRecommendation'
    BY <1>1, <1>4 DEF IInv, ApplicationMirrorsRecommendation, exists, candidateOf
  <1> QED
    BY <1>2, <1>5, <1>6 DEF IInv

\* Publishing a profile, or removing it from the pool, leaves what the
\* recommendations need of it.
LEMMA PoolStep ==
  ASSUME IInv, PoolNext
  PROVE  IInv'
  <1>1. PICK a \in Anon, isPublic \in BOOLEAN :
          /\ exists(profiles[a])
          /\ profiles' = [profiles EXCEPT ![a].is_public_pool = isPublic]
          /\ UNCHANGED <<users, jobs, recs, apps, audit, outbox, placements>>
    BY BoundsAreWithinTheSystem DEF PoolNext, PublishToPool, RemoveFromPool, setPool
  <1>2. profiles[a] \in ProfileRow
    BY <1>1 DEF IInv, TypeOK, exists
  <1>3. /\ profiles'[a] \in ProfileRow
        /\ profiles'[a].has_anon = profiles[a].has_anon
        /\ profiles'[a].candidate_user_id = profiles[a].candidate_user_id
    BY <1>1, <1>2 DEF IInv, TypeOK, ProfileRow
  <1>4. \A b \in Anon \ {a} : profiles'[b] = profiles[b]
    BY <1>1 DEF IInv, TypeOK
  <1>5. TypeOK'
    BY <1>1, <1>3 DEF IInv, TypeOK
  <1>6. \A r \in Rec : exists(recs[r]) =>
          /\ exists(profiles'[r[1]])
          /\ profiles'[r[1]].has_anon = profiles[r[1]].has_anon
          /\ profiles'[r[1]].candidate_user_id = profiles[r[1]].candidate_user_id
    <2> SUFFICES ASSUME NEW r \in Rec, exists(recs[r])
                 PROVE  /\ exists(profiles'[r[1]])
                        /\ profiles'[r[1]].has_anon = profiles[r[1]].has_anon
                        /\ profiles'[r[1]].candidate_user_id
                             = profiles[r[1]].candidate_user_id
      OBVIOUS
    <2>1. r[1] \in Anon /\ exists(profiles[r[1]])
      BY DEF IInv, RecEmployerOwnsJob, Rec
    <2> QED
      BY <2>1, <1>3, <1>4, NullIsNoRow DEF exists
  <1>7. RecEmployerOwnsJob'
    BY <1>1, <1>6 DEF IInv, RecEmployerOwnsJob, exists
  <1>8. ApplicationMirrorsRecommendation'
    BY <1>1, <1>6 DEF IInv, ApplicationMirrorsRecommendation, exists, candidateOf
  <1> QED
    BY <1>5, <1>7, <1>8 DEF IInv

\* What ApplicationMirrorsRecommendation says of one existing recommendation.
Mirrors(row, app, c) ==
  /\ exists(app) =>
       /\ app.candidate_user_id = c
       /\ app.pickup_headhunter_id = row.pickup_headhunter_id
       /\ row.status = "pending_pickup" => row.pickup_headhunter_id = NULL
       /\ row.status \notin {"pending_pickup", "withdrawn"} =>
            row.pickup_headhunter_id # NULL
       /\ app.withdrawn => row.status = "withdrawn"
  /\ ~exists(app) =>
       /\ row.headhunter_id # NULL
       /\ row.pickup_headhunter_id = NULL
       /\ row.status # "pending_pickup"

LEMMA MirrorsHolds ==
  ASSUME IInv, NEW r \in Rec, exists(recs[r])
  PROVE  Mirrors(recs[r], apps[r], candidateOf(r))
  BY DEF IInv, ApplicationMirrorsRecommendation, Mirrors

\* A step that writes the rows of one recommendation, existing or new, keeps
\* the invariant if the employer fits the job and the two rows agree.
LEMMA RowStep ==
  ASSUME IInv, NEW r \in Rec,
         NEW row \in RecRow, NEW app \in AppRow \union {NULL},
         recs' = [recs EXCEPT ![r] = row],
         apps' = [apps EXCEPT ![r] = app],
         /\ exists(profiles[r[1]]) /\ profiles[r[1]].has_anon
         /\ exists(jobs[r[2]])
         /\ jobs[r[2]].employer_id = row.employer_id,
         Mirrors(row, app, candidateOf(r)),
         UNCHANGED <<users, jobs, profiles, placements>>,
         audit' \in [Rec -> Seq(AuditRow)],
         outbox' \subseteq OutboxRow
  PROVE  IInv'
  <1>1. TypeOK'
    BY DEF IInv, TypeOK
  <1>2. row # NULL
    BY NullIsNoRow
  <1>3. /\ recs'[r] = row /\ apps'[r] = app
        /\ \A q \in Rec \ {r} : recs'[q] = recs[q] /\ apps'[q] = apps[q]
    BY DEF IInv, TypeOK
  <1>4. RecEmployerOwnsJob'
    BY <1>3 DEF IInv, RecEmployerOwnsJob, exists
  <1>5. ApplicationMirrorsRecommendation'
    <2> SUFFICES ASSUME NEW q \in Rec, exists(recs'[q]) \/ exists(apps'[q])
                 PROVE  exists(recs'[q]) /\ Mirrors(recs'[q], apps'[q], candidateOf(q))
      BY DEF ApplicationMirrorsRecommendation, Mirrors, exists, candidateOf
    <2>1. CASE q = r
      BY <2>1, <1>2, <1>3 DEF exists
    <2>2. CASE q # r
      BY <2>2, <1>3 DEF IInv, ApplicationMirrorsRecommendation, Mirrors, exists
    <2> QED
      BY <2>1, <2>2
  <1> QED
    BY <1>1, <1>4, <1>5 DEF IInv

\* RowStep for a recommendation that keeps its employer.
LEMMA ExistingRowStep ==
  ASSUME IInv, NEW r \in Rec, exists(recs[r]),
         NEW row \in RecRow, NEW app \in AppRow \union {NULL},
         row.employer_id = recs[r].employer_id,
         recs' = [recs EXCEPT ![r] = row],
         apps' = [apps EXCEPT ![r] = app],
         Mirrors(row, app, candidateOf(r)),
         UNCHANGED <<users, jobs, profiles, placements>>,
         audit' \in [Rec -> Seq(AuditRow)],
         outbox' \subseteq OutboxRow
  PROVE  IInv'
  <1>1. /\ exists(profiles[r[1]]) /\ profiles[r[1]].has_anon
        /\ exists(jobs[r[2]])
        /\ jobs[r[2]].employer_id = row.employer_id
    BY DEF IInv, RecEmployerOwnsJob
  <1> QED
    BY <1>1, RowStep

\* A change of status that leaves the application alone.
LEMMA StatusStep ==
  ASSUME IInv, NEW r \in Rec, exists(recs[r]), NEW next \in RecStatus,
         recs[r].status # "withdrawn", next # "pending_pickup",
         recs[r].status = "pending_pickup" => next = "withdrawn",
         recs' = [recs EXCEPT ![r].status = next],
         UNCHANGED <<users, jobs, profiles, apps, placements>>,
         audit' \in [Rec -> Seq(AuditRow)],
         outbox' \subseteq OutboxRow
  PROVE  IInv'
  <1> DEFINE row == [recs[r] EXCEPT !.status = next]
  <1>1. recs[r] \in RecRow
    BY RowsBehind
  <1>2. /\ row \in RecRow
        /\ row.status = next
        /\ row.employer_id = recs[r].employer_id
        /\ row.headhunter_id = recs[r].headhunter_id
        /\ row.pickup_headhunter_id = recs[r].pickup_headhunter_id
    BY <1>1 DEF RecRow
  <1>3. recs' = [recs EXCEPT ![r] = row]
    BY DEF IInv, TypeOK
  <1>4. apps[r] \in AppRow \union {NULL} /\ apps' = [apps EXCEPT ![r] = apps[r]]
    BY DEF IInv, TypeOK
  <1>5. Mirrors(row, apps[r], candidateOf(r))
    <2> HIDE DEF row
    <2> QED
      BY <1>2, MirrorsHolds DEF Mirrors
  <1> HIDE DEF row
  <1> QED
    BY <1>2, <1>3, <1>4, <1>5, ExistingRowStep

LEMMA SideEffectsAreRows ==
  ASSUME IInv, NEW r \in Rec, exists(recs[r]), NEW from, NEW next
  PROVE  sideEffects(r, from, next) \subseteq OutboxRow
  <1>1. candidateOf(r) \in User /\ recs[r].employer_id \in User
    BY RowsBehind DEF RecRow, User
  <1>2. \A s \in REC_SIDE_EFFECTS : s.target \in {"candidate", "employer"}
    BY DEF REC_SIDE_EFFECTS
  <1>3. \A s \in REC_SIDE_EFFECTS : s.pii = TRUE \/ s.pii = FALSE
    BY DEF REC_SIDE_EFFECTS
  <1> SUFFICES ASSUME NEW s \in REC_SIDE_EFFECTS
               PROVE  [rec |-> r, event |-> s.event, role |-> s.target,
                       target |-> IF s.target = "candidate" THEN candidateOf(r)
                                  ELSE recs[r].employer_id,
                       pii |-> s.pii] \in OutboxRow
    BY DEF sideEffects
  <1>4. s.event \in {t.event : t \in REC_SIDE_EFFECTS}
    OBVIOUS
  <1> QED
    BY <1>1, <1>2, <1>3, <1>4 DEF OutboxRow

LEMMA LogIsTyped ==
  ASSUME IInv, NEW r \in Rec, NEW u \in User,
         NEW action \in {"express_interest", "approve_unlock", "reject_unlock",
                         "unlock_delivery"},
         logUnlock(r, u, action)
  PROVE  audit' \in [Rec -> Seq(AuditRow)]
  <1>1. [action |-> action, actor_user_id |-> u] \in AuditRow
    BY DEF AuditRow
  <1>2. Append(audit[r], [action |-> action, actor_user_id |-> u]) \in Seq(AuditRow)
    BY <1>1 DEF IInv, TypeOK
  <1> QED
    BY <1>2 DEF logUnlock, IInv, TypeOK

\* The three unlock steps that log and queue: they start from a status only a
\* recommendation past its pickup can have.
LEMMA UnlockStepPreserves ==
  ASSUME IInv, NEW r \in Rec, exists(recs[r]), NEW u \in User,
         NEW event \in {"express_interest", "approve_unlock", "unlock"},
         NEW action \in {"express_interest", "approve_unlock", "unlock_delivery"},
         unlockStep(r, u, event, action),
         UNCHANGED <<users, jobs, profiles, apps, placements>>
  PROVE  IInv'
  <1>1. PICK next \in RecStatus :
          /\ applyTransition(recFlow, recs[r].status, event, next)
          /\ recs' = [recs EXCEPT ![r].status = next]
          /\ logUnlock(r, u, action)
          /\ outbox' = outbox \union sideEffects(r, recs[r].status, next)
    BY DEF unlockStep
  <1>2. recs[r].status \notin {"withdrawn", "pending_pickup"} /\ next # "pending_pickup"
    BY <1>1 DEF applyTransition, recFlow
  <1>3. audit' \in [Rec -> Seq(AuditRow)]
    BY <1>1, LogIsTyped
  <1>4. outbox' \subseteq OutboxRow
    BY <1>1, SideEffectsAreRows DEF IInv, TypeOK
  <1> QED
    BY <1>1, <1>2, <1>3, <1>4, StatusStep

LEMMA TablesTyped ==
  ASSUME IInv
  PROVE  audit \in [Rec -> Seq(AuditRow)] /\ outbox \subseteq OutboxRow
  BY DEF IInv, TypeOK

\* Headhunters make recommendations, withdraw them, and own what they pick up.
LEMMA HunterStep ==
  ASSUME IInv, HunterNext
  PROVE  IInv'
  <1>1. PICK h \in Hunters, r \in Rec :
          \/ \E referrer \in Referrers : RecommendCandidate(h, r, referrer)
          \/ WithdrawRecommendation(h, r)
          \/ Pickup(h, r)
          \/ \E stage \in ColumnStages : AddCard(h, r, stage) \/ MoveCard(h, r, stage)
          \/ RemoveCard(h, r)
    BY DEF HunterNext, HunterCalls, BoardNext
  <1> USE TablesTyped
  <1>2. ASSUME NEW referrer \in Referrers, RecommendCandidate(h, r, referrer) PROVE IInv'
    <2> DEFINE row == [status |-> "pending", headhunter_id |-> h,
                       employer_id |-> jobs[r[2]].employer_id,
                       pickup_headhunter_id |-> NULL,
                       referrer_headhunter_id |-> referrer, pipeline_stage |-> "submitted"]
    <2>1. r[2] \in Jobs /\ exists(jobs[r[2]]) /\ jobs[r[2]].employer_id # NULL
      BY <1>2 DEF RecommendCandidate, Rec
    <2>2. jobs[r[2]] \in JobRow
      BY <2>1 DEF IInv, TypeOK, exists
    <2>3. row \in RecRow
      BY <2>1, <2>2, BoundsAreWithinTheSystem
         DEF RecRow, JobRow, RecStatus, PipelineStage, PIPELINE_STAGES
    <2>4. ~exists(apps[r]) /\ apps[r] \in AppRow \union {NULL}
          /\ apps' = [apps EXCEPT ![r] = apps[r]]
      BY <1>2 DEF RecommendCandidate, IInv, TypeOK, ApplicationMirrorsRecommendation
    <2>6. h # NULL
      BY NullIsNoRow DEF User
    <2>7. Mirrors(row, apps[r], candidateOf(r))
      BY <2>4, <2>6 DEF Mirrors
    <2>8. recs' = [recs EXCEPT ![r] = row]
      BY <1>2 DEF RecommendCandidate
    <2> QED
      BY <1>2, <2>1, <2>3, <2>4, <2>7, <2>8, RowStep DEF RecommendCandidate
  <1>3. ASSUME WithdrawRecommendation(h, r) PROVE IInv'
    BY <1>3, StatusStep DEF WithdrawRecommendation, RecStatus
  <1>4. ASSUME Pickup(h, r) PROVE IInv'
    <2> DEFINE row == [recs[r] EXCEPT !.pickup_headhunter_id = h, !.status = "pending"]
               app == [apps[r] EXCEPT !.pickup_headhunter_id = h]
    <2>1. exists(recs[r]) /\ recs[r] \in RecRow /\ exists(apps[r]) /\ apps[r] \in AppRow
      BY <1>4, RowsBehind DEF Pickup, IInv, TypeOK, exists
    <2>2. /\ row \in RecRow
          /\ row.status = "pending" /\ row.pickup_headhunter_id = h
          /\ row.employer_id = recs[r].employer_id
      BY <2>1 DEF RecRow, RecStatus
    <2>3. /\ app \in AppRow
          /\ app.pickup_headhunter_id = h
          /\ app.candidate_user_id = apps[r].candidate_user_id
          /\ app.withdrawn = apps[r].withdrawn
      BY <2>1 DEF AppRow
    <2>4. recs' = [recs EXCEPT ![r] = row] /\ apps' = [apps EXCEPT ![r] = app]
      BY <1>4 DEF Pickup, IInv, TypeOK
    <2>5. h # NULL /\ app # NULL
      BY <2>3, NullIsNoRow DEF User
    <2> HIDE DEF row, app
    <2>6. Mirrors(row, app, candidateOf(r))
      BY <1>4, <2>1, <2>2, <2>3, <2>5, MirrorsHolds DEF Mirrors, Pickup, exists
    <2> QED
      BY <1>4, <2>1, <2>2, <2>3, <2>4, <2>6, ExistingRowStep DEF Pickup
  <1> DEFINE SetStage(owner, stage) ==
        /\ exists(recs[r])
        /\ recs' = [recs EXCEPT ![r].headhunter_id = owner, ![r].pipeline_stage = stage]
        /\ UNCHANGED <<users, jobs, profiles, apps, audit, outbox, placements>>
  <1>5. ASSUME NEW owner \in Hunters, NEW stage \in PipelineStage, SetStage(owner, stage)
        PROVE  IInv'
    <2> DEFINE row == [recs[r] EXCEPT !.headhunter_id = owner, !.pipeline_stage = stage]
    <2>1. recs[r] \in RecRow
      BY <1>5, RowsBehind
    <2>2. /\ row \in RecRow
          /\ row.status = recs[r].status
          /\ row.headhunter_id = owner
          /\ row.pickup_headhunter_id = recs[r].pickup_headhunter_id
          /\ row.employer_id = recs[r].employer_id
      BY <2>1 DEF RecRow
    <2>3. recs' = [recs EXCEPT ![r] = row]
      BY <1>5 DEF IInv, TypeOK
    <2>4. apps[r] \in AppRow \union {NULL} /\ apps' = [apps EXCEPT ![r] = apps[r]]
      BY <1>5 DEF IInv, TypeOK
    <2>5. owner # NULL
      BY NullIsNoRow DEF User
    <2> HIDE DEF row
    <2>6. Mirrors(row, apps[r], candidateOf(r))
      BY <1>5, <2>2, <2>5, MirrorsHolds DEF Mirrors
    <2> QED
      BY <1>5, <2>2, <2>3, <2>4, <2>6, ExistingRowStep
  <1>6. ASSUME NEW stage \in PipelineStage,
               exists(recs[r]), recs[r].headhunter_id = h,
               recs' = [recs EXCEPT ![r].pipeline_stage = stage],
               UNCHANGED <<users, jobs, profiles, apps, audit, outbox, placements>>
        PROVE  IInv'
    <2>1. recs[r] \in RecRow
      BY <1>6, RowsBehind
    <2>2. recs[r] = [recs[r] EXCEPT !.headhunter_id = h]
      BY <1>6, <2>1 DEF RecRow
    <2>3. recs' = [recs EXCEPT ![r].headhunter_id = h, ![r].pipeline_stage = stage]
      BY <1>6, <2>1, <2>2 DEF IInv, TypeOK, RecRow
    <2> QED
      BY <1>5, <1>6, <2>3
  <1>7. ColumnStages \subseteq PipelineStage /\ "rejected" \in PipelineStage
    BY BoundsAreWithinTheSystem DEF PipelineStage
  <1> HIDE DEF SetStage
  <1>8. ASSUME NEW stage \in ColumnStages, AddCard(h, r, stage) PROVE IInv'
    BY <1>5, <1>7, <1>8 DEF AddCard, claimRec, SetStage
  <1>9. ASSUME NEW stage \in ColumnStages, MoveCard(h, r, stage) PROVE IInv'
    BY <1>6, <1>7, <1>9 DEF MoveCard, updateCard
  <1>10. ASSUME RemoveCard(h, r) PROVE IInv'
    BY <1>6, <1>7, <1>10 DEF RemoveCard, rejectRec
  <1> QED
    BY <1>1, <1>2, <1>3, <1>4, <1>8, <1>9, <1>10

\* Steps that write none of jobs, profiles, recs and apps.
LEMMA OtherTables ==
  ASSUME IInv, UNCHANGED <<jobs, profiles, recs, apps>>, TypeOK'
  PROVE  IInv'
  BY DEF IInv, RecEmployerOwnsJob, ApplicationMirrorsRecommendation, exists, candidateOf

\* Employers ask, unlock and report hires.
LEMMA EmployerStep ==
  ASSUME IInv, EmployerNext
  PROVE  IInv'
  <1>1. PICK e \in Employers, r \in Rec :
          \/ ExpressInterest(e, r)
          \/ UnlockContact(e, r)
          \/ \E told \in {"nobody", "primary", "both"} : CreatePlacement(e, r, told)
    BY DEF EmployerNext
  <1>2. e \in User
    BY DEF User
  <1>3. ASSUME ExpressInterest(e, r) PROVE IInv'
    BY <1>2, <1>3, UnlockStepPreserves DEF ExpressInterest
  <1>4. ASSUME UnlockContact(e, r) PROVE IInv'
    BY <1>2, <1>4, UnlockStepPreserves DEF UnlockContact
  <1>5. ASSUME NEW told \in {"nobody", "primary", "both"}, CreatePlacement(e, r, told)
        PROVE  IInv'
    <2> DEFINE p == newPlacement(r)
    <2>1. exists(recs[r]) /\ recs[r] \in RecRow /\ jobs[r[2]] \in JobRow
      BY <1>5, RowsBehind DEF CreatePlacement
    <2>2. referrerForCommission(r) \in User \union {NULL}
      BY <2>1 DEF referrerForCommission, RecRow, JobRow, User
    <2>3. recs[r].headhunter_id \in Hunters
      BY <1>5, <2>1 DEF CreatePlacement, RecRow
    <2>4. p \in PlacementRow
      BY <2>2, <2>3 DEF newPlacement, PlacementRow
    <2>5. toPrimary(p) \in OutboxRow
      BY <2>3 DEF toPrimary, placementWebhook, OutboxRow, newPlacement, User
    <2>6. p.referrer_headhunter_id # NULL => toReferrer(p) \in OutboxRow
      BY <2>2 DEF toReferrer, placementWebhook, OutboxRow, newPlacement
    <2>7. outbox' \subseteq OutboxRow
      BY <1>5, <2>5, <2>6, TablesTyped DEF CreatePlacement, tellPayees
    <2>8. TypeOK'
      BY <1>5, <2>4, <2>7 DEF CreatePlacement, IInv, TypeOK
    <2> QED
      BY <1>5, <2>8, OtherTables DEF CreatePlacement
  <1> QED
    BY <1>1, <1>3, <1>4, <1>5

\* Candidates answer, apply, and have themselves erased.
LEMMA CandidateStep ==
  ASSUME IInv, CandidateNext
  PROVE  IInv'
  <1>1. PICK c \in Candidates :
          \/ \E r \in Rec :
               \/ ApproveUnlock(c, r) \/ RejectUnlock(c, r)
               \/ Apply(c, r)
               \/ \E action \in {"withdraw", "consider_offer", "accept_offer",
                                 "decline_offer"} : Respond(c, r, action)
          \/ DeleteMyData(c)
    BY DEF CandidateNext
  <1>2. c \in User
    BY DEF User
  <1>3. ASSUME NEW r \in Rec, ApproveUnlock(c, r) PROVE IInv'
    BY <1>2, <1>3, UnlockStepPreserves DEF ApproveUnlock
  <1>4. ASSUME NEW r \in Rec, RejectUnlock(c, r) PROVE IInv'
    <2>1. PICK next \in RecStatus :
            /\ applyTransition(recFlow, recs[r].status, "reject_candidate", next)
            /\ recs' = [recs EXCEPT ![r].status = next]
      BY <1>4 DEF RejectUnlock
    <2>2. recs[r].status \notin {"withdrawn", "pending_pickup"} /\ next # "pending_pickup"
      BY <2>1 DEF applyTransition, recFlow
    <2>3. audit' \in [Rec -> Seq(AuditRow)]
      BY <1>2, <1>4, LogIsTyped DEF RejectUnlock
    <2> QED
      BY <1>4, <2>1, <2>2, <2>3, StatusStep, TablesTyped DEF RejectUnlock
  <1>5. ASSUME NEW r \in Rec, Apply(c, r) PROVE IInv'
    <2> DEFINE row == [status |-> "pending_pickup", headhunter_id |-> NULL,
                       employer_id |-> jobs[r[2]].employer_id,
                       pickup_headhunter_id |-> NULL,
                       referrer_headhunter_id |-> NULL, pipeline_stage |-> "submitted"]
               app == [candidate_user_id |-> c, pickup_headhunter_id |-> NULL,
                       withdrawn |-> FALSE]
    <2>1. r[2] \in Jobs /\ exists(jobs[r[2]]) /\ jobs[r[2]].employer_id # NULL
      BY <1>5 DEF Apply, Rec
    <2>2. jobs[r[2]] \in JobRow
      BY <2>1 DEF IInv, TypeOK, exists
    <2>3. row \in RecRow
      BY <2>1, <2>2 DEF RecRow, JobRow, RecStatus, PipelineStage, PIPELINE_STAGES
    <2>4. app \in AppRow
      BY DEF AppRow
    <2>5. app # NULL
      BY <2>4, NullIsNoRow
    <2>6. recs' = [recs EXCEPT ![r] = row] /\ apps' = [apps EXCEPT ![r] = app]
      BY <1>5 DEF Apply, insertApplication
    <2>7. candidateOf(r) = c /\ exists(profiles[r[1]]) /\ profiles[r[1]].has_anon
      BY <1>5 DEF Apply, candidateOf, profilesOf
    <2>8. Mirrors(row, app, candidateOf(r))
      BY <2>5, <2>7 DEF Mirrors, exists
    <2> QED
      BY <1>5, <2>1, <2>3, <2>4, <2>6, <2>7, <2>8, RowStep, TablesTyped DEF Apply
  <1>6. ASSUME NEW r \in Rec,
               NEW action \in {"withdraw", "consider_offer", "accept_offer", "decline_offer"},
               Respond(c, r, action)
        PROVE  IInv'
    <2>1. PICK next \in RecStatus :
            /\ applyTransition(recFlow, recs[r].status, action, next)
            /\ recs' = [recs EXCEPT ![r].status = next]
      BY <1>6 DEF Respond
    <2> DEFINE row == [recs[r] EXCEPT !.status = next]
               app == [apps[r] EXCEPT !.withdrawn = @ \/ action = "withdraw"]
    <2>2. exists(apps[r]) /\ apps[r] \in AppRow /\ exists(recs[r]) /\ recs[r] \in RecRow
      BY <1>6, RowsBehind DEF Respond, IInv, TypeOK, ApplicationMirrorsRecommendation, exists
    <2>3. /\ row \in RecRow
          /\ row.status = next
          /\ row.employer_id = recs[r].employer_id
          /\ row.pickup_headhunter_id = recs[r].pickup_headhunter_id
      BY <2>2 DEF RecRow
    <2>4. /\ app \in AppRow
          /\ app.candidate_user_id = apps[r].candidate_user_id
          /\ app.pickup_headhunter_id = apps[r].pickup_headhunter_id
          /\ app.withdrawn <=> apps[r].withdrawn \/ action = "withdraw"
      BY <2>2 DEF AppRow
    <2>5. recs' = [recs EXCEPT ![r] = row] /\ apps' = [apps EXCEPT ![r] = app]
      BY <1>6, <2>1 DEF Respond, IInv, TypeOK
    <2>6. /\ recs[r].status # "withdrawn" /\ next # "pending_pickup"
          /\ recs[r].status = "pending_pickup" => next = "withdrawn"
          /\ action = "withdraw" => next = "withdrawn"
      BY <2>1 DEF applyTransition, recFlow
    <2>7. app # NULL
      BY <2>4, NullIsNoRow
    <2> HIDE DEF row, app
    <2>8. Mirrors(row, app, candidateOf(r))
      BY <2>2, <2>3, <2>4, <2>6, <2>7, MirrorsHolds DEF Mirrors, exists
    <2> QED
      BY <1>6, <2>2, <2>3, <2>4, <2>5, <2>8, ExistingRowStep, TablesTyped DEF Respond
  <1>7. ASSUME DeleteMyData(c) PROVE IInv'
    <2>1. /\ users' \in [User -> UserStatus]
          /\ UNCHANGED <<jobs, apps, audit, outbox, placements>>
      BY <1>7 DEF DeleteMyData, IInv, TypeOK, UserStatus
    <2>2. \A a \in Anon :
            /\ profiles'[a] \in ProfileRow \union {NULL}
            /\ exists(profiles[a]) =>
                 /\ profiles'[a] \in ProfileRow
                 /\ profiles'[a].candidate_user_id = profiles[a].candidate_user_id
                 /\ profiles'[a].has_anon = profiles[a].has_anon
      <3> SUFFICES ASSUME NEW a \in Anon
                   PROVE  /\ profiles'[a] \in ProfileRow \union {NULL}
                          /\ exists(profiles[a]) =>
                               /\ profiles'[a] \in ProfileRow
                               /\ profiles'[a].candidate_user_id = profiles[a].candidate_user_id
                               /\ profiles'[a].has_anon = profiles[a].has_anon
        OBVIOUS
      <3>1. profiles'[a] = IF a \in profilesOf(c)
                           THEN [profiles[a] EXCEPT !.has_pii = FALSE] ELSE profiles[a]
        BY <1>7 DEF DeleteMyData
      <3>2. profiles[a] \in ProfileRow \union {NULL}
        BY DEF IInv, TypeOK
      <3>3. a \in profilesOf(c) => exists(profiles[a])
        BY DEF profilesOf
      <3>4. exists(profiles[a]) => profiles[a] \in ProfileRow
        BY <3>2 DEF exists
      <3>5. ASSUME profiles[a] \in ProfileRow
            PROVE  LET p == [profiles[a] EXCEPT !.has_pii = FALSE]
                   IN  /\ p \in ProfileRow
                       /\ p.candidate_user_id = profiles[a].candidate_user_id
                       /\ p.has_anon = profiles[a].has_anon
        BY <3>5 DEF ProfileRow
      <3> QED
        BY <3>1, <3>2, <3>3, <3>4, <3>5
    <2>3. \A r \in Rec :
            /\ recs'[r] \in RecRow \union {NULL}
            /\ exists(recs[r]) =>
                 /\ recs'[r] \in RecRow
                 /\ recs'[r].employer_id = recs[r].employer_id
                 /\ recs'[r].headhunter_id = recs[r].headhunter_id
                 /\ recs'[r].pickup_headhunter_id = recs[r].pickup_headhunter_id
                 /\ recs'[r].status \in {recs[r].status, "withdrawn"}
            /\ ~exists(recs[r]) => ~exists(recs'[r])
      <3> SUFFICES ASSUME NEW r \in Rec
                   PROVE  /\ recs'[r] \in RecRow \union {NULL}
                          /\ exists(recs[r]) =>
                               /\ recs'[r] \in RecRow
                               /\ recs'[r].employer_id = recs[r].employer_id
                               /\ recs'[r].headhunter_id = recs[r].headhunter_id
                               /\ recs'[r].pickup_headhunter_id = recs[r].pickup_headhunter_id
                               /\ recs'[r].status \in {recs[r].status, "withdrawn"}
                          /\ ~exists(recs[r]) => ~exists(recs'[r])
        OBVIOUS
      <3>1. recs'[r] \in {recs[r], [recs[r] EXCEPT !.status = "withdrawn"]}
        BY <1>7 DEF DeleteMyData
      <3>2. ~exists(recs[r]) => recs'[r] = recs[r]
        BY <1>7 DEF DeleteMyData
      <3>3. recs[r] \in RecRow \union {NULL}
        BY DEF IInv, TypeOK
      <3>4. exists(recs[r]) => recs[r] \in RecRow
        BY <3>3 DEF exists
      <3>5. ASSUME recs[r] \in RecRow
            PROVE  LET q == [recs[r] EXCEPT !.status = "withdrawn"]
                   IN  /\ q \in RecRow
                       /\ q.employer_id = recs[r].employer_id
                       /\ q.headhunter_id = recs[r].headhunter_id
                       /\ q.pickup_headhunter_id = recs[r].pickup_headhunter_id
                       /\ q.status = "withdrawn"
        BY <3>5 DEF RecRow, RecStatus
      <3> QED
        BY <3>1, <3>2, <3>3, <3>4, <3>5
    <2>4. TypeOK'
      BY <1>7, <2>1, <2>2, <2>3 DEF DeleteMyData, IInv, TypeOK
    <2>5. NULL \notin ProfileRow \union RecRow
      BY NullIsNoRow
    <2>6. \A r \in Rec : exists(recs[r]) => r[1] \in Anon /\ exists(profiles[r[1]])
      BY RowsBehind DEF IInv, RecEmployerOwnsJob
    <2>7. RecEmployerOwnsJob'
      BY <2>1, <2>2, <2>3, <2>5, <2>6 DEF IInv, RecEmployerOwnsJob, exists
    <2>8. ApplicationMirrorsRecommendation'
      <3> SUFFICES ASSUME NEW r \in Rec, exists(recs'[r]) \/ exists(apps'[r])
                   PROVE  exists(recs'[r]) /\ Mirrors(recs'[r], apps'[r], candidateOf(r)')
        BY DEF ApplicationMirrorsRecommendation, Mirrors, exists
      <3>1. exists(recs[r])
        BY <2>1, <2>3 DEF IInv, ApplicationMirrorsRecommendation, exists
      <3>2. exists(recs'[r])
        BY <3>1, <2>3, <2>5 DEF exists
      <3>3. candidateOf(r)' = candidateOf(r)
        BY <3>1, <2>2, <2>6 DEF candidateOf
      <3>4. Mirrors(recs[r], apps[r], candidateOf(r))
        BY <3>1, MirrorsHolds
      <3> QED
        BY <3>1, <3>2, <3>3, <3>4, <2>1, <2>3 DEF Mirrors, exists
    <2> QED
      BY <2>4, <2>7, <2>8 DEF IInv
  <1> QED
    BY <1>1, <1>3, <1>4, <1>5, <1>6, <1>7

\* The administrator suspends accounts and settles placements.
LEMMA AdminStep ==
  ASSUME IInv, AdminNext
  PROVE  IInv'
  <1>1. ASSUME NEW u \in User, Suspend(u) \/ Unsuspend(u) PROVE TypeOK'
    BY <1>1 DEF Suspend, Unsuspend, IInv, TypeOK
  <1>2. ASSUME NEW p \in placements, MarkPaid(p) \/ CancelPlacement(p) PROVE TypeOK'
    <2>1. p \in PlacementRow
      BY DEF IInv, TypeOK
    <2>2. [p EXCEPT !.status = "paid"] \in PlacementRow
          /\ [p EXCEPT !.status = "cancelled"] \in PlacementRow
      BY <2>1 DEF PlacementRow
    <2> QED
      BY <1>2, <2>2 DEF MarkPaid, CancelPlacement, setPlacementStatus, IInv, TypeOK
  <1>3. TypeOK' /\ UNCHANGED <<jobs, profiles, recs, apps>>
    BY <1>1, <1>2 DEF AdminNext, Suspend, Unsuspend, MarkPaid, CancelPlacement
  <1> QED
    BY <1>3, OtherTables

LEMMA StepPreserves == IInv /\ [Next]_vars => IInv'
  <1>1. ASSUME IInv, UNCHANGED vars PROVE IInv'
    BY <1>1, OtherTables DEF vars, IInv, TypeOK
  <1> QED
    BY <1>1, JobStep, UploadStep, PoolStep, HunterStep, EmployerStep, CandidateStep, AdminStep
       DEF Next

\* The tables are typed, recommendations stay with the owners of their jobs and
\* applications mirror recommendations, in every reachable state.
THEOREM Invariance == Spec => []IInv
  BY InitEstablishes, StepPreserves, PTL DEF Spec

\* Every table holds rows of its schema: what the handlers read through a key
\* is there, and what they write has the columns' types.
THEOREM TypeCorrect == Spec => []TypeOK
  BY Invariance, PTL DEF IInv

\* The employer copied into a recommendation is the owner of its job for good:
\* no claim, rejection or re-posting of claimJob, rejectJob and createJob parts them.
THEOREM RecommendationsStayWithOwner == Spec => []RecEmployerOwnsJob
  BY Invariance, PTL DEF IInv

\* apply, respond, pickup, the board and the erasure keep the two tables of a
\* self-application in step.
THEOREM ApplicationsAgree == Spec => []ApplicationMirrorsRecommendation
  BY Invariance, PTL DEF IInv

-----------------------------------------------------------------------------
(* Nobody takes over another's candidate.                                  *)

\* What OwnershipIsSticky says of one recommendation.
Keeps(row, next) ==
  /\ exists(next)
  /\ next.employer_id = row.employer_id
  /\ row.headhunter_id # NULL => next.headhunter_id = row.headhunter_id
  /\ row.pickup_headhunter_id # NULL =>
       next.pickup_headhunter_id = row.pickup_headhunter_id

\* A step that replaces one row by one that keeps its owners sticks.
LEMMA OneRowSticks ==
  ASSUME IInv, NEW r \in Rec, NEW row \in RecRow,
         recs' = [recs EXCEPT ![r] = row],
         exists(recs[r]) => Keeps(recs[r], row)
  PROVE  \A q \in Rec : exists(recs[q]) => Keeps(recs[q], recs'[q])
  BY DEF IInv, TypeOK, Keeps, exists

\* A change of status, whatever the status.
LEMMA StatusSticks ==
  ASSUME IInv, NEW r \in Rec, exists(recs[r]), NEW next \in RecStatus,
         recs' = [recs EXCEPT ![r].status = next]
  PROVE  \A q \in Rec : exists(recs[q]) => Keeps(recs[q], recs'[q])
  <1> DEFINE row == [recs[r] EXCEPT !.status = next]
  <1>1. recs[r] \in RecRow
    BY RowsBehind
  <1>2. /\ row \in RecRow
        /\ row.employer_id = recs[r].employer_id
        /\ row.headhunter_id = recs[r].headhunter_id
        /\ row.pickup_headhunter_id = recs[r].pickup_headhunter_id
    BY <1>1 DEF RecRow
  <1>3. recs' = [recs EXCEPT ![r] = row]
    BY DEF IInv, TypeOK
  <1> HIDE DEF row
  <1>4. Keeps(recs[r], row)
    BY <1>2, NullIsNoRow DEF Keeps, exists
  <1> QED
    BY <1>2, <1>3, <1>4, OneRowSticks

LEMMA UnchangedSticks ==
  ASSUME UNCHANGED recs
  PROVE  \A q \in Rec : exists(recs[q]) => Keeps(recs[q], recs'[q])
  BY DEF Keeps, exists

\* Headhunters: a pickup finds the pickup column empty because the application
\* mirrors the recommendation, a claim because its UPDATE asks.
LEMMA HunterSticks ==
  ASSUME IInv, HunterNext
  PROVE  \A q \in Rec : exists(recs[q]) => Keeps(recs[q], recs'[q])
  <1>1. PICK h \in Hunters, r \in Rec :
          \/ \E referrer \in Referrers : RecommendCandidate(h, r, referrer)
          \/ WithdrawRecommendation(h, r)
          \/ Pickup(h, r)
          \/ \E stage \in ColumnStages : AddCard(h, r, stage) \/ MoveCard(h, r, stage)
          \/ RemoveCard(h, r)
    BY DEF HunterNext, HunterCalls, BoardNext
  <1>2. ASSUME NEW referrer \in Referrers, RecommendCandidate(h, r, referrer)
        PROVE  \A q \in Rec : exists(recs[q]) => Keeps(recs[q], recs'[q])
    BY <1>2 DEF RecommendCandidate, Keeps, IInv, TypeOK, exists
  <1>3. CASE WithdrawRecommendation(h, r)
    BY <1>3, StatusSticks DEF WithdrawRecommendation, RecStatus
  <1>4. CASE Pickup(h, r)
    <2> DEFINE row == [recs[r] EXCEPT !.pickup_headhunter_id = h, !.status = "pending"]
    <2>1. recs[r] \in RecRow /\ recs[r].pickup_headhunter_id = NULL
      BY <1>4, RowsBehind DEF Pickup, IInv, ApplicationMirrorsRecommendation
    <2>2. /\ row \in RecRow
          /\ row.employer_id = recs[r].employer_id
          /\ row.headhunter_id = recs[r].headhunter_id
      BY <2>1 DEF RecRow, RecStatus
    <2>3. recs' = [recs EXCEPT ![r] = row]
      BY <1>4 DEF Pickup, IInv, TypeOK
    <2> HIDE DEF row
    <2>4. Keeps(recs[r], row)
      BY <2>1, <2>2, NullIsNoRow DEF Keeps, exists
    <2> QED
      BY <2>2, <2>3, <2>4, OneRowSticks
  <1>5. ASSUME NEW stage \in ColumnStages, AddCard(h, r, stage)
        PROVE  \A q \in Rec : exists(recs[q]) => Keeps(recs[q], recs'[q])
    <2> DEFINE row == [recs[r] EXCEPT !.headhunter_id = h, !.pipeline_stage = stage]
    <2>1. recs[r] \in RecRow /\ recs[r].headhunter_id = NULL
      BY <1>5, RowsBehind DEF AddCard, claimRec
    <2>2. /\ row \in RecRow
          /\ row.employer_id = recs[r].employer_id
          /\ row.pickup_headhunter_id = recs[r].pickup_headhunter_id
      BY <2>1, BoundsAreWithinTheSystem DEF RecRow, PipelineStage
    <2>3. recs' = [recs EXCEPT ![r] = row]
      BY <1>5 DEF AddCard, claimRec, IInv, TypeOK
    <2> HIDE DEF row
    <2>4. Keeps(recs[r], row)
      BY <2>1, <2>2, NullIsNoRow DEF Keeps, exists
    <2> QED
      BY <2>2, <2>3, <2>4, OneRowSticks
  <1>6. ASSUME NEW stage \in PipelineStage, exists(recs[r]),
               recs' = [recs EXCEPT ![r].pipeline_stage = stage]
        PROVE  \A q \in Rec : exists(recs[q]) => Keeps(recs[q], recs'[q])
    <2> DEFINE row == [recs[r] EXCEPT !.pipeline_stage = stage]
    <2>1. recs[r] \in RecRow
      BY <1>6, RowsBehind
    <2>2. /\ row \in RecRow
          /\ row.employer_id = recs[r].employer_id
          /\ row.headhunter_id = recs[r].headhunter_id
          /\ row.pickup_headhunter_id = recs[r].pickup_headhunter_id
      BY <2>1 DEF RecRow
    <2>3. recs' = [recs EXCEPT ![r] = row]
      BY <1>6 DEF IInv, TypeOK
    <2> HIDE DEF row
    <2>4. Keeps(recs[r], row)
      BY <2>2, NullIsNoRow DEF Keeps, exists
    <2> QED
      BY <2>2, <2>3, <2>4, OneRowSticks
  <1>7. ASSUME NEW stage \in ColumnStages, MoveCard(h, r, stage)
        PROVE  \A q \in Rec : exists(recs[q]) => Keeps(recs[q], recs'[q])
    BY <1>6, <1>7, BoundsAreWithinTheSystem DEF MoveCard, updateCard, PipelineStage
  <1>8. CASE RemoveCard(h, r)
    BY <1>6, <1>8 DEF RemoveCard, rejectRec, PipelineStage
  <1> QED
    BY <1>1, <1>2, <1>3, <1>4, <1>5, <1>7, <1>8

LEMMA EmployerSticks ==
  ASSUME IInv, EmployerNext
  PROVE  \A q \in Rec : exists(recs[q]) => Keeps(recs[q], recs'[q])
  <1>1. PICK e \in Employers, r \in Rec :
          \/ ExpressInterest(e, r)
          \/ UnlockContact(e, r)
          \/ \E told \in {"nobody", "primary", "both"} : CreatePlacement(e, r, told)
    BY DEF EmployerNext
  <1>2. ASSUME ExpressInterest(e, r) \/ UnlockContact(e, r)
        PROVE  \A q \in Rec : exists(recs[q]) => Keeps(recs[q], recs'[q])
    BY <1>2, StatusSticks DEF ExpressInterest, UnlockContact, unlockStep
  <1>3. ASSUME NEW told, CreatePlacement(e, r, told)
        PROVE  UNCHANGED recs
    BY <1>3 DEF CreatePlacement
  <1> QED
    BY <1>1, <1>2, <1>3, UnchangedSticks

LEMMA CandidateSticks ==
  ASSUME IInv, CandidateNext
  PROVE  \A q \in Rec : exists(recs[q]) => Keeps(recs[q], recs'[q])
  <1>1. PICK c \in Candidates :
          \/ \E r \in Rec :
               \/ ApproveUnlock(c, r) \/ RejectUnlock(c, r)
               \/ Apply(c, r)
               \/ \E action \in {"withdraw", "consider_offer", "accept_offer",
                                 "decline_offer"} : Respond(c, r, action)
          \/ DeleteMyData(c)
    BY DEF CandidateNext
  <1>2. ASSUME NEW r \in Rec, ApproveUnlock(c, r) \/ RejectUnlock(c, r)
        PROVE  \A q \in Rec : exists(recs[q]) => Keeps(recs[q], recs'[q])
    BY <1>2, StatusSticks DEF ApproveUnlock, RejectUnlock, unlockStep
  <1>3. ASSUME NEW r \in Rec, Apply(c, r)
        PROVE  \A q \in Rec : exists(recs[q]) => Keeps(recs[q], recs'[q])
    BY <1>3 DEF Apply, insertApplication, Keeps, IInv, TypeOK, exists
  <1>4. ASSUME NEW r \in Rec, NEW action, Respond(c, r, action)
        PROVE  \A q \in Rec : exists(recs[q]) => Keeps(recs[q], recs'[q])
    BY <1>4, StatusSticks DEF Respond, IInv, ApplicationMirrorsRecommendation
  <1>5. ASSUME DeleteMyData(c)
        PROVE  \A q \in Rec : exists(recs[q]) => Keeps(recs[q], recs'[q])
    <2> TAKE q \in Rec
    <2> HAVE exists(recs[q])
    <2>1. recs[q] \in RecRow
      BY RowsBehind
    <2>2. recs'[q] \in {recs[q], [recs[q] EXCEPT !.status = "withdrawn"]}
      BY <1>5 DEF DeleteMyData
    <2>3. [recs[q] EXCEPT !.status = "withdrawn"] \in RecRow
      BY <2>1 DEF RecRow, RecStatus
    <2> QED
      BY <2>1, <2>2, <2>3, NullIsNoRow DEF Keeps, exists, RecRow
  <1> QED
    BY <1>1, <1>2, <1>3, <1>4, <1>5

\* Nobody else writes recommendations.
LEMMA EveryStepSticks ==
  ASSUME IInv, Next
  PROVE  \A q \in Rec : exists(recs[q]) => Keeps(recs[q], recs'[q])
  <1>1. CASE JobNext \/ UploadNext \/ PoolNext \/ AdminNext
    BY <1>1, UnchangedSticks DEF JobNext, UploadNext, PoolNext, AdminNext, CreateJob, ClaimJob,
       RejectJob, PauseJob, ResumeJob, CloseJob, CreateJobForEmployer, UploadCandidate,
       UploadCandidateInterrupted, PublishToPool, RemoveFromPool, Suspend, Unsuspend,
       MarkPaid, CancelPlacement
  <1> QED
    BY <1>1, HunterSticks, EmployerSticks, CandidateSticks DEF Next

\* Once a recommendation exists, no call of anybody gives it to another employer
\* or replaces a headhunter in either of its columns.
THEOREM OwnershipSticks == Spec => OwnershipIsSticky
  <1> DEFINE Stick == \A r \in Rec : exists(recs[r]) =>
                /\ exists(recs'[r])
                /\ recs'[r].employer_id = recs[r].employer_id
                /\ recs[r].headhunter_id # NULL =>
                     recs'[r].headhunter_id = recs[r].headhunter_id
                /\ recs[r].pickup_headhunter_id # NULL =>
                     recs'[r].pickup_headhunter_id = recs[r].pickup_headhunter_id
  <1>1. IInv /\ [Next]_vars => [Stick]_vars
    BY EveryStepSticks DEF Keeps
  <1> QED
    BY <1>1, Invariance, PTL DEF Spec, OwnershipIsSticky

-----------------------------------------------------------------------------
(* What is settled stays settled.                                          *)

\* What SettledPlacementIsFinal says of one placement and the row it becomes.
Continues(p, q) ==
  /\ [q EXCEPT !.status = p.status] = p
  /\ p.status # "pending_payment" => q.status = p.status

LEMMA ItselfContinues ==
  ASSUME NEW p \in PlacementRow
  PROVE  Continues(p, p)
  BY DEF Continues, PlacementRow

\* Placements are made by createPlacement and settled by the administrator.
LEMMA PlacementKinds ==
  ASSUME Next
  PROVE  \/ UNCHANGED placements
         \/ \E e \in Employers, r \in Rec, told \in {"nobody", "primary", "both"} :
              CreatePlacement(e, r, told)
         \/ \E p \in placements : MarkPaid(p) \/ CancelPlacement(p)
  <1>1. ASSUME JobNext PROVE UNCHANGED placements
    BY <1>1 DEF JobNext, CreateJob, ClaimJob, RejectJob, PauseJob, ResumeJob, CloseJob,
       CreateJobForEmployer
  <1>2. ASSUME UploadNext \/ PoolNext PROVE UNCHANGED placements
    BY <1>2 DEF UploadNext, UploadCandidate, UploadCandidateInterrupted, PoolNext,
       PublishToPool, RemoveFromPool
  <1>3. ASSUME HunterNext PROVE UNCHANGED placements
    <2>1. PICK h \in Hunters, r \in Rec :
            \/ \E referrer \in Referrers : RecommendCandidate(h, r, referrer)
            \/ WithdrawRecommendation(h, r)
            \/ Pickup(h, r)
            \/ \E stage \in ColumnStages : AddCard(h, r, stage) \/ MoveCard(h, r, stage)
            \/ RemoveCard(h, r)
      BY <1>3 DEF HunterNext, HunterCalls, BoardNext
    <2>2. ASSUME NEW stage, AddCard(h, r, stage) \/ MoveCard(h, r, stage)
          PROVE  UNCHANGED placements
      BY <2>2 DEF AddCard, claimRec, MoveCard, updateCard
    <2>3. ASSUME NEW referrer, RecommendCandidate(h, r, referrer)
          PROVE  UNCHANGED placements
      BY <2>3 DEF RecommendCandidate
    <2>4. ASSUME WithdrawRecommendation(h, r) \/ Pickup(h, r) \/ RemoveCard(h, r)
          PROVE  UNCHANGED placements
      BY <2>4 DEF WithdrawRecommendation, Pickup, RemoveCard, rejectRec
    <2> QED
      BY <2>1, <2>2, <2>3, <2>4
  <1>4. ASSUME EmployerNext, ~UNCHANGED placements
        PROVE  \E e \in Employers, r \in Rec, told \in {"nobody", "primary", "both"} :
                 CreatePlacement(e, r, told)
    BY <1>4 DEF EmployerNext, ExpressInterest, UnlockContact
  <1>5. ASSUME CandidateNext PROVE UNCHANGED placements
    <2>1. PICK c \in Candidates :
            \/ \E r \in Rec :
                 \/ ApproveUnlock(c, r) \/ RejectUnlock(c, r)
                 \/ Apply(c, r)
                 \/ \E action \in {"withdraw", "consider_offer", "accept_offer",
                                   "decline_offer"} : Respond(c, r, action)
            \/ DeleteMyData(c)
      BY <1>5 DEF CandidateNext
    <2>2. ASSUME NEW r, ApproveUnlock(c, r) \/ RejectUnlock(c, r) \/ Apply(c, r)
          PROVE  UNCHANGED placements
      BY <2>2 DEF ApproveUnlock, RejectUnlock, Apply
    <2>3. ASSUME NEW r, NEW action, Respond(c, r, action)
          PROVE  UNCHANGED placements
      BY <2>3 DEF Respond
    <2>4. ASSUME DeleteMyData(c) PROVE UNCHANGED placements
      BY <2>4 DEF DeleteMyData
    <2> QED
      BY <2>1, <2>2, <2>3, <2>4
  <1>6. ASSUME AdminNext, ~UNCHANGED placements
        PROVE  \E p \in placements : MarkPaid(p) \/ CancelPlacement(p)
    BY <1>6 DEF AdminNext, Suspend, Unsuspend
  <1> QED
    BY <1>1, <1>2, <1>3, <1>4, <1>5, <1>6 DEF Next

\* markPaid and cancel take the one step a placement has left.
LEMMA SettlingStep ==
  ASSUME NEW p, MarkPaid(p) \/ CancelPlacement(p)
  PROVE  \E status \in {"paid", "cancelled"} :
           /\ placements' = (placements \ {p}) \union {[p EXCEPT !.status = status]}
           /\ p.status = "pending_payment" \/ (p.status # "paid" /\ status = "cancelled")
  BY DEF MarkPaid, CancelPlacement, setPlacementStatus

\* Everybody else adds placements at most.
LEMMA PlacementStep ==
  ASSUME IInv, Next, NEW p \in placements
  PROVE  \E q \in placements' : Continues(p, q)
  <1>1. p \in PlacementRow
    BY DEF IInv, TypeOK
  <1>2. p.status \in {"pending_payment", "paid", "cancelled"}
    BY <1>1 DEF PlacementRow
  <1>3. CASE p \in placements'
    BY <1>1, <1>3, ItselfContinues
  <1>4. CASE p \notin placements'
    <2>1. PICK x \in placements : MarkPaid(x) \/ CancelPlacement(x)
      BY <1>4, PlacementKinds DEF CreatePlacement
    <2>2. PICK status \in {"paid", "cancelled"} :
            /\ placements' = (placements \ {x}) \union {[x EXCEPT !.status = status]}
            /\ x.status = "pending_payment" \/ (x.status # "paid" /\ status = "cancelled")
      BY <2>1, SettlingStep
    <2>3. p = x
      BY <1>4, <2>2
    <2>4. p.status # "pending_payment" => status = p.status
      BY <1>2, <2>2, <2>3
    <2>5. Continues(p, [p EXCEPT !.status = status])
      BY <1>1, <2>4 DEF Continues, PlacementRow
    <2> QED
      BY <2>2, <2>3, <2>5
  <1> QED
    BY <1>3, <1>4

\* What is paid is never cancelled and what is cancelled is never paid, and a
\* placement's payees stay who they were.
THEOREM SettlementIsFinal == Spec => SettledPlacementIsFinal
  <1> DEFINE Final == \A p \in placements : \E q \in placements' :
                /\ [q EXCEPT !.status = p.status] = p
                /\ p.status # "pending_payment" => q.status = p.status
  <1>1. IInv /\ [Next]_vars => [Final]_vars
    BY PlacementStep DEF Continues
  <1> QED
    BY <1>1, Invariance, PTL DEF Spec, SettledPlacementIsFinal
=============================================================================
