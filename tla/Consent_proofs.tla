--------------------------- MODULE Consent_proofs ---------------------------
(***************************************************************************)
(* The candidate's contact details: why they leave the platform only along *)
(* request, consent and delivery, for any number of accounts, jobs and     *)
(* profiles.                                                               *)
(*                                                                         *)
(* The handlers are first reduced to the few ways in which a step can move *)
(* a recommendation (StepKinds); the invariant, the action property and    *)
(* the refinement are then proved kind by kind.                            *)
(***************************************************************************)
EXTENDS Recruitment_proofs, SequenceTheorems

inStatus(r, S) == exists(recs[r]) /\ recs[r].status \in S

erased(r) == users[candidateOf(r)] = "deleted"

-----------------------------------------------------------------------------
(* The kinds of steps.                                                     *)

\* The step leaves recommendation q, its application, log and contact alone.
Rests(q) ==
  /\ recs'[q] = recs[q] /\ apps'[q] = apps[q] /\ audit'[q] = audit[q]
  /\ contactRows(q)' = contactRows(q)

\* r goes from a status in From to the status `to`, for the same employer.
Goes(r, From, to) ==
  /\ inStatus(r, From)
  /\ exists(recs'[r]) /\ recs'[r].status = to
  /\ recs'[r].employer_id = recs[r].employer_id
  /\ exists(apps'[r]) <=> exists(apps[r])

logs(r, action, u) ==
  audit'[r] = Append(audit[r], [action |-> action, actor_user_id |-> u])

silent(r) == audit'[r] = audit[r]

\* The candidate of r has nothing under way with the job of r.
nothingActive(r) ==
  \A q \in Rec : q[2] = r[2] /\ exists(recs[q]) /\ candidateOf(q) = candidateOf(r) =>
    recs[q].status \notin ActiveStatus

Created(r) ==
  /\ ~exists(recs[r]) /\ inStatus(r, {"pending", "pending_pickup"})' /\ silent(r)
  /\ exists(apps'[r]) => nothingActive(r)

Carded(r)     == exists(recs[r]) /\ Goes(r, {recs[r].status}, recs[r].status) /\ silent(r)
PickedUp(r)   == Goes(r, {"pending_pickup"}, "pending") /\ silent(r)
Withdrawn(r)  == Goes(r, {"pending", "pending_pickup"}, "withdrawn") /\ silent(r)

Asked(r) ==
  /\ Goes(r, {"pending"}, "employer_interested")
  /\ logs(r, "express_interest", recs[r].employer_id)

Considered(r) ==
  Goes(r, {"employer_interested"}, "considering_offer") /\ exists(apps[r]) /\ silent(r)

Accepted(r) ==
  Goes(r, {"considering_offer"}, "candidate_approved") /\ ~erased(r) /\ silent(r)

Approved(r) ==
  /\ Goes(r, {"employer_interested"}, "candidate_approved") /\ ~erased(r)
  /\ logs(r, "approve_unlock", candidateOf(r))

Refused(r) ==
  /\ Goes(r, {"employer_interested", "candidate_approved"}, "rejected_candidate")
  /\ logs(r, "reject_unlock", candidateOf(r))

Declined(r) == Goes(r, {"considering_offer"}, "rejected_candidate") /\ silent(r)

Released(r) ==
  /\ Goes(r, {"candidate_approved"}, "unlocked")
  /\ logs(r, "unlock_delivery", recs[r].employer_id)
  /\ \E row \in OutboxRow :
       /\ row.target = recs[r].employer_id
       /\ contactRows(r)' = contactRows(r) \union {row}

\* The ways in which a step moves one recommendation without a release.
Proceeds(r) ==
  /\ contactRows(r)' = contactRows(r)
  /\ \/ Created(r) \/ Carded(r) \/ PickedUp(r) \/ Withdrawn(r) \/ Asked(r)
     \/ Considered(r) \/ Accepted(r) \/ Approved(r) \/ Refused(r) \/ Declined(r)

Moves(r) ==
  /\ UNCHANGED <<users, profiles>>
  /\ \A q \in Rec \ {r} : Rests(q)
  /\ Proceeds(r) \/ Released(r)

Quiet ==
  /\ \A q \in Rec : Rests(q)
  /\ \A u \in User : users'[u] = "deleted" <=> users[u] = "deleted"

\* The erasure of c: every negotiation of theirs ends, no log or queue entry.
Erases(c) ==
  /\ \A u \in User : users'[u] = IF u = c THEN "deleted" ELSE users[u]
  /\ \A r \in Rec :
       /\ contactRows(r)' = contactRows(r)
       /\ apps'[r] = apps[r] /\ audit'[r] = audit[r]
       /\ inStatus(r, RecStatus \ {"withdrawn", "placed"}) /\ candidateOf(r) = c =>
            Goes(r, RecStatus \ {"withdrawn", "placed"}, "withdrawn")
       /\ ~(inStatus(r, RecStatus \ {"withdrawn", "placed"}) /\ candidateOf(r) = c) =>
            recs'[r] = recs[r]

StepKind ==
  /\ Quiet \/ (\E r \in Rec : Moves(r)) \/ (\E c \in Candidates : Erases(c))
  /\ \A q \in Rec : exists(recs[q]) => candidateOf(q)' = candidateOf(q)

\* A handler that writes the status of r, and nothing else of it.
LEMMA StatusGoes ==
  ASSUME IInv, NEW r \in Rec, exists(recs[r]), NEW next \in RecStatus,
         recs' = [recs EXCEPT ![r].status = next]
  PROVE  /\ exists(recs'[r])
         /\ recs'[r].status = next
         /\ recs'[r].employer_id = recs[r].employer_id
         /\ \A q \in Rec \ {r} : recs'[q] = recs[q]
  <1>1. recs[r] \in RecRow
    BY RowsBehind
  <1>2. recs'[r] = [recs[r] EXCEPT !.status = next]
    BY DEF IInv, TypeOK
  <1>3. [recs[r] EXCEPT !.status = next] \in RecRow
    BY <1>1 DEF RecRow
  <1>4. exists(recs'[r])
    BY <1>2, <1>3, NullIsNoRow DEF exists
  <1>5. \A q \in Rec \ {r} : recs'[q] = recs[q]
    BY DEF IInv, TypeOK
  <1> QED
    BY <1>1, <1>2, <1>4, <1>5 DEF RecRow

\* A recommendation step tells its candidate or its employer about that
\* recommendation, and carries the contact only when it unlocks it.
LEMMA SideEffectsOfStep ==
  ASSUME NEW r \in Rec, NEW from \in RecStatus, NEW next \in RecStatus
  PROVE  \A row \in sideEffects(r, from, next) :
           /\ row.rec = r
           /\ row.event # "placement_created"
           /\ row.pii => from = "candidate_approved" /\ next = "unlocked"
  <1> SUFFICES ASSUME NEW row \in sideEffects(r, from, next)
               PROVE  /\ row.rec = r
                      /\ row.event # "placement_created"
                      /\ row.pii => from = "candidate_approved" /\ next = "unlocked"
    OBVIOUS
  <1>1. PICK s \in REC_SIDE_EFFECTS :
          /\ s.from = from /\ s.to = next
          /\ row = [rec |-> r, event |-> s.event, role |-> s.target,
                    target |-> IF s.target = "candidate" THEN candidateOf(r)
                               ELSE recs[r].employer_id,
                    pii |-> s.pii]
    BY DEF sideEffects
  <1>2. /\ s.event # "placement_created"
        /\ s.pii => s.from = "candidate_approved" /\ s.to = "unlocked"
    BY DEF REC_SIDE_EFFECTS
  <1> QED
    BY <1>1, <1>2

-----------------------------------------------------------------------------
(* Every step is of one of the kinds.                                      *)

LEMMA QuietUnlessMoved ==
  ASSUME UNCHANGED <<recs, apps, audit, outbox>>
  PROVE  \A q \in Rec : Rests(q)
  BY DEF Rests, contactRows

LEMMA JobKind ==
  ASSUME JobNext
  PROVE  StepKind
  <1>1. UNCHANGED <<users, profiles, recs, apps, audit, outbox, placements>>
    BY DEF JobNext, CreateJob, ClaimJob, RejectJob, PauseJob, ResumeJob, CloseJob,
       CreateJobForEmployer
  <1> QED
    BY <1>1, QuietUnlessMoved DEF StepKind, Quiet, candidateOf

LEMMA ProfileKind ==
  ASSUME IInv, UploadNext \/ PoolNext
  PROVE  StepKind
  <1>1. UNCHANGED <<users, jobs, recs, apps, audit, outbox, placements>>
    BY DEF UploadNext, UploadCandidate, UploadCandidateInterrupted, PoolNext,
       PublishToPool, RemoveFromPool
  <1>2. ASSUME NEW q \in Rec, exists(recs[q])
        PROVE  candidateOf(q)' = candidateOf(q)
    <2>1. q[1] \in Anon /\ profiles[q[1]] \in ProfileRow /\ exists(profiles[q[1]])
      BY <1>2, RowsBehind DEF IInv, RecEmployerOwnsJob
    <2>2. CASE UploadNext
      <3>1. PICK h \in Hunters, c \in Candidates, a \in Anon, hasAnon \in BOOLEAN :
              insertProfile(h, c, a, hasAnon)
        BY <2>2 DEF UploadNext, UploadCandidate, UploadCandidateInterrupted
      <3> QED
        BY <2>1, <3>1 DEF insertProfile, candidateOf, IInv, TypeOK
    <2>3. CASE PoolNext
      <3>1. PICK a \in Anon, isPublic \in BOOLEAN :
              profiles' = [profiles EXCEPT ![a].is_public_pool = isPublic]
        BY <2>3, BoundsAreWithinTheSystem DEF PoolNext, PublishToPool, RemoveFromPool, setPool
      <3>2. profiles'[q[1]] \in {profiles[q[1]],
                                [profiles[q[1]] EXCEPT !.is_public_pool = isPublic]}
        BY <2>1, <3>1 DEF IInv, TypeOK
      <3> QED
        BY <2>1, <3>2 DEF candidateOf, ProfileRow
    <2> QED
      BY <2>2, <2>3
  <1> QED
    BY <1>1, <1>2, QuietUnlessMoved DEF StepKind, Quiet

\* A suspended account is not deleted, and a deleted one is neither suspended
\* nor brought back.
LEMMA AdminKind ==
  ASSUME IInv, AdminNext
  PROVE  StepKind
  <1>1. UNCHANGED <<jobs, profiles, recs, apps, audit, outbox>>
    BY DEF AdminNext, Suspend, Unsuspend, MarkPaid, CancelPlacement
  <1>2. \A u \in User : users'[u] = "deleted" <=> users[u] = "deleted"
    <2>1. CASE UNCHANGED users
      BY <2>1
    <2>2. ASSUME NEW v \in User, Suspend(v) \/ Unsuspend(v)
          PROVE  \A u \in User : users'[u] = "deleted" <=> users[u] = "deleted"
      <3>1. PICK next \in UserStatus :
              /\ users' = [users EXCEPT ![v] = next]
              /\ users[v] # "deleted" /\ next # "deleted"
        BY <2>2 DEF Suspend, Unsuspend, applyTransition, userFlow
      <3> QED
        BY <3>1 DEF IInv, TypeOK
    <2> QED
      BY <2>1, <2>2 DEF AdminNext, MarkPaid, CancelPlacement
  <1> QED
    BY <1>1, <1>2, QuietUnlessMoved DEF StepKind, Quiet, candidateOf

\* A call that touches the rows of one recommendation and queues nothing.
LEMMA OneRowMoves ==
  ASSUME NEW r \in Rec,
         UNCHANGED <<users, profiles, outbox>>,
         \A q \in Rec \ {r} : recs'[q] = recs[q] /\ apps'[q] = apps[q] /\ audit'[q] = audit[q],
         Created(r) \/ Carded(r) \/ PickedUp(r) \/ Withdrawn(r) \/ Considered(r)
           \/ Accepted(r) \/ Refused(r) \/ Declined(r)
  PROVE  StepKind
  BY DEF StepKind, Moves, Proceeds, Rests, contactRows, candidateOf

LEMMA NewRowIsRow ==
  ASSUME IInv, NEW r \in Rec, exists(jobs[r[2]]), jobs[r[2]].employer_id # NULL,
         NEW h \in Hunters \union {NULL}, NEW referrer \in User \union {NULL},
         NEW status \in RecStatus
  PROVE  [status |-> status, headhunter_id |-> h, employer_id |-> jobs[r[2]].employer_id,
          pickup_headhunter_id |-> NULL, referrer_headhunter_id |-> referrer,
          pipeline_stage |-> "submitted"] \in RecRow
  <1>1. r[2] \in Jobs
    BY DEF Rec
  <1>2. jobs[r[2]] \in JobRow
    BY <1>1 DEF IInv, TypeOK, exists
  <1> QED
    BY <1>2 DEF RecRow, JobRow, PipelineStage, PIPELINE_STAGES

LEMMA HunterKind ==
  ASSUME IInv, HunterNext
  PROVE  StepKind
  <1>1. PICK h \in Hunters, r \in Rec :
          \/ \E referrer \in Referrers : RecommendCandidate(h, r, referrer)
          \/ WithdrawRecommendation(h, r)
          \/ Pickup(h, r)
          \/ \E stage \in ColumnStages : AddCard(h, r, stage) \/ MoveCard(h, r, stage)
          \/ RemoveCard(h, r)
    BY DEF HunterNext, HunterCalls, BoardNext
  <1>2. ASSUME NEW referrer \in Referrers, RecommendCandidate(h, r, referrer) PROVE StepKind
    <2> DEFINE row == [status |-> "pending", headhunter_id |-> h,
                       employer_id |-> jobs[r[2]].employer_id,
                       pickup_headhunter_id |-> NULL,
                       referrer_headhunter_id |-> referrer, pipeline_stage |-> "submitted"]
    <2>1. row \in RecRow
      BY <1>2, NewRowIsRow, BoundsAreWithinTheSystem DEF RecommendCandidate, RecStatus
    <2>2. recs' = [recs EXCEPT ![r] = row] /\ row.status = "pending"
      BY <1>2 DEF RecommendCandidate
    <2> HIDE DEF row
    <2>3. Created(r) /\ \A q \in Rec \ {r} : recs'[q] = recs[q]
      BY <1>2, <2>1, <2>2, NullIsNoRow DEF RecommendCandidate, Created, inStatus, silent,
         IInv, TypeOK, ApplicationMirrorsRecommendation, exists
    <2> QED
      BY <1>2, <2>3, OneRowMoves DEF RecommendCandidate
  <1>3. ASSUME WithdrawRecommendation(h, r) PROVE StepKind
    <2>1. Withdrawn(r) /\ \A q \in Rec \ {r} : recs'[q] = recs[q]
      BY <1>3, StatusGoes
         DEF WithdrawRecommendation, Withdrawn, Goes, inStatus, silent, RecStatus
    <2> QED
      BY <1>3, <2>1, OneRowMoves DEF WithdrawRecommendation
  <1>4. ASSUME Pickup(h, r) PROVE StepKind
    <2>1. recs[r] \in RecRow /\ apps[r] \in AppRow
      BY <1>4, RowsBehind DEF Pickup, IInv, TypeOK, exists
    <2>2. /\ [recs[r] EXCEPT !.pickup_headhunter_id = h, !.status = "pending"] \in RecRow
          /\ [apps[r] EXCEPT !.pickup_headhunter_id = h] \in AppRow
      BY <2>1 DEF RecRow, AppRow, RecStatus
    <2>3. /\ recs'[r] = [recs[r] EXCEPT !.pickup_headhunter_id = h, !.status = "pending"]
          /\ apps'[r] = [apps[r] EXCEPT !.pickup_headhunter_id = h]
          /\ \A q \in Rec \ {r} : recs'[q] = recs[q] /\ apps'[q] = apps[q]
      BY <1>4 DEF Pickup, IInv, TypeOK
    <2>4. recs'[r].status = "pending" /\ recs'[r].employer_id = recs[r].employer_id
      BY <2>1, <2>3 DEF RecRow
    <2>5. exists(recs'[r]) /\ exists(apps'[r])
      BY <2>2, <2>3, NullIsNoRow DEF exists
    <2>6. PickedUp(r)
      BY <1>4, <2>4, <2>5 DEF Pickup, PickedUp, Goes, inStatus, silent, exists
    <2> QED
      BY <1>4, <2>3, <2>6, OneRowMoves DEF Pickup
  <1>5. ASSUME NEW row \in RecRow, exists(recs[r]), recs' = [recs EXCEPT ![r] = row],
               row.status = recs[r].status, row.employer_id = recs[r].employer_id,
               UNCHANGED <<users, profiles, apps, audit, outbox>>
        PROVE  StepKind
    <2>1. recs'[r] = row /\ \A q \in Rec \ {r} : recs'[q] = recs[q]
      BY <1>5 DEF IInv, TypeOK
    <2>2. Carded(r)
      BY <1>5, <2>1, NullIsNoRow DEF Carded, Goes, inStatus, silent, exists
    <2> QED
      BY <1>5, <2>1, <2>2, OneRowMoves
  <1>6. ASSUME NEW stage \in ColumnStages, AddCard(h, r, stage) PROVE StepKind
    <2> DEFINE row == [recs[r] EXCEPT !.headhunter_id = h, !.pipeline_stage = stage]
    <2>1. recs[r] \in RecRow
      BY <1>6, RowsBehind DEF AddCard
    <2>2. row \in RecRow /\ row.status = recs[r].status /\ row.employer_id = recs[r].employer_id
      BY <2>1, BoundsAreWithinTheSystem DEF RecRow, PipelineStage
    <2>3. recs' = [recs EXCEPT ![r] = row]
      BY <1>6 DEF AddCard, claimRec, IInv, TypeOK
    <2> HIDE DEF row
    <2> QED
      BY <1>5, <1>6, <2>2, <2>3 DEF AddCard
  <1>7. ASSUME NEW stage \in PipelineStage, exists(recs[r]),
               recs' = [recs EXCEPT ![r].pipeline_stage = stage],
               UNCHANGED <<users, profiles, apps, audit, outbox>>
        PROVE  StepKind
    <2> DEFINE row == [recs[r] EXCEPT !.pipeline_stage = stage]
    <2>1. recs[r] \in RecRow
      BY <1>7, RowsBehind
    <2>2. row \in RecRow /\ row.status = recs[r].status /\ row.employer_id = recs[r].employer_id
      BY <2>1 DEF RecRow
    <2>3. recs' = [recs EXCEPT ![r] = row]
      BY <1>7 DEF IInv, TypeOK
    <2> HIDE DEF row
    <2> QED
      BY <1>5, <1>7, <2>2, <2>3
  <1>8. ASSUME NEW stage \in ColumnStages, MoveCard(h, r, stage) PROVE StepKind
    BY <1>7, <1>8, BoundsAreWithinTheSystem DEF MoveCard, updateCard, PipelineStage
  <1>9. ASSUME RemoveCard(h, r) PROVE StepKind
    BY <1>7, <1>9 DEF RemoveCard, rejectRec, PipelineStage
  <1> QED
    BY <1>1, <1>2, <1>3, <1>4, <1>6, <1>8, <1>9

LEMMA ContactStays ==
  ASSUME NEW q, outbox \subseteq outbox',
         \A row \in outbox' : row \in outbox \/ row.rec # q \/ ~row.pii
  PROVE  contactRows(q)' = contactRows(q)
  BY DEF contactRows

\* The steps of recFlow that are logged and queued, by whom they are called.
LEMMA UnlockStepKind ==
  ASSUME IInv, NEW r \in Rec, exists(recs[r]), NEW u \in User, NEW event, NEW action,
         unlockStep(r, u, event, action),
         UNCHANGED <<users, profiles, apps>>,
         \/ /\ event = "express_interest" /\ action = "express_interest"
            /\ u = recs[r].employer_id
         \/ /\ event = "approve_unlock" /\ action = "approve_unlock"
            /\ u = candidateOf(r) /\ ~erased(r)
         \/ /\ event = "unlock" /\ action = "unlock_delivery"
            /\ u = recs[r].employer_id
  PROVE  StepKind
  <1>0. recs[r].status \in RecStatus
    BY RowsBehind DEF RecRow
  <1>1. PICK next \in RecStatus :
          /\ applyTransition(recFlow, recs[r].status, event, next)
          /\ recs' = [recs EXCEPT ![r].status = next]
          /\ logUnlock(r, u, action)
          /\ outbox' = outbox \union sideEffects(r, recs[r].status, next)
    BY DEF unlockStep
  <1>2. /\ exists(recs'[r]) /\ recs'[r].status = next
        /\ recs'[r].employer_id = recs[r].employer_id
        /\ \A q \in Rec \ {r} : recs'[q] = recs[q]
    BY <1>1, StatusGoes
  <1>3. logs(r, action, u) /\ \A q \in Rec \ {r} : audit'[q] = audit[q]
    BY <1>1 DEF logUnlock, logs, IInv, TypeOK
  <1>4. \A q \in Rec \ {r} : contactRows(q)' = contactRows(q)
    <2>1. \A row \in sideEffects(r, recs[r].status, next) : row.rec = r
      BY <1>0, <1>1, SideEffectsOfStep
    <2> QED
      BY <1>1, <2>1, ContactStays
  <1>5. \A q \in Rec \ {r} : Rests(q)
    BY <1>2, <1>3, <1>4 DEF Rests
  <1>6. CASE event \in {"express_interest", "approve_unlock"}
    <2>1. next \in {"employer_interested", "candidate_approved"}
      BY <1>1, <1>6 DEF applyTransition, recFlow
    <2>2. contactRows(r)' = contactRows(r)
      <3>1. \A row \in sideEffects(r, recs[r].status, next) : ~row.pii
        BY <1>0, <1>1, <2>1, SideEffectsOfStep
      <3> QED
        BY <1>1, <3>1, ContactStays
    <2>3. Asked(r) \/ Approved(r)
      BY <1>1, <1>2, <1>3, <1>6
         DEF applyTransition, recFlow, Asked, Approved, Goes, inStatus
    <2> QED
      BY <1>5, <2>2, <2>3 DEF StepKind, Moves, Proceeds, candidateOf
  <1>7. CASE event = "unlock"
    <2>1. recs[r].status = "candidate_approved" /\ next = "unlocked"
      BY <1>1, <1>7 DEF applyTransition, recFlow
    <2> DEFINE row == [rec |-> r, event |-> "deliver_contact", role |-> "employer",
                       target |-> recs[r].employer_id, pii |-> TRUE]
    <2>2. sideEffects(r, "candidate_approved", "unlocked") = {row}
      <3>1. {t \in REC_SIDE_EFFECTS : t.from = "candidate_approved" /\ t.to = "unlocked"}
              = {[from |-> "candidate_approved", to |-> "unlocked",
                  target |-> "employer", event |-> "deliver_contact", pii |-> TRUE]}
        BY DEF REC_SIDE_EFFECTS
      <3>2. \A x \in sideEffects(r, "candidate_approved", "unlocked") : x = row
        BY <3>1 DEF sideEffects
      <3>3. row \in sideEffects(r, "candidate_approved", "unlocked")
        BY <3>1 DEF sideEffects
      <3> QED
        BY <3>2, <3>3
    <2>3. row \in OutboxRow
      BY <2>2, SideEffectsAreRows
    <2>4. contactRows(r)' = contactRows(r) \union {row}
      BY <1>1, <2>1, <2>2 DEF contactRows
    <2>5. Released(r)
      BY <1>2, <1>3, <1>7, <2>1, <2>3, <2>4 DEF Released, Goes, inStatus
    <2> QED
      BY <1>5, <2>5 DEF StepKind, Moves, candidateOf
  <1> QED
    BY <1>6, <1>7

LEMMA EmployerKind ==
  ASSUME IInv, EmployerNext
  PROVE  StepKind
  <1>1. PICK e \in Employers, r \in Rec :
          \/ ExpressInterest(e, r)
          \/ UnlockContact(e, r)
          \/ \E told \in {"nobody", "primary", "both"} : CreatePlacement(e, r, told)
    BY DEF EmployerNext
  <1>2. e \in User
    BY DEF User
  <1>3. CASE ExpressInterest(e, r)
    BY <1>2, <1>3, UnlockStepKind DEF ExpressInterest
  <1>4. CASE UnlockContact(e, r)
    BY <1>2, <1>4, UnlockStepKind DEF UnlockContact
  <1>5. ASSUME NEW told \in {"nobody", "primary", "both"}, CreatePlacement(e, r, told)
        PROVE  StepKind
    <2>1. \A row \in outbox' \ outbox : ~row.pii
      BY <1>5 DEF CreatePlacement, tellPayees, toPrimary, toReferrer, placementWebhook
    <2>2. outbox \subseteq outbox'
      BY <1>5 DEF CreatePlacement, tellPayees
    <2>3. \A q \in Rec : Rests(q)
      BY <1>5, <2>1, <2>2 DEF CreatePlacement, Rests, contactRows
    <2> QED
      BY <1>5, <2>3 DEF CreatePlacement, StepKind, Quiet, candidateOf
  <1> QED
    BY <1>1, <1>3, <1>4, <1>5

LEMMA CandidateKind ==
  ASSUME IInv, CandidateNext
  PROVE  StepKind
  <1>1. PICK c \in Candidates :
          \/ \E r \in Rec :
               \/ ApproveUnlock(c, r) \/ RejectUnlock(c, r)
               \/ Apply(c, r)
               \/ \E action \in {"withdraw", "consider_offer", "accept_offer",
                                 "decline_offer"} : Respond(c, r, action)
          \/ DeleteMyData(c)
    BY DEF CandidateNext
  <1>2. c \in User
    BY DEF User
  <1>3. ASSUME NEW r \in Rec, ApproveUnlock(c, r) PROVE StepKind
    BY <1>2, <1>3, UnlockStepKind DEF ApproveUnlock, authMiddleware, erased
  <1>4. ASSUME NEW r \in Rec, RejectUnlock(c, r) PROVE StepKind
    <2>1. PICK next \in RecStatus :
            /\ applyTransition(recFlow, recs[r].status, "reject_candidate", next)
            /\ recs' = [recs EXCEPT ![r].status = next]
      BY <1>4 DEF RejectUnlock
    <2>2. /\ exists(recs'[r]) /\ recs'[r].status = next
          /\ recs'[r].employer_id = recs[r].employer_id
          /\ \A q \in Rec \ {r} : recs'[q] = recs[q]
      BY <1>4, <2>1, StatusGoes DEF RejectUnlock
    <2>3. logs(r, "reject_unlock", c) /\ \A q \in Rec \ {r} : audit'[q] = audit[q]
      BY <1>4 DEF RejectUnlock, logUnlock, logs, IInv, TypeOK
    <2>4. Refused(r)
      BY <1>4, <2>1, <2>2, <2>3
         DEF RejectUnlock, applyTransition, recFlow, Refused, Goes, inStatus
    <2> QED
      BY <1>4, <2>2, <2>3, <2>4, OneRowMoves DEF RejectUnlock
  <1>5. ASSUME NEW r \in Rec, Apply(c, r) PROVE StepKind
    <2> DEFINE row == [status |-> "pending_pickup", headhunter_id |-> NULL,
                       employer_id |-> jobs[r[2]].employer_id, pickup_headhunter_id |-> NULL,
                       referrer_headhunter_id |-> NULL, pipeline_stage |-> "submitted"]
    <2>1. row \in RecRow
      BY <1>5, NewRowIsRow DEF Apply, RecStatus
    <2>2. /\ recs' = [recs EXCEPT ![r] = row] /\ row.status = "pending_pickup"
          /\ \A q \in Rec \ {r} : apps'[q] = apps[q]
      BY <1>5 DEF Apply, insertApplication, IInv, TypeOK
    <2> HIDE DEF row
    <2>3. nothingActive(r)
      <3>1. candidateOf(r) = c
        BY <1>5 DEF Apply, profilesOf, candidateOf
      <3> SUFFICES ASSUME NEW q \in Rec, q[2] = r[2], exists(recs[q]), candidateOf(q) = c
                   PROVE  recs[q].status \notin ActiveStatus
        BY <3>1 DEF nothingActive
      <3>2. q = <<q[1], r[2]>>
        BY DEF Rec
      <3>3. q[1] \in profilesOf(c)
        BY RowsBehind DEF profilesOf, candidateOf, IInv, RecEmployerOwnsJob
      <3> QED
        BY <1>5, <3>2, <3>3 DEF Apply
    <2>4. Created(r) /\ \A q \in Rec \ {r} : recs'[q] = recs[q]
      BY <1>5, <2>1, <2>2, <2>3, NullIsNoRow
         DEF Apply, Created, inStatus, silent, IInv, TypeOK, exists
    <2> QED
      BY <1>5, <2>2, <2>4, OneRowMoves DEF Apply
  <1>6. ASSUME NEW r \in Rec,
               NEW action \in {"withdraw", "consider_offer", "accept_offer", "decline_offer"},
               Respond(c, r, action)
        PROVE  StepKind
    <2>1. PICK next \in RecStatus :
            /\ applyTransition(recFlow, recs[r].status, action, next)
            /\ recs' = [recs EXCEPT ![r].status = next]
      BY <1>6 DEF Respond
    <2>2. exists(recs[r]) /\ exists(apps[r]) /\ candidateOf(r) = c /\ apps[r] \in AppRow
      BY <1>6 DEF Respond, IInv, TypeOK, ApplicationMirrorsRecommendation, exists
    <2>3. /\ exists(recs'[r]) /\ recs'[r].status = next
          /\ recs'[r].employer_id = recs[r].employer_id
          /\ \A q \in Rec \ {r} : recs'[q] = recs[q]
      BY <2>1, <2>2, StatusGoes
    <2>4. apps'[r] = [apps[r] EXCEPT !.withdrawn = @ \/ action = "withdraw"]
          /\ \A q \in Rec \ {r} : apps'[q] = apps[q]
      BY <1>6 DEF Respond, IInv, TypeOK
    <2>5. [apps[r] EXCEPT !.withdrawn = @ \/ action = "withdraw"] \in AppRow
      BY <2>2 DEF AppRow
    <2>6. exists(apps'[r])
      BY <2>4, <2>5, NullIsNoRow DEF exists
    <2>7. Goes(r, {recs[r].status}, next) /\ silent(r) /\ ~erased(r)
      BY <1>6, <2>2, <2>3, <2>6 DEF Respond, Goes, inStatus, silent, erased, authMiddleware
    <2>8. Withdrawn(r) \/ Considered(r) \/ Accepted(r) \/ Declined(r)
      BY <2>1, <2>2, <2>7 DEF applyTransition, recFlow, Withdrawn, Considered, Accepted,
         Declined, Goes, inStatus
    <2> QED
      BY <1>6, <2>3, <2>4, <2>8, OneRowMoves DEF Respond
  <1>7. ASSUME DeleteMyData(c) PROVE StepKind
    <2>1. \A u \in User : users'[u] = IF u = c THEN "deleted" ELSE users[u]
      BY <1>2, <1>7 DEF DeleteMyData, IInv, TypeOK
    <2>2. UNCHANGED <<apps, audit, outbox>>
      BY <1>7 DEF DeleteMyData
    <2> DEFINE Going(r) == inStatus(r, RecStatus \ {"withdrawn", "placed"}) /\ candidateOf(r) = c
    <2>3. ASSUME NEW r \in Rec, Going(r)
          PROVE  Goes(r, RecStatus \ {"withdrawn", "placed"}, "withdrawn")
      <3>1. recs[r] \in RecRow /\ r[1] \in profilesOf(c)
        BY <2>3, RowsBehind DEF inStatus, profilesOf, candidateOf, IInv, RecEmployerOwnsJob
      <3>2. recs'[r] = [recs[r] EXCEPT !.status = "withdrawn"]
        BY <1>7, <2>3, <3>1 DEF DeleteMyData, inStatus
      <3>3. [recs[r] EXCEPT !.status = "withdrawn"] \in RecRow
        BY <3>1 DEF RecRow, RecStatus
      <3>4. exists(recs'[r])
        BY <3>2, <3>3, NullIsNoRow DEF exists
      <3> QED
        BY <2>2, <2>3, <3>1, <3>2, <3>4 DEF Goes, inStatus, RecRow
    <2>4. ASSUME NEW r \in Rec, ~Going(r)
          PROVE  recs'[r] = recs[r]
      <3>1. exists(recs[r]) => recs[r].status \in RecStatus
        BY RowsBehind DEF RecRow
      <3> QED
        BY <1>7, <2>4, <3>1 DEF DeleteMyData, inStatus, profilesOf, candidateOf
    <2>5. ASSUME NEW q \in Rec, exists(recs[q])
          PROVE  candidateOf(q)' = candidateOf(q)
      <3>1. q[1] \in Anon /\ profiles[q[1]] \in ProfileRow
        BY <2>5, RowsBehind
      <3>2. profiles'[q[1]] \in {profiles[q[1]], [profiles[q[1]] EXCEPT !.has_pii = FALSE]}
        BY <1>7, <3>1 DEF DeleteMyData
      <3> QED
        BY <3>1, <3>2 DEF candidateOf, ProfileRow
    <2>6. \A r \in Rec : contactRows(r)' = contactRows(r)
      BY <2>2 DEF contactRows
    <2>7. Erases(c)
      BY <2>1, <2>2, <2>3, <2>4, <2>6 DEF Erases
    <2> QED
      BY <2>5, <2>7 DEF StepKind
  <1> QED
    BY <1>1, <1>3, <1>4, <1>5, <1>6, <1>7

\* Every call of every handler moves at most one recommendation, along the
\* arrows of recFlow and with the log entry and the contact row that go with
\* the arrow; only an erasure ends several.
LEMMA StepKinds ==
  ASSUME IInv, Next
  PROVE  StepKind
  BY JobKind, ProfileKind, HunterKind, EmployerKind, CandidateKind, AdminKind DEF Next

-----------------------------------------------------------------------------
(* What the log and the queue hold, status by status.                      *)

asks(r)     == [action |-> "express_interest", actor_user_id |-> recs[r].employer_id]
approves(r) == [action |-> "approve_unlock", actor_user_id |-> candidateOf(r)]
delivers(r) == [action |-> "unlock_delivery", actor_user_id |-> recs[r].employer_id]

Undelivered(r) ==
  /\ contactRows(r) = {}
  /\ \A i \in DOMAIN audit[r] : audit[r][i].action # "unlock_delivery"

Delivered(r) ==
  /\ contactRows(r) # {}
  /\ \A row \in contactRows(r) : row.target = recs[r].employer_id
  /\ \/ audit[r] = <<asks(r), approves(r), delivers(r)>>
     \/ audit[r] = <<asks(r), delivers(r)>> /\ exists(apps[r])

\* The status of a recommendation determines its log, up to the two ways of
\* consenting, and whether its contact is queued; a request can be approved or
\* unlocked only before the candidate's account is erased.
History(r) ==
  /\ ~exists(recs[r]) \/ inStatus(r, {"pending", "pending_pickup"}) => audit[r] = << >>
  /\ inStatus(r, {"employer_interested", "considering_offer"}) => audit[r] = <<asks(r)>>
  /\ inStatus(r, {"considering_offer"}) => exists(apps[r])
  /\ inStatus(r, {"candidate_approved"}) =>
       /\ ~erased(r)
       /\ \/ audit[r] = <<asks(r), approves(r)>>
          \/ audit[r] = <<asks(r)>> /\ exists(apps[r])
  /\ inStatus(r, {"unlocked"}) => Delivered(r) /\ ~erased(r)
  /\ inStatus(r, {"withdrawn"}) => Undelivered(r) \/ (Delivered(r) /\ erased(r))
  /\ inStatus(r, {"unlocked", "withdrawn"}) \/ Undelivered(r)
  /\ ~inStatus(r, {"placed"})

\* The inductive invariant of the contact's release.
ConsentInv == IInv /\ \A r \in Rec : History(r)

LEMMA ConsentInit == Init => ConsentInv
  <1> SUFFICES ASSUME Init, NEW r \in Rec
               PROVE  History(r)
    BY InitEstablishes DEF ConsentInv
  <1>1. ~exists(recs[r]) /\ audit[r] = << >> /\ contactRows(r) = {}
    BY DEF Init, exists, contactRows
  <1>2. Undelivered(r)
    BY <1>1 DEF Undelivered
  <1> QED
    BY <1>1, <1>2 DEF History, inStatus

\* What History(r) reads of the state.
LEMMA SameHistory ==
  ASSUME NEW r \in Rec, History(r),
         exists(recs'[r]) <=> exists(recs[r]),
         exists(recs[r]) => /\ recs'[r].status = recs[r].status
                            /\ recs'[r].employer_id = recs[r].employer_id
                            /\ candidateOf(r)' = candidateOf(r)
                            /\ erased(r)' <=> erased(r),
         exists(apps'[r]) <=> exists(apps[r]),
         audit'[r] = audit[r], contactRows(r)' = contactRows(r)
  PROVE  History(r)'
  <1>1. CASE ~exists(recs[r])
    BY <1>1 DEF History, inStatus, Undelivered
  <1>2. CASE exists(recs[r])
    <2>1. /\ asks(r)' = asks(r) /\ approves(r)' = approves(r) /\ delivers(r)' = delivers(r)
          /\ \A S : inStatus(r, S)' <=> inStatus(r, S)
      BY <1>2 DEF asks, approves, delivers, inStatus
    <2>2. (Undelivered(r)' <=> Undelivered(r)) /\ (Delivered(r)' <=> Delivered(r))
      BY <1>2, <2>1 DEF Undelivered, Delivered
    <2> QED
      BY <1>2, <2>1, <2>2 DEF History
  <1> QED
    BY <1>1, <1>2

LEMMA AppendToNone ==
  ASSUME NEW x
  PROVE  Append(<< >>, x) = <<x>>
  OBVIOUS

\* A sequence is what Append makes of its front and its last element.
LEMMA AppendIs ==
  ASSUME NEW S, NEW s \in Seq(S), NEW x \in S, NEW t \in Seq(S),
         Len(t) = Len(s) + 1, \A i \in 1..Len(s) : t[i] = s[i], t[Len(s) + 1] = x
  PROVE  Append(s, x) = t
  <1> DEFINE a == Append(s, x)
  <1>1. /\ a \in Seq(S) /\ Len(a) = Len(s) + 1
        /\ \A i \in 1..Len(s) : a[i] = s[i]
        /\ a[Len(s) + 1] = x
    BY AppendProperties
  <1> HIDE DEF a
  <1>2. Len(s) \in Nat
    OBVIOUS
  <1>3. \A i \in 1..Len(a) : a[i] = t[i]
    BY <1>1, <1>2
  <1>4. a = t
    BY <1>1, <1>3, SeqEqual
  <1> QED
    BY <1>4 DEF a

LEMMA AppendToOne ==
  ASSUME NEW x, NEW y
  PROVE  Append(<<x>>, y) = <<x, y>>
  <1> DEFINE S == {x, y}
             one == <<x>>
             two == <<x, y>>
  <1>1. /\ one \in Seq(S) /\ two \in Seq(S) /\ y \in S
        /\ Len(one) = 1 /\ Len(two) = 2
        /\ one[1] = x /\ two[1] = x /\ two[2] = y
    OBVIOUS
  <1> HIDE DEF S, one, two
  <1>2. /\ Len(two) = Len(one) + 1
        /\ \A i \in 1..Len(one) : two[i] = one[i]
        /\ two[Len(one) + 1] = y
    BY <1>1
  <1>3. Append(one, y) = two
    BY <1>1, <1>2, AppendIs
  <1> QED
    BY <1>3 DEF one, two

LEMMA AppendToTwo ==
  ASSUME NEW x, NEW y, NEW z
  PROVE  Append(<<x, y>>, z) = <<x, y, z>>
  <1> DEFINE S == {x, y, z}
             two == <<x, y>>
             three == <<x, y, z>>
  <1>1. /\ two \in Seq(S) /\ three \in Seq(S) /\ z \in S
        /\ Len(two) = 2 /\ Len(three) = 3
        /\ two[1] = x /\ two[2] = y
        /\ three[1] = x /\ three[2] = y /\ three[3] = z
    OBVIOUS
  <1> HIDE DEF S, two, three
  <1>2. /\ Len(three) = Len(two) + 1
        /\ \A i \in 1..Len(two) : three[i] = two[i]
        /\ three[Len(two) + 1] = z
    BY <1>1
  <1>3. Append(two, z) = three
    BY <1>1, <1>2, AppendIs
  <1> QED
    BY <1>3 DEF two, three

\* A log entry that is no delivery leaves the contact undelivered.
LEMMA StaysUndelivered ==
  ASSUME IInv, NEW r \in Rec, Undelivered(r), contactRows(r)' = contactRows(r),
         \/ silent(r)
         \/ \E u, action : action # "unlock_delivery" /\ logs(r, action, u)
  PROVE  Undelivered(r)'
  <1>1. CASE silent(r)
    BY <1>1 DEF silent, Undelivered
  <1>2. ASSUME NEW u, NEW action, action # "unlock_delivery", logs(r, action, u)
        PROVE  Undelivered(r)'
    <2>1. audit[r] \in Seq(AuditRow)
      BY DEF IInv, TypeOK
    <2> DEFINE entry == [action |-> action, actor_user_id |-> u]
    <2>2. entry.action # "unlock_delivery"
      BY <1>2
    <2>3. audit'[r] = Append(audit[r], entry)
      BY <1>2 DEF logs
    <2> HIDE DEF entry
    <2>4. \A i \in DOMAIN audit'[r] :
            audit'[r][i] = entry \/ (i \in DOMAIN audit[r] /\ audit'[r][i] = audit[r][i])
      BY <2>1, <2>3
    <2> QED
      BY <2>2, <2>4 DEF Undelivered
  <1> QED
    BY <1>1, <1>2

\* A negotiation goes on: no status but "unlocked" has a contact queued.
LEMMA ProceedHistory ==
  ASSUME IInv, NEW r \in Rec, History(r), Proceeds(r),
         exists(recs[r]) => candidateOf(r)' = candidateOf(r) /\ (erased(r)' <=> erased(r))
  PROVE  History(r)'
  <1>1. ASSUME NEW to, exists(recs'[r]), recs'[r].status = to, Undelivered(r)',
               to \in {"pending", "pending_pickup"} => audit'[r] = << >>,
               to \in {"employer_interested", "considering_offer"} =>
                 audit'[r] = <<asks(r)'>>,
               to = "considering_offer" => exists(apps'[r]),
               to = "candidate_approved" =>
                 /\ ~erased(r)'
                 /\ \/ audit'[r] = <<asks(r)', approves(r)'>>
                    \/ audit'[r] = <<asks(r)'>> /\ exists(apps'[r]),
               to \notin {"unlocked", "placed"}
        PROVE  History(r)'
    BY <1>1 DEF History, inStatus
  <1>2. ASSUME exists(recs[r]), recs'[r].employer_id = recs[r].employer_id
        PROVE  asks(r)' = asks(r) /\ approves(r)' = approves(r)
    BY <1>2 DEF asks, approves
  <1>3. ~inStatus(r, {"unlocked", "withdrawn"}) => Undelivered(r)
    BY DEF History
  <1>4. CASE Created(r)
    <2>1. audit'[r] = << >> /\ Undelivered(r)'
      BY <1>3, <1>4, StaysUndelivered DEF Proceeds, Created, History, inStatus, silent
    <2> QED
      BY <1>1, <1>4, <2>1 DEF Created, inStatus
  <1>5. CASE Carded(r)
    <2>1. /\ exists(recs[r]) /\ exists(recs'[r])
          /\ recs'[r].status = recs[r].status /\ recs'[r].employer_id = recs[r].employer_id
          /\ exists(apps'[r]) <=> exists(apps[r])
          /\ audit'[r] = audit[r] /\ contactRows(r)' = contactRows(r)
      BY <1>5 DEF Carded, Goes, inStatus, silent, Proceeds
    <2> QED
      BY <2>1, SameHistory
  <1>6. CASE PickedUp(r) \/ Withdrawn(r)
    <2>1. inStatus(r, {"pending", "pending_pickup"}) /\ silent(r)
      BY <1>6 DEF PickedUp, Withdrawn, Goes, inStatus
    <2>2. audit'[r] = << >>
      BY <2>1 DEF History, silent
    <2>3. Undelivered(r)'
      BY <1>3, <2>1, StaysUndelivered DEF Proceeds, inStatus
    <2> QED
      BY <1>1, <1>6, <2>2, <2>3 DEF PickedUp, Withdrawn, Goes
  <1>7. CASE Asked(r)
    <2>1. Undelivered(r)'
      BY <1>3, <1>7, StaysUndelivered DEF Proceeds, Asked, Goes, inStatus
    <2>2. audit'[r] = <<asks(r)>>
      BY <1>7, AppendToNone DEF Asked, Goes, logs, asks, History, inStatus
    <2> QED
      BY <1>1, <1>2, <1>7, <2>1, <2>2 DEF Asked, Goes, inStatus
  <1>8. CASE Considered(r)
    <2>1. Undelivered(r)'
      BY <1>3, <1>8, StaysUndelivered DEF Proceeds, Considered, Goes, inStatus
    <2>2. audit'[r] = <<asks(r)>> /\ exists(apps'[r])
      BY <1>8 DEF Considered, Goes, silent, History, inStatus
    <2> QED
      BY <1>1, <1>2, <1>8, <2>1, <2>2 DEF Considered, Goes, inStatus
  <1>9. CASE Accepted(r)
    <2>1. Undelivered(r)'
      BY <1>3, <1>9, StaysUndelivered DEF Proceeds, Accepted, Goes, inStatus
    <2>2. audit'[r] = <<asks(r)>> /\ exists(apps'[r])
      BY <1>9 DEF Accepted, Goes, silent, History, inStatus
    <2> QED
      BY <1>1, <1>2, <1>9, <2>1, <2>2 DEF Accepted, Goes, inStatus
  <1>10. CASE Approved(r)
    <2>1. Undelivered(r)'
      BY <1>3, <1>10, StaysUndelivered DEF Proceeds, Approved, Goes, inStatus
    <2>2. audit'[r] = <<asks(r), approves(r)>>
      BY <1>10, AppendToOne DEF Approved, Goes, logs, approves, History, inStatus
    <2> QED
      BY <1>1, <1>2, <1>10, <2>1, <2>2 DEF Approved, Goes, inStatus
  <1>11. CASE Refused(r) \/ Declined(r)
    <2>1. Undelivered(r)'
      BY <1>3, <1>11, StaysUndelivered DEF Proceeds, Refused, Declined, Goes, inStatus
    <2> QED
      BY <1>1, <1>11, <2>1 DEF Refused, Declined, Goes
  <1> QED
    BY <1>4, <1>5, <1>6, <1>7, <1>8, <1>9, <1>10, <1>11 DEF Proceeds

\* unlockContact finds a granted request, so its entry closes a log of consent.
LEMMA ReleaseHistory ==
  ASSUME IInv, NEW r \in Rec, History(r), Released(r),
         candidateOf(r)' = candidateOf(r), erased(r)' <=> erased(r)
  PROVE  History(r)'
  <1>1. inStatus(r, {"candidate_approved"}) /\ inStatus(r, {"unlocked"})'
    BY DEF Released, Goes, inStatus
  <1>2. /\ asks(r)' = asks(r) /\ approves(r)' = approves(r) /\ delivers(r)' = delivers(r)
        /\ recs'[r].employer_id = recs[r].employer_id
        /\ exists(apps'[r]) <=> exists(apps[r])
    BY DEF Released, Goes, asks, approves, delivers
  <1>3. contactRows(r) = {}
    BY <1>1 DEF History, Undelivered, inStatus
  <1>4. contactRows(r)' # {} /\ \A row \in contactRows(r)' : row.target = recs[r].employer_id
    BY <1>3 DEF Released
  <1>5. audit'[r] = Append(audit[r], delivers(r))
    BY DEF Released, logs, delivers
  <1>6. \/ audit'[r] = <<asks(r), approves(r), delivers(r)>>
        \/ audit'[r] = <<asks(r), delivers(r)>> /\ exists(apps[r])
    BY <1>1, <1>5, AppendToOne, AppendToTwo DEF History
  <1>7. Delivered(r)' /\ ~erased(r)'
    BY <1>1, <1>2, <1>4, <1>6 DEF Delivered, History
  <1> QED
    BY <1>1, <1>7 DEF History, inStatus

\* The erasure keeps log and queue: what was delivered before it stays known
\* as such, everything else is withdrawn undelivered.
LEMMA ErasureHistory ==
  ASSUME IInv, NEW r \in Rec, History(r), NEW c \in Candidates, Erases(c),
         exists(recs[r]) => candidateOf(r)' = candidateOf(r)
  PROVE  History(r)'
  <1>1. exists(recs[r]) => candidateOf(r) \in User /\ recs[r].status \in RecStatus
    BY RowsBehind DEF User, RecRow
  <1>2. CASE inStatus(r, RecStatus \ {"withdrawn", "placed"}) /\ candidateOf(r) = c
    <2>1. Goes(r, RecStatus \ {"withdrawn", "placed"}, "withdrawn")
      BY <1>2 DEF Erases
    <2>2. /\ contactRows(r)' = contactRows(r) /\ audit'[r] = audit[r] /\ apps'[r] = apps[r]
          /\ erased(r)'
      BY <1>1, <1>2 DEF Erases, erased, inStatus
    <2>3. Delivered(r) \/ Undelivered(r)
      BY DEF History, inStatus
    <2>4. Undelivered(r)' \/ Delivered(r)'
      BY <1>2, <2>1, <2>2, <2>3
         DEF Undelivered, Delivered, Goes, asks, approves, delivers, inStatus
    <2> QED
      BY <2>1, <2>2, <2>4 DEF History, Goes, inStatus
  <1>3. CASE ~(inStatus(r, RecStatus \ {"withdrawn", "placed"}) /\ candidateOf(r) = c)
    <2>1. /\ recs'[r] = recs[r] /\ apps'[r] = apps[r] /\ audit'[r] = audit[r]
          /\ contactRows(r)' = contactRows(r)
      BY <1>3 DEF Erases
    <2>2. CASE exists(recs[r]) /\ candidateOf(r) = c
      <3>1. inStatus(r, {"withdrawn"}) /\ erased(r)'
        BY <1>1, <1>3, <2>2 DEF History, inStatus, Erases, erased
      <3>2. Undelivered(r)' \/ Delivered(r)'
        BY <2>1, <2>2, <3>1 DEF History, Undelivered, Delivered, asks, approves, delivers, inStatus
      <3> QED
        BY <2>1, <3>1, <3>2 DEF History, inStatus
    <2>3. CASE ~(exists(recs[r]) /\ candidateOf(r) = c)
      <3>1. exists(recs[r]) => (erased(r)' <=> erased(r))
        BY <1>1, <2>3 DEF Erases, erased
      <3> QED
        BY <2>1, <3>1, SameHistory
    <2> QED
      BY <2>2, <2>3
  <1> QED
    BY <1>2, <1>3

LEMMA ConsentStep == ConsentInv /\ [Next]_vars => ConsentInv'
  <1>1. CASE UNCHANGED vars
    <2>1. ASSUME ConsentInv PROVE IInv'
      BY <1>1, <2>1, StepPreserves DEF ConsentInv
    <2>2. ASSUME NEW r \in Rec, History(r) PROVE History(r)'
      BY <1>1, <2>2, SameHistory DEF vars, candidateOf, erased, contactRows
    <2> QED
      BY <2>1, <2>2 DEF ConsentInv
  <1>2. ASSUME ConsentInv, Next PROVE ConsentInv'
    <2>1. IInv /\ IInv' /\ StepKind
      BY <1>2, StepPreserves, StepKinds DEF ConsentInv
    <2> SUFFICES ASSUME NEW r \in Rec PROVE History(r)'
      BY <2>1 DEF ConsentInv
    <2>2. History(r) /\ (exists(recs[r]) => candidateOf(r) \in User /\ candidateOf(r)' = candidateOf(r))
      BY <1>2, <2>1, RowsBehind DEF ConsentInv, StepKind, User
    <2>3. ASSUME Rests(r), \A u \in User : users'[u] = "deleted" <=> users[u] = "deleted"
          PROVE  History(r)'
      BY <2>2, <2>3, SameHistory DEF Rests, erased
    <2>4. CASE Quiet
      BY <2>3, <2>4 DEF Quiet
    <2>5. ASSUME NEW q \in Rec, Moves(q) PROVE History(r)'
      <3>1. CASE q # r
        BY <2>3, <2>5, <3>1 DEF Moves
      <3>2. CASE q = r /\ Proceeds(r)
        BY <2>1, <2>2, <2>5, <3>2, ProceedHistory DEF Moves, erased
      <3>3. CASE q = r /\ Released(r)
        BY <2>1, <2>2, <2>5, <3>3, ReleaseHistory DEF Moves, erased, Released, Goes, inStatus
      <3> QED
        BY <2>5, <3>1, <3>2, <3>3 DEF Moves
    <2>6. ASSUME NEW c \in Candidates, Erases(c) PROVE History(r)'
      BY <2>1, <2>2, <2>6, ErasureHistory
    <2> QED
      BY <2>1, <2>4, <2>5, <2>6 DEF StepKind
  <1> QED
    BY <1>1, <1>2

\* In every reachable state the log and the queue tell the status, and consent.
THEOREM ConsentInvariance == Spec => []ConsentInv
  BY ConsentInit, ConsentStep, PTL DEF Spec

\* A contact is queued only for a delivered request.
LEMMA QueuedIsDelivered ==
  ASSUME ConsentInv, NEW r \in Rec, contactRows(r) # {}
  PROVE  /\ Delivered(r)
         /\ exists(recs[r])
         /\ recs[r].status = "unlocked" \/ (recs[r].status = "withdrawn" /\ erased(r))
  BY DEF ConsentInv, History, Undelivered, inStatus

\* The contact is queued only for the employer who had asked for it before, once
\* the candidate had approved or had applied in person, and nothing follows the
\* delivery in the log: expressInterest, approveUnlock and unlockContact.
THEOREM ContactNeedsConsent == Spec => []ContactFollowsConsent
  <1>1. ConsentInv => ContactFollowsConsent
    <2> SUFFICES ASSUME ConsentInv, NEW r \in Rec, NEW row \in contactRows(r)
                 PROVE  LET e == recs[r].employer_id
                            n == Len(audit[r])
                        IN  /\ row.target = e
                            /\ logged(r, 1, "express_interest", e)
                            /\ logged(r, n, "unlock_delivery", e)
                            /\ \/ n = 3 /\ logged(r, 2, "approve_unlock", candidateOf(r))
                               \/ /\ n = 2 /\ exists(apps[r])
                                  /\ apps[r].candidate_user_id = candidateOf(r)
      BY DEF ContactFollowsConsent
    <2>1. Delivered(r) /\ row.target = recs[r].employer_id
      BY QueuedIsDelivered DEF Delivered
    <2>2. exists(apps[r]) => apps[r].candidate_user_id = candidateOf(r)
      BY DEF ConsentInv, IInv, ApplicationMirrorsRecommendation
    <2>3. CASE audit[r] = <<asks(r), approves(r), delivers(r)>>
      <3>1. /\ Len(audit[r]) = 3
            /\ audit[r][1] = asks(r) /\ audit[r][2] = approves(r) /\ audit[r][3] = delivers(r)
        BY <2>3
      <3> QED
        BY <2>1, <3>1 DEF logged, asks, approves, delivers
    <2>4. CASE audit[r] = <<asks(r), delivers(r)>> /\ exists(apps[r])
      <3>1. Len(audit[r]) = 2 /\ audit[r][1] = asks(r) /\ audit[r][2] = delivers(r)
        BY <2>4
      <3> QED
        BY <2>1, <2>2, <2>4, <3>1 DEF logged, asks, delivers
    <2> QED
      BY <2>1, <2>3, <2>4 DEF Delivered
  <1> QED
    BY <1>1, ConsentInvariance, PTL

\* unlockContact writes status, log entry and queue row together: none of the
\* three is ever found without the others, and only the erasure moves the
\* status on.
THEOREM StatusLogAndQueueAgree == Spec => []UnlockedIffQueued
  <1>1. ConsentInv => UnlockedIffQueued
    <2> SUFFICES ASSUME ConsentInv, NEW r \in Rec
                 PROVE  LET delivered ==
                              \E i \in DOMAIN audit[r] : audit[r][i].action = "unlock_delivery"
                        IN  /\ delivered <=> contactRows(r) # {}
                            /\ exists(recs[r]) /\ recs[r].status = "unlocked" => delivered
                            /\ delivered => \/ recs[r].status = "unlocked"
                                            \/ /\ recs[r].status = "withdrawn"
                                               /\ users[candidateOf(r)] = "deleted"
      BY DEF UnlockedIffQueued
    <2> DEFINE delivered == \E i \in DOMAIN audit[r] : audit[r][i].action = "unlock_delivery"
    <2>1. Delivered(r) => delivered
      <3>1. ASSUME audit[r] = <<asks(r), approves(r), delivers(r)>> PROVE delivered
        <4>1. 3 \in DOMAIN audit[r] /\ audit[r][3] = delivers(r)
          BY <3>1
        <4> QED
          BY <4>1 DEF delivers
      <3>2. ASSUME audit[r] = <<asks(r), delivers(r)>> PROVE delivered
        <4>1. 2 \in DOMAIN audit[r] /\ audit[r][2] = delivers(r)
          BY <3>2
        <4> QED
          BY <4>1 DEF delivers
      <3> QED
        BY <3>1, <3>2 DEF Delivered
    <2>2. Undelivered(r) => ~delivered /\ contactRows(r) = {}
      BY DEF Undelivered
    <2>3. Delivered(r) \/ Undelivered(r)
      BY DEF ConsentInv, History, inStatus
    <2>4. exists(recs[r]) /\ recs[r].status = "unlocked" => Delivered(r)
      BY DEF ConsentInv, History, inStatus
    <2>5. contactRows(r) # {} =>
            recs[r].status = "unlocked" \/ (recs[r].status = "withdrawn" /\ erased(r))
      BY QueuedIsDelivered
    <2>6. Delivered(r) => contactRows(r) # {}
      BY DEF Delivered
    <2> HIDE DEF delivered
    <2>7. /\ delivered <=> contactRows(r) # {}
          /\ exists(recs[r]) /\ recs[r].status = "unlocked" => delivered
          /\ delivered => \/ recs[r].status = "unlocked"
                          \/ /\ recs[r].status = "withdrawn"
                             /\ users[candidateOf(r)] = "deleted"
      BY <2>1, <2>2, <2>3, <2>4, <2>5, <2>6 DEF erased
    <2> QED
      BY <2>7 DEF delivered
  <1> QED
    BY <1>1, ConsentInvariance, PTL

\* Whatever is uploaded, recommended or asked for after deleteMyData, no contact
\* of the erased candidate is queued any more.
THEOREM ErasureStopsReleases == Spec => NoReleaseAfterErasure
  <1> DEFINE NoRelease == \A r \in Rec :
                exists(recs[r]) /\ users[candidateOf(r)] = "deleted" =>
                  contactRows(r)' \subseteq contactRows(r)
  <1>1. ConsentInv /\ [Next]_vars => [NoRelease]_vars
    <2> SUFFICES ASSUME ConsentInv, Next, NEW r \in Rec, exists(recs[r]), erased(r)
                 PROVE  contactRows(r)' = contactRows(r)
      BY DEF erased
    <2>1. StepKind
      BY StepKinds DEF ConsentInv
    <2>2. ~Released(r)
      BY DEF Released, Goes, ConsentInv, History
    <2> QED
      BY <2>1, <2>2 DEF StepKind, Quiet, Moves, Erases, Rests, Proceeds
  <1> QED
    BY <1>1, ConsentInvariance, PTL DEF Spec, NoReleaseAfterErasure

-----------------------------------------------------------------------------
(* The tables implement the abstract protocol.                             *)

phases == [r \in Rec |-> phaseOf(r)]
owners == [r \in Rec |-> IF exists(recs[r]) THEN recs[r].employer_id ELSE NULL]
releases == {<<row.rec, row.target>> : row \in {x \in outbox : x.pii}}

\* The contacts that went out, by the recommendation they went out for.
LEMMA ReleasesByRow ==
  ASSUME IInv
  PROVE  /\ \A x \in releases : \E r \in Rec : \E row \in contactRows(r) : x = <<r, row.target>>
         /\ \A r \in Rec : \A row \in contactRows(r) : <<r, row.target>> \in releases
  <1>1. \A row \in outbox : row.rec \in Rec
    BY DEF IInv, TypeOK, OutboxRow
  <1> QED
    BY <1>1 DEF releases, contactRows

LEMMA ProtocolInit == Init => Unlock!Init
  <1> SUFFICES ASSUME Init PROVE Unlock!Init
    OBVIOUS
  <1>1. \A r \in Rec : ~exists(recs[r])
    BY DEF Init, exists
  <1>2. \A r \in Rec : phaseOf(r) = "none"
    BY <1>1 DEF phaseOf
  <1> QED
    BY <1>1, <1>2 DEF Init, Unlock!Init

LEMMA ReleasesStay ==
  ASSUME IInv, IInv', \A r \in Rec : contactRows(r)' = contactRows(r)
  PROVE  releases' = releases
  <1>1. /\ \A x \in releases : \E r \in Rec : \E row \in contactRows(r) : x = <<r, row.target>>
        /\ \A r \in Rec : \A row \in contactRows(r) : <<r, row.target>> \in releases
    BY ReleasesByRow
  <1>2. /\ \A x \in releases' : \E r \in Rec : \E row \in contactRows(r)' : x = <<r, row.target>>
        /\ \A r \in Rec : \A row \in contactRows(r)' : <<r, row.target>> \in releases'
    <2>1. \A row \in outbox' : row.rec \in Rec
      BY DEF IInv, TypeOK, OutboxRow
    <2> QED
      BY <2>1 DEF releases, contactRows
  <1>3. \A x \in releases' : x \in releases
    BY <1>1, <1>2
  <1>4. \A x \in releases : x \in releases'
    BY <1>1, <1>2
  <1> QED
    BY <1>3, <1>4

LEMMA RestingPhase ==
  ASSUME NEW r \in Rec, recs'[r] = recs[r]
  PROVE  /\ phaseOf(r)' = phaseOf(r)
         /\ owners'[r] = owners[r]
  BY DEF phaseOf, owners, exists

\* The phase of a recommendation in each of its statuses.
LEMMA PhaseByStatus ==
  ASSUME NEW r \in Rec
  PROVE  /\ ~exists(recs[r]) => phaseOf(r) = "none"
         /\ inStatus(r, {"pending_pickup", "pending"}) => phaseOf(r) = "offered"
         /\ inStatus(r, {"employer_interested", "considering_offer"}) => phaseOf(r) = "asked"
         /\ inStatus(r, {"candidate_approved"}) => phaseOf(r) = "granted"
         /\ inStatus(r, {"unlocked", "placed"}) => phaseOf(r) = "released"
         /\ inStatus(r, {"rejected_employer", "rejected_candidate", "withdrawn"}) =>
              phaseOf(r) = "closed"
         /\ inStatus(r, RecStatus) => phaseOf(r) # "none"
  <1>1. /\ ~exists(recs[r]) => phaseOf(r) = "none"
        /\ inStatus(r, {"pending_pickup", "pending"}) => phaseOf(r) = "offered"
        /\ inStatus(r, {"employer_interested", "considering_offer"}) => phaseOf(r) = "asked"
        /\ inStatus(r, {"candidate_approved"}) => phaseOf(r) = "granted"
        /\ inStatus(r, {"unlocked", "placed"}) => phaseOf(r) = "released"
        /\ inStatus(r, {"rejected_employer", "rejected_candidate", "withdrawn"}) =>
             phaseOf(r) = "closed"
    BY DEF phaseOf, inStatus
  <1> QED
    BY <1>1 DEF inStatus, RecStatus

\* A negotiation that goes on takes one abstract step, or none that shows.
LEMMA ProceedRefines ==
  ASSUME ConsentInv, ConsentInv', NEW r \in Rec, Moves(r), Proceeds(r)
  PROVE  Unlock!Next \/ UNCHANGED <<phases, owners, releases>>
  <1>1. UNCHANGED releases
    BY ReleasesStay DEF ConsentInv, Moves, Proceeds, Rests
  <1>2. \A q \in Rec \ {r} : phaseOf(q)' = phaseOf(q) /\ owners'[q] = owners[q]
    BY RestingPhase DEF Moves, Rests
  <1>3. /\ phases' = [phases EXCEPT ![r] = phaseOf(r)']
        /\ phases = [q \in Rec |-> phaseOf(q)]
        /\ phases[r] = phaseOf(r)
    BY <1>2 DEF phases
  <1>4. ~Created(r) => UNCHANGED owners
    <2>1. ~Created(r) => owners'[r] = owners[r]
      BY DEF Proceeds, Carded, PickedUp, Withdrawn, Asked, Considered, Accepted, Approved,
         Refused, Declined, Goes, inStatus, owners
    <2> QED
      BY <1>2, <2>1 DEF owners
  <1>5. CASE Created(r)
    <2>1. phaseOf(r) = "none" /\ phaseOf(r)' = "offered"
      BY <1>5 DEF Created, phaseOf, inStatus
    <2>2. PICK e \in Employers : e = recs'[r].employer_id
      BY <1>5 DEF Created, inStatus, ConsentInv, IInv, TypeOK, exists, RecRow
    <2>3. owners' = [owners EXCEPT ![r] = e]
      BY <1>2, <1>5, <2>2 DEF owners, Created, inStatus
    <2>4. Unlock!Offer(r, e)
      BY <1>1, <1>3, <2>1, <2>3 DEF Unlock!Offer, Unlock!advance, phases, owners, releases
    <2> QED
      BY <2>2, <2>4 DEF Unlock!Next
  <1>6. CASE Carded(r) \/ PickedUp(r) \/ Considered(r)
    <2>1. phaseOf(r)' = phaseOf(r)
      BY <1>6 DEF Carded, PickedUp, Considered, Goes, inStatus, phaseOf
    <2>2. UNCHANGED phases
      BY <1>2, <2>1 DEF phases
    <2>3. ~Created(r)
      BY <1>6 DEF Carded, PickedUp, Considered, Goes, inStatus, Created
    <2> QED
      BY <1>1, <1>4, <2>2, <2>3
  <1>7. CASE Withdrawn(r) \/ Refused(r) \/ Declined(r)
    <2>1. phaseOf(r) # "none" /\ phaseOf(r)' = "closed" /\ ~Created(r)
      BY <1>7 DEF Withdrawn, Refused, Declined, Goes, inStatus, phaseOf, Created
    <2>2. Unlock!Close({r})
      BY <1>1, <1>2, <1>4, <2>1 DEF Unlock!Close, phases, owners, releases
    <2> QED
      BY <2>2 DEF Unlock!Next
  <1>8. CASE Asked(r)
    <2>1. phaseOf(r) = "offered" /\ phaseOf(r)' = "asked" /\ ~Created(r)
      BY <1>8 DEF Asked, Goes, inStatus, phaseOf, Created
    <2>2. Unlock!Ask(r)
      BY <1>1, <1>3, <1>4, <2>1 DEF Unlock!Ask, Unlock!advance, phases, owners, releases
    <2> QED
      BY <2>2 DEF Unlock!Next
  <1>9. CASE Accepted(r) \/ Approved(r)
    <2>1. phaseOf(r) = "asked" /\ phaseOf(r)' = "granted" /\ ~Created(r)
      BY <1>9 DEF Accepted, Approved, Goes, inStatus, phaseOf, Created
    <2>2. Unlock!Grant(r)
      BY <1>1, <1>3, <1>4, <2>1 DEF Unlock!Grant, Unlock!advance, phases, owners, releases
    <2> QED
      BY <2>2 DEF Unlock!Next
  <1> QED
    BY <1>5, <1>6, <1>7, <1>8, <1>9 DEF Proceeds

\* unlockContact is the release: the row it queues goes to the owner.
LEMMA ReleaseRefines ==
  ASSUME ConsentInv, ConsentInv', NEW r \in Rec, Moves(r), Released(r)
  PROVE  Unlock!Next
  <1>1. \A q \in Rec \ {r} :
          /\ phaseOf(q)' = phaseOf(q) /\ owners'[q] = owners[q]
          /\ contactRows(q)' = contactRows(q)
    BY RestingPhase DEF Moves, Rests
  <1>2. phaseOf(r) = "granted" /\ phaseOf(r)' = "released" /\ owners'[r] = owners[r]
    BY DEF Released, Goes, inStatus, phaseOf, owners
  <1>3. UNCHANGED owners
    BY <1>1, <1>2 DEF owners
  <1>4. phases' = [phases EXCEPT ![r] = "released"] /\ phases[r] = "granted"
    BY <1>1, <1>2 DEF phases
  <1>5. releases' = releases \union {<<r, owners[r]>>}
    <2>1. PICK row : /\ row.target = recs[r].employer_id
                     /\ contactRows(r)' = contactRows(r) \union {row}
      BY DEF Released
    <2>2. owners[r] = recs[r].employer_id
      BY DEF Released, Goes, inStatus, owners
    <2>3. /\ \A x \in releases : \E q \in Rec : \E y \in contactRows(q) : x = <<q, y.target>>
          /\ \A q \in Rec : \A y \in contactRows(q) : <<q, y.target>> \in releases
      BY ReleasesByRow DEF ConsentInv
    <2>4. /\ \A x \in releases' : \E q \in Rec : \E y \in contactRows(q)' : x = <<q, y.target>>
          /\ \A q \in Rec : \A y \in contactRows(q)' : <<q, y.target>> \in releases'
      <3>1. \A y \in outbox' : y.rec \in Rec
        BY DEF ConsentInv, IInv, TypeOK, OutboxRow
      <3> QED
        BY <3>1 DEF releases, contactRows
    <2>5. \A x \in releases' : x \in releases \union {<<r, owners[r]>>}
      BY <1>1, <2>1, <2>2, <2>3, <2>4
    <2>6. \A x \in releases : x \in releases'
      BY <1>1, <2>1, <2>3, <2>4
    <2>7. <<r, owners[r]>> \in releases'
      BY <2>1, <2>2, <2>4
    <2> QED
      BY <2>5, <2>6, <2>7
  <1>6. Unlock!Release(r)
    BY <1>2, <1>3, <1>4, <1>5 DEF Unlock!Release, Unlock!advance, phases, owners, releases
  <1> QED
    BY <1>6 DEF Unlock!Next

\* The erasure closes what the candidate has under way, all at once.
LEMMA ErasureRefines ==
  ASSUME ConsentInv, ConsentInv', NEW c \in Candidates, Erases(c)
  PROVE  Unlock!Next
  <1> DEFINE S == {r \in Rec : /\ inStatus(r, RecStatus \ {"withdrawn", "placed"})
                               /\ candidateOf(r) = c}
  <1>1. UNCHANGED releases
    BY ReleasesStay DEF ConsentInv, Erases
  <1>2. ASSUME NEW r \in Rec \ S
        PROVE  phaseOf(r)' = phaseOf(r) /\ owners'[r] = owners[r]
    BY <1>2, RestingPhase DEF Erases
  <1>3. ASSUME NEW r \in S
        PROVE  phaseOf(r)' = "closed" /\ owners'[r] = owners[r] /\ phaseOf(r) # "none"
    <2>1. Goes(r, RecStatus \ {"withdrawn", "placed"}, "withdrawn")
      BY <1>3 DEF Erases
    <2>2. phaseOf(r)' = "closed" /\ owners'[r] = owners[r]
      BY <1>3, <2>1 DEF Goes, inStatus, phaseOf, owners
    <2>3. phaseOf(r) # "none"
      BY <1>3, PhaseByStatus DEF inStatus
    <2> QED
      BY <2>2, <2>3
  <1>4. UNCHANGED owners
    BY <1>2, <1>3 DEF owners
  <1>5. S \in SUBSET Rec /\ Unlock!Close(S)
    <2>1. S \subseteq Rec
      OBVIOUS
    <2> HIDE DEF S
    <2> QED
      BY <1>1, <1>2, <1>3, <1>4, <2>1 DEF Unlock!Close, phases, owners, releases
  <1> QED
    BY <1>5 DEF Unlock!Next

LEMMA ProtocolStep ==
  ConsentInv /\ ConsentInv' /\ [Next]_vars => [Unlock!Next]_<<phases, owners, releases>>
  <1>1. CASE UNCHANGED vars
    BY <1>1 DEF vars, phases, owners, releases, phaseOf
  <1>2. ASSUME ConsentInv, ConsentInv', Next
        PROVE  Unlock!Next \/ UNCHANGED <<phases, owners, releases>>
    <2>1. StepKind
      BY <1>2, StepKinds DEF ConsentInv
    <2>2. CASE Quiet
      <3>1. UNCHANGED releases
        BY <1>2, <2>2, ReleasesStay DEF ConsentInv, Quiet, Rests
      <3>2. UNCHANGED <<phases, owners>>
        BY <2>2, RestingPhase DEF Quiet, Rests, phases, owners
      <3> QED
        BY <3>1, <3>2
    <2>3. ASSUME NEW r \in Rec, Moves(r)
          PROVE  Unlock!Next \/ UNCHANGED <<phases, owners, releases>>
      BY <1>2, <2>3, ProceedRefines, ReleaseRefines DEF Moves
    <2> QED
      BY <1>2, <2>1, <2>2, <2>3, ErasureRefines DEF StepKind
  <1> QED
    BY <1>1, <1>2

\* The handlers implement the protocol: a contact leaves the platform only
\* along offer, request, grant and release, once, to the employer it was
\* offered to, and a closed negotiation is never taken up again.
THEOREM TablesImplementProtocol == Spec => ImplementsUnlockProtocol
  <1>1. [][Unlock!Next]_<<phases, owners, releases>> /\ Unlock!Init => Unlock!Spec
    BY DEF Unlock!Spec, phases, owners, releases
  <1> QED
    BY <1>1, ProtocolInit, ProtocolStep, ConsentInvariance, PTL DEF Spec, ImplementsUnlockProtocol
=============================================================================
