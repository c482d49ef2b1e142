---------------------------- MODULE Hiring_proofs ----------------------------
(***************************************************************************)
(* What lies around the release of a contact, for any number of accounts,  *)
(* jobs and profiles: the application before it, the headhunter's board,   *)
(* the placement, its payees and their webhooks after it, and the pages on *)
(* which everybody reads about all of this.                                *)
(***************************************************************************)
EXTENDS Consent_proofs, AdminPages, FiniteSetTheorems

-----------------------------------------------------------------------------
(* Applications.                                                           *)

Active(r) == exists(apps[r]) /\ recs[r].status \in ActiveStatus

LEMMA ActiveHasCandidate ==
  ASSUME IInv, NEW r \in Rec, Active(r)
  PROVE  exists(recs[r]) /\ apps[r].candidate_user_id = candidateOf(r)
  BY DEF IInv, ApplicationMirrorsRecommendation, Active

\* An application under way was under way before, or is being made by a
\* candidate who has nothing else under way with the job.
LEMMA ActiveStep ==
  ASSUME IInv, StepKind, NEW r \in Rec, Active(r)'
  PROVE  Active(r) \/ (Moves(r) /\ Created(r) /\ nothingActive(r))
  <1>1. ASSUME Rests(r) PROVE Active(r)
    BY <1>1 DEF Rests, Active
  <1>2. ASSUME NEW From, NEW to, Goes(r, From, to), From \subseteq ActiveStatus
        PROVE  Active(r)
    BY <1>2 DEF Goes, inStatus, Active
  <1>3. ASSUME NEW From, Goes(r, From, "rejected_candidate") \/ Goes(r, From, "withdrawn")
        PROVE  FALSE
    BY <1>3 DEF Goes, Active, ActiveStatus
  <1>4. ASSUME Moves(r) PROVE Active(r) \/ (Created(r) /\ nothingActive(r))
    <2>1. CASE Created(r)
      BY <2>1 DEF Created, Active
    <2>2. CASE Carded(r)
      BY <2>2 DEF Carded, Goes, inStatus, Active
    <2>3. CASE PickedUp(r) \/ Asked(r) \/ Considered(r) \/ Accepted(r) \/ Approved(r) \/ Released(r)
      BY <1>2, <2>3 DEF PickedUp, Asked, Considered, Accepted, Approved, Released, ActiveStatus
    <2>4. CASE Withdrawn(r) \/ Refused(r) \/ Declined(r)
      BY <1>3, <2>4 DEF Withdrawn, Refused, Declined
    <2> QED
      BY <1>4, <2>1, <2>2, <2>3, <2>4 DEF Moves, Proceeds
  <1>5. ASSUME NEW q \in Rec, Moves(q), q # r PROVE Active(r)
    BY <1>1, <1>5 DEF Moves
  <1>6. ASSUME NEW c \in Candidates, Erases(c) PROVE Active(r)
    BY <1>3, <1>6 DEF Erases, Active
  <1> QED
    BY <1>1, <1>4, <1>5, <1>6 DEF StepKind, Quiet

LEMMA OneActiveStep ==
  ASSUME IInv, IInv', StepKind, OneActiveApplication
  PROVE  OneActiveApplication'
  <1>1. ASSUME NEW r \in Rec, NEW q \in Rec, Active(r)', Active(q)', r[2] = q[2],
               candidateOf(r)' = candidateOf(q)', Moves(r), Created(r), nothingActive(r)
        PROVE  r = q
    <2> SUFFICES ASSUME q # r PROVE FALSE
      OBVIOUS
    <2>1. Active(q)
      BY <1>1 DEF Moves, Rests, Active
    <2>2. exists(recs[q])
      BY <2>1, ActiveHasCandidate
    <2>3. candidateOf(q) = candidateOf(r)
      BY <1>1 DEF Moves, candidateOf
    <2> QED
      BY <1>1, <2>1, <2>2, <2>3 DEF nothingActive, Active
  <1>2. ASSUME NEW r \in Rec, NEW q \in Rec, Active(r), Active(q), r[2] = q[2],
               candidateOf(r)' = candidateOf(q)'
        PROVE  r = q
    <2>1. /\ exists(recs[r]) /\ apps[r].candidate_user_id = candidateOf(r)
          /\ exists(recs[q]) /\ apps[q].candidate_user_id = candidateOf(q)
      BY <1>2, ActiveHasCandidate
    <2>2. candidateOf(r) = candidateOf(q)
      BY <1>2, <2>1 DEF StepKind
    <2> QED
      BY <1>2, <2>1, <2>2 DEF OneActiveApplication, Active
  <1>3. ASSUME NEW r \in Rec, NEW q \in Rec, Active(r)', Active(q)', r[2] = q[2],
               candidateOf(r)' = candidateOf(q)'
        PROVE  r = q
    BY <1>1, <1>2, <1>3, ActiveStep
  <1>4. \A r \in Rec : Active(r)' => apps'[r].candidate_user_id = candidateOf(r)'
    BY DEF IInv, ApplicationMirrorsRecommendation, Active
  <1> QED
    BY <1>3, <1>4 DEF OneActiveApplication, Active

\* apply asks about every profile of the candidate, and no other handler makes
\* an application, or takes a closed one up again: whatever profiles headhunters
\* add meanwhile, a person has one application under way per job.
THEOREM OneApplicationAtATime == Spec => []OneActiveApplication
  <1>1. Init => OneActiveApplication
    BY DEF Init, OneActiveApplication, exists
  <1>2. IInv /\ IInv' /\ OneActiveApplication /\ [Next]_vars => OneActiveApplication'
    <2>1. CASE UNCHANGED vars
      BY <2>1 DEF vars, OneActiveApplication
    <2> QED
      BY <2>1, StepKinds, OneActiveStep
  <1> QED
    BY <1>1, <1>2, Invariance, PTL DEF Spec

-----------------------------------------------------------------------------
(* The headhunter's board.                                                 *)

\* A step leaves the card of a recommendation as it is, or its owner, who may
\* have become so by this step, puts it into a column that it can reach.
Carries(row, next) ==
  /\ exists(next)
  /\ \/ /\ next.pipeline_stage = row.pipeline_stage
        /\ next.headhunter_id = row.headhunter_id
     \/ /\ next.headhunter_id # NULL /\ next.status = row.status
        /\ row.headhunter_id = NULL \/ row.pipeline_stage \notin {"onboarded", "rejected"}
           \/ next.pipeline_stage = row.pipeline_stage

\* What a step does to the card of r; a new recommendation is in the first column.
CardOf(r) ==
  /\ exists(recs[r]) => Carries(recs[r], recs'[r])
  /\ ~exists(recs[r]) /\ exists(recs'[r]) => recs'[r].pipeline_stage = "submitted"

LEMMA OneCard ==
  ASSUME IInv, NEW r \in Rec, NEW row \in RecRow, recs' = [recs EXCEPT ![r] = row],
         exists(recs[r]) => Carries(recs[r], row),
         ~exists(recs[r]) => row.pipeline_stage = "submitted"
  PROVE  \A q \in Rec : CardOf(q)
  BY DEF IInv, TypeOK, CardOf, Carries, exists

LEMMA StatusLeavesCard ==
  ASSUME IInv, NEW r \in Rec, exists(recs[r]), NEW next \in RecStatus,
         recs' = [recs EXCEPT ![r].status = next]
  PROVE  \A q \in Rec : CardOf(q)
  <1> DEFINE row == [recs[r] EXCEPT !.status = next]
  <1>1. recs[r] \in RecRow
    BY RowsBehind
  <1>2. /\ row \in RecRow
        /\ row.headhunter_id = recs[r].headhunter_id
        /\ row.pipeline_stage = recs[r].pipeline_stage
    BY <1>1 DEF RecRow
  <1>3. recs' = [recs EXCEPT ![r] = row]
    BY DEF IInv, TypeOK
  <1> HIDE DEF row
  <1>4. Carries(recs[r], row)
    BY <1>2, NullIsNoRow DEF Carries, exists
  <1> QED
    BY <1>2, <1>3, <1>4, OneCard

LEMMA NothingLeavesCard ==
  ASSUME UNCHANGED recs
  PROVE  \A q \in Rec : CardOf(q)
  BY DEF CardOf, Carries, exists

LEMMA HunterCard ==
  ASSUME IInv, HunterNext
  PROVE  \A q \in Rec : CardOf(q)
  <1>1. PICK h \in Hunters, r \in Rec :
          \/ \E referrer \in Referrers : RecommendCandidate(h, r, referrer)
          \/ WithdrawRecommendation(h, r)
          \/ Pickup(h, r)
          \/ \E stage \in ColumnStages : AddCard(h, r, stage) \/ MoveCard(h, r, stage)
          \/ RemoveCard(h, r)
    BY DEF HunterNext, HunterCalls, BoardNext
  <1>2. h # NULL
    BY NullIsNoRow DEF User
  <1>3. ASSUME NEW referrer \in Referrers, RecommendCandidate(h, r, referrer)
        PROVE  \A q \in Rec : CardOf(q)
    BY <1>3 DEF RecommendCandidate, CardOf, Carries, IInv, TypeOK, exists
  <1>4. CASE WithdrawRecommendation(h, r)
    BY <1>4, StatusLeavesCard DEF WithdrawRecommendation, RecStatus
  <1>5. CASE Pickup(h, r)
    <2> DEFINE row == [recs[r] EXCEPT !.pickup_headhunter_id = h, !.status = "pending"]
    <2>1. recs[r] \in RecRow
      BY <1>5, RowsBehind DEF Pickup
    <2>2. /\ row \in RecRow
          /\ row.headhunter_id = recs[r].headhunter_id
          /\ row.pipeline_stage = recs[r].pipeline_stage
      BY <2>1 DEF RecRow, RecStatus
    <2>3. recs' = [recs EXCEPT ![r] = row]
      BY <1>5 DEF Pickup, IInv, TypeOK
    <2> HIDE DEF row
    <2>4. Carries(recs[r], row) /\ exists(recs[r])
      BY <1>5, <2>2, NullIsNoRow DEF Carries, exists, Pickup
    <2> QED
      BY <2>2, <2>3, <2>4, OneCard
  <1>6. ASSUME NEW stage \in ColumnStages, AddCard(h, r, stage)
        PROVE  \A q \in Rec : CardOf(q)
    <2> DEFINE row == [recs[r] EXCEPT !.headhunter_id = h, !.pipeline_stage = stage]
    <2>1. recs[r] \in RecRow /\ exists(recs[r]) /\ recs[r].headhunter_id = NULL
      BY <1>6, RowsBehind DEF AddCard, claimRec
    <2>2. /\ row \in RecRow
          /\ row.status = recs[r].status
          /\ row.headhunter_id = h
      BY <2>1, BoundsAreWithinTheSystem DEF RecRow, PipelineStage
    <2>3. recs' = [recs EXCEPT ![r] = row]
      BY <1>6 DEF AddCard, claimRec, IInv, TypeOK
    <2> HIDE DEF row
    <2>4. Carries(recs[r], row)
      BY <1>2, <2>1, <2>2, NullIsNoRow DEF Carries, exists
    <2> QED
      BY <2>1, <2>2, <2>3, <2>4, OneCard
  <1>7. ASSUME NEW stage \in PipelineStage, exists(recs[r]), recs[r].headhunter_id = h,
               canTransition(recs[r].pipeline_stage, stage),
               recs' = [recs EXCEPT ![r].pipeline_stage = stage]
        PROVE  \A q \in Rec : CardOf(q)
    <2> DEFINE row == [recs[r] EXCEPT !.pipeline_stage = stage]
    <2>1. recs[r] \in RecRow
      BY <1>7, RowsBehind
    <2>2. /\ row \in RecRow
          /\ row.status = recs[r].status
          /\ row.headhunter_id = h
          /\ row.pipeline_stage = stage
      BY <1>7, <2>1 DEF RecRow
    <2>3. recs' = [recs EXCEPT ![r] = row]
      BY <1>7 DEF IInv, TypeOK
    <2>4. recs[r].pipeline_stage \notin {"onboarded", "rejected"} \/ stage = recs[r].pipeline_stage
      BY <1>7 DEF canTransition
    <2> HIDE DEF row
    <2>5. Carries(recs[r], row)
      BY <1>2, <2>2, <2>4, NullIsNoRow DEF Carries, exists
    <2> QED
      BY <1>7, <2>2, <2>3, <2>5, OneCard
  <1>8. ASSUME NEW stage \in ColumnStages, MoveCard(h, r, stage)
        PROVE  \A q \in Rec : CardOf(q)
    BY <1>7, <1>8, BoundsAreWithinTheSystem DEF MoveCard, updateCard, PipelineStage
  <1>9. CASE RemoveCard(h, r)
    BY <1>7, <1>9 DEF RemoveCard, rejectRec, PipelineStage
  <1> QED
    BY <1>1, <1>3, <1>4, <1>5, <1>6, <1>8, <1>9

LEMMA CandidateCard ==
  ASSUME IInv, CandidateNext
  PROVE  \A q \in Rec : CardOf(q)
  <1>1. PICK c \in Candidates :
          \/ \E r \in Rec :
               \/ ApproveUnlock(c, r) \/ RejectUnlock(c, r)
               \/ Apply(c, r)
               \/ \E action \in {"withdraw", "consider_offer", "accept_offer",
                                 "decline_offer"} : Respond(c, r, action)
          \/ DeleteMyData(c)
    BY DEF CandidateNext
  <1>2. ASSUME NEW r \in Rec, ApproveUnlock(c, r) \/ RejectUnlock(c, r)
        PROVE  \A q \in Rec : CardOf(q)
    BY <1>2, StatusLeavesCard DEF ApproveUnlock, RejectUnlock, unlockStep
  <1>3. ASSUME NEW r \in Rec, Apply(c, r)
        PROVE  \A q \in Rec : CardOf(q)
    BY <1>3 DEF Apply, insertApplication, CardOf, Carries, IInv, TypeOK, exists
  <1>4. ASSUME NEW r \in Rec, NEW action, Respond(c, r, action)
        PROVE  \A q \in Rec : CardOf(q)
    BY <1>4, StatusLeavesCard DEF Respond, IInv, ApplicationMirrorsRecommendation
  <1>5. ASSUME DeleteMyData(c)
        PROVE  \A q \in Rec : CardOf(q)
    <2> TAKE q \in Rec
    <2>1. CASE ~exists(recs[q])
      BY <1>5, <2>1 DEF DeleteMyData, CardOf, exists
    <2>2. CASE exists(recs[q])
      <3>1. recs[q] \in RecRow
        BY <2>2, RowsBehind
      <3>2. recs'[q] \in {recs[q], [recs[q] EXCEPT !.status = "withdrawn"]}
        BY <1>5 DEF DeleteMyData
      <3>3. [recs[q] EXCEPT !.status = "withdrawn"] \in RecRow
        BY <3>1 DEF RecRow, RecStatus
      <3> QED
        BY <2>2, <3>1, <3>2, <3>3, NullIsNoRow DEF CardOf, Carries, exists, RecRow
    <2> QED
      BY <2>1, <2>2
  <1> QED
    BY <1>1, <1>2, <1>3, <1>4, <1>5

LEMMA EveryStepCarries ==
  ASSUME IInv, Next
  PROVE  \A q \in Rec : CardOf(q)
  <1>1. CASE JobNext \/ UploadNext \/ PoolNext \/ AdminNext
    BY <1>1, NothingLeavesCard DEF JobNext, UploadNext, PoolNext, AdminNext, CreateJob, ClaimJob,
       RejectJob, PauseJob, ResumeJob, CloseJob, CreateJobForEmployer, UploadCandidate,
       UploadCandidateInterrupted, PublishToPool, RemoveFromPool, Suspend, Unsuspend,
       MarkPaid, CancelPlacement
  <1>2. CASE EmployerNext
    <2>1. PICK e \in Employers, r \in Rec :
            \/ ExpressInterest(e, r)
            \/ UnlockContact(e, r)
            \/ \E told \in {"nobody", "primary", "both"} : CreatePlacement(e, r, told)
      BY <1>2 DEF EmployerNext
    <2>2. CASE ExpressInterest(e, r) \/ UnlockContact(e, r)
      BY <2>2, StatusLeavesCard DEF ExpressInterest, UnlockContact, unlockStep
    <2>3. ASSUME NEW told, CreatePlacement(e, r, told)
          PROVE  UNCHANGED recs
      BY <2>3 DEF CreatePlacement
    <2> QED
      BY <2>1, <2>2, <2>3, NothingLeavesCard
  <1> QED
    BY <1>1, <1>2, HunterCard, CandidateCard DEF Next

\* A recommendation nobody owns is in the first column: no card outlives its
\* owner, and no pickup moves one.
Unclaimed ==
  \A r \in Rec :
    exists(recs[r]) /\ recs[r].headhunter_id = NULL => recs[r].pipeline_stage = "submitted"

\* No card is moved.
StagesStay ==
  \A q \in Rec : exists(recs[q]) => recs'[q].pipeline_stage = recs[q].pipeline_stage

LEMMA StatusLeavesStages ==
  ASSUME IInv, NEW r \in Rec, exists(recs[r]), NEW next \in RecStatus,
         recs' = [recs EXCEPT ![r].status = next]
  PROVE  StagesStay
  <1>1. recs[r] \in RecRow
    BY RowsBehind
  <1>2. [recs[r] EXCEPT !.status = next].pipeline_stage = recs[r].pipeline_stage
    BY <1>1 DEF RecRow
  <1> QED
    BY <1>2 DEF IInv, TypeOK, StagesStay

LEMMA CandidateLeavesStages ==
  ASSUME IInv, CandidateNext
  PROVE  StagesStay
  <1>1. PICK c \in Candidates :
          \/ \E r \in Rec :
               \/ ApproveUnlock(c, r) \/ RejectUnlock(c, r)
               \/ Apply(c, r)
               \/ \E action \in {"withdraw", "consider_offer", "accept_offer",
                                 "decline_offer"} : Respond(c, r, action)
          \/ DeleteMyData(c)
    BY DEF CandidateNext
  <1>2. ASSUME NEW r \in Rec, ApproveUnlock(c, r) \/ RejectUnlock(c, r)
        PROVE  StagesStay
    BY <1>2, StatusLeavesStages DEF ApproveUnlock, RejectUnlock, unlockStep
  <1>3. ASSUME NEW r \in Rec, Apply(c, r)
        PROVE  StagesStay
    BY <1>3 DEF Apply, insertApplication, StagesStay, IInv, TypeOK, exists
  <1>4. ASSUME NEW r \in Rec, NEW action, Respond(c, r, action)
        PROVE  StagesStay
    BY <1>4, StatusLeavesStages DEF Respond, IInv, ApplicationMirrorsRecommendation
  <1>5. ASSUME DeleteMyData(c)
        PROVE  StagesStay
    <2> SUFFICES ASSUME NEW q \in Rec, exists(recs[q])
                 PROVE  recs'[q].pipeline_stage = recs[q].pipeline_stage
      BY DEF StagesStay
    <2>1. recs[q] \in RecRow
      BY RowsBehind
    <2>2. recs'[q] \in {recs[q], [recs[q] EXCEPT !.status = "withdrawn"]}
      BY <1>5 DEF DeleteMyData
    <2> QED
      BY <2>1, <2>2 DEF RecRow
  <1> QED
    BY <1>1, <1>2, <1>3, <1>4, <1>5

LEMMA OthersLeaveStages ==
  ASSUME IInv, JobNext \/ UploadNext \/ PoolNext \/ EmployerNext \/ CandidateNext \/ AdminNext
  PROVE  StagesStay
  <1>1. CASE JobNext \/ UploadNext \/ PoolNext \/ AdminNext
    <2>1. UNCHANGED recs
      BY <1>1 DEF JobNext, UploadNext, PoolNext, AdminNext, CreateJob, ClaimJob,
         RejectJob, PauseJob, ResumeJob, CloseJob, CreateJobForEmployer, UploadCandidate,
         UploadCandidateInterrupted, PublishToPool, RemoveFromPool, Suspend, Unsuspend,
         MarkPaid, CancelPlacement
    <2> QED
      BY <2>1 DEF StagesStay
  <1>2. CASE EmployerNext
    <2>1. PICK e \in Employers, r \in Rec :
            \/ ExpressInterest(e, r)
            \/ UnlockContact(e, r)
            \/ \E told \in {"nobody", "primary", "both"} : CreatePlacement(e, r, told)
      BY <1>2 DEF EmployerNext
    <2>2. CASE ExpressInterest(e, r) \/ UnlockContact(e, r)
      BY <2>2, StatusLeavesStages DEF ExpressInterest, UnlockContact, unlockStep
    <2>3. ASSUME NEW told, CreatePlacement(e, r, told)
          PROVE  UNCHANGED recs
      BY <2>3 DEF CreatePlacement
    <2>4. UNCHANGED recs => StagesStay
      BY DEF StagesStay
    <2> QED
      BY <2>1, <2>2, <2>3, <2>4
  <1> QED
    BY <1>1, <1>2, CandidateLeavesStages

\* The card of q is the caller's, since before the call or by it.
BecomesOrIs(h, q) ==
  /\ recs[q].headhunter_id \in {NULL, h}
  /\ recs'[q].headhunter_id = h

\* A headhunter's call moves no card but the caller's own.
LEMMA CallerOwnsTheCard ==
  ASSUME IInv, NEW h \in Hunters, NEW r \in Rec, HunterCalls(h, r),
         NEW q \in Rec, exists(recs[q]),
         recs'[q].pipeline_stage # recs[q].pipeline_stage
  PROVE  BecomesOrIs(h, q)
  <1>1. ASSUME NEW referrer \in Referrers, RecommendCandidate(h, r, referrer)
        PROVE  FALSE
    BY <1>1 DEF RecommendCandidate, IInv, TypeOK, exists
  <1>2. CASE WithdrawRecommendation(h, r)
    <2>1. StagesStay
      BY <1>2, StatusLeavesStages DEF WithdrawRecommendation, RecStatus
    <2> QED
      BY <2>1 DEF StagesStay
  <1>3. CASE Pickup(h, r)
    <2>1. recs[r] \in RecRow
      BY <1>3, RowsBehind DEF Pickup
    <2>2. [recs[r] EXCEPT !.pickup_headhunter_id = h, !.status = "pending"].pipeline_stage
            = recs[r].pipeline_stage
      BY <2>1 DEF RecRow
    <2> QED
      BY <1>3, <2>2 DEF Pickup, IInv, TypeOK
  <1>4. ASSUME NEW stage \in ColumnStages, AddCard(h, r, stage)
        PROVE  BecomesOrIs(h, q)
    <2>1. recs[r] \in RecRow /\ recs[r].headhunter_id = NULL
      BY <1>4, RowsBehind DEF AddCard, claimRec
    <2>2. [recs[r] EXCEPT !.headhunter_id = h, !.pipeline_stage = stage].headhunter_id = h
      BY <2>1 DEF RecRow
    <2>3. recs' = [recs EXCEPT ![r] = [recs[r] EXCEPT !.headhunter_id = h,
                                                      !.pipeline_stage = stage]]
      BY <1>4 DEF AddCard, claimRec, IInv, TypeOK
    <2> QED
      BY <2>1, <2>2, <2>3 DEF BecomesOrIs, IInv, TypeOK
  <1>5. ASSUME NEW stage, exists(recs[r]), recs[r].headhunter_id = h,
               recs' = [recs EXCEPT ![r].pipeline_stage = stage]
        PROVE  BecomesOrIs(h, q)
    <2>1. recs[r] \in RecRow
      BY <1>5, RowsBehind
    <2>2. [recs[r] EXCEPT !.pipeline_stage = stage].headhunter_id = h
      BY <1>5, <2>1 DEF RecRow
    <2>3. q = r
      BY <1>5 DEF IInv, TypeOK
    <2> QED
      BY <1>5, <2>2, <2>3 DEF BecomesOrIs, IInv, TypeOK
  <1>6. ASSUME NEW stage \in ColumnStages, MoveCard(h, r, stage)
        PROVE  BecomesOrIs(h, q)
    BY <1>5, <1>6 DEF MoveCard, updateCard
  <1>7. CASE RemoveCard(h, r)
    BY <1>5, <1>7 DEF RemoveCard, rejectRec
  <1> QED
    BY <1>1, <1>2, <1>3, <1>4, <1>6, <1>7 DEF HunterCalls, BoardNext

\* So every call that could make this step is one of the headhunter who owns
\* the card after it.
LEMMA OnlyTheOwnerMoves ==
  ASSUME IInv, Next, NEW q \in Rec, exists(recs[q]),
         recs'[q].pipeline_stage # recs[q].pipeline_stage
  PROVE  /\ recs'[q].headhunter_id \in Hunters
         /\ recs[q].headhunter_id \in {NULL, recs'[q].headhunter_id}
         /\ \A h \in Hunters \ {recs'[q].headhunter_id}, r \in Rec : ~HunterCalls(h, r)
         /\ ~EmployerNext /\ ~CandidateNext /\ ~AdminNext
  <1>1. ~StagesStay
    BY DEF StagesStay
  <1>2. ~(JobNext \/ UploadNext \/ PoolNext \/ EmployerNext \/ CandidateNext \/ AdminNext)
    BY <1>1, OthersLeaveStages
  <1>3. PICK h \in Hunters, r \in Rec : HunterCalls(h, r)
    BY <1>2 DEF Next, HunterNext
  <1>4. BecomesOrIs(h, q)
    BY <1>3, CallerOwnsTheCard
  <1>5. ASSUME NEW g \in Hunters \ {recs'[q].headhunter_id}, NEW s \in Rec, HunterCalls(g, s)
        PROVE  FALSE
    <2>1. BecomesOrIs(g, q)
      BY <1>5, CallerOwnsTheCard
    <2> QED
      BY <1>5, <2>1 DEF BecomesOrIs
  <1> QED
    BY <1>2, <1>4, <1>5 DEF BecomesOrIs

\* addCard, moveCard and removeCard are the only ones to move a card: the first
\* takes it for its caller, the others check that it is the caller's; a card in
\* somebody's column has left it in no other way.
THEOREM CardsAreTheOwners == Spec => BoardBelongsToOwner
  <1> DEFINE Board == \A r \in Rec :
                exists(recs[r]) /\ recs'[r].pipeline_stage # recs[r].pipeline_stage =>
                  /\ recs'[r].headhunter_id \in Hunters
                  /\ recs[r].headhunter_id \in {NULL, recs'[r].headhunter_id}
                  /\ \A h \in Hunters \ {recs'[r].headhunter_id}, q \in Rec : ~HunterCalls(h, q)
                  /\ ~EmployerNext /\ ~CandidateNext /\ ~AdminNext
                  /\ recs[r].pipeline_stage \notin {"onboarded", "rejected"}
                  /\ recs'[r].status = recs[r].status
  <1>1. Init => Unclaimed
    BY DEF Init, Unclaimed, exists
  <1>2. IInv /\ Unclaimed /\ [Next]_vars => Unclaimed'
    <2>1. CASE UNCHANGED vars
      BY <2>1 DEF vars, Unclaimed, exists
    <2>2. ASSUME IInv, Unclaimed, Next PROVE Unclaimed'
      BY <2>2, EveryStepCarries DEF Unclaimed, CardOf, Carries, exists
    <2> QED
      BY <2>1, <2>2
  <1>3. IInv /\ Unclaimed /\ [Next]_vars => [Board]_vars
    <2> SUFFICES ASSUME IInv, Unclaimed, Next, NEW r \in Rec, exists(recs[r]),
                        recs'[r].pipeline_stage # recs[r].pipeline_stage
                 PROVE  /\ recs[r].pipeline_stage \notin {"onboarded", "rejected"}
                        /\ recs'[r].status = recs[r].status
      BY OnlyTheOwnerMoves
    <2> QED
      BY EveryStepCarries DEF CardOf, Carries, Unclaimed
  <1> QED
    BY <1>1, <1>2, <1>3, Invariance, PTL DEF Spec, BoardBelongsToOwner

-----------------------------------------------------------------------------
(* Placements.                                                             *)

\* The headhunter who created a posting stays on record.
LEMMA CreatorStays ==
  ASSUME IInv, Next, NEW j \in Jobs, exists(jobs[j])
  PROVE  jobs'[j].source_headhunter_id = jobs[j].source_headhunter_id
  <1>1. jobs[j] \in JobRow
    BY DEF IInv, TypeOK, exists
  <1>2. CASE JobNext
    <2>1. PICK k \in Jobs :
            \/ \E e \in Employers : \/ CreateJob(e, k) \/ ClaimJob(e, k) \/ RejectJob(e, k)
                                    \/ PauseJob(e, k) \/ ResumeJob(e, k) \/ CloseJob(e, k)
            \/ \E h \in Hunters, createdFor \in Employers \union {NULL} :
                 CreateJobForEmployer(h, k, createdFor)
      BY <1>2 DEF JobNext
    <2>2. CASE j # k
      BY <2>1, <2>2 DEF CreateJob, CreateJobForEmployer, insertJob, ClaimJob, RejectJob,
         PauseJob, ResumeJob, CloseJob, updateStatusIfCurrent, IInv, TypeOK
    <2>3. CASE j = k
      <3>1. \/ \E e \in Employers : jobs' = [jobs EXCEPT ![j].employer_id = e, ![j].status = "claimed"]
            \/ \E next \in JobStatus : jobs' = [jobs EXCEPT ![j].status = next]
        BY <2>1, <2>3 DEF CreateJob, CreateJobForEmployer, insertJob, ClaimJob, RejectJob,
           PauseJob, ResumeJob, CloseJob, updateStatusIfCurrent, JobStatus
      <3>2. \/ \E e \in Employers : jobs'[j] = [jobs[j] EXCEPT !.employer_id = e, !.status = "claimed"]
            \/ \E next \in JobStatus : jobs'[j] = [jobs[j] EXCEPT !.status = next]
        BY <3>1 DEF IInv, TypeOK
      <3> QED
        BY <1>1, <3>2 DEF JobRow
    <2> QED
      BY <2>2, <2>3
  <1>3. CASE UploadNext \/ PoolNext \/ AdminNext
    BY <1>3 DEF UploadNext, UploadCandidate, UploadCandidateInterrupted, PoolNext,
       PublishToPool, RemoveFromPool, AdminNext, Suspend, Unsuspend, MarkPaid, CancelPlacement
  <1>4. CASE HunterNext
    BY <1>4 DEF HunterNext, HunterCalls, RecommendCandidate, WithdrawRecommendation, Pickup, BoardNext,
       AddCard, MoveCard, RemoveCard
  <1>5. CASE EmployerNext
    BY <1>5 DEF EmployerNext, ExpressInterest, UnlockContact, CreatePlacement
  <1>6. CASE CandidateNext
    BY <1>6 DEF CandidateNext, ApproveUnlock, RejectUnlock, Apply, Respond, DeleteMyData
  <1> QED
    BY <1>2, <1>3, <1>4, <1>5, <1>6 DEF Next

\* The queue only grows, and only createPlacement announces placements.
LEMMA OutboxGrows ==
  ASSUME IInv, Next
  PROVE  /\ outbox \subseteq outbox'
         /\ \/ \A row \in outbox' : row \in outbox \/ row.event # "placement_created"
            \/ \E e \in Employers, r \in Rec, told \in {"nobody", "primary", "both"} :
                 CreatePlacement(e, r, told)
  <1>1. CASE UNCHANGED outbox
    BY <1>1
  <1>2. ASSUME NEW r \in Rec, exists(recs[r]), NEW u, NEW event, NEW action,
               unlockStep(r, u, event, action)
        PROVE  /\ outbox \subseteq outbox'
               /\ \A row \in outbox' : row \in outbox \/ row.event # "placement_created"
    <2>1. PICK next \in RecStatus :
            outbox' = outbox \union sideEffects(r, recs[r].status, next)
      BY <1>2 DEF unlockStep
    <2>2. recs[r].status \in RecStatus
      BY <1>2, RowsBehind DEF RecRow
    <2>3. \A row \in sideEffects(r, recs[r].status, next) : row.event # "placement_created"
      BY <2>2, SideEffectsOfStep
    <2> QED
      BY <2>1, <2>3
  <1>3. CASE JobNext
    BY <1>1, <1>3 DEF JobNext, CreateJob, ClaimJob, RejectJob, PauseJob, ResumeJob, CloseJob,
       CreateJobForEmployer
  <1>4. CASE UploadNext \/ PoolNext \/ AdminNext
    BY <1>1, <1>4 DEF UploadNext, UploadCandidate, UploadCandidateInterrupted, PoolNext,
       PublishToPool, RemoveFromPool, AdminNext, Suspend, Unsuspend, MarkPaid, CancelPlacement
  <1>5. CASE HunterNext
    BY <1>1, <1>5 DEF HunterNext, HunterCalls, RecommendCandidate, WithdrawRecommendation, Pickup, BoardNext,
       AddCard, MoveCard, RemoveCard
  <1>6. CASE EmployerNext
    <2>1. PICK e \in Employers, r \in Rec :
            \/ ExpressInterest(e, r)
            \/ UnlockContact(e, r)
            \/ \E told \in {"nobody", "primary", "both"} : CreatePlacement(e, r, told)
      BY <1>6 DEF EmployerNext
    <2>2. CASE ExpressInterest(e, r) \/ UnlockContact(e, r)
      BY <1>2, <2>2 DEF ExpressInterest, UnlockContact
    <2>3. ASSUME NEW told \in {"nobody", "primary", "both"}, CreatePlacement(e, r, told)
          PROVE  outbox \subseteq outbox'
      BY <2>3 DEF CreatePlacement, tellPayees
    <2> QED
      BY <2>1, <2>2, <2>3
  <1>7. CASE CandidateNext
    <2>1. PICK c \in Candidates :
            \/ \E r \in Rec :
                 \/ ApproveUnlock(c, r) \/ RejectUnlock(c, r)
                 \/ Apply(c, r)
                 \/ \E action \in {"withdraw", "consider_offer", "accept_offer",
                                   "decline_offer"} : Respond(c, r, action)
            \/ DeleteMyData(c)
      BY <1>7 DEF CandidateNext
    <2>2. ASSUME NEW r \in Rec, ApproveUnlock(c, r)
          PROVE  /\ outbox \subseteq outbox'
                 /\ \A row \in outbox' : row \in outbox \/ row.event # "placement_created"
      BY <1>2, <2>2 DEF ApproveUnlock
    <2>3. ASSUME NEW r \in Rec, NEW action,
                 RejectUnlock(c, r) \/ Apply(c, r) \/ Respond(c, r, action)
          PROVE  UNCHANGED outbox
      BY <2>3 DEF RejectUnlock, Apply, Respond
    <2>4. ASSUME DeleteMyData(c) PROVE UNCHANGED outbox
      BY <2>4 DEF DeleteMyData
    <2> QED
      BY <1>1, <2>1, <2>2, <2>3, <2>4
  <1> QED
    BY <1>3, <1>4, <1>5, <1>6, <1>7 DEF Next

\* What PlacementIsEarned says of one placement, its recommendation existing.
Earned(p) ==
  LET creator == jobs[p.rec[2]].source_headhunter_id
  IN  /\ exists(recs[p.rec])
      /\ contactRows(p.rec) # {}
      /\ p.primary_headhunter_id = recs[p.rec].headhunter_id
      /\ creator # NULL =>
           \/ p.referrer_headhunter_id = creator /\ creator # p.primary_headhunter_id
           \/ p.referrer_headhunter_id = NULL /\ creator = p.primary_headhunter_id

\* Two rows of the same hire, whatever its state of payment.
samePayees(p, q) ==
  /\ q.rec = p.rec
  /\ q.primary_headhunter_id = p.primary_headhunter_id
  /\ q.referrer_headhunter_id = p.referrer_headhunter_id

LEMMA StaysEarned ==
  ASSUME IInv, Next, NEW p \in PlacementRow, Earned(p), NEW q, samePayees(p, q)
  PROVE  Earned(q)'
  <1>1. p.rec \in Rec /\ p.rec[2] \in Jobs /\ exists(jobs[p.rec[2]]) /\ exists(recs[p.rec])
    BY DEF PlacementRow, Rec, Earned, IInv, RecEmployerOwnsJob
  <1>2. p.primary_headhunter_id # NULL
    BY NullIsNoRow DEF PlacementRow, User
  <1>3. exists(recs'[p.rec]) /\ recs'[p.rec].headhunter_id = p.primary_headhunter_id
    BY <1>1, <1>2, EveryStepSticks DEF Keeps, Earned
  <1>4. contactRows(p.rec)' # {}
    BY OutboxGrows DEF Earned, contactRows
  <1>5. jobs'[p.rec[2]].source_headhunter_id = jobs[p.rec[2]].source_headhunter_id
    BY <1>1, CreatorStays
  <1> QED
    BY <1>3, <1>4, <1>5 DEF Earned, samePayees

\* createPlacement names the posting's creator before the referrer, and never
\* the payee twice.
LEMMA NewIsEarned ==
  ASSUME ConsentInv, NEW e, NEW r \in Rec, NEW told, CreatePlacement(e, r, told),
         NEW p, p = newPlacement(r)
  PROVE  /\ p \in PlacementRow
         /\ p.rec = r
         /\ Earned(p)'
  <1>1. exists(recs[r]) /\ recs[r] \in RecRow /\ jobs[r[2]] \in JobRow
    BY RowsBehind DEF CreatePlacement, ConsentInv
  <1>2. referrerForCommission(r) \in User \union {NULL}
    BY <1>1 DEF referrerForCommission, RecRow, JobRow, User
  <1>3. recs[r].headhunter_id \in Hunters /\ recs[r].headhunter_id # NULL
    BY <1>1 DEF CreatePlacement, RecRow
  <1>4. p \in PlacementRow /\ p.rec = r
    BY <1>2, <1>3 DEF newPlacement, PlacementRow
  <1>5. contactRows(r) # {}
    BY <1>1 DEF ConsentInv, History, Delivered, CreatePlacement, inStatus
  <1>6. UNCHANGED <<recs, jobs>> /\ outbox \subseteq outbox'
    BY DEF CreatePlacement, tellPayees
  <1>7. contactRows(r)' # {}
    BY <1>5, <1>6 DEF contactRows
  <1>8. /\ p.primary_headhunter_id = recs[r].headhunter_id
        /\ p.referrer_headhunter_id =
             LET creator == jobs[r[2]].source_headhunter_id
             IN  IF creator = NULL THEN recs[r].referrer_headhunter_id
                 ELSE IF creator = recs[r].headhunter_id THEN NULL
                 ELSE creator
    BY DEF newPlacement, referrerForCommission
  <1> QED
    BY <1>1, <1>4, <1>6, <1>7, <1>8 DEF Earned

OnePerHire == \A p, q \in placements : p.rec = q.rec => p = q

\* The inductive invariant of placements.
PlacementInv ==
  /\ ConsentInv
  /\ \A p \in placements : Earned(p)
  /\ OnePerHire
  /\ AnnouncedPlacementExists

LEMMA PlacementInit == Init => PlacementInv
  BY ConsentInit DEF Init, PlacementInv, OnePerHire, AnnouncedPlacementExists

\* A placement and the row its status is written to are one hire.
LEMMA ContinuedPayees ==
  ASSUME IInv, IInv', Next, NEW p \in placements
  PROVE  \E q \in placements' : samePayees(p, q)
  <1>1. PICK q \in placements' : Continues(p, q)
    BY PlacementStep
  <1>2. p \in PlacementRow /\ q \in PlacementRow
    BY DEF IInv, TypeOK
  <1> QED
    BY <1>1, <1>2 DEF Continues, samePayees, PlacementRow

LEMMA PlacementInvStep == PlacementInv /\ [Next]_vars => PlacementInv'
  <1>1. CASE UNCHANGED vars
    <2>1. ASSUME ConsentInv PROVE ConsentInv'
      BY <1>1, <2>1, ConsentStep
    <2>2. ASSUME NEW p, Earned(p) PROVE Earned(p)'
      BY <1>1, <2>2 DEF vars, Earned, contactRows
    <2> QED
      BY <1>1, <2>1, <2>2 DEF vars, PlacementInv, OnePerHire, AnnouncedPlacementExists
  <1>2. ASSUME PlacementInv, Next PROVE PlacementInv'
    <2>1. ConsentInv /\ ConsentInv' /\ IInv /\ IInv'
      BY <1>2, ConsentStep DEF PlacementInv, ConsentInv
    <2>2. placements \subseteq PlacementRow
      BY <2>1 DEF IInv, TypeOK
    <2>3. ASSUME NEW p \in placements, NEW q, samePayees(p, q) PROVE Earned(q)'
      BY <1>2, <2>1, <2>2, <2>3, StaysEarned DEF PlacementInv
    <2>4. \A p \in PlacementRow : samePayees(p, p)
      BY DEF samePayees
    <2>5. (\A p \in placements' : Earned(p)') /\ OnePerHire'
      <3>1. CASE UNCHANGED placements
        BY <1>2, <2>2, <2>3, <2>4, <3>1 DEF PlacementInv, OnePerHire
      <3>2. ASSUME NEW e \in Employers, NEW r \in Rec,
                   NEW told \in {"nobody", "primary", "both"}, CreatePlacement(e, r, told)
            PROVE  (\A p \in placements' : Earned(p)') /\ OnePerHire'
        <4>1. PICK n : n = newPlacement(r)
          OBVIOUS
        <4>2. n \in PlacementRow /\ n.rec = r /\ Earned(n)'
          BY <2>1, <3>2, <4>1, NewIsEarned
        <4>3. placements' = placements \union {n}
          BY <3>2, <4>1 DEF CreatePlacement
        <4>4. \A p \in placements : p.rec # r
          <5>1. \A p \in placements : p.rec = r => p.primary_headhunter_id = recs[r].headhunter_id
            BY <1>2 DEF PlacementInv, Earned
          <5> QED
            BY <3>2, <5>1 DEF CreatePlacement
        <4>5. \A p \in placements' : Earned(p)'
          BY <2>2, <2>3, <2>4, <4>2, <4>3
        <4>6. OnePerHire'
          BY <1>2, <4>2, <4>3, <4>4 DEF PlacementInv, OnePerHire
        <4> QED
          BY <4>5, <4>6
      <3>3. ASSUME NEW x \in placements, MarkPaid(x) \/ CancelPlacement(x)
            PROVE  (\A p \in placements' : Earned(p)') /\ OnePerHire'
        <4>1. PICK status \in {"paid", "cancelled"} :
                placements' = (placements \ {x}) \union {[x EXCEPT !.status = status]}
          BY <3>3, SettlingStep
        <4>2. PICK n : n = [x EXCEPT !.status = status]
          OBVIOUS
        <4>3. samePayees(x, n)
          BY <2>2, <3>3, <4>2 DEF samePayees, PlacementRow
        <4>4. \A p \in placements' : p = n \/ p \in placements \ {x}
          BY <4>1, <4>2
        <4>5. \A p \in placements' : Earned(p)'
          BY <2>2, <2>3, <2>4, <4>3, <4>4
        <4>6. OnePerHire'
          BY <1>2, <4>3, <4>4 DEF PlacementInv, OnePerHire, samePayees
        <4> QED
          BY <4>5, <4>6
      <3> QED
        BY <1>2, <3>1, <3>2, <3>3, PlacementKinds
    <2>6. AnnouncedPlacementExists'
      <3> SUFFICES ASSUME NEW row \in outbox', row.event = "placement_created"
                   PROVE  \E p \in placements' :
                            /\ p.rec = row.rec
                            /\ placementWebhook(p, "primary", p.primary_headhunter_id) \in outbox'
                            /\ row.target = IF row.role = "primary"
                                            THEN p.primary_headhunter_id
                                            ELSE p.referrer_headhunter_id
        BY DEF AnnouncedPlacementExists, placementWebhook
      <3>1. CASE row \in outbox
        <4>1. PICK p \in placements :
                /\ p.rec = row.rec
                /\ placementWebhook(p, "primary", p.primary_headhunter_id) \in outbox
                /\ row.target = IF row.role = "primary" THEN p.primary_headhunter_id
                                                        ELSE p.referrer_headhunter_id
          BY <1>2, <3>1 DEF PlacementInv, AnnouncedPlacementExists
        <4>2. PICK q \in placements' : samePayees(p, q)
          BY <1>2, <2>1, ContinuedPayees
        <4>3. outbox \subseteq outbox'
          BY <1>2, <2>1, OutboxGrows
        <4> QED
          BY <4>1, <4>2, <4>3 DEF samePayees, placementWebhook
      <3>2. CASE row \notin outbox
        <4>1. PICK e \in Employers, r \in Rec, told \in {"nobody", "primary", "both"} :
                CreatePlacement(e, r, told)
          BY <1>2, <2>1, <3>2, OutboxGrows
        <4>2. PICK n : n = newPlacement(r)
          OBVIOUS
        <4>3. n \in placements'
          BY <4>1, <4>2 DEF CreatePlacement
        <4>4. toPrimary(n) \in outbox' /\ row \in {toPrimary(n), toReferrer(n)}
          BY <3>2, <4>1, <4>2 DEF CreatePlacement, tellPayees
        <4>5. CASE row = toPrimary(n)
          BY <4>3, <4>4, <4>5 DEF toPrimary, placementWebhook
        <4>6. CASE row = toReferrer(n)
          BY <4>3, <4>4, <4>6 DEF toPrimary, toReferrer, placementWebhook
        <4> QED
          BY <4>4, <4>5, <4>6
      <3> QED
        BY <3>1, <3>2
    <2> QED
      BY <2>1, <2>5, <2>6 DEF PlacementInv
  <1> QED
    BY <1>1, <1>2

\* In every reachable state placements are earned, one for a hire, and announced
\* after they were made.
THEOREM PlacementInvariance == Spec => []PlacementInv
  BY PlacementInit, PlacementInvStep, PTL DEF Spec

\* Whoever is paid had delivered: a placement exists only for a recommendation
\* whose contact was queued, once, for the headhunter who owns it, and shares
\* with the creator of the posting (createPlacement, referrerForCommission).
THEOREM PlacementsAreEarned == Spec => []PlacementIsEarned
  <1>1. PlacementInv => PlacementIsEarned
    BY DEF PlacementInv, PlacementIsEarned, Earned, OnePerHire
  <1> QED
    BY <1>1, PlacementInvariance, PTL

\* Every enqueue of createPlacement follows the placement it announces, and the
\* referrer's follows the primary's: a crash between them leaves no other order.
THEOREM AnnouncementsAreTrue == Spec => []AnnouncedPlacementExists
  BY PlacementInvariance, PTL DEF PlacementInv

-----------------------------------------------------------------------------
(* What the pages read of the tables beyond the invariants above.          *)

\* A posting nobody owns was made by a headhunter, and a claim gives it an owner.
PostingsHaveSomebody ==
  \A j \in Jobs : exists(jobs[j]) /\ jobs[j].employer_id = NULL =>
    jobs[j].source_headhunter_id # NULL /\ jobs[j].status # "claimed"

\* The log names the two parties of its recommendation only.
PartiesAreLogged ==
  \A r \in Rec : \A i \in DOMAIN audit[r] :
    audit[r][i].actor_user_id \in {recs[r].employer_id, candidateOf(r)}

\* Without an application it is the profile's owner who recommends.
OwnerRecommends ==
  \A r \in Rec : exists(recs[r]) /\ ~exists(apps[r]) =>
    recs[r].headhunter_id = profiles[r[1]].headhunter_id

\* The inductive invariant of the pages.
PagesInv == PlacementInv /\ PostingsHaveSomebody /\ PartiesAreLogged /\ OwnerRecommends

LEMMA PagesInit == Init => PagesInv
  BY PlacementInit
     DEF Init, PagesInv, PostingsHaveSomebody, PartiesAreLogged, OwnerRecommends, exists

LEMMA PostingsStep ==
  ASSUME IInv, Next, PostingsHaveSomebody
  PROVE  PostingsHaveSomebody'
  <1> DEFINE Kept(row) == row.employer_id = NULL =>
                            row.source_headhunter_id # NULL /\ row.status # "claimed"
  <1>1. CASE UNCHANGED jobs
    BY <1>1 DEF PostingsHaveSomebody, exists
  <1>2. CASE JobNext
    <2>1. PICK j \in Jobs :
            \/ \E e \in Employers : \/ CreateJob(e, j) \/ ClaimJob(e, j) \/ RejectJob(e, j)
                                    \/ PauseJob(e, j) \/ ResumeJob(e, j) \/ CloseJob(e, j)
            \/ \E h \in Hunters, createdFor \in Employers \union {NULL} :
                 CreateJobForEmployer(h, j, createdFor)
      BY <1>2 DEF JobNext
    <2>2. \A k \in Jobs \ {j} : jobs'[k] = jobs[k]
      BY <2>1 DEF CreateJob, CreateJobForEmployer, insertJob, ClaimJob, RejectJob,
         PauseJob, ResumeJob, CloseJob, updateStatusIfCurrent, IInv, TypeOK
    <2>3. \A u \in Employers \union Hunters : u # NULL
      BY NullIsNoRow DEF User
    <2>4. ASSUME NEW e \in Employers, CreateJob(e, j) PROVE Kept(jobs'[j])
      BY <2>3, <2>4 DEF CreateJob, insertJob, IInv, TypeOK
    <2>5. ASSUME NEW h \in Hunters, NEW createdFor, CreateJobForEmployer(h, j, createdFor)
          PROVE  Kept(jobs'[j])
      BY <2>3, <2>5 DEF CreateJobForEmployer, insertJob, IInv, TypeOK
    <2>6. exists(jobs[j]) => jobs[j] \in JobRow /\ Kept(jobs[j])
      BY DEF IInv, TypeOK, PostingsHaveSomebody, exists
    <2>7. ASSUME NEW e \in Employers, ClaimJob(e, j) PROVE Kept(jobs'[j])
      <3>1. jobs'[j] = [jobs[j] EXCEPT !.employer_id = e, !.status = "claimed"]
        BY <2>7 DEF ClaimJob, IInv, TypeOK
      <3>2. jobs'[j].employer_id = e
        BY <2>6, <2>7, <3>1 DEF ClaimJob, JobRow
      <3> QED
        BY <2>3, <3>2
    <2>8. ASSUME NEW next \in {"open", "paused", "closed"}, exists(jobs[j]),
                 jobs' = [jobs EXCEPT ![j].status = next]
          PROVE  Kept(jobs'[j])
      <3>1. jobs'[j] = [jobs[j] EXCEPT !.status = next]
        BY <2>8 DEF IInv, TypeOK
      <3> QED
        BY <2>6, <2>8, <3>1 DEF JobRow
    <2>9. Kept(jobs'[j])
      BY <2>1, <2>4, <2>5, <2>7, <2>8 DEF RejectJob, PauseJob, ResumeJob, CloseJob,
         updateStatusIfCurrent
    <2> HIDE DEF Kept
    <2>10. \A k \in Jobs : exists(jobs[k]) => Kept(jobs[k])
      BY DEF PostingsHaveSomebody, Kept
    <2>11. \A k \in Jobs : exists(jobs'[k]) => Kept(jobs'[k])
      BY <2>2, <2>9, <2>10
    <2> QED
      BY <2>11 DEF PostingsHaveSomebody, Kept, exists
  <1>3. CASE UploadNext \/ PoolNext \/ AdminNext
    BY <1>1, <1>3 DEF UploadNext, UploadCandidate, UploadCandidateInterrupted, PoolNext,
       PublishToPool, RemoveFromPool, AdminNext, Suspend, Unsuspend, MarkPaid, CancelPlacement
  <1>4. CASE HunterNext
    BY <1>1, <1>4 DEF HunterNext, HunterCalls, RecommendCandidate, WithdrawRecommendation, Pickup, BoardNext,
       AddCard, MoveCard, RemoveCard
  <1>5. CASE EmployerNext
    BY <1>1, <1>5 DEF EmployerNext, ExpressInterest, UnlockContact, CreatePlacement
  <1>6. CASE CandidateNext
    BY <1>1, <1>6 DEF CandidateNext, ApproveUnlock, RejectUnlock, Apply, Respond, DeleteMyData
  <1> QED
    BY <1>2, <1>3, <1>4, <1>5, <1>6 DEF Next

\* A step writes to the log of r only what one of its parties did.
LEMMA LogGrows ==
  ASSUME StepKind, NEW r \in Rec
  PROVE  \/ silent(r)
         \/ \E action : /\ exists(recs[r])
                        /\ \/ logs(r, action, recs[r].employer_id)
                           \/ logs(r, action, candidateOf(r))
  <1>1. CASE Quiet \/ (\E c \in Candidates : Erases(c))
    BY <1>1 DEF Quiet, Rests, Erases, silent
  <1>2. ASSUME NEW q \in Rec, Moves(q)
        PROVE  \/ silent(r)
               \/ \E action : /\ exists(recs[r])
                              /\ \/ logs(r, action, recs[r].employer_id)
                                 \/ logs(r, action, candidateOf(r))
    <2>1. CASE q # r
      BY <1>2, <2>1 DEF Moves, Rests, silent
    <2>2. CASE q = r
      BY <1>2, <2>2 DEF Moves, Proceeds, Created, Carded, PickedUp, Withdrawn, Asked, Considered,
         Accepted, Approved, Refused, Declined, Released, Goes, inStatus
    <2> QED
      BY <2>1, <2>2
  <1> QED
    BY <1>1, <1>2 DEF StepKind

LEMMA PartiesStep ==
  ASSUME ConsentInv, Next, PartiesAreLogged
  PROVE  PartiesAreLogged'
  <1> SUFFICES ASSUME NEW r \in Rec, NEW i \in DOMAIN audit'[r]
               PROVE  audit'[r][i].actor_user_id \in {recs'[r].employer_id, candidateOf(r)'}
    BY DEF PartiesAreLogged, candidateOf
  <1>1. IInv /\ StepKind
    BY StepKinds DEF ConsentInv
  <1>2. CASE ~exists(recs[r])
    <2>1. audit[r] = << >> /\ silent(r)
      BY <1>1, <1>2, LogGrows DEF ConsentInv, History
    <2>2. audit'[r] = << >>
      BY <2>1 DEF silent
    <2> QED
      BY <2>2
  <1>3. CASE exists(recs[r])
    <2>1. recs'[r].employer_id = recs[r].employer_id /\ candidateOf(r)' = candidateOf(r)
      BY <1>1, <1>3, EveryStepSticks DEF Keeps, StepKind
    <2>2. audit[r] \in Seq(AuditRow)
      BY <1>1 DEF IInv, TypeOK
    <2>3. CASE silent(r)
      BY <2>1, <2>3 DEF silent, PartiesAreLogged
    <2>4. ASSUME NEW action, NEW u \in {recs[r].employer_id, candidateOf(r)}, logs(r, action, u)
          PROVE  audit'[r][i].actor_user_id \in {recs'[r].employer_id, candidateOf(r)'}
      <3> DEFINE entry == [action |-> action, actor_user_id |-> u]
      <3>1. entry.actor_user_id = u
        OBVIOUS
      <3>2. audit'[r] = Append(audit[r], entry)
        BY <2>4 DEF logs
      <3> HIDE DEF entry
      <3>3. audit'[r][i] = entry \/ (i \in DOMAIN audit[r] /\ audit'[r][i] = audit[r][i])
        BY <2>2, <3>2
      <3> QED
        BY <2>1, <3>1, <3>3 DEF PartiesAreLogged
    <2> QED
      BY <1>1, <2>3, <2>4, LogGrows
  <1> QED
    BY <1>2, <1>3

\* A profile does not change hands.
LEMMA ProfileOwnerStays ==
  ASSUME IInv, Next, NEW a \in Anon, exists(profiles[a])
  PROVE  profiles'[a].headhunter_id = profiles[a].headhunter_id
  <1>1. profiles[a] \in ProfileRow
    BY DEF IInv, TypeOK, exists
  <1>2. CASE UNCHANGED profiles
    BY <1>2
  <1>3. CASE UploadNext
    BY <1>3 DEF UploadNext, UploadCandidate, UploadCandidateInterrupted, insertProfile, IInv, TypeOK
  <1>4. CASE PoolNext
    <2>1. PICK b \in Anon, isPublic \in BOOLEAN :
            profiles' = [profiles EXCEPT ![b].is_public_pool = isPublic]
      BY <1>4, BoundsAreWithinTheSystem DEF PoolNext, PublishToPool, RemoveFromPool, setPool
    <2>2. profiles'[a] \in {profiles[a], [profiles[a] EXCEPT !.is_public_pool = isPublic]}
      BY <2>1 DEF IInv, TypeOK
    <2> QED
      BY <1>1, <2>2 DEF ProfileRow
  <1>5. ASSUME NEW c, DeleteMyData(c)
        PROVE  profiles'[a].headhunter_id = profiles[a].headhunter_id
    <2>1. profiles'[a] \in {profiles[a], [profiles[a] EXCEPT !.has_pii = FALSE]}
      BY <1>5 DEF DeleteMyData
    <2> QED
      BY <1>1, <2>1 DEF ProfileRow
  <1>6. CASE JobNext \/ AdminNext
    BY <1>2, <1>6 DEF JobNext, CreateJob, ClaimJob, RejectJob, PauseJob, ResumeJob, CloseJob,
       CreateJobForEmployer, AdminNext, Suspend, Unsuspend, MarkPaid, CancelPlacement
  <1>7. CASE HunterNext \/ EmployerNext
    BY <1>2, <1>7 DEF HunterNext, HunterCalls, RecommendCandidate, WithdrawRecommendation, Pickup, BoardNext,
       AddCard, MoveCard, RemoveCard, EmployerNext, ExpressInterest, UnlockContact,
       CreatePlacement
  <1>8. CASE CandidateNext
    BY <1>2, <1>5, <1>8 DEF CandidateNext, ApproveUnlock, RejectUnlock, Apply, Respond
  <1> QED
    BY <1>3, <1>4, <1>6, <1>7, <1>8 DEF Next

\* A recommendation that is new in this step.
New(r) == ~exists(recs[r]) /\ exists(recs'[r])

\* Recommendations are made by the owner of the profile, or with an application.
LEMMA NewIsOwners ==
  ASSUME IInv, Next, NEW r \in Rec, New(r), ~exists(apps'[r])
  PROVE  recs'[r].headhunter_id = profiles[r[1]].headhunter_id
  <1>1. CASE UNCHANGED recs
    BY <1>1 DEF New
  <1>2. ASSUME NEW q \in Rec, exists(recs[q]), NEW row, recs' = [recs EXCEPT ![q] = row]
        PROVE  FALSE
    BY <1>2 DEF New, IInv, TypeOK
  <1>3. CASE JobNext \/ UploadNext \/ PoolNext \/ AdminNext
    BY <1>1, <1>3 DEF JobNext, UploadNext, PoolNext, AdminNext, CreateJob, ClaimJob,
       RejectJob, PauseJob, ResumeJob, CloseJob, CreateJobForEmployer, UploadCandidate,
       UploadCandidateInterrupted, PublishToPool, RemoveFromPool, Suspend, Unsuspend,
       MarkPaid, CancelPlacement
  <1>4. CASE HunterNext
    <2>1. PICK h \in Hunters, q \in Rec :
            \/ \E referrer \in Referrers : RecommendCandidate(h, q, referrer)
            \/ WithdrawRecommendation(h, q)
            \/ Pickup(h, q)
            \/ \E stage \in ColumnStages : AddCard(h, q, stage) \/ MoveCard(h, q, stage)
            \/ RemoveCard(h, q)
      BY <1>4 DEF HunterNext, HunterCalls, BoardNext
    <2>2. ASSUME NEW referrer, RecommendCandidate(h, q, referrer)
          PROVE  recs'[r].headhunter_id = profiles[r[1]].headhunter_id
      <3>1. q = r
        BY <2>2 DEF RecommendCandidate, New, IInv, TypeOK
      <3> QED
        BY <2>2, <3>1 DEF RecommendCandidate, IInv, TypeOK
    <2>3. WithdrawRecommendation(h, q) \/ Pickup(h, q) => FALSE
      BY <1>2 DEF WithdrawRecommendation, Pickup, New, IInv, TypeOK
    <2>4. ASSUME NEW stage, AddCard(h, q, stage) \/ MoveCard(h, q, stage) PROVE FALSE
      BY <1>2, <2>4 DEF AddCard, claimRec, MoveCard, updateCard, New, IInv, TypeOK
    <2>5. RemoveCard(h, q) => FALSE
      BY <1>2 DEF RemoveCard, rejectRec
    <2> QED
      BY <2>1, <2>2, <2>3, <2>4, <2>5
  <1>5. CASE EmployerNext
    <2>1. PICK e \in Employers, q \in Rec :
            \/ ExpressInterest(e, q)
            \/ UnlockContact(e, q)
            \/ \E told \in {"nobody", "primary", "both"} : CreatePlacement(e, q, told)
      BY <1>5 DEF EmployerNext
    <2>2. ExpressInterest(e, q) \/ UnlockContact(e, q) => FALSE
      BY <1>2 DEF ExpressInterest, UnlockContact, unlockStep
    <2>3. ASSUME NEW told, CreatePlacement(e, q, told)
          PROVE  UNCHANGED recs
      BY <2>3 DEF CreatePlacement
    <2> QED
      BY <1>1, <2>1, <2>2, <2>3
  <1>6. CASE CandidateNext
    <2>1. PICK c \in Candidates :
            \/ \E q \in Rec :
                 \/ ApproveUnlock(c, q) \/ RejectUnlock(c, q)
                 \/ Apply(c, q)
                 \/ \E action \in {"withdraw", "consider_offer", "accept_offer",
                                   "decline_offer"} : Respond(c, q, action)
            \/ DeleteMyData(c)
      BY <1>6 DEF CandidateNext
    <2>2. ASSUME NEW q \in Rec, ApproveUnlock(c, q) \/ RejectUnlock(c, q) PROVE FALSE
      BY <1>2, <2>2 DEF ApproveUnlock, RejectUnlock, unlockStep
    <2>3. ASSUME NEW q \in Rec, Apply(c, q) PROVE FALSE
      <3>1. q = r
        BY <2>3 DEF Apply, insertApplication, New, IInv, TypeOK
      <3>2. apps'[r] = [candidate_user_id |-> c, pickup_headhunter_id |-> NULL,
                        withdrawn |-> FALSE]
        BY <2>3, <3>1 DEF Apply, insertApplication, IInv, TypeOK
      <3>3. apps'[r] \in AppRow
        BY <3>2 DEF AppRow
      <3> QED
        BY <3>3, NullIsNoRow DEF exists
    <2>4. ASSUME NEW q \in Rec, NEW action, Respond(c, q, action) PROVE FALSE
      BY <1>2, <2>4 DEF Respond, IInv, ApplicationMirrorsRecommendation
    <2>5. ASSUME DeleteMyData(c) PROVE FALSE
      BY <2>5 DEF DeleteMyData, New, exists
    <2> QED
      BY <2>1, <2>2, <2>3, <2>4, <2>5
  <1> QED
    BY <1>3, <1>4, <1>5, <1>6 DEF Next

\* No step takes an application back.
LEMMA ApplicationsStay ==
  ASSUME StepKind, NEW r \in Rec, exists(recs[r]), exists(apps[r])
  PROVE  exists(apps'[r])
  <1>1. CASE Quiet \/ (\E c \in Candidates : Erases(c))
    BY <1>1 DEF Quiet, Rests, Erases
  <1>2. ASSUME NEW q \in Rec, Moves(q)
        PROVE  exists(apps'[r])
    <2>1. CASE q # r
      BY <1>2, <2>1 DEF Moves, Rests
    <2>2. CASE q = r
      BY <1>2, <2>2 DEF Moves, Proceeds, Created, Carded, PickedUp, Withdrawn, Asked, Considered,
         Accepted, Approved, Refused, Declined, Released, Goes
    <2> QED
      BY <2>1, <2>2
  <1> QED
    BY <1>1, <1>2 DEF StepKind

LEMMA OwnerStep ==
  ASSUME ConsentInv, ConsentInv', Next, OwnerRecommends
  PROVE  OwnerRecommends'
  <1> SUFFICES ASSUME NEW r \in Rec, exists(recs'[r]), ~exists(apps'[r])
               PROVE  recs'[r].headhunter_id = profiles'[r[1]].headhunter_id
    BY DEF OwnerRecommends, exists
  <1>1. IInv /\ IInv' /\ StepKind
    BY StepKinds DEF ConsentInv
  <1>2. CASE exists(recs[r])
    <2>1. r[1] \in Anon /\ exists(profiles[r[1]]) /\ profiles[r[1]] \in ProfileRow
      BY <1>1, <1>2, RowsBehind DEF IInv, RecEmployerOwnsJob
    <2>2. recs[r].headhunter_id = profiles[r[1]].headhunter_id
      BY <1>1, <1>2, ApplicationsStay DEF OwnerRecommends
    <2>3. recs[r].headhunter_id # NULL
      BY <2>1, <2>2, NullIsNoRow DEF ProfileRow, User
    <2> QED
      BY <1>1, <1>2, <2>1, <2>2, <2>3, EveryStepSticks, ProfileOwnerStays DEF Keeps
  <1>3. CASE ~exists(recs[r])
    <2>1. New(r)
      BY <1>3 DEF New
    <2>2. PICK q \in Rec : Moves(q)
      BY <1>1, <1>3, <2>1 DEF StepKind, Quiet, Rests, Erases, inStatus, New, exists
    <2>3. UNCHANGED profiles
      BY <2>2 DEF Moves
    <2> QED
      BY <1>1, <2>1, <2>3, NewIsOwners
  <1> QED
    BY <1>2, <1>3

LEMMA PagesStep == PagesInv /\ [Next]_vars => PagesInv'
  <1>1. ASSUME PagesInv, [Next]_vars PROVE PlacementInv' /\ ConsentInv /\ ConsentInv' /\ IInv
    BY <1>1, PlacementInvStep DEF PagesInv, PlacementInv, ConsentInv
  <1>2. CASE UNCHANGED vars
    <2>1. ASSUME PostingsHaveSomebody, PartiesAreLogged, OwnerRecommends
          PROVE  PostingsHaveSomebody' /\ PartiesAreLogged' /\ OwnerRecommends'
      BY <1>2, <2>1 DEF vars, PostingsHaveSomebody, PartiesAreLogged, OwnerRecommends, candidateOf,
         exists
    <2> QED
      BY <1>1, <2>1 DEF PagesInv
  <1>3. ASSUME PagesInv, Next PROVE PagesInv'
    BY <1>1, <1>3, PostingsStep, PartiesStep, OwnerStep DEF PagesInv
  <1> QED
    BY <1>2, <1>3

\* In every reachable state the tables hold what the pages rely on.
THEOREM PagesInvariance == Spec => []PagesInv
  BY PagesInit, PagesStep, PTL DEF Spec

-----------------------------------------------------------------------------
(* Finite tables.                                                          *)

LEMMA TablesAreFinite ==
  ASSUME PlacementInv
  PROVE  IsFiniteSet(Rec) /\ IsFiniteSet(placements)
  <1>1. IsFiniteSet(Rec)
    BY PagesAssumption, FS_Product DEF Rec
  <1>2. \A p \in placements : p.rec \in Rec
    BY DEF PlacementInv, ConsentInv, IInv, TypeOK, PlacementRow
  <1> DEFINE hired == [p \in placements |-> p.rec]
  <1>3. hired \in Injection(placements, Rec)
    BY <1>2 DEF PlacementInv, OnePerHire, Injection, IsInjective
  <1> QED
    BY <1>1, <1>3, FS_Injection

LEMMA PartIsFinite ==
  ASSUME NEW S, IsFiniteSet(S), NEW T, T \subseteq S
  PROVE  IsFiniteSet(T) /\ Cardinality(T) \in Nat
  BY FS_Subset, FS_CardinalityType

\* Two lists without a common row are as long as the list of both.
LEMMA CountApart ==
  ASSUME NEW S, IsFiniteSet(S), NEW T, IsFiniteSet(T), S \intersect T = {}
  PROVE  /\ IsFiniteSet(S \union T)
         /\ Cardinality(S \union T) = Cardinality(S) + Cardinality(T)
  BY FS_Union, FS_EmptySet, FS_CardinalityType

-----------------------------------------------------------------------------
(* The headhunter's pages.                                                 *)

\* What a recommendation has behind it, for whoever joins through it.
LEMMA Joins ==
  ASSUME PagesInv, NEW r \in recommendations
  PROVE  /\ r \in Rec /\ exists(recs[r]) /\ recs[r] \in RecRow
         /\ r \in hydrated
         /\ r[1] \in Anon /\ exists(profiles[r[1]]) /\ profiles[r[1]].has_anon
         /\ profiles[r[1]] \in ProfileRow /\ candidateOf(r) \in Candidates
         /\ r[1] \in myAnons(candidateOf(r))
         /\ r[2] \in Jobs /\ exists(jobs[r[2]]) /\ jobs[r[2]].employer_id = recs[r].employer_id
         /\ r[2] \in listByEmployer(recs[r].employer_id)
         /\ recs[r].employer_id \in Employers
  <1>1. IInv /\ r \in Rec /\ exists(recs[r])
    BY DEF PagesInv, PlacementInv, ConsentInv, recommendations
  <1>2. /\ recs[r] \in RecRow
        /\ r[1] \in Anon /\ exists(profiles[r[1]]) /\ profiles[r[1]].has_anon
        /\ profiles[r[1]] \in ProfileRow /\ candidateOf(r) \in Candidates
        /\ r[2] \in Jobs /\ exists(jobs[r[2]]) /\ jobs[r[2]].employer_id = recs[r].employer_id
    BY <1>1, RowsBehind DEF IInv, RecEmployerOwnsJob
  <1> QED
    BY <1>1, <1>2 DEF hydrated, recommendations, myAnons, profilesOf, candidateOf, listByEmployer,
       RecRow

\* An application and the recommendation it belongs to.
LEMMA Applied ==
  ASSUME PagesInv, NEW r \in applications
  PROVE  /\ r \in Rec /\ r \in recommendations
         /\ exists(apps[r]) /\ apps[r].candidate_user_id = candidateOf(r)
         /\ apps[r].pickup_headhunter_id = recs[r].pickup_headhunter_id
  BY DEF PagesInv, PlacementInv, ConsentInv, IInv, ApplicationMirrorsRecommendation, applications,
     recommendations

\* The queue is the applications that wait, each with a profile to show.
LEMMA QueueIs ==
  ASSUME PagesInv
  PROVE  /\ queued = {r \in recommendations : recs[r].status = "pending_pickup"}
         /\ \A r \in queued : r \in applications /\ recs[r].pickup_headhunter_id = NULL
  <1>1. ASSUME NEW r \in recommendations, recs[r].status = "pending_pickup"
        PROVE  r \in applications /\ recs[r].pickup_headhunter_id = NULL
    BY <1>1 DEF PagesInv, PlacementInv, ConsentInv, IInv, ApplicationMirrorsRecommendation,
       applications, recommendations
  <1>2. ASSUME NEW r \in recommendations, recs[r].status = "pending_pickup"
        PROVE  r \in queued
    <2>1. /\ r \in applications /\ apps[r].pickup_headhunter_id = NULL
          /\ apps[r].candidate_user_id = candidateOf(r)
      BY <1>1, <1>2, Applied
    <2>2. r[1] \in profilesOf(apps[r].candidate_user_id)
      BY <2>1, Joins DEF myAnons
    <2>3. <<r, r[1]>> \in listPendingPickup
      BY <1>2, <2>1, <2>2 DEF listPendingPickup
    <2> QED
      BY <2>3 DEF queued
  <1>3. ASSUME NEW r \in queued
        PROVE  r \in recommendations /\ recs[r].status = "pending_pickup"
    <2>1. PICK row \in listPendingPickup : r = row[1]
      BY <1>3 DEF queued
    <2>2. PICK q \in applications \intersect recommendations :
            /\ recs[q].status = "pending_pickup"
            /\ row \in {<<q, a>> : a \in profilesOf(apps[q].candidate_user_id)}
      BY <2>1 DEF listPendingPickup
    <2> QED
      BY <2>1, <2>2
  <1> QED
    BY <1>1, <1>2, <1>3

LEMMA HunterPages ==
  ASSUME PagesInv
  PROVE  HunterPagesAgree
  <1> SUFFICES ASSUME NEW h \in Hunters
               PROVE  /\ computeKanbanSummary(h) = getFunnel(h)
                      /\ getOverview(h).pending_pickup_count = Cardinality(queued)
                      /\ Cardinality(fetchRecentRecommendations(h)) =
                           getOverview(h).active_recommendations + getFunnel(h)["onboarded"]
                      /\ {r[1] : r \in fetchRecentRecommendations(h)} \subseteq
                           findByHeadhunterId(h)
                           \union {r[1] : r \in {q \in applications : recs[q].headhunter_id = h}}
    BY DEF HunterPagesAgree, hunterDashboard
  <1> DEFINE mine == listByHeadhunter(h)
             recent == fetchRecentRecommendations(h)
             active == {r \in mine : recs[r].pipeline_stage \notin {"onboarded", "rejected"}}
             done == atStage(mine, "onboarded")
  <1>1. mine \subseteq hydrated /\ mine \subseteq recommendations /\ mine \subseteq Rec
    BY Joins DEF listByHeadhunter, recommendations
  <1>2. mine \intersect hydrated = mine
    BY <1>1
  <1>3. computeKanbanSummary(h) = getFunnel(h)
    BY <1>2 DEF computeKanbanSummary, getFunnel, getBoard
  <1>4. getOverview(h).pending_pickup_count = Cardinality(queued)
    <2>1. queued = {r \in recommendations : recs[r].status = "pending_pickup"
                                            /\ recs[r].pickup_headhunter_id = NULL}
      BY QueueIs
    <2> QED
      BY <2>1 DEF getOverview
  <1>5. Cardinality(recent) = getOverview(h).active_recommendations + getFunnel(h)["onboarded"]
    <2>1. IsFiniteSet(active) /\ IsFiniteSet(done)
      BY <1>1, TablesAreFinite, PartIsFinite DEF PagesInv, atStage
    <2>2. active \intersect done = {}
      BY DEF atStage
    <2>3. recent = active \union done
      BY <1>1 DEF atStage, fetchRecentRecommendations
    <2>4. Cardinality(recent) = Cardinality(active) + Cardinality(done)
      BY <2>1, <2>2, <2>3, CountApart
    <2>5. getOverview(h).active_recommendations = Cardinality(active)
      BY DEF getOverview
    <2>6. getFunnel(h)["onboarded"] = Cardinality(done)
      BY DEF getFunnel, PIPELINE_STAGES
    <2> QED
      BY <2>4, <2>5, <2>6
  <1>6. ASSUME NEW r \in recent
        PROVE  r[1] \in findByHeadhunterId(h) \/ (r \in applications /\ recs[r].headhunter_id = h)
    <2>1. r \in recommendations /\ recs[r].headhunter_id = h
      BY <1>1 DEF fetchRecentRecommendations, listByHeadhunter
    <2>2. CASE exists(apps[r])
      BY <2>1, <2>2, Joins DEF applications
    <2>3. CASE ~exists(apps[r])
      BY <2>1, <2>3, Joins DEF PagesInv, OwnerRecommends, findByHeadhunterId, anonymized
    <2> QED
      BY <2>2, <2>3
  <1> QED
    BY <1>3, <1>4, <1>5, <1>6

-----------------------------------------------------------------------------
(* The candidate's pages.                                                  *)

\* Who did something about a candidate did it to a recommendation of theirs.
LEMMA LoggedIsRecommended ==
  ASSUME PagesInv, NEW r \in Rec, NEW i \in DOMAIN audit[r]
  PROVE  r \in recommendations
  <1>1. ~exists(recs[r]) => audit[r] = << >>
    BY DEF PagesInv, PlacementInv, ConsentInv, History
  <1>2. audit[r] # << >>
    OBVIOUS
  <1> QED
    BY <1>1, <1>2 DEF recommendations

LEMMA CandidatePages ==
  ASSUME PagesInv
  PROVE  CandidatePagesAgree
  <1>1. queued = {r \in UNION {listByCandidate(c) : c \in Candidates} :
                   recs[r].status = "pending_pickup"}
    <2>1. ASSUME NEW r \in queued
          PROVE  recs[r].status = "pending_pickup" /\ r \in listByCandidate(candidateOf(r))
      BY QueueIs, Applied DEF listByCandidate
    <2>2. \A r \in queued : candidateOf(r) \in Candidates
      BY QueueIs, Joins
    <2>3. \A c : listByCandidate(c) \subseteq recommendations
      BY DEF listByCandidate
    <2> QED
      BY <2>1, <2>2, <2>3, QueueIs
  <1>2. ASSUME NEW c \in Candidates
        PROVE  /\ listByCandidate(c) \union viewOpportunities(c)
                    \subseteq exportMyData(c).recommendations
               /\ exportMyData(c).audit_log_entries \subseteq listAuditLog(c)
               /\ listByCandidate(c) = {r \in Rec : applicationDetail(c, r)}
               /\ \A r \in listByCandidate(c) : jobDetail(r[2]) /\ getProfile(c) # {NULL}
               /\ UNION recommended(c) # {} =>
                    \E h \in Hunters : myAnons(c) \intersect findByHeadhunterId(h) # {}
    <2>1. \A r \in listByCandidate(c) : r \in recommendations /\ candidateOf(r) = c
      BY Applied DEF listByCandidate
    <2>2. \A r \in listByCandidate(c) : r[1] \in myAnons(c)
      BY <2>1, Joins
    <2>3. listByCandidate(c) \union viewOpportunities(c) \subseteq exportMyData(c).recommendations
      BY <2>1, <2>2 DEF viewOpportunities, exportMyData
    <2>4. ASSUME NEW r \in Rec, NEW i \in DOMAIN audit[r], audit[r][i].actor_user_id = c
          PROVE  <<r, i>> \in listAuditLog(c)
      <3>1. r \in recommendations
        BY LoggedIsRecommended
      <3>2. recs[r].employer_id \in Employers
        BY <3>1, Joins
      <3>3. candidateOf(r) = c
        BY <2>4, <3>2, UserTypesAreDisjoint DEF PagesInv, PartiesAreLogged
      <3>4. r[1] \in myAnons(c)
        BY <3>1, <3>3, Joins
      <3> QED
        BY <3>1, <3>4 DEF listAuditLog
    <2>5. exportMyData(c).audit_log_entries \subseteq listAuditLog(c)
      BY <2>4 DEF exportMyData
    <2>6. listByCandidate(c) = {r \in Rec : applicationDetail(c, r)}
      BY Applied DEF listByCandidate, applicationDetail, applications
    <2>7. ASSUME NEW r \in listByCandidate(c)
          PROVE  jobDetail(r[2]) /\ getProfile(c) # {NULL}
      <3>1. jobDetail(r[2])
        BY <2>1, Joins DEF jobDetail
      <3>2. r[1] \in Anon /\ r[1] \in profilesOf(c) /\ profiles[r[1]].has_anon
        BY <2>2 DEF myAnons, profilesOf
      <3>3. r[1] \in getProfile(c)
        BY <3>2 DEF getProfile
      <3>4. r[1] # NULL
        BY <3>2, PagesAssumption
      <3> QED
        BY <3>1, <3>3, <3>4
    <2>8. ASSUME UNION recommended(c) # {}
          PROVE  \E h \in Hunters : myAnons(c) \intersect findByHeadhunterId(h) # {}
      <3>1. PICK profile \in getProfile(c) : profile # NULL
        BY <2>8 DEF recommended
      <3>2. profile \in myAnons(c)
        BY <3>1 DEF getProfile, myAnons
      <3>3. profile \in Anon /\ exists(profiles[profile]) /\ profiles[profile].has_anon
        BY <3>2 DEF myAnons, profilesOf
      <3>4. profiles[profile].headhunter_id \in Hunters
        BY <3>3 DEF PagesInv, PlacementInv, ConsentInv, IInv, TypeOK, ProfileRow, exists
      <3>5. profile \in findByHeadhunterId(profiles[profile].headhunter_id)
        BY <3>3 DEF findByHeadhunterId, anonymized
      <3> QED
        BY <3>2, <3>4, <3>5
    <2> QED
      BY <2>3, <2>5, <2>6, <2>7, <2>8
  <1>3. UNION {listAuditLog(c) : c \in Candidates} = UNION {{r} \X DOMAIN audit[r] : r \in Rec}
    <2>1. ASSUME NEW r \in Rec, NEW i \in DOMAIN audit[r]
          PROVE  \E c \in Candidates : <<r, i>> \in listAuditLog(c)
      <3>1. r \in recommendations
        BY LoggedIsRecommended
      <3>2. candidateOf(r) \in Candidates /\ r[1] \in myAnons(candidateOf(r))
        BY <3>1, Joins
      <3> QED
        BY <3>1, <3>2 DEF listAuditLog
    <2>2. ASSUME NEW c \in Candidates, NEW row \in listAuditLog(c)
          PROVE  \E r \in Rec : row \in {r} \X DOMAIN audit[r]
      <3>1. PICK r \in recommendations : \E i \in DOMAIN audit[r] : row = <<r, i>>
        BY <2>2 DEF listAuditLog
      <3>2. r \in Rec
        BY DEF recommendations
      <3>3. row \in {r} \X DOMAIN audit[r]
        BY <3>1
      <3> QED
        BY <3>2, <3>3
    <2> QED
      BY <2>1, <2>2
  <1> QED
    BY <1>1, <1>2, <1>3 DEF CandidatePagesAgree

-----------------------------------------------------------------------------
(* The employer's pages.                                                   *)

\* The page of an employer, read by the job or by the copied employer.
LEMMA OnMyJobs ==
  ASSUME PagesInv, NEW e \in Employers
  PROVE  onMyJobs(e) = {r \in recommendations : recs[r].employer_id = e}
  BY Joins DEF onMyJobs, listByEmployer

LEMMA HiredIsListed ==
  ASSUME PagesInv, NEW p \in placements
  PROVE  /\ p.rec \in recommendations /\ p \in PlacementRow
         /\ p.rec[2] \in Jobs /\ exists(jobs[p.rec[2]])
         /\ jobs[p.rec[2]].employer_id = recs[p.rec].employer_id
         /\ recs[p.rec].employer_id \in Employers
  <1>1. p \in PlacementRow /\ exists(recs[p.rec])
    BY DEF PagesInv, PlacementInv, ConsentInv, IInv, TypeOK, Earned
  <1>2. p.rec \in recommendations
    BY <1>1 DEF PlacementRow, recommendations
  <1> QED
    BY <1>1, <1>2, Joins

LEMMA ListedPlacements ==
  ASSUME PagesInv, NEW e \in Employers
  PROVE  listPlacements(e) = {p \in placements : recs[p.rec].employer_id = e}
  BY HiredIsListed DEF listPlacements, listByEmployer

LEMMA InterestIsSeen ==
  ASSUME PagesInv, NEW e \in Employers
  PROVE  getDashboard(e).interested_count <= getDashboard(e).candidates_viewed
  <1> DEFINE seen(r) == {<<r, i>> : i \in {k \in DOMAIN audit[r] : audit[r][k].actor_user_id = e}}
             viewed == UNION {seen(r) : r \in onMyJobs(e)}
             interested == {r \in onMyJobs(e) : recs[r].status = "employer_interested"}
  <1>1. onMyJobs(e) \subseteq Rec /\ onMyJobs(e) \subseteq recommendations
    BY DEF onMyJobs, recommendations
  <1>2. IsFiniteSet(onMyJobs(e)) /\ IsFiniteSet(interested)
    BY <1>1, TablesAreFinite, PartIsFinite DEF PagesInv
  <1>3. ASSUME NEW r \in onMyJobs(e)
        PROVE  IsFiniteSet(seen(r))
    <2>1. audit[r] \in Seq(AuditRow)
      BY <1>1 DEF PagesInv, PlacementInv, ConsentInv, IInv, TypeOK
    <2>2. IsFiniteSet(1..Len(audit[r])) /\ DOMAIN audit[r] = 1..Len(audit[r])
      BY <2>1, FS_Interval
    <2>3. IsFiniteSet({r} \X (1..Len(audit[r])))
      BY <2>2, FS_Product, FS_Singleton
    <2>4. seen(r) \subseteq {r} \X (1..Len(audit[r]))
      BY <2>2
    <2> HIDE DEF seen
    <2> QED
      BY <2>3, <2>4, PartIsFinite
  <1>4. IsFiniteSet(viewed)
    <2> DEFINE S == {seen(r) : r \in onMyJobs(e)}
               f == [r \in onMyJobs(e) |-> seen(r)]
    <2> HIDE DEF seen
    <2>1. f \in Surjection(onMyJobs(e), S)
      BY DEF Surjection
    <2>2. IsFiniteSet(S)
      BY <1>2, <2>1, FS_Surjection
    <2>3. \A T \in S : IsFiniteSet(T)
      BY <1>3
    <2> HIDE DEF S
    <2>4. IsFiniteSet(UNION S)
      BY <2>2, <2>3, FS_UNION
    <2> QED
      BY <2>4 DEF S
  <1>5. ASSUME NEW r \in interested
        PROVE  <<r, 1>> \in viewed
    <2>1. r \in Rec /\ inStatus(r, {"employer_interested"})
      BY <1>1 DEF inStatus, recommendations
    <2>2. audit[r] = <<asks(r)>>
      BY <2>1 DEF PagesInv, PlacementInv, ConsentInv, History, inStatus
    <2>3. recs[r].employer_id = e
      BY OnMyJobs
    <2>4. 1 \in DOMAIN audit[r] /\ audit[r][1] = asks(r)
      BY <2>2
    <2>5. audit[r][1].actor_user_id = e
      BY <2>3, <2>4 DEF asks
    <2>6. <<r, 1>> \in seen(r)
      BY <2>4, <2>5
    <2> QED
      BY <2>6
  <1> HIDE DEF viewed, interested
  <1> DEFINE first == [r \in interested |-> <<r, 1>>]
  <1>6. first \in Injection(interested, viewed)
    BY <1>5 DEF Injection, IsInjective
  <1>7. Cardinality(interested) <= Cardinality(viewed)
    BY <1>4, <1>6, FS_Injection
  <1> QED
    BY <1>7 DEF getDashboard, viewed, interested

LEMMA EmployerPages ==
  ASSUME PagesInv
  PROVE  EmployerPagesAgree
  <1>1. ASSUME NEW e \in Employers
        PROVE  /\ {r \in onMyJobs(e) : recs[r].status \in {"employer_interested",
                                                           "candidate_approved"}}
                    \subseteq UNION {viewOpportunities(c) : c \in Candidates}
               /\ getDashboard(e).interested_count <= getDashboard(e).candidates_viewed
               /\ getDashboard(e).placements_count =
                    Cardinality({p \in placements : recs[p.rec].employer_id = e})
    <2>1. ASSUME NEW r \in onMyJobs(e),
                 recs[r].status \in {"employer_interested", "candidate_approved"}
          PROVE  \E c \in Candidates : r \in viewOpportunities(c)
      <3>1. r \in recommendations
        BY DEF onMyJobs
      <3> QED
        BY <2>1, <3>1, Joins DEF viewOpportunities
    <2>2. getDashboard(e).placements_count = Cardinality(listPlacements(e))
      BY DEF getDashboard
    <2> QED
      BY <2>1, <2>2, ListedPlacements, InterestIsSeen
  <1>2. UNION {listPlacements(e) : e \in Employers} = placements
    <2>1. \A p \in placements : p \in listPlacements(recs[p.rec].employer_id)
      BY HiredIsListed DEF listPlacements, listByEmployer
    <2>2. \A e \in Employers : listPlacements(e) \subseteq placements
      BY DEF listPlacements
    <2>3. \A p \in placements : recs[p.rec].employer_id \in Employers
      BY HiredIsListed
    <2> QED
      BY <2>1, <2>2, <2>3
  <1>3. browseTalent \subseteq UNION {findByHeadhunterId(h) : h \in Hunters}
    <2> SUFFICES ASSUME NEW a \in browseTalent
                 PROVE  \E h \in Hunters : a \in findByHeadhunterId(h)
      OBVIOUS
    <2>1. a \in anonymized /\ a \in Anon /\ exists(profiles[a])
      BY DEF browseTalent, anonymized
    <2>2. profiles[a].headhunter_id \in Hunters
      BY <2>1 DEF PagesInv, PlacementInv, ConsentInv, IInv, TypeOK, ProfileRow, exists
    <2> QED
      BY <2>1, <2>2 DEF findByHeadhunterId
  <1> QED
    BY <1>1, <1>2, <1>3 DEF EmployerPagesAgree

-----------------------------------------------------------------------------
(* The public pages and the console.                                       *)

\* A posting as it is read, whoever owns it.
LEMMA PostingIs ==
  ASSUME PagesInv, NEW j \in Jobs, exists(jobs[j])
  PROVE  /\ jobs[j] \in JobRow
         /\ jobs[j].employer_id = NULL \/ jobs[j].employer_id \in Employers
         /\ jobs[j].employer_id = NULL => /\ jobs[j].source_headhunter_id \in Hunters
                                          /\ jobs[j].status # "claimed"
  <1>1. jobs[j] \in JobRow
    BY DEF PagesInv, PlacementInv, ConsentInv, IInv, TypeOK, exists
  <1> QED
    BY <1>1 DEF JobRow, PagesInv, PostingsHaveSomebody

LEMMA NothingIsMissed ==
  ASSUME PagesInv
  PROVE  NothingIsOffEveryPage
  <1>1. live \subseteq listPublic \union UNION {findPendingClaims(e) : e \in Employers}
    <2> SUFFICES ASSUME NEW j \in live, j \notin listPublic
                 PROVE  \E e \in Employers : j \in findPendingClaims(e)
      OBVIOUS
    <2>1. /\ j \in Jobs /\ exists(jobs[j]) /\ jobs[j].status \in {"open", "claimed"}
          /\ jobs[j].employer_id = NULL
      BY DEF live, listPublic
    <2>2. jobs[j] \in JobRow /\ jobs[j].status = "open"
      BY <2>1, PostingIs
    <2>3. jobs[j].created_for_employer_id \in Employers \union {NULL}
      BY <2>2 DEF JobRow
    <2>4. PICK e \in Employers : jobs[j].created_for_employer_id \in {NULL, e}
      BY <2>3, PagesAssumption
    <2> QED
      BY <2>1, <2>2, <2>4 DEF findPendingClaims
  <1>2. {j \in browse : jobs[j].employer_id # NULL} \subseteq gatherLandingData.recentJobs
    BY DEF browse, gatherLandingData, recentJobs, live
  <1>3. gatherLandingData.featuredJobs = listPublic
    BY DEF gatherLandingData, featuredJobs, listPublic
  <1>4. gatherLandingData.hotCompanies =
          {jobs[j].employer_id : j \in listPublic} \intersect activeUsers(Employers)
    <2>1. ASSUME NEW e \in hotCompanies
          PROVE  e \in activeUsers(Employers) /\ \E j \in listPublic : e = jobs[j].employer_id
      <3>1. e \in Employers /\ e \in activeUsers(Employers)
        BY DEF hotCompanies, activeUsers
      <3>2. PICK j \in live : j \in listByEmployer(e)
        BY DEF hotCompanies
      <3>3. jobs[j].employer_id = e /\ e # NULL
        BY <3>1, <3>2, NullIsNoRow DEF listByEmployer, User
      <3> QED
        BY <3>1, <3>2, <3>3 DEF listPublic
    <2>2. ASSUME NEW j \in listPublic, jobs[j].employer_id \in activeUsers(Employers)
          PROVE  jobs[j].employer_id \in hotCompanies
      <3>1. j \in live /\ j \in listByEmployer(jobs[j].employer_id)
        BY DEF listPublic, live, listByEmployer
      <3> QED
        BY <2>2, <3>1 DEF hotCompanies
    <2>3. gatherLandingData.hotCompanies = hotCompanies
      BY DEF gatherLandingData
    <2> QED
      BY <2>1, <2>2, <2>3
  <1>5. gatherLandingData.latestPlacements = {}
    <2>1. \A p \in placements : p.status # "placed"
      BY HiredIsListed DEF PlacementRow
    <2>2. gatherLandingData.latestPlacements = latestPlacements
      BY DEF gatherLandingData
    <2> QED
      BY <2>1, <2>2 DEF latestPlacements
  <1>6. ASSUME NEW r \in recommendations,
               recs[r].status \in {"pending_pickup", "pending", "employer_interested",
                                   "considering_offer", "candidate_approved"}
        PROVE  \/ r \in queued
               \/ recs[r].pickup_headhunter_id # NULL
               \/ \E h \in Hunters : r \in listByHeadhunter(h)
    <2>1. r \in Rec /\ exists(recs[r]) /\ recs[r] \in RecRow
      BY Joins
    <2>2. CASE recs[r].status = "pending_pickup"
      BY <2>2, QueueIs
    <2>3. CASE exists(apps[r]) /\ recs[r].status # "pending_pickup"
      BY <1>6, <2>1, <2>3 DEF PagesInv, PlacementInv, ConsentInv, IInv,
         ApplicationMirrorsRecommendation
    <2>4. CASE ~exists(apps[r])
      <3>1. recs[r].headhunter_id # NULL
        BY <2>1, <2>4 DEF PagesInv, PlacementInv, ConsentInv, IInv,
           ApplicationMirrorsRecommendation
      <3>2. recs[r].headhunter_id \in Hunters
        BY <2>1, <3>1 DEF RecRow
      <3> QED
        BY <3>2 DEF listByHeadhunter
    <2> QED
      BY <2>2, <2>3, <2>4
  <1> QED
    BY <1>1, <1>2, <1>3, <1>4, <1>5, <1>6 DEF NothingIsOffEveryPage

\* Postings are counted once, under the status they have.
LEMMA PostingsAreCounted ==
  ASSUME PagesInv
  PROVE  getStats.jobs.total = getStats.jobs.open + getStats.jobs.paused + getStats.jobs.closed
                                 + getStats.jobs.filled + count(jobs, "claimed")
  <1> DEFINE with(status) == {j \in Jobs : exists(jobs[j]) /\ jobs[j].status = status}
             all == {j \in Jobs : exists(jobs[j])}
  <1>1. DOMAIN jobs = Jobs
    BY DEF PagesInv, PlacementInv, ConsentInv, IInv, TypeOK
  <1>2. \A status : count(jobs, status) = Cardinality(with(status))
    BY <1>1 DEF count
  <1>3. \A status : with(status) \subseteq Jobs
    OBVIOUS
  <1>4. \A status : IsFiniteSet(with(status)) /\ Cardinality(with(status)) \in Nat
    <2> TAKE status
    <2> HIDE DEF with
    <2> QED
      BY <1>3, PagesAssumption, PartIsFinite
  <1>5. \A s, t : s # t => with(s) \intersect with(t) = {}
    OBVIOUS
  <1>6. all = with("open") \union with("paused") \union with("closed")
                \union with("filled") \union with("claimed")
    BY PostingIs DEF JobRow, JobStatus
  <1> DEFINE two == with("open") \union with("paused")
             three == two \union with("closed")
             four == three \union with("filled")
             five == four \union with("claimed")
  <1>7. /\ two \intersect with("closed") = {}
        /\ three \intersect with("filled") = {}
        /\ four \intersect with("claimed") = {}
    BY <1>5
  <1> HIDE DEF with
  <1>8. /\ IsFiniteSet(two)
        /\ Cardinality(two) = Cardinality(with("open")) + Cardinality(with("paused"))
    BY <1>4, <1>5, CountApart
  <1> HIDE DEF two
  <1>9. IsFiniteSet(three) /\ Cardinality(three) = Cardinality(two) + Cardinality(with("closed"))
    BY <1>4, <1>7, <1>8, CountApart
  <1> HIDE DEF three
  <1>10. IsFiniteSet(four) /\ Cardinality(four) = Cardinality(three) + Cardinality(with("filled"))
    BY <1>4, <1>7, <1>9, CountApart
  <1> HIDE DEF four
  <1>11. Cardinality(five) = Cardinality(four) + Cardinality(with("claimed"))
    BY <1>4, <1>7, <1>10, CountApart
  <1>12. all = five
    BY <1>6 DEF two, three, four
  <1> HIDE DEF five
  <1>13. Cardinality(all) = Cardinality(with("open")) + Cardinality(with("paused"))
           + Cardinality(with("closed")) + Cardinality(with("filled"))
           + Cardinality(with("claimed"))
    BY <1>4, <1>8, <1>9, <1>10, <1>11, <1>12
  <1>14. /\ getStats.jobs.total = Cardinality(all)
         /\ getStats.jobs.open = count(jobs, "open")
         /\ getStats.jobs.paused = count(jobs, "paused")
         /\ getStats.jobs.closed = count(jobs, "closed")
         /\ getStats.jobs.filled = count(jobs, "filled")
    BY DEF getStats
  <1> QED
    BY <1>2, <1>13, <1>14

LEMMA UsersAreCounted ==
  ASSUME PagesInv
  PROVE  getStats.users.candidate + getStats.users.hr + getStats.users.pm =
           Cardinality(adminUsers("active") \union adminUsers("suspended"))
  <1> DEFINE kept(type) == {u \in type : users[u] # "deleted"}
             both == kept(Candidates) \union kept(Hunters)
  <1>1. \A u \in User : users[u] \in UserStatus
    BY DEF PagesInv, PlacementInv, ConsentInv, IInv, TypeOK
  <1>2. adminUsers("active") \union adminUsers("suspended") = both \union kept(Employers)
    BY <1>1 DEF adminUsers, User, UserStatus
  <1>3. /\ kept(Candidates) \subseteq User
        /\ kept(Hunters) \subseteq User
        /\ kept(Employers) \subseteq User
    BY DEF User
  <1>4. /\ kept(Candidates) \intersect kept(Hunters) = {}
        /\ both \intersect kept(Employers) = {}
    BY UserTypesAreDisjoint
  <1>5. /\ getStats.users.candidate = Cardinality(kept(Candidates))
        /\ getStats.users.hr = Cardinality(kept(Hunters))
        /\ getStats.users.pm = Cardinality(kept(Employers))
    BY DEF getStats
  <1> HIDE DEF kept
  <1>6. IsFiniteSet(kept(Candidates)) /\ IsFiniteSet(kept(Hunters)) /\ IsFiniteSet(kept(Employers))
    BY <1>3, PagesAssumption, PartIsFinite
  <1>7. /\ IsFiniteSet(both)
        /\ Cardinality(both) = Cardinality(kept(Candidates)) + Cardinality(kept(Hunters))
    BY <1>4, <1>6, CountApart
  <1> HIDE DEF both
  <1>8. Cardinality(both \union kept(Employers)) = Cardinality(both) + Cardinality(kept(Employers))
    BY <1>4, <1>6, <1>7, CountApart
  <1> QED
    BY <1>2, <1>5, <1>7, <1>8

LEMMA PlacementsAreCounted ==
  ASSUME PagesInv
  PROVE  /\ placementSummary.total_count = Cardinality(adminPlacements)
         /\ placementSummary.total_count - placementSummary.cancelled_count =
              Cardinality(activePlacements)
  <1>1. adminPlacements = placements
    BY HiredIsListed DEF adminPlacements
  <1>2. /\ placementSummary.total_count = Cardinality(placements)
        /\ placementSummary.cancelled_count = Cardinality(placementsWith("cancelled"))
    BY DEF placementSummary
  <1>3. placementsWith("cancelled") \subseteq placements /\ activePlacements \subseteq placements
    BY DEF placementsWith, activePlacements
  <1>4. /\ IsFiniteSet(placementsWith("cancelled")) /\ IsFiniteSet(activePlacements)
        /\ Cardinality(placementsWith("cancelled")) \in Nat
        /\ Cardinality(activePlacements) \in Nat
    BY <1>3, TablesAreFinite, PartIsFinite DEF PagesInv
  <1>5. placementsWith("cancelled") \intersect activePlacements = {}
    BY DEF placementsWith, activePlacements
  <1>6. placements = placementsWith("cancelled") \union activePlacements
    BY HiredIsListed DEF placementsWith, activePlacements, PlacementRow
  <1>7. Cardinality(placements) =
          Cardinality(placementsWith("cancelled")) + Cardinality(activePlacements)
    BY <1>4, <1>5, <1>6, CountApart
  <1> QED
    BY <1>1, <1>2, <1>4, <1>7

LEMMA CandidatesAreCounted ==
  ASSUME PagesInv
  PROVE  /\ gatherLandingData.totalCandidates =
              Cardinality(adminCandidates(TRUE)) + Cardinality(adminCandidates(FALSE))
         /\ gatherLandingData.publicCandidatesCount = Cardinality(browseTalent)
  <1>1. \A a \in anonymized : a \in Anon /\ profiles[a].is_public_pool \in BOOLEAN
    BY DEF anonymized, PagesInv, PlacementInv, ConsentInv, IInv, TypeOK, ProfileRow, exists
  <1>2. /\ adminCandidates(TRUE) \subseteq Anon /\ adminCandidates(FALSE) \subseteq Anon
        /\ adminCandidates(TRUE) \intersect adminCandidates(FALSE) = {}
    BY <1>1 DEF adminCandidates
  <1>3. anonymized = adminCandidates(TRUE) \union adminCandidates(FALSE)
    BY <1>1 DEF adminCandidates
  <1>4. IsFiniteSet(adminCandidates(TRUE)) /\ IsFiniteSet(adminCandidates(FALSE))
    BY <1>2, PagesAssumption, PartIsFinite
  <1>5. Cardinality(anonymized) =
          Cardinality(adminCandidates(TRUE)) + Cardinality(adminCandidates(FALSE))
    BY <1>2, <1>3, <1>4, CountApart
  <1>6. /\ gatherLandingData.totalCandidates = Cardinality(anonymized)
        /\ gatherLandingData.publicCandidatesCount = publicCandidatesCount
    BY DEF gatherLandingData
  <1> QED
    BY <1>5, <1>6 DEF publicCandidatesCount, browseTalent

\* The log read by posting, by profile or whole is the same log.
LEMMA TimelinesAgree ==
  ASSUME PagesInv
  PROVE  /\ UNION {timeline("job", j) : j \in Jobs} = auditList
         /\ UNION {timeline("candidate", a) : a \in Anon} = auditList
         /\ \A c \in Candidates :
              listAuditLog(c) = UNION {timeline("candidate", a) : a \in myAnons(c)}
  <1>1. \A j : timeline("job", j) = jobTimeline(j)
    BY DEF timeline
  <1>2. \A a : timeline("candidate", a) = candidateTimeline(a)
    BY DEF timeline
  <1>3. \A row \in auditList : \E r \in recommendations : row \in recommendationTimeline(r)
    <2> SUFFICES ASSUME NEW r \in Rec, NEW row \in {r} \X DOMAIN audit[r]
                 PROVE  r \in recommendations /\ row \in recommendationTimeline(r)
      BY DEF auditList
    <2>1. PICK i \in DOMAIN audit[r] : row = <<r, i>>
      OBVIOUS
    <2> QED
      BY <2>1, LoggedIsRecommended DEF recommendationTimeline
  <1>4. \A r \in recommendations : /\ recommendationTimeline(r) \subseteq auditList
                                   /\ r[1] \in Anon /\ r[2] \in Jobs
    BY Joins DEF recommendationTimeline, auditList
  <1>5. UNION {jobTimeline(j) : j \in Jobs} = auditList
    BY <1>3, <1>4 DEF jobTimeline
  <1>6. UNION {candidateTimeline(a) : a \in Anon} = auditList
    BY <1>3, <1>4 DEF candidateTimeline
  <1>7. ASSUME NEW c \in Candidates
        PROVE  listAuditLog(c) = UNION {candidateTimeline(a) : a \in myAnons(c)}
    <2>1. \A r : recommendationTimeline(r) = {<<r, i>> : i \in DOMAIN audit[r]}
      BY DEF recommendationTimeline
    <2>2. listAuditLog(c) =
            UNION {recommendationTimeline(r) : r \in {q \in recommendations : q[1] \in myAnons(c)}}
      BY <2>1 DEF listAuditLog
    <2> QED
      BY <2>2 DEF candidateTimeline
  <1> QED
    BY <1>1, <1>2, <1>5, <1>6, <1>7

LEMMA AdminPagesTell ==
  ASSUME PagesInv
  PROVE  AdminPagesAgree
  <1>1. getStats.recommendations.total = Cardinality(UNION {onMyJobs(e) : e \in Employers})
    <2>1. \A r \in recommendations : recs[r].employer_id \in Employers
      BY Joins
    <2>2. recommendations = UNION {onMyJobs(e) : e \in Employers}
      BY <2>1, OnMyJobs
    <2> QED
      BY <2>2 DEF getStats
  <1>2. \A e \in DOMAIN topEmployers : topEmployers[e] = Cardinality(onMyJobs(e))
    BY OnMyJobs DEF topEmployers, activeUsers
  <1>3. {j \in Jobs : exists(jobs[j])} \ adminJobs =
          (UNION {listMyCreatedJobs(h) : h \in Hunters}) \ UNION {listByEmployer(e) : e \in Employers}
    <2>1. ASSUME NEW j \in Jobs, exists(jobs[j]), jobs[j].employer_id = NULL
          PROVE  /\ \E h \in Hunters : j \in listMyCreatedJobs(h)
                 /\ \A e \in Employers : j \notin listByEmployer(e)
      <3>1. jobs[j].source_headhunter_id \in Hunters
        BY <2>1, PostingIs
      <3> QED
        BY <2>1, <3>1, NullIsNoRow DEF listMyCreatedJobs, listByEmployer, User
    <2>2. ASSUME NEW j \in Jobs, exists(jobs[j]), jobs[j].employer_id # NULL
          PROVE  \E e \in Employers : j \in listByEmployer(e)
      BY <2>2, PostingIs DEF listByEmployer
    <2>3. \A h \in Hunters : \A j \in listMyCreatedJobs(h) : j \in Jobs /\ exists(jobs[j])
      BY DEF listMyCreatedJobs
    <2> DEFINE made == UNION {listMyCreatedJobs(h) : h \in Hunters}
               owned == UNION {listByEmployer(e) : e \in Employers}
    <2>4. /\ \A j \in made : j \in Jobs /\ exists(jobs[j])
          /\ \A j \in Jobs : exists(jobs[j]) /\ jobs[j].employer_id = NULL =>
               j \in made /\ j \notin owned
          /\ \A j \in Jobs : exists(jobs[j]) /\ jobs[j].employer_id # NULL => j \in owned
      BY <2>1, <2>2, <2>3
    <2> HIDE DEF made, owned
    <2>5. {j \in Jobs : exists(jobs[j])} \ adminJobs = made \ owned
      BY <2>4 DEF adminJobs
    <2> QED
      BY <2>5 DEF made, owned
  <1>4. {p.rec : p \in todayPlacements} \subseteq todayUnlocks \union adminRecommendations("withdrawn")
    <2> SUFFICES ASSUME NEW p \in placements
                 PROVE  p.rec \in todayUnlocks \union adminRecommendations("withdrawn")
      BY DEF todayPlacements
    <2>1. p.rec \in Rec /\ contactRows(p.rec) # {} /\ ConsentInv
      BY DEF PagesInv, PlacementInv, ConsentInv, IInv, TypeOK, PlacementRow, Earned
    <2>2. recs[p.rec].status \in {"unlocked", "withdrawn"}
      BY <2>1, QueuedIsDelivered
    <2> QED
      BY <2>2, HiredIsListed DEF todayUnlocks, adminRecommendations
  <1>5. \A r \in recommendations : adminCandidate(r[1])
    BY Joins DEF adminCandidate, anonymized
  <1> QED
    BY <1>1, <1>2, <1>3, <1>4, <1>5, PostingsAreCounted, PlacementsAreCounted,
       CandidatesAreCounted, UsersAreCounted, TimelinesAgree DEF AdminPagesAgree

\* The landing page, the market, the console, the headhunter's workspace, the
\* candidate's lists and export and the employer's dashboard, each with its own
\* SQL, never contradict one another.
THEOREM PagesTellOneStory == Spec => []PagesAgree
  <1>1. PagesInv => PagesAgree
    BY HunterPages, CandidatePages, EmployerPages, NothingIsMissed, AdminPagesTell DEF PagesAgree
  <1> QED
    BY <1>1, PagesInvariance, PTL
=============================================================================
