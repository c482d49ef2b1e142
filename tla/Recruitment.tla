---------------------------- MODULE Recruitment -----------------------------
(***************************************************************************)
(* The recruitment platform: every handler that writes the shared tables,  *)
(* interleaved in any order, and what the tables promise to one another.   *)
(***************************************************************************)
EXTENDS JobBoard, Pipeline, SelfApply, Kanban, Commission, FiniteSets

JobNext ==
  \E j \in Jobs :
    \/ \E e \in Employers : \/ CreateJob(e, j) \/ ClaimJob(e, j) \/ RejectJob(e, j)
                            \/ PauseJob(e, j) \/ ResumeJob(e, j) \/ CloseJob(e, j)
    \/ \E h \in Hunters, createdFor \in Employers \union {NULL} :
         CreateJobForEmployer(h, j, createdFor)

UploadNext ==
  \E h \in Hunters, c \in Candidates, a \in Anon :
    UploadCandidate(h, c, a) \/ UploadCandidateInterrupted(h, c, a)

BoardNext(h, r) ==
  \/ \E stage \in ColumnStages : AddCard(h, r, stage) \/ MoveCard(h, r, stage)
  \/ RemoveCard(h, r)

HunterCalls(h, r) ==
  \/ \E referrer \in Referrers : RecommendCandidate(h, r, referrer)
  \/ WithdrawRecommendation(h, r)
  \/ Pickup(h, r)
  \/ BoardNext(h, r)

HunterNext == \E h \in Hunters, r \in Rec : HunterCalls(h, r)

PoolNext ==
  \E a \in Pooled : (\E h \in Hunters : PublishToPool(h, a)) \/ RemoveFromPool(a)

EmployerNext ==
  \E e \in Employers, r \in Rec :
    \/ ExpressInterest(e, r)
    \/ UnlockContact(e, r)
    \/ \E told \in {"nobody", "primary", "both"} : CreatePlacement(e, r, told)

CandidateNext ==
  \E c \in Candidates :
    \/ \E r \in Rec :
         \/ ApproveUnlock(c, r) \/ RejectUnlock(c, r)
         \/ Apply(c, r)
         \/ \E action \in {"withdraw", "consider_offer", "accept_offer", "decline_offer"} :
              Respond(c, r, action)
    \/ DeleteMyData(c)

AdminNext ==
  \/ \E u \in User : Suspend(u) \/ Unsuspend(u)
  \/ \E p \in placements : MarkPaid(p) \/ CancelPlacement(p)

Next ==
  \/ JobNext \/ UploadNext \/ PoolNext
  \/ HunterNext \/ EmployerNext \/ CandidateNext
  \/ AdminNext

Spec == Init /\ [][Next]_vars

-----------------------------------------------------------------------------
(* Properties.                                                             *)

\* Every table holds rows of its schema.
TypeOK ==
  /\ users \in [User -> UserStatus]
  /\ jobs \in [Jobs -> JobRow \union {NULL}]
  /\ profiles \in [Anon -> ProfileRow \union {NULL}]
  /\ recs \in [Rec -> RecRow \union {NULL}]
  /\ apps \in [Rec -> AppRow \union {NULL}]
  /\ audit \in [Rec -> Seq(AuditRow)]
  /\ outbox \subseteq OutboxRow
  /\ placements \subseteq PlacementRow

\* An owned job is its designated employer's, if it names one, and the employer
\* copied into a recommendation when it is made is the owner of its job for
\* good.  Claims, rejections and recommendations race for this in three handlers.
RecEmployerOwnsJob ==
  /\ \A j \in Jobs : exists(jobs[j]) /\ jobs[j].employer_id # NULL =>
       jobs[j].created_for_employer_id \in {NULL, jobs[j].employer_id}
  /\ \A r \in Rec : exists(recs[r]) =>
       /\ exists(profiles[r[1]]) /\ profiles[r[1]].has_anon
       /\ exists(jobs[r[2]])
       /\ jobs[r[2]].employer_id = recs[r].employer_id

\* A recommendation never disappears or changes employer, and neither of its
\* headhunter columns is overwritten: nobody takes over another's candidate.
OwnershipIsSticky ==
  [][\A r \in Rec : exists(recs[r]) =>
       /\ exists(recs'[r])
       /\ recs'[r].employer_id = recs[r].employer_id
       /\ recs[r].headhunter_id # NULL => recs'[r].headhunter_id = recs[r].headhunter_id
       /\ recs[r].pickup_headhunter_id # NULL =>
            recs'[r].pickup_headhunter_id = recs[r].pickup_headhunter_id]_vars

\* The two tables of a self-application agree: an application belongs to a
\* recommendation of its own candidate, both rows name the same pickup hunter,
\* they wait for pickup exactly while they have none and are not withdrawn; a
\* recommendation without an application was made by a headhunter.
ApplicationMirrorsRecommendation ==
  \A r \in Rec :
    /\ exists(apps[r]) =>
         /\ exists(recs[r])
         /\ apps[r].candidate_user_id = candidateOf(r)
         /\ apps[r].pickup_headhunter_id = recs[r].pickup_headhunter_id
         /\ recs[r].status = "pending_pickup" => recs[r].pickup_headhunter_id = NULL
         /\ recs[r].status \notin {"pending_pickup", "withdrawn"} =>
              recs[r].pickup_headhunter_id # NULL
         /\ apps[r].withdrawn => recs[r].status = "withdrawn"
    /\ exists(recs[r]) /\ ~exists(apps[r]) =>
         /\ recs[r].headhunter_id # NULL
         /\ recs[r].pickup_headhunter_id = NULL
         /\ recs[r].status # "pending_pickup"

\* However many profiles headhunters made of a person, applying in person to a
\* job leaves at most one application of theirs under way, one-row lookups and
\* interrupted uploads notwithstanding.
OneActiveApplication ==
  \A r, q \in Rec :
    /\ exists(apps[r]) /\ recs[r].status \in ActiveStatus
    /\ exists(apps[q]) /\ recs[q].status \in ActiveStatus
    /\ r[2] = q[2] /\ apps[r].candidate_user_id = apps[q].candidate_user_id
    => r = q

contactRows(r) == {row \in outbox : row.rec = r /\ row.pii}

\* Entry i of the log of r is `action` by u.
logged(r, i, action, u) ==
  /\ i \in 1..Len(audit[r])
  /\ audit[r][i] = [action |-> action, actor_user_id |-> u]

\* The contact of r is queued only for the recommendation's employer, who had
\* asked for it first; then the candidate approved, or had applied in person;
\* and the delivery was logged, last of all: nothing happened to the request
\* after it, and no refusal came before.
ContactFollowsConsent ==
  \A r \in Rec : \A row \in contactRows(r) :
    LET e == recs[r].employer_id
        n == Len(audit[r])
    IN  /\ row.target = e
        /\ logged(r, 1, "express_interest", e)
        /\ logged(r, n, "unlock_delivery", e)
        /\ \/ n = 3 /\ logged(r, 2, "approve_unlock", candidateOf(r))
           \/ n = 2 /\ exists(apps[r]) /\ apps[r].candidate_user_id = candidateOf(r)

\* Status, log and queue move together: an unlocked recommendation has its
\* contact queued and logged, and a queued contact belongs to an unlocked
\* recommendation, or to one withdrawn because the candidate was erased since.
UnlockedIffQueued ==
  \A r \in Rec :
    LET delivered == \E i \in DOMAIN audit[r] : audit[r][i].action = "unlock_delivery"
    IN  /\ delivered <=> contactRows(r) # {}
        /\ exists(recs[r]) /\ recs[r].status = "unlocked" => delivered
        /\ delivered => \/ recs[r].status = "unlocked"
                        \/ /\ recs[r].status = "withdrawn"
                           /\ users[candidateOf(r)] = "deleted"

\* Once a candidate's account is erased no contact of theirs is queued any
\* more, not even from a profile uploaded again after the erasure.
NoReleaseAfterErasure ==
  [][\A r \in Rec :
       exists(recs[r]) /\ users[candidateOf(r)] = "deleted" =>
         contactRows(r)' \subseteq contactRows(r)]_vars

\* A placement was made for a recommendation whose contact had been delivered,
\* pays the headhunter who owns it, and shares with the posting's creator if
\* somebody else created it.  A recommendation is never paid for twice: there
\* is one placement for it, although UNIQUE names the payee as well.
PlacementIsEarned ==
  \A p \in placements :
    LET r == p.rec
        creator == jobs[r[2]].source_headhunter_id
    IN  /\ contactRows(r) # {}
        /\ p.primary_headhunter_id = recs[r].headhunter_id
        /\ creator # NULL =>
             \/ p.referrer_headhunter_id = creator /\ creator # p.primary_headhunter_id
             \/ p.referrer_headhunter_id = NULL /\ creator = p.primary_headhunter_id
        /\ \A q \in placements : q.rec = r => q = p

\* A payee hears only of a placement that is on record, under their own role,
\* and the referrer never hears before the primary headhunter does.
AnnouncedPlacementExists ==
  \A row \in outbox : row.event = "placement_created" =>
    \E p \in placements :
      /\ p.rec = row.rec
      /\ placementWebhook(p, "primary", p.primary_headhunter_id) \in outbox
      /\ row.target = IF row.role = "primary" THEN p.primary_headhunter_id
                                              ELSE p.referrer_headhunter_id

\* A placement keeps its payees and leaves pending_payment once: what is paid
\* is not cancelled and what is cancelled is not paid.
SettledPlacementIsFinal ==
  [][\A p \in placements : \E q \in placements' :
       /\ [q EXCEPT !.status = p.status] = p
       /\ p.status # "pending_payment" => q.status = p.status]_vars

\* A card is moved by its owner and by nobody else: the step is a call of the
\* headhunter who owns the card, or claims it by this very call, and no call of
\* another headhunter, of an employer, a candidate or an administrator, on
\* whichever recommendation, makes it.  A finished card (onboarded, rejected)
\* stays where it is, and a move leaves the status alone.
BoardBelongsToOwner ==
  [][\A r \in Rec : exists(recs[r]) /\ recs'[r].pipeline_stage # recs[r].pipeline_stage =>
       /\ recs'[r].headhunter_id \in Hunters
       /\ recs[r].headhunter_id \in {NULL, recs'[r].headhunter_id}
       /\ \A h \in Hunters \ {recs'[r].headhunter_id}, q \in Rec : ~HunterCalls(h, q)
       /\ ~EmployerNext /\ ~CandidateNext /\ ~AdminNext
       /\ recs[r].pipeline_stage \notin {"onboarded", "rejected"}
       /\ recs'[r].status = recs[r].status]_vars

-----------------------------------------------------------------------------
(* The tables implement the abstract unlock protocol.                      *)

phaseOf(r) ==
  CASE ~exists(recs[r]) -> "none"
    [] exists(recs[r]) /\ recs[r].status \in {"pending_pickup", "pending"} -> "offered"
    [] exists(recs[r]) /\ recs[r].status \in {"employer_interested", "considering_offer"}
         -> "asked"
    [] exists(recs[r]) /\ recs[r].status = "candidate_approved" -> "granted"
    [] exists(recs[r]) /\ recs[r].status \in {"unlocked", "placed"} -> "released"
    [] exists(recs[r]) /\ recs[r].status \in
         {"rejected_employer", "rejected_candidate", "withdrawn"} -> "closed"

Unlock ==
  INSTANCE UnlockProtocol
    WITH NoOne <- NULL,
         phase <- [r \in Rec |-> phaseOf(r)],
         owner <- [r \in Rec |-> IF exists(recs[r]) THEN recs[r].employer_id ELSE NULL],
         released <- {<<row.rec, row.target>> : row \in {x \in outbox : x.pii}}

\* Every behaviour of the tables is one of the abstract protocol: the contact
\* leaves the platform only along offer, request, grant and release.
ImplementsUnlockProtocol == Unlock!Spec

-----------------------------------------------------------------------------
(* What the repository says of the program, and it does not do.            *)

\* The pickup handler and its side effect say one hunter owns the relationship
\* with a candidate who applied in person.
OneHunterOwnsApplication ==
  \A r \in Rec :
    /\ exists(recs[r])
    /\ recs[r].headhunter_id # NULL /\ recs[r].pickup_headhunter_id # NULL
    => recs[r].headhunter_id = recs[r].pickup_headhunter_id

\* The erasure handler promises aggregates "without keeping PII".
ErasedCandidateHasNoPii ==
  \A a \in Anon :
    exists(profiles[a]) /\ users[profiles[a].candidate_user_id] = "deleted"
      => ~profiles[a].has_pii

\* An employer who keeps asking to close a job closes it, as the flow declares
\* for claimed jobs and the handlers' comments tell the employer to do.
ClosingSpec ==
  Spec /\ \A j \in Jobs : WF_vars(\E e \in Employers : CloseJob(e, j))

ClaimedJobCanBeClosed ==
  \A j \in Jobs :
    (exists(jobs[j]) /\ jobs[j].status = "claimed")
      ~> (exists(jobs[j]) /\ jobs[j].status = "closed")

=============================================================================
