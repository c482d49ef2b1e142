----------------------------- MODULE Commission -----------------------------
(***************************************************************************)
(* Placements: the employer reports a hire, the payees are told, and the   *)
(* administrator pays or cancels.                                          *)
(***************************************************************************)
EXTENDS Platform

\* Mutant: the referral chain of before a headhunter could create postings.
referrerForCommission_oldChain(r) == recs[r].referrer_headhunter_id

\* Who shares the commission: the headhunter who created the posting comes
\* before the referrer of the recommendation; NULL is nobody.
referrerForCommission(r) ==
  LET creator == jobs[r[2]].source_headhunter_id
  IN  IF creator = NULL THEN recs[r].referrer_headhunter_id
      ELSE IF creator = recs[r].headhunter_id THEN NULL
      ELSE creator

placementWebhook(p, role, target) ==
  [rec |-> p.rec, event |-> "placement_created", role |-> role,
   target |-> target, pii |-> FALSE]

toPrimary(p)  == placementWebhook(p, "primary", p.primary_headhunter_id)
toReferrer(p) == placementWebhook(p, "referrer", p.referrer_headhunter_id)

\* Mutant: the referrer's row is queued first.
tellPayees_referrerFirst(p, told) ==
  \/ told = "nobody" /\ UNCHANGED outbox
  \/ told = "primary" /\ p.referrer_headhunter_id # NULL
     /\ outbox' = outbox \union {toReferrer(p)}

\* The payees whose rows were queued before the call returned, or the process
\* died: each enqueue commits on its own, after the placement.
tellPayees(p, told) ==
  \/ told = "nobody"  /\ UNCHANGED outbox
  \/ told = "primary" /\ outbox' = outbox \union {toPrimary(p)}
  \/ /\ told = "both"
     /\ p.referrer_headhunter_id # NULL
     /\ outbox' = outbox \union {toPrimary(p), toReferrer(p)}

newPlacement(r) ==
  [rec |-> r, primary_headhunter_id |-> recs[r].headhunter_id,
   referrer_headhunter_id |-> referrerForCommission(r), status |-> "pending_payment"]

\* Mutant: nobody to pay is accepted.
CreatePlacement_noPrimary(e, r, told) ==
  /\ authMiddleware(e)
  /\ exists(recs[r])
  /\ recs[r].employer_id = e
  /\ recs[r].status = "unlocked"
  /\ jobs[r[2]].employer_id = e
  /\ ~\E p \in placements : p.rec = r
  /\ placements' = placements \union {newPlacement(r)}
  /\ told = "nobody" /\ UNCHANGED outbox
  /\ UNCHANGED <<users, jobs, profiles, recs, apps, audit>>

\* A recommendation with no headhunter_id breaks the foreign key of
\* primary_headhunter_id; UNIQUE(candidate, job, primary) refuses a second row.
CreatePlacement(e, r, told) ==
  /\ authMiddleware(e)
  /\ exists(recs[r])
  /\ recs[r].employer_id = e
  /\ recs[r].status = "unlocked"
  /\ jobs[r[2]].employer_id = e
  /\ recs[r].headhunter_id # NULL
  /\ ~\E p \in placements :
        p.rec = r /\ p.primary_headhunter_id = recs[r].headhunter_id
  /\ placements' = placements \union {newPlacement(r)}
  /\ tellPayees(newPlacement(r), told)
  /\ UNCHANGED <<users, jobs, profiles, recs, apps, audit>>

setPlacementStatus(p, status) ==
  placements' = (placements \ {p}) \union {[p EXCEPT !.status = status]}

MarkPaid(p) ==
  /\ p.status = "pending_payment"
  /\ setPlacementStatus(p, "paid")
  /\ UNCHANGED <<users, jobs, profiles, recs, apps, audit, outbox>>

\* Mutant: what is paid can be cancelled.
CancelPlacement_evenPaid(p) ==
  /\ setPlacementStatus(p, "cancelled")
  /\ UNCHANGED <<users, jobs, profiles, recs, apps, audit, outbox>>

CancelPlacement(p) ==
  /\ p.status # "paid"
  /\ setPlacementStatus(p, "cancelled")
  /\ UNCHANGED <<users, jobs, profiles, recs, apps, audit, outbox>>
=============================================================================
