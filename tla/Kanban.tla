------------------------------- MODULE Kanban -------------------------------
(***************************************************************************)
(* The headhunter's board: a card is a recommendation whose headhunter_id  *)
(* is the caller, its column the recommendation's pipeline_stage.  The     *)
(* five default columns are there once the caller has opened the board.    *)
(***************************************************************************)
EXTENDS Platform

\* The repository's statements ask again for what the handler has read: nobody
\* has claimed it, or the card is the caller's.
claimRec(h, r, stage) ==
  /\ recs[r].status = "pending_pickup"
  /\ recs[r].headhunter_id = NULL
  /\ recs' = [recs EXCEPT ![r].headhunter_id = h, ![r].pipeline_stage = stage]

updateCard(h, r, stage) ==
  /\ recs[r].headhunter_id = h
  /\ recs' = [recs EXCEPT ![r].pipeline_stage = stage]

rejectRec(h, r) ==
  /\ recs[r].headhunter_id = h
  /\ recs' = [recs EXCEPT ![r].pipeline_stage = "rejected"]

\* Mutant: a claim whose UPDATE lost "headhunter_id IS NULL".
AddCard_takesOver(h, r, stage) ==
  /\ authMiddleware(h)
  /\ exists(recs[r])
  /\ recs[r].status = "pending_pickup"
  /\ recs' = [recs EXCEPT ![r].headhunter_id = h, ![r].pipeline_stage = stage]
  /\ UNCHANGED <<users, jobs, profiles, apps, audit, outbox, placements>>

\* addCard claims an application nobody owns and puts it in a column; the
\* status stays pending_pickup.
AddCard(h, r, stage) ==
  /\ authMiddleware(h)
  /\ exists(recs[r])
  /\ claimRec(h, r, stage)
  /\ UNCHANGED <<users, jobs, profiles, apps, audit, outbox, placements>>

\* Mutant: whose card it is was forgotten in the handler's SELECT and the UPDATE.
MoveCard_anybodys(h, r, stage) ==
  /\ authMiddleware(h)
  /\ exists(recs[r])
  /\ recs[r].headhunter_id # NULL
  /\ canTransition(recs[r].pipeline_stage, stage)
  /\ recs' = [recs EXCEPT ![r].pipeline_stage = stage]
  /\ UNCHANGED <<users, jobs, profiles, apps, audit, outbox, placements>>

\* A move within the column changes only the position.
MoveCard(h, r, stage) ==
  /\ authMiddleware(h)
  /\ exists(recs[r])
  /\ canTransition(recs[r].pipeline_stage, stage)
  /\ updateCard(h, r, stage)
  /\ UNCHANGED <<users, jobs, profiles, apps, audit, outbox, placements>>

RemoveCard(h, r) ==
  /\ authMiddleware(h)
  /\ exists(recs[r])
  /\ canTransition(recs[r].pipeline_stage, "rejected")
  /\ rejectRec(h, r)
  /\ UNCHANGED <<users, jobs, profiles, apps, audit, outbox, placements>>
=============================================================================
