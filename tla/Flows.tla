------------------------------- MODULE Flows -------------------------------
(***************************************************************************)
(* The declarative state machines of src/main/flows: a flow is the set of  *)
(* its legal steps <<from, event, to>>, and the handlers ask it for the    *)
(* next status of a row.  Plus the stage machine of the hunter kanban      *)
(* (src/main/lib/hunter-pipeline.ts), which has one event, "move".         *)
(***************************************************************************)

JobStatus  == {"open", "claimed", "paused", "filled", "closed"}
UserStatus == {"active", "suspended", "deleted"}

RecStatus ==
  {"pending", "pending_pickup", "employer_interested", "considering_offer",
   "candidate_approved", "unlocked", "placed",
   "rejected_employer", "rejected_candidate", "withdrawn"}

REC_TERMINAL_STATUSES ==
  {"rejected_employer", "rejected_candidate", "withdrawn", "placed"}

PIPELINE_STAGES == {"submitted", "screen_passed", "interview", "offer", "onboarded"}
PipelineStage   == PIPELINE_STAGES \union {"rejected"}

\* Mutant: the status the row is in is not looked at.
applyTransition_fromAnywhere(flow, from, event, next) ==
  \E step \in flow : step[2] = event /\ step[3] = next

\* applyTransition throws unless the flow has a step for the event; `next` is
\* the status it returns.
applyTransition(flow, from, event, next) == <<from, event, next>> \in flow

recFlow ==
  { <<"pending",             "express_interest", "employer_interested">>,
    <<"pending",             "reject_employer",  "rejected_employer">>,
    <<"pending",             "withdraw",         "withdrawn">>,
    <<"pending_pickup",      "pickup",           "pending">>,
    <<"pending_pickup",      "withdraw",         "withdrawn">>,
    <<"employer_interested", "approve_unlock",   "candidate_approved">>,
    <<"employer_interested", "reject_candidate", "rejected_candidate">>,
    <<"employer_interested", "reject_employer",  "rejected_employer">>,
    <<"employer_interested", "consider_offer",   "considering_offer">>,
    <<"considering_offer",   "accept_offer",     "candidate_approved">>,
    <<"considering_offer",   "decline_offer",    "rejected_candidate">>,
    <<"candidate_approved",  "unlock",           "unlocked">>,
    <<"candidate_approved",  "reject_candidate", "rejected_candidate">>,
    <<"unlocked",            "place",            "placed">> }

\* What a recommendation step asks its handler to enqueue, and for whom.
REC_SIDE_EFFECTS ==
  { [from |-> "pending", to |-> "employer_interested",
     target |-> "candidate", event |-> "notify_unlock_request", pii |-> FALSE],
    [from |-> "pending_pickup", to |-> "pending",
     target |-> "candidate", event |-> "application_picked_up", pii |-> FALSE],
    [from |-> "employer_interested", to |-> "candidate_approved",
     target |-> "employer", event |-> "notify_unlock_approved", pii |-> FALSE],
    [from |-> "employer_interested", to |-> "considering_offer",
     target |-> "employer", event |-> "application_under_review", pii |-> FALSE],
    [from |-> "considering_offer", to |-> "candidate_approved",
     target |-> "employer", event |-> "notify_unlock_approved", pii |-> FALSE],
    [from |-> "considering_offer", to |-> "rejected_candidate",
     target |-> "employer", event |-> "application_declined", pii |-> FALSE],
    [from |-> "candidate_approved", to |-> "unlocked",
     target |-> "employer", event |-> "deliver_contact", pii |-> TRUE] }

jobFlow ==
  { <<"open",    "claim",  "claimed">>, <<"open",    "reject", "closed">>,
    <<"open",    "pause",  "paused">>,  <<"open",    "close",  "closed">>,
    <<"claimed", "pause",  "paused">>,  <<"claimed", "close",  "closed">>,
    <<"claimed", "fill",   "filled">>,
    <<"paused",  "resume", "open">>,    <<"paused",  "close",  "closed">> }

userFlow ==
  { <<"active",    "suspend",   "suspended">>,
    <<"suspended", "unsuspend", "active">>,
    <<"suspended", "delete",    "deleted">> }

\* TRANSITIONS of the pipeline: one stage on, or out.
canTransition(from, to) ==
  \/ <<from, to>> \in { <<"submitted", "screen_passed">>, <<"screen_passed", "interview">>,
                        <<"interview", "offer">>, <<"offer", "onboarded">> }
  \/ /\ from \in PIPELINE_STAGES \ {"onboarded"}
     /\ to = "rejected"
=============================================================================
