---------------------------- MODULE Capabilities ----------------------------
(***************************************************************************)
(* The declared endpoints of the platform and what the handlers behind them *)
(* charge.  A capability is its name: method, path, schema and texts go     *)
(* with it.  The price is written twice, in the declaration, which the menu *)
(* of an account is computed from, and in the handler, which charges it.    *)
(***************************************************************************)
EXTENDS Quota, Sequences, Functions

QUOTA_COSTS ==
  [register |-> 0, upload_candidate |-> 5, create_job |-> 5, browse_talent |-> 1,
   browse_jobs |-> 1, express_interest |-> 3, unlock_contact |-> 5,
   recommend_candidate |-> 5, withdraw_recommendation |-> 1, publish_to_pool |-> 2,
   view_opportunities |-> 1, approve_unlock |-> 3, reject_unlock |-> 1,
   list_recommendations |-> 1, list_my_jobs |-> 1, config_lookup |-> 1,
   list_my_candidates |-> 1]

free(names) == [name \in names |-> 0]

priced(names, others) ==
  [name \in names \union others |-> IF name \in names THEN QUOTA_COSTS[name] ELSE 0]

-----------------------------------------------------------------------------
(* The declarations: a set of capabilities is its role and its prices.      *)

headhunterCapabilities ==
  [role |-> "hr", quota_cost |->
    priced({"upload_candidate", "recommend_candidate", "withdraw_recommendation",
            "publish_to_pool", "create_job"},
           {"list_pending_pickup", "pickup", "list_recommendations",
            "list_candidates", "list_jobs"})]

employerCapabilities ==
  [role |-> "pm", quota_cost |->
    priced({"create_job", "browse_talent", "express_interest", "unlock_contact"},
           {"create_placement", "list_placements", "list_jobs", "list_pending_claims",
            "claim_job", "reject_job", "claim_job_via_pending", "reject_job_via_pending",
            "read_job", "update_job", "pause_job", "resume_job", "close_job"})]

candidateCapabilities ==
  [role |-> "candidate", quota_cost |->
    priced({"view_opportunities", "approve_unlock", "reject_unlock"},
           {"access_log", "export_my_data", "delete_my_data"})]

adminCapabilities ==
  [role |-> "admin", quota_cost |->
    free({"ping", "dashboard_stats", "list_users", "suspend_user", "unsuspend_user",
          "adjust_user_quota", "list_candidates", "remove_from_pool", "audit_log",
          "webhook_dead_letter", "retry_webhook", "get_config", "put_config",
          "list_placements", "mark_placement_paid", "cancel_placement",
          "placements_summary", "admin_log", "list_jobs", "list_recommendations",
          "get_timeline", "list_dead_letter", "auth.login", "auth.rotate_key", "me",
          "action_history", "users.read", "jobs.read", "candidates.read",
          "recommendations.read", "rate_limit_buckets", "clear_user_rate_limit",
          "login_events"})]

authCapabilities ==
  [role |-> "auth", quota_cost |->
    priced({"register"}, {"rotate_key", "login", "refresh", "logout"})]

notificationsCapabilities ==
  [role |-> "auth", quota_cost |->
    free({"list", "get", "mark_read", "mark_all_read", "delete"})]

candidatePortalCapabilities ==
  [role |-> "candidate", quota_cost |->
    free({"auth.request_otp", "auth.verify_otp", "jobs.browse", "jobs.view", "jobs.apply",
          "applications.list", "applications.detail", "applications.respond",
          "messages.send", "messages.list", "profile.view", "profile.edit_public",
          "profile.view_audit"})]

pmCapabilities ==
  [role |-> "pm", quota_cost |->
    free({"create_project", "list_projects", "read_project", "update_project",
          "delete_project", "create_position", "read_position", "list_positions",
          "update_position", "delete_position", "position_stats",
          "bulk_create_positions", "create_staffing_plan", "list_staffing_plans",
          "read_plan", "update_plan", "delete_plan", "select_staffing_plan",
          "decompose_position", "commit_decomposition", "list_decompositions",
          "match_candidates", "list_matches", "position_sandbox", "snapshot",
          "write_note", "read_note", "list_notes", "star_candidate"})]

headhunterWorkspaceCapabilities ==
  [role |-> "hr", quota_cost |->
    free({"dashboard", "tasks.list", "tasks.create", "tasks.update", "tasks.delete",
          "tasks.complete", "tasks.reopen", "kanban.read", "kanban.move", "kanban.add",
          "kanban.remove", "stats"})]

employerPanelCapabilities == [role |-> "pm", quota_cost |-> free({"dashboard"})]

webhooksInboxCapabilities == [role |-> "system", quota_cost |-> free({"qing3_receive"})]

ALL_SETS ==
  <<headhunterCapabilities, employerCapabilities, candidateCapabilities,
    adminCapabilities, authCapabilities, notificationsCapabilities,
    candidatePortalCapabilities, pmCapabilities, headhunterWorkspaceCapabilities,
    employerPanelCapabilities, webhooksInboxCapabilities>>

\* The first set of the role: the later ones of the same role are on no menu.
getCapabilitiesForRole(role) ==
  LET found == CHOOSE i \in DOMAIN ALL_SETS :
                 ALL_SETS[i].role = role /\ \A j \in 1..i - 1 : ALL_SETS[j].role # role
  IN  ALL_SETS[found]

-----------------------------------------------------------------------------
(* The menu of an account.                                                 *)

user_type(u) == IF u \in Hunters THEN "hr" ELSE IF u \in PMs THEN "pm" ELSE "candidate"

\* Mutant: what would use the quota up is called unavailable.
canInvoke_atLimit(quota_cost, u) ==
  IF users[u].quota_used + quota_cost >= users[u].quota_per_day THEN "INSUFFICIENT_QUOTA"
  ELSE IF ~active(u) THEN "FORBIDDEN"
  ELSE "ok"

\* A free capability asks for quota_used <= quota_per_day too.
canInvoke(quota_cost, u) ==
  IF users[u].quota_used + quota_cost > users[u].quota_per_day THEN "INSUFFICIENT_QUOTA"
  ELSE IF ~active(u) THEN "FORBIDDEN"
  ELSE "ok"

menu(role, u) ==
  LET declared == getCapabilitiesForRole(role).quota_cost
  IN  [name \in DOMAIN declared |-> canInvoke(declared[name], u)]

myCapabilities(u) == menu(user_type(u), u)

-----------------------------------------------------------------------------
(* What the handlers charge: amounts by the names of the endpoints.         *)

headhunterCharges ==
  [priced({"upload_candidate", "recommend_candidate", "withdraw_recommendation",
           "publish_to_pool", "list_recommendations", "create_job"},
          {"list_pending_pickup", "pickup", "list_jobs", "list_candidates"})
     EXCEPT !.list_candidates = QUOTA_COSTS.list_my_candidates]

employerCharges ==
  priced({"create_job", "browse_talent", "express_interest", "unlock_contact"},
         {"create_placement", "list_placements", "list_jobs", "list_pending_claims",
          "claim_job", "reject_job", "claim_job_via_pending", "reject_job_via_pending",
          "read_job", "update_job", "pause_job", "resume_job", "close_job"})

candidateCharges ==
  [priced({"view_opportunities", "approve_unlock", "reject_unlock"},
          {"access_log", "export_my_data", "delete_my_data"})
     EXCEPT !.delete_my_data = 1]

\* The endpoints behind the role's own router.
charges(role) ==
  CASE role = "hr" -> headhunterCharges
    [] role = "pm" -> employerCharges
    [] role = "candidate" -> candidateCharges

\* Lookups without a role: they cost whoever is logged in, and nobody else.
configCharges == [name \in {"industries", "title_levels", "salary_bands", "rate-limits"} |->
                    QUOTA_COSTS.config_lookup]

marketCharges == [leaderboard |-> QUOTA_COSTS.config_lookup, jobs |-> QUOTA_COSTS.browse_jobs]

rotateKeyCharge == 1

\* The amounts that an account can be charged at one call.
amounts(u) ==
  {rotateKeyCharge} \union
    UNION {Range(price) : price \in {charges(user_type(u)), configCharges, marketCharges}}

\* A call that has a cost, whatever else its handler does.
ChargedCall(u) == \E amount \in amounts(u) \ {0} : tryConsume(u, amount)
=============================================================================
