----------------------------- MODULE Dashboards -----------------------------
(***************************************************************************)
(* What users read: the queries behind the headhunter's workspace, the     *)
(* candidate's lists and export and the employer's dashboard, as reads of  *)
(* the shared tables.  AdminPages has the public pages and the console.    *)
(* Each page has its own SQL, with its own joins: the same row can be on   *)
(* one page and missing from another.  Time windows are as wide as the     *)
(* history, pages as long as their lists.                                  *)
(***************************************************************************)
EXTENDS Platform, FiniteSets

\* The tables are finite, NULL is no id, and somebody employs.
ASSUME PagesAssumption ==
  /\ IsFiniteSet(User) /\ IsFiniteSet(Jobs) /\ IsFiniteSet(Anon)
  /\ NULL \notin Anon
  /\ Employers # {}

recommendations == {r \in Rec : exists(recs[r])}

\* The joins through the anonymized row to the private one and to the job.
hydrated == {r \in recommendations :
              exists(profiles[r[1]]) /\ profiles[r[1]].has_anon /\ exists(jobs[r[2]])}

-----------------------------------------------------------------------------
(* The headhunter.                                                         *)

listByHeadhunter(h) == {r \in recommendations : recs[r].headhunter_id = h}

atStage(list, stage) == {r \in list : recs[r].pipeline_stage = stage}

\* placements_count counts a status no handler sets; the queue is everybody's.
getOverview(h) ==
  [active_recommendations |->
     Cardinality({r \in listByHeadhunter(h) :
                   recs[r].pipeline_stage \notin {"onboarded", "rejected"}}),
   placements_count |->
     Cardinality({r \in listByHeadhunter(h) : recs[r].status = "placed"}),
   pending_pickup_count |->
     Cardinality({r \in recommendations : recs[r].status = "pending_pickup"
                                          /\ recs[r].pickup_headhunter_id = NULL})]

getFunnel(h) ==
  [stage \in PIPELINE_STAGES |-> Cardinality(atStage(listByHeadhunter(h), stage))]

getBoard(h) ==
  [stage \in PIPELINE_STAGES |-> atStage(listByHeadhunter(h) \intersect hydrated, stage)]

computeKanbanSummary(h) ==
  [stage \in PIPELINE_STAGES |-> Cardinality(getBoard(h)[stage])]

fetchRecentRecommendations(h) ==
  {r \in listByHeadhunter(h) \intersect hydrated : recs[r].pipeline_stage # "rejected"}

anonymized == {a \in Anon : exists(profiles[a]) /\ profiles[a].has_anon}

findByHeadhunterId(h) == {a \in anonymized : profiles[a].headhunter_id = h}

listMyCreatedJobs(h) == {j \in Jobs : exists(jobs[j]) /\ jobs[j].source_headhunter_id = h}

\* The workspace: the numbers, the board and what moved last.
hunterDashboard(h) ==
  [kpi |-> getOverview(h),
   kanban_summary |-> computeKanbanSummary(h),
   recent_recommendations |-> fetchRecentRecommendations(h)]

applications == {r \in Rec : exists(apps[r])}

\* Mutant: the status of the recommendation is not asked for.
listPendingPickup_anyStatus ==
  UNION {{<<r, a>> : a \in profilesOf(apps[r].candidate_user_id)} :
          r \in {q \in applications \intersect recommendations :
                  apps[q].pickup_headhunter_id = NULL}}

\* One row for every private row of the applicant: the LEFT JOIN repeats them.
listPendingPickup ==
  UNION {{<<r, a>> : a \in profilesOf(apps[r].candidate_user_id)} :
          r \in {q \in applications \intersect recommendations :
                  /\ recs[q].status = "pending_pickup"
                  /\ apps[q].pickup_headhunter_id = NULL}}

queued == {row[1] : row \in listPendingPickup}

-----------------------------------------------------------------------------
(* The candidate.                                                          *)

myAnons(c) == {a \in profilesOf(c) : profiles[a].has_anon}

\* The one row that LIMIT 1 returns, whichever it is; a private row with no
\* anonymized one reads as no profile at all.
getProfile(c) ==
  IF profilesOf(c) = {} THEN {NULL}
  ELSE {IF profiles[a].has_anon THEN a ELSE NULL : a \in profilesOf(c)}

\* Open postings, also those nobody owns yet.
browse == {j \in Jobs : exists(jobs[j]) /\ jobs[j].status = "open"}

\* What the call may return: nobody is recommended a job without a profile.
recommended(c) == {IF profile = NULL THEN {} ELSE browse : profile \in getProfile(c)}

\* A posting can be opened by its id whatever became of it.
jobDetail(j) == exists(jobs[j])

applicationDetail(c, r) == exists(apps[r]) /\ apps[r].candidate_user_id = c

listByCandidate(c) ==
  {r \in applications \intersect recommendations : apps[r].candidate_user_id = c}

viewOpportunities(c) ==
  {r \in recommendations :
    /\ r[1] \in myAnons(c)
    /\ recs[r].status \in {"pending", "employer_interested", "candidate_approved"}}

\* Who looked: the log of every recommendation of one of the candidate's rows.
listAuditLog(c) ==
  UNION {{<<r, i>> : i \in DOMAIN audit[r]} :
          r \in {q \in recommendations : q[1] \in myAnons(c)}}

\* The export has what the candidate did; what others did is in the log above.
exportMyData(c) ==
  [recommendations |-> {r \in recommendations : r[1] \in myAnons(c)},
   audit_log_entries |->
     UNION {{<<r, i>> : i \in {k \in DOMAIN audit[r] : audit[r][k].actor_user_id = c}} :
             r \in Rec}]

-----------------------------------------------------------------------------
(* The employer.                                                           *)

listByEmployer(e) == {j \in Jobs : exists(jobs[j]) /\ jobs[j].employer_id = e}

findPendingClaims(e) ==
  {j \in Jobs : /\ exists(jobs[j]) /\ jobs[j].employer_id = NULL
                /\ jobs[j].status = "open"
                /\ jobs[j].created_for_employer_id \in {NULL, e}}

\* The filters are left out: whoever is in the pool can be found by somebody.
browseTalent == {a \in anonymized : profiles[a].is_public_pool}

onMyJobs(e) == {r \in recommendations : r[2] \in listByEmployer(e)}

listPlacements(e) == {p \in placements : p.rec[2] \in listByEmployer(e)}

\* Everything joins through the job, never through recommendations.employer_id.
getDashboard(e) ==
  [active_jobs |-> Cardinality({j \in listByEmployer(e) : jobs[j].status = "open"}),
   candidates_viewed |->
     Cardinality(UNION {{<<r, i>> : i \in {k \in DOMAIN audit[r] :
                                            audit[r][k].actor_user_id = e}} :
                         r \in onMyJobs(e)}),
   interested_count |->
     Cardinality({r \in onMyJobs(e) : recs[r].status = "employer_interested"}),
   unlocked_count |->
     Cardinality({r \in onMyJobs(e) : recs[r].status = "candidate_approved"}),
   placements_count |-> Cardinality(listPlacements(e))]

-----------------------------------------------------------------------------
(* Properties.                                                             *)

\* A headhunter reads the same numbers on the board, the funnel and the
\* overview, and the queue's counter counts what the queue lists.
HunterPagesAgree ==
  \A h \in Hunters :
    LET page == hunterDashboard(h)
    IN  /\ page.kanban_summary = getFunnel(h)
        /\ page.kpi.pending_pickup_count = Cardinality(queued)
        /\ Cardinality(page.recent_recommendations) =
             page.kpi.active_recommendations + getFunnel(h)["onboarded"]
        /\ {r[1] : r \in page.recent_recommendations} \subseteq findByHeadhunterId(h)
             \union {r[1] : r \in {q \in applications : recs[q].headhunter_id = h}}

\* What a candidate reads as waiting for a headhunter is what headhunters read
\* in the queue, whatever they read is in their export, and their log tells
\* them of everything anybody did about them.  Each of their applications and
\* its posting can be opened, and who is recommended a job has a headhunter.
CandidatePagesAgree ==
  /\ queued = {r \in UNION {listByCandidate(c) : c \in Candidates} :
                recs[r].status = "pending_pickup"}
  /\ \A c \in Candidates :
       /\ listByCandidate(c) \union viewOpportunities(c) \subseteq exportMyData(c).recommendations
       /\ exportMyData(c).audit_log_entries \subseteq listAuditLog(c)
       /\ listByCandidate(c) = {r \in Rec : applicationDetail(c, r)}
       /\ \A r \in listByCandidate(c) : jobDetail(r[2]) /\ getProfile(c) # {NULL}
       /\ UNION recommended(c) # {} =>
            \E h \in Hunters : myAnons(c) \intersect findByHeadhunterId(h) # {}
  /\ UNION {listAuditLog(c) : c \in Candidates} = UNION {{r} \X DOMAIN audit[r] : r \in Rec}

\* What an employer reads as approved the candidate reads as an opportunity,
\* nobody is of interest unseen, every placement is on one employer's page, and
\* a profile that employers browse has a headhunter who can recommend it.
EmployerPagesAgree ==
  /\ \A e \in Employers :
       /\ {r \in onMyJobs(e) : recs[r].status \in {"employer_interested", "candidate_approved"}}
            \subseteq UNION {viewOpportunities(c) : c \in Candidates}
       /\ getDashboard(e).interested_count <= getDashboard(e).candidates_viewed
       /\ getDashboard(e).placements_count =
            Cardinality({p \in placements : recs[p.rec].employer_id = e})
  /\ UNION {listPlacements(e) : e \in Employers} = placements
  /\ browseTalent \subseteq UNION {findByHeadhunterId(h) : h \in Hunters}
=============================================================================
