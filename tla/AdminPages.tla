----------------------------- MODULE AdminPages -----------------------------
(***************************************************************************)
(* The public landing page and market, and the administrator's console:    *)
(* counts, rankings, listings and timelines over the tables that the pages *)
(* of Dashboards read row by row.  Rankings stand for what they rank, and  *)
(* "today" for the whole history.                                          *)
(***************************************************************************)
EXTENDS Dashboards

count(table, status) == Cardinality({x \in DOMAIN table : exists(table[x])
                                                          /\ table[x].status = status})

activeUsers(type) == {u \in type : users[u] = "active"}

-----------------------------------------------------------------------------
(* The landing page and the market.                                        *)

live == {j \in Jobs : exists(jobs[j]) /\ jobs[j].status \in {"open", "claimed"}}

listPublic == {j \in live : jobs[j].employer_id # NULL}

leaderboard == activeUsers(Hunters)

publicCandidatesCount == Cardinality({a \in anonymized : profiles[a].is_public_pool})

recentJobs == {j \in live : jobs[j].employer_id # NULL}

\* The same postings, read again in another order.
featuredJobs == {j \in live : jobs[j].employer_id # NULL}

\* Recommendations that are unlocked now: one withdrawn since does not count.
todayUnlocks == {r \in recommendations : recs[r].status = "unlocked"}

\* Whatever became of the placement.
todayPlacements == placements

\* Read by a status no placement ever has.
latestPlacements == {p \in placements : p.status = "placed"}

\* By the employer copied into the recommendation, not by the job's.
topEmployers ==
  [e \in activeUsers(Employers) |->
     Cardinality({r \in recommendations : recs[r].employer_id = e})]

hotCompanies == {e \in activeUsers(Employers) : listByEmployer(e) \intersect live # {}}

gatherLandingData ==
  [openJobsCount |-> Cardinality(live),
   publicCandidatesCount |-> publicCandidatesCount,
   totalCandidates |-> Cardinality(anonymized),
   activeEmployerCount |-> Cardinality(activeUsers(Employers)),
   activeHeadhunterCount |-> Cardinality(activeUsers(Hunters)),
   recentJobs |-> recentJobs,
   featuredJobs |-> featuredJobs,
   todayUnlocks |-> Cardinality(todayUnlocks),
   todayPlacements |-> Cardinality(todayPlacements),
   topHeadhunters |-> leaderboard,
   latestPlacements |-> latestPlacements,
   topEmployers |-> topEmployers,
   hotCompanies |-> hotCompanies]

-----------------------------------------------------------------------------
(* The console.                                                            *)

\* Users that are not deleted; jobs and recommendations by status, of which
\* some statuses have no column.
getStats ==
  [users |-> [candidate |-> Cardinality({c \in Candidates : users[c] # "deleted"}),
              hr |-> Cardinality({h \in Hunters : users[h] # "deleted"}),
              pm |-> Cardinality({e \in Employers : users[e] # "deleted"})],
   jobs |-> [total |-> Cardinality({j \in Jobs : exists(jobs[j])}),
             open |-> count(jobs, "open"), paused |-> count(jobs, "paused"),
             closed |-> count(jobs, "closed"), filled |-> count(jobs, "filled")],
   recommendations |-> [total |-> Cardinality(recommendations),
                        pending |-> count(recs, "pending"),
                        unlocked |-> count(recs, "unlocked")],
   in_pool |-> Cardinality({a \in anonymized : profiles[a].is_public_pool})]

\* What the router adds to them.
activePlacements == {p \in placements : p.status \in {"pending_payment", "paid"}}

adminUsers(status) == {u \in User : users[u] = status}

\* INNER JOIN on the employer: a posting nobody owns is not listed.
adminJobs == {j \in Jobs : exists(jobs[j]) /\ jobs[j].employer_id # NULL}

adminCandidates(inPool) ==
  {a \in anonymized : profiles[a].is_public_pool = inPool}

\* One of them by its id, pooled or not.
adminCandidate(a) == a \in anonymized

\* LEFT JOINs only.
adminRecommendations(status) == {r \in recommendations : recs[r].status = status}

adminPlacements == {p \in placements : exists(jobs[p.rec[2]])}

placementsWith(status) == {p \in placements : p.status = status}

placementSummary ==
  [total_count |-> Cardinality(placements),
   pending_payment_count |-> Cardinality(placementsWith("pending_payment")),
   paid_count |-> Cardinality(placementsWith("paid")),
   cancelled_count |-> Cardinality(placementsWith("cancelled"))]

\* The unlock log's part of the timelines; a row is a recommendation and an
\* index into its log.
recommendationTimeline(r) == {r} \X DOMAIN audit[r]

jobTimeline(j) ==
  UNION {recommendationTimeline(r) : r \in {q \in recommendations : q[2] = j}}

candidateTimeline(a) ==
  UNION {recommendationTimeline(r) : r \in {q \in recommendations : q[1] = a}}

\* The whole log, without a join.
auditList == UNION {{r} \X DOMAIN audit[r] : r \in Rec}

timeline(type, id) ==
  CASE type = "recommendation" -> recommendationTimeline(id)
    [] type = "job"            -> jobTimeline(id)
    [] type = "candidate"      -> candidateTimeline(id)
    [] type = "user"           -> {}

-----------------------------------------------------------------------------
(* Properties.                                                             *)

\* A live posting is on the market or with employers who may claim it, and the
\* landing page features what candidates can apply to; a recommendation that is
\* still open is on its headhunter's board or in the queue, or was picked up: a
\* pickup puts it on nobody's board.  No placement is ever among the latest.
NothingIsOffEveryPage ==
  /\ live \subseteq listPublic \union UNION {findPendingClaims(e) : e \in Employers}
  /\ {j \in browse : jobs[j].employer_id # NULL} \subseteq gatherLandingData.recentJobs
  /\ gatherLandingData.featuredJobs = listPublic
  /\ gatherLandingData.hotCompanies =
       {jobs[j].employer_id : j \in listPublic} \intersect activeUsers(Employers)
  /\ gatherLandingData.latestPlacements = {}
  /\ \A r \in recommendations :
       recs[r].status \in {"pending_pickup", "pending", "employer_interested",
                           "considering_offer", "candidate_approved"} =>
         \/ r \in queued
         \/ recs[r].pickup_headhunter_id # NULL
         \/ \E h \in Hunters : r \in listByHeadhunter(h)

\* The console counts what the users' pages list: recommendations by the
\* employers' jobs, also where the landing page ranks by the copied employer;
\* jobs but for the claimed ones and for postings nobody owns; placements by
\* status; and the log is the same read by job or by candidate.
AdminPagesAgree ==
  /\ getStats.recommendations.total = Cardinality(UNION {onMyJobs(e) : e \in Employers})
  /\ \A e \in DOMAIN topEmployers : topEmployers[e] = Cardinality(onMyJobs(e))
  /\ {j \in Jobs : exists(jobs[j])} \ adminJobs =
       (UNION {listMyCreatedJobs(h) : h \in Hunters}) \ UNION {listByEmployer(e) : e \in Employers}
  /\ getStats.jobs.total = getStats.jobs.open + getStats.jobs.paused + getStats.jobs.closed
                             + getStats.jobs.filled + count(jobs, "claimed")
  /\ placementSummary.total_count = Cardinality(adminPlacements)
  /\ placementSummary.total_count - placementSummary.cancelled_count =
       Cardinality(activePlacements)
  /\ {p.rec : p \in todayPlacements} \subseteq todayUnlocks \union adminRecommendations("withdrawn")
  /\ gatherLandingData.totalCandidates =
       Cardinality(adminCandidates(TRUE)) + Cardinality(adminCandidates(FALSE))
  /\ gatherLandingData.publicCandidatesCount = Cardinality(browseTalent)
  /\ getStats.users.candidate + getStats.users.hr + getStats.users.pm =
       Cardinality(adminUsers("active") \union adminUsers("suspended"))
  /\ \A r \in recommendations : adminCandidate(r[1])
  /\ UNION {timeline("job", j) : j \in Jobs} = auditList
  /\ UNION {timeline("candidate", a) : a \in Anon} = auditList
  /\ \A c \in Candidates :
       listAuditLog(c) = UNION {timeline("candidate", a) : a \in myAnons(c)}

\* The pages tell one story, whichever handlers ran and in whatever order.
PagesAgree ==
  /\ HunterPagesAgree /\ CandidatePagesAgree /\ EmployerPagesAgree
  /\ NothingIsOffEveryPage /\ AdminPagesAgree
=============================================================================
