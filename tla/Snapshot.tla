------------------------------ MODULE Snapshot ------------------------------
(***************************************************************************)
(* The reads of the workbench: the lists, the detail of a project, the     *)
(* statistics of its positions and the snapshot over all of a manager's    *)
(* projects.  Each is a query of its own over the same tables, with its    *)
(* own joins; a page shows several of them side by side.                   *)
(*                                                                         *)
(* The lists are taken without their limits, the activity without its      *)
(* window of a day and its cap of fifty.                                   *)
(***************************************************************************)
EXTENDS PmRepositories

\* SUM of a column of natural numbers: how many pairs there are of a row and a
\* number up to the row's column.  A sum that is a cardinality can be proved about.
SumOf(rows, column(_)) == Cardinality(UNION {{x} \X (1..column(x)) : x \in rows})

Total(table, ids, column(_)) == SumOf(ids, LAMBDA x : column(table[x]))

Planned(row) == row.headcount_planned

FilledOf(row) == row.headcount_filled

CountBy(table, ids, statuses) ==
  [s \in statuses |-> Cardinality({x \in ids : table[x].status = s})]

Mine(u) == {p \in DOMAIN projects : owns(u, p)}

\* GET /projects: a row with its counts for each project of the manager.
projects_list(u) ==
  [p \in Mine(u) |->
     [position_count |-> Cardinality(OfProject(project_positions, p)),
      plan_count |-> Cardinality(OfProject(staffing_plans, p))]]

\* GET /projects/:id: `plans.find(p => p.is_selected === 1)` of the ordered plans.
getProject(p) ==
  LET positions == OfProject(project_positions, p)
      plans == OfProject(staffing_plans, p)
      selected == {x \in plans : staffing_plans[x].is_selected}
  IN  [total_positions |-> Cardinality(positions),
       filled_positions |-> Total(project_positions, positions, FilledOf),
       total_plans |-> Cardinality(plans),
       selected_plan_id |-> IF selected = {} THEN NULL ELSE CHOOSE x \in selected : TRUE]

\* GET /projects/:id/positions, one status or all.
positions_listByProject(p, statuses) ==
  {q \in OfProject(project_positions, p) : project_positions[q].status \in statuses}

positions_stats(p) ==
  LET positions == OfProject(project_positions, p)
  IN  [total |-> Cardinality(positions),
       by_status |-> CountBy(project_positions, positions, PositionStatus),
       headcount_planned_total |-> Total(project_positions, positions, Planned),
       headcount_filled_total |-> Total(project_positions, positions, FilledOf)]

plans_listByProject(p) == OfProject(staffing_plans, p)

\* At least min_score.
matches_listByPosition(q, min_score) == {m \in MatchesOf({q}) : matches[m] >= min_score}

\* GET /positions/:id/matches of a position of the manager.
listMatches(u, q, min_score) ==
  IF owns(u, project_positions[q].project_id) THEN matches_listByPosition(q, min_score) ELSE {}

aggregateProjects(u) ==
  [total |-> Cardinality(Mine(u)), by_status |-> CountBy(projects, Mine(u), ProjectStatus)]

\* Mutant: the WHERE clause is forgotten.
JoinedPositions_everybody(u) == DOMAIN project_positions

\* project_positions JOIN projects ... WHERE pm_user_id = u
JoinedPositions(u) ==
  {q \in DOMAIN project_positions : owns(u, project_positions[q].project_id)}

aggregatePositions(u) ==
  LET positions == JoinedPositions(u)
  IN  [total |-> Cardinality(positions),
       by_status |-> CountBy(project_positions, positions, PositionStatus),
       headcount_planned_total |-> Total(project_positions, positions, Planned),
       headcount_filled_total |-> Total(project_positions, positions, FilledOf)]

\* matches JOIN project_positions JOIN projects ... WHERE pm_user_id = u
JoinedMatches(u) == {m \in DOMAIN matches : m[1] \in JoinedPositions(u)}

aggregateCandidates(u) ==
  [total |-> Cardinality(JoinedMatches(u)),
   distinct |-> Cardinality({m[2] : m \in JoinedMatches(u)})]

\* ROUND(AVG(score)), 0 over no match.
aggregateMatches(u) ==
  LET found == JoinedMatches(u)
  IN  [total |-> Cardinality(found),
       avg_score |-> IF found = {} THEN 0
                     ELSE Round(SumOf(found, LAMBDA m : matches[m]), Cardinality(found))]

\* UNION ALL of an event for each recommendation that names no position or one
\* of the manager's, and one for each match of the manager's positions.  No code
\* writes recommendations.position_id: the first half is every recommendation
\* there is, of whichever headhunter and employer.
queryRecentActivity(u) ==
  {[src |-> "rec", row |-> r, event_type |-> IF recommendations[r] THEN "pickup" ELSE "application",
    position_id |-> NULL, project_id |-> NULL] : r \in DOMAIN recommendations}
  \union
  {[src |-> "match", row |-> m, event_type |-> "match_created",
    position_id |-> m[1], project_id |-> project_positions[m[1]].project_id] : m \in JoinedMatches(u)}

getSnapshot(u) ==
  [projects |-> aggregateProjects(u), positions |-> aggregatePositions(u),
   candidates |-> aggregateCandidates(u), matches |-> aggregateMatches(u),
   activity |-> queryRecentActivity(u)]

-----------------------------------------------------------------------------
\* What a manager reads in one place agrees with what is read in another: the
\* counts of the list with the detail and with the statistics of the project,
\* their sums with the funnel of the snapshot, the matches of the positions
\* with the funnel and with the match events, which name no project but the
\* manager's.  The joins of the snapshot go through projects, the lists do not.
\* What else the activity holds is not the manager's: it is longer than the
\* manager's matches by all the recommendations of the platform.
ReadsAgree ==
  \A u \in PMs :
    LET list == projects_list(u)
        snapshot == getSnapshot(u)
        overProjects(column(_)) == SumOf(DOMAIN list, column)
        matchEvents == {e \in snapshot.activity : e.src = "match"}
    IN  /\ snapshot.projects.total = Cardinality(DOMAIN list)
        /\ \A p \in DOMAIN list :
             /\ list[p].position_count = getProject(p).total_positions
             /\ list[p].position_count = positions_stats(p).total
             /\ list[p].plan_count = Cardinality(plans_listByProject(p))
             /\ list[p].plan_count = getProject(p).total_plans
             /\ getProject(p).filled_positions = positions_stats(p).headcount_filled_total
        /\ snapshot.positions.total =
             overProjects(LAMBDA p : list[p].position_count)
        /\ \A s \in PositionStatus :
             snapshot.positions.by_status[s] =
               overProjects(LAMBDA p : Cardinality(positions_listByProject(p, {s})))
        /\ snapshot.positions.headcount_planned_total =
             overProjects(LAMBDA p : positions_stats(p).headcount_planned_total)
        /\ snapshot.positions.headcount_filled_total =
             overProjects(LAMBDA p : getProject(p).filled_positions)
        /\ snapshot.matches.total =
             overProjects(LAMBDA p :
               SumOf(positions_listByProject(p, PositionStatus),
                     LAMBDA q : Cardinality(listMatches(u, q, 0))))
        /\ snapshot.candidates.total = Cardinality(matchEvents)
        /\ {e.project_id : e \in matchEvents} \subseteq DOMAIN list
        /\ Cardinality(snapshot.activity) =
             snapshot.candidates.total + Cardinality(DOMAIN recommendations)
=============================================================================
