------------------------------ MODULE Workbench ------------------------------
(***************************************************************************)
(* The project manager's workbench: projects, the positions they need,     *)
(* staffing plans, suggestions of positions made from a project's target,  *)
(* and the ranking of candidates for a position.  One action per endpoint  *)
(* that writes; a handler runs to its end, except decomposeProject, which  *)
(* sleeps between its reads and its write.                                 *)
(***************************************************************************)
EXTENDS PmRepositories

CONSTANTS
  ProfilesOf,      \* candidate -> the profiles it has (it may have several)
  Mentions,        \* target -> the position templates whose keywords it holds
  Fallback,        \* the suggestion for a target that holds none
  StatusInputs,    \* bound: the statuses, of either kind, that patches name
  Headcounts,      \* bound: the planned headcounts that calls carry
  Filled,          \* bound: the filled headcounts that patches carry
  PlanContents,    \* bound: the positions that plans name
  Leaving,         \* bound: the candidates whose account changes status
  MaxBulk          \* items in one bulk call (50 in the schemas)

ASSUME InputsAssumption ==
  /\ ProfilesOf \in [Candidates -> SUBSET Profiles]
  /\ Mentions \in [Targets -> SUBSET Specs]
  /\ Fallback \in Specs
  /\ StatusInputs \subseteq ProjectStatus \union PositionStatus
  /\ Headcounts \subseteq Nat \ {0} /\ Filled \subseteq Nat
  /\ PlanContents \subseteq SUBSET PositionIds
  /\ Leaving \subseteq Candidates
  /\ MaxBulk \in Nat

VARIABLES
  sleeping,  \* decomposition id -> what its call read before it went to sleep
  active     \* candidates whose account is active: users.status

vars == <<tables, sleeping, active, recommendations>>

Init ==
  /\ projects = [x \in {} |-> NULL]
  /\ project_positions = [x \in {} |-> NULL]
  /\ staffing_plans = [x \in {} |-> NULL]
  /\ position_decompositions = [x \in {} |-> NULL]
  /\ matches = [x \in {} |-> NULL]
  /\ minted = {}
  /\ sleeping = [x \in {} |-> NULL]
  /\ active = Candidates
  /\ recommendations = [x \in {} |-> FALSE]

assertPm(u) == u \in PMs

\* Mutant: the row is found, its project is not looked at.
ownsRow_exists(u, table, x) == u \in PMs /\ x \in DOMAIN table

\* projectsRepo.findById(project of the row, user.id)
ownsRow(u, table, x) == x \in DOMAIN table /\ owns(u, table[x].project_id)

NewPositions ==
  {s \in SUBSET (PositionIds \ minted) : s # {} /\ Cardinality(s) <= MaxBulk}

ItemsFor(ids) == [ids -> [spec : Specs, planned : Headcounts]]

(***************************************************************************)
(* Projects                                                                *)
(***************************************************************************)
createProject(u) ==
  /\ assertPm(u)
  /\ \E p \in ProjectIds, plan \in PlanIds, target \in Targets \union {NULL} :
       projects_insert(p, plan, u, target)
  /\ UNCHANGED <<sleeping, active, recommendations>>

updateProject(u, p) ==
  /\ assertPm(u)
  /\ \E target \in Targets \union {NULL}, status \in StatusInputs \intersect ProjectStatus :
       projects_update(p, u, target, status)
  /\ UNCHANGED <<sleeping, active, recommendations>>

deleteProject(u, p) ==
  /\ assertPm(u)
  /\ projects_delete(p, u)
  /\ UNCHANGED <<sleeping, active, recommendations>>

(***************************************************************************)
(* Positions                                                               *)
(***************************************************************************)
createPosition(u, p) ==
  /\ assertPm(u) /\ owns(u, p)
  /\ \E q \in PositionIds, spec \in Specs, planned \in Headcounts :
       positions_insert(p, q, spec, planned)
  /\ UNCHANGED <<sleeping, active, recommendations>>

updatePosition(u, q) ==
  /\ assertPm(u) /\ ownsRow(u, project_positions, q)
  /\ \E spec \in Specs, status \in StatusInputs \intersect PositionStatus,
        planned \in Headcounts, filled \in Filled :
       positions_update(q, project_positions[q].project_id, spec, status, planned, filled)
  /\ UNCHANGED <<sleeping, active, recommendations>>

deletePosition(u, q) ==
  /\ assertPm(u) /\ ownsRow(u, project_positions, q)
  /\ positions_delete(q, project_positions[q].project_id)
  /\ UNCHANGED <<sleeping, active, recommendations>>

bulkCreate(u, p) ==
  /\ assertPm(u) /\ owns(u, p)
  /\ \E ids \in NewPositions : \E items \in ItemsFor(ids) : positions_bulkInsert(p, items)
  /\ UNCHANGED <<sleeping, active, recommendations>>

(***************************************************************************)
(* Staffing plans.  Nothing checks that the positions a plan names exist.  *)
(***************************************************************************)
createPlan(u, p) ==
  /\ assertPm(u) /\ owns(u, p)
  /\ \E plan \in PlanIds, positions \in PlanContents :
       plans_insert(p, plan, positions)
  /\ UNCHANGED <<sleeping, active, recommendations>>

updatePlan(u, plan) ==
  /\ assertPm(u) /\ ownsRow(u, staffing_plans, plan)
  /\ \E positions \in PlanContents :
       plans_update(plan, staffing_plans[plan].project_id, positions)
  /\ UNCHANGED <<sleeping, active, recommendations>>

deletePlan(u, plan) ==
  /\ assertPm(u) /\ ownsRow(u, staffing_plans, plan)
  /\ plans_delete(plan, staffing_plans[plan].project_id)
  /\ UNCHANGED <<sleeping, active, recommendations>>

setSelectedPlan(u, plan) ==
  /\ assertPm(u) /\ ownsRow(u, staffing_plans, plan)
  /\ plans_setSelected(plan, staffing_plans[plan].project_id)
  /\ UNCHANGED <<sleeping, active, recommendations>>

(***************************************************************************)
(* Decompositions                                                          *)
(***************************************************************************)
decomposePositions(text) == IF Mentions[text] = {} THEN {Fallback} ELSE Mentions[text]

\* decomposeProject up to the sleep.  The id is drawn after it in the code;
\* nobody sees the id before.
decomposeProject(u, p) ==
  /\ assertPm(u) /\ owns(u, p)
  /\ projects[p].target # NULL
  /\ \E d \in DecompositionIds \ minted :
       /\ sleeping' = Put(sleeping, d, [project_id |-> p, source_text |-> projects[p].target])
       /\ minted' = minted \union {d}
  /\ UNCHANGED <<projects, project_positions, staffing_plans, position_decompositions,
                 matches, active, recommendations>>

\* Mutant: no foreign key stands in the way.
decomposeWakes_unchecked(d) ==
  /\ d \in DOMAIN sleeping
  /\ position_decompositions' = Put(position_decompositions, d,
       [project_id |-> sleeping[d].project_id, source_text |-> sleeping[d].source_text,
        positions_json |-> decomposePositions(sleeping[d].source_text)])
  /\ sleeping' = Without(sleeping, {d})
  /\ UNCHANGED <<projects, project_positions, staffing_plans, matches, minted, active,
                 recommendations>>

\* Its other half: the insert, or nothing if the project is gone by now.
decomposeWakes(d) ==
  /\ d \in DOMAIN sleeping
  /\ LET call == sleeping[d] IN
       IF call.project_id \in DOMAIN projects
       THEN decompositions_insert(d, call.project_id, call.source_text,
                                  decomposePositions(call.source_text))
       ELSE UNCHANGED tables
  /\ sleeping' = Without(sleeping, {d})
  /\ UNCHANGED <<active, recommendations>>

\* The positions are the ones the client sends, not the stored suggestions,
\* and the decomposition does not remember that it was committed.
commitDecomposition(u, p, d) ==
  /\ assertPm(u) /\ owns(u, p)
  /\ d \in OfProject(position_decompositions, p)
  /\ \E ids \in NewPositions : \E items \in ItemsFor(ids) : positions_bulkInsert(p, items)
  /\ UNCHANGED <<sleeping, active, recommendations>>

(***************************************************************************)
(* Matching                                                                *)
(***************************************************************************)
listAllCandidateProfiles == {c \in active : ProfilesOf[c] # {}}

\* Every active candidate with a profile is scored; of two profiles of one
\* candidate the row keeps the score of the later one, in no stated order.
recomputeMatches(u, q) ==
  /\ assertPm(u) /\ ownsRow(u, project_positions, q)
  /\ \E profile \in [listAllCandidateProfiles -> Profiles] :
       /\ \A c \in DOMAIN profile : profile[c] \in ProfilesOf[c]
       /\ matches_upsertMany(q,
            [c \in DOMAIN profile |-> calculateMatch(project_positions[q].spec, profile[c])])
  /\ UNCHANGED <<sleeping, active, recommendations>>

(***************************************************************************)
(* The rest of the system                                                  *)
(***************************************************************************)
\* An account is suspended, erased or unsuspended (see Platform).
CandidateStatusChanges(c) ==
  /\ active' = (active \ {c}) \union ({c} \ active)
  /\ UNCHANGED <<tables, sleeping, recommendations>>

\* A headhunter recommends somebody, or a candidate applies, for a job: the row
\* names no position of the workbench.
RecommendationMade(r) ==
  /\ r \notin DOMAIN recommendations
  /\ recommendations' = Put(recommendations, r, FALSE)
  /\ UNCHANGED <<tables, sleeping, active>>

RecommendationPickedUp(r) ==
  /\ r \in DOMAIN recommendations /\ ~recommendations[r]
  /\ recommendations' = [recommendations EXCEPT ![r] = TRUE]
  /\ UNCHANGED <<tables, sleeping, active>>

Restart ==
  /\ sleeping # [x \in {} |-> NULL]
  /\ sleeping' = [x \in {} |-> NULL]
  /\ UNCHANGED <<tables, active, recommendations>>

Calls(u) ==
  \/ createProject(u)
  \/ \E p \in ProjectIds :
       \/ updateProject(u, p)
       \/ deleteProject(u, p)
       \/ createPosition(u, p)
       \/ bulkCreate(u, p)
       \/ createPlan(u, p)
       \/ decomposeProject(u, p)
       \/ \E d \in DecompositionIds : commitDecomposition(u, p, d)
  \/ \E q \in PositionIds :
       \/ updatePosition(u, q)
       \/ deletePosition(u, q)
       \/ recomputeMatches(u, q)
  \/ \E plan \in PlanIds :
       \/ updatePlan(u, plan)
       \/ deletePlan(u, plan)
       \/ setSelectedPlan(u, plan)

Next ==
  \/ \E u \in Users : Calls(u)
  \/ \E d \in DecompositionIds : decomposeWakes(d)
  \/ \E c \in Leaving : CandidateStatusChanges(c)
  \/ \E r \in RecommendationIds : RecommendationMade(r) \/ RecommendationPickedUp(r)
  \/ Restart

Spec == Init /\ [][Next]_vars

-----------------------------------------------------------------------------
(***************************************************************************)
(* Properties                                                              *)
(***************************************************************************)
\* The tables hold rows of their types under ids that were drawn.  A score has
\* at least the neutral points of education and location, and at most what the
\* six parts add up to, which is not the 100 of the schema.
TypeOK ==
  /\ minted \subseteq ProjectIds \union PositionIds \union PlanIds \union DecompositionIds
  /\ DOMAIN projects \subseteq ProjectIds \intersect minted
  /\ projects \in [DOMAIN projects -> ProjectRow]
  /\ DOMAIN project_positions \subseteq PositionIds \intersect minted
  /\ project_positions \in [DOMAIN project_positions -> PositionRow]
  /\ DOMAIN staffing_plans \subseteq PlanIds \intersect minted
  /\ staffing_plans \in [DOMAIN staffing_plans -> PlanRow]
  /\ DOMAIN position_decompositions \subseteq DecompositionIds \intersect minted
  /\ position_decompositions \in [DOMAIN position_decompositions -> DecompositionRow]
  /\ DOMAIN matches \subseteq PositionIds \X Candidates
  /\ matches \in [DOMAIN matches -> 10..98]
  /\ DOMAIN sleeping \subseteq DecompositionIds \intersect minted
  /\ sleeping \in [DOMAIN sleeping -> [project_id : ProjectIds, source_text : Targets]]
  /\ active \subseteq Candidates
  /\ DOMAIN recommendations \subseteq RecommendationIds
  /\ recommendations \in [DOMAIN recommendations -> BOOLEAN]

\* Nothing outlives what it hangs on: a position, a plan or a decomposition
\* its project (nor does one appear after a deletion that fell in the sleep of
\* decomposeProject), a match its position.
NoDanglingRows ==
  /\ \A table \in {project_positions, staffing_plans, position_decompositions} :
       \A x \in DOMAIN table : table[x].project_id \in DOMAIN projects
  /\ \A m \in DOMAIN matches : m[1] \in DOMAIN project_positions

SelectedPlans(p) ==
  {plan \in OfProject(staffing_plans, p) : staffing_plans[plan].is_selected}

\* The default plan, the plans added and the selections made later leave a
\* project with one selected plan at most: getProject shows the one it finds.
OneSelectedPlan ==
  \A p \in DOMAIN projects : \A a, b \in SelectedPlans(p) : a = b

\* A project that has a selected plan goes on having one until that plan is
\* deleted: selecting another leaves no moment, and no outcome, without one.
SelectionSurvives ==
  [][\A p \in DOMAIN projects \intersect DOMAIN projects' :
       SelectedPlans(p) # {} =>
         \/ SelectedPlans(p)' # {}
         \/ \E plan \in SelectedPlans(p) : plan \notin DOMAIN staffing_plans']_vars

\* What belongs to v: the projects and, through them, every other row.
ProjectsOf(v) == {p \in DOMAIN projects : owns(v, p)}

BelongingTo(v) ==
  LET below(table) == [x \in {y \in DOMAIN table : owns(v, table[y].project_id)} |-> table[x]]
      mine == DOMAIN below(project_positions)
  IN  <<Restrict(projects, ProjectsOf(v)), below(project_positions), below(staffing_plans),
        below(position_decompositions), Restrict(matches, MatchesOf(mine))>>

\* No call of one user changes, adds or removes a row of another's projects.
\* The endpoints that get the id of a position or of a plan find the owner
\* through the row; the ones that get two ids must see that they agree.
PmIsolation ==
  [][\A v \in PMs :
       BelongingTo(v)' # BelongingTo(v) => \A u \in Users \ {v} : ~Calls(u)]_vars

\* A recomputation leaves none of the candidates it ranks with an old score:
\* whenever the matches of a position change, every active candidate with a
\* profile has the score of one of its profiles against the position as it is.
RecomputeIsComplete ==
  [][\A q \in DOMAIN project_positions \intersect DOMAIN project_positions' :
       LET row(c) == IF <<q, c>> \in DOMAIN matches THEN {matches[<<q, c>>]} ELSE {}
       IN  (\E c \in Candidates : row(c)' # row(c)) =>
             \A c \in listAllCandidateProfiles :
               row(c)' \in {{calculateMatch(project_positions[q].spec, profile)} :
                              profile \in ProfilesOf[c]}]_vars
=============================================================================
