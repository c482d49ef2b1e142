--------------------------- MODULE PmRepositories ---------------------------
(***************************************************************************)
(* The tables of the project manager's workbench (migration v028) and what *)
(* their repositories do to them.  A table is a function whose domain is   *)
(* the set of ids that exist; an operator below is the one transaction of  *)
(* the repository method it is named after.  Foreign keys are on, and all  *)
(* but the ones to users cascade.                                          *)
(*                                                                         *)
(* Left out: names, descriptions, budgets, dates, costs, reasons and gaps. *)
(* A patch names some of the columns; choosing a value for every column,   *)
(* the present one included, gives the same steps.                         *)
(***************************************************************************)
EXTENDS WeightedMatch, Functions

CONSTANTS
  Users, PMs,      \* accounts, and those whose user_type is pm
  Candidates,
  ProjectIds, PositionIds, PlanIds, DecompositionIds,  \* ids randomUUID can yield
  RecommendationIds,
  Targets,         \* texts of projects.target that are not blank
  Specs,           \* what a position asks for: the columns its score is made of
  Profiles,        \* likewise what a candidate's profile offers
  NULL

ProjectStatus == {"planning", "active", "paused", "completed", "cancelled"}

PositionStatus == {"open", "paused", "filled"}

ProjectRow ==
  [pm_user_id : PMs, target : Targets \union {NULL}, status : ProjectStatus]

PositionRow ==
  [project_id : ProjectIds, spec : Specs, status : PositionStatus,
   headcount_planned : Nat \ {0}, headcount_filled : Nat]

PlanRow ==
  [project_id : ProjectIds, is_selected : BOOLEAN, positions_json : SUBSET PositionIds]

DecompositionRow ==
  [project_id : ProjectIds, source_text : Targets, positions_json : SUBSET Specs]

Text == {"null"} \union STRING

Amount == Nat \union {NoAmount}

ASSUME WorkbenchAssumption ==
  /\ PMs \subseteq Users
  /\ NULL \notin Targets
  /\ IsFiniteSet(PositionIds) /\ IsFiniteSet(Candidates) /\ IsFiniteSet(RecommendationIds)
  /\ Specs \subseteq [skills : SUBSET STRING, level : Text, industry : Text,
                      min : Amount, max : Amount]
  /\ Profiles \subseteq [skills : SUBSET STRING, level : Text, industry : Text,
                         salary : Amount, education : Text, location : Text,
                         remote_ok : BOOLEAN]
  /\ \A r \in Specs \union Profiles : IsFiniteSet(r.skills)

VARIABLES
  projects, project_positions, staffing_plans, position_decompositions,
  matches,  \* <<position, candidate>> -> score: UNIQUE(position_id, candidate_user_id)
  minted,   \* every id drawn so far: randomUUID does not repeat itself
  recommendations  \* id -> is it picked up?  The other roles' table, which the snapshot reads

tables == <<projects, project_positions, staffing_plans, position_decompositions,
            matches, minted>>

Put(table, id, row) ==
  [x \in DOMAIN table \union {id} |-> IF x = id THEN row ELSE table[x]]

Without(table, ids) == Restrict(table, DOMAIN table \ ids)

OfProject(table, p) == {x \in DOMAIN table : table[x].project_id = p}

MatchesOf(positions) == {m \in DOMAIN matches : m[1] \in positions}

owns(u, p) == p \in DOMAIN projects /\ projects[p].pm_user_id = u

(***************************************************************************)
(* projects                                                                *)
(***************************************************************************)
\* One transaction: the project and the selected default plan it starts with.
projects_insert(p, plan, u, target) ==
  /\ {p, plan} \intersect minted = {}
  /\ projects' = Put(projects, p,
       [pm_user_id |-> u, target |-> target, status |-> "planning"])
  /\ staffing_plans' = Put(staffing_plans, plan,
       [project_id |-> p, is_selected |-> TRUE, positions_json |-> {}])
  /\ minted' = minted \union {p, plan}
  /\ UNCHANGED <<project_positions, position_decompositions, matches>>

projects_update(p, u, target, status) ==
  /\ owns(u, p)
  /\ projects' = [projects EXCEPT ![p].target = target, ![p].status = status]
  /\ UNCHANGED <<project_positions, staffing_plans, position_decompositions,
                 matches, minted>>

\* ON DELETE CASCADE empties the four tables under a project.
projects_delete(p, u) ==
  /\ owns(u, p)
  /\ projects' = Without(projects, {p})
  /\ project_positions' = Without(project_positions, OfProject(project_positions, p))
  /\ staffing_plans' = Without(staffing_plans, OfProject(staffing_plans, p))
  /\ position_decompositions' =
       Without(position_decompositions, OfProject(position_decompositions, p))
  /\ matches' = Without(matches, MatchesOf(OfProject(project_positions, p)))
  /\ UNCHANGED minted

(***************************************************************************)
(* project_positions.  New positions are given as a function from their    *)
(* ids to [spec, planned].                                                 *)
(***************************************************************************)
positions_bulkInsert(p, items) ==
  /\ p \in DOMAIN projects
  /\ DOMAIN items \intersect minted = {}
  /\ project_positions' =
       [q \in DOMAIN project_positions \union DOMAIN items |->
          IF q \in DOMAIN items
          THEN [project_id |-> p, spec |-> items[q].spec, status |-> "open",
                headcount_planned |-> items[q].planned, headcount_filled |-> 0]
          ELSE project_positions[q]]
  /\ minted' = minted \union DOMAIN items
  /\ UNCHANGED <<projects, staffing_plans, position_decompositions, matches>>

positions_insert(p, q, spec, planned) ==
  /\ p \in DOMAIN projects
  /\ q \notin minted
  /\ project_positions' = Put(project_positions, q,
       [project_id |-> p, spec |-> spec, status |-> "open",
        headcount_planned |-> planned, headcount_filled |-> 0])
  /\ minted' = minted \union {q}
  /\ UNCHANGED <<projects, staffing_plans, position_decompositions, matches>>

positions_update(q, p, spec, status, planned, filled) ==
  /\ q \in OfProject(project_positions, p)
  /\ project_positions' = [project_positions EXCEPT ![q] =
       [project_id |-> p, spec |-> spec, status |-> status,
        headcount_planned |-> planned, headcount_filled |-> filled]]
  /\ UNCHANGED <<projects, staffing_plans, position_decompositions, matches, minted>>

\* The plans that name the position keep naming it.
positions_delete(q, p) ==
  /\ q \in OfProject(project_positions, p)
  /\ project_positions' = Without(project_positions, {q})
  /\ matches' = Without(matches, MatchesOf({q}))
  /\ UNCHANGED <<projects, staffing_plans, position_decompositions, minted>>

(***************************************************************************)
(* staffing_plans                                                          *)
(***************************************************************************)
\* is_selected defaults to 0: every plan but the first starts as a draft.
plans_insert(p, plan, positions) ==
  /\ p \in DOMAIN projects
  /\ plan \notin minted
  /\ staffing_plans' = Put(staffing_plans, plan,
       [project_id |-> p, is_selected |-> FALSE, positions_json |-> positions])
  /\ minted' = minted \union {plan}
  /\ UNCHANGED <<projects, project_positions, position_decompositions, matches>>

plans_update(plan, p, positions) ==
  /\ plan \in OfProject(staffing_plans, p)
  /\ staffing_plans' = [staffing_plans EXCEPT ![plan].positions_json = positions]
  /\ UNCHANGED <<projects, project_positions, position_decompositions, matches, minted>>

plans_delete(plan, p) ==
  /\ plan \in OfProject(staffing_plans, p)
  /\ staffing_plans' = Without(staffing_plans, {plan})
  /\ UNCHANGED <<projects, project_positions, position_decompositions, matches, minted>>

\* Mutant: the plan that was selected stays so.
plans_setSelected_noReset(plan, p) ==
  /\ plan \in OfProject(staffing_plans, p)
  /\ staffing_plans' = [staffing_plans EXCEPT ![plan].is_selected = TRUE]
  /\ UNCHANGED <<projects, project_positions, position_decompositions, matches, minted>>

\* Mutant: the two statements in the other order.
plans_setSelected_resetLast(plan, p) ==
  /\ plan \in OfProject(staffing_plans, p)
  /\ staffing_plans' =
       [x \in DOMAIN staffing_plans |->
          IF staffing_plans[x].project_id = p
          THEN [staffing_plans[x] EXCEPT !.is_selected = FALSE]
          ELSE staffing_plans[x]]
  /\ UNCHANGED <<projects, project_positions, position_decompositions, matches, minted>>

\* One transaction: unselect every plan of the project, then select this one.
plans_setSelected(plan, p) ==
  /\ plan \in OfProject(staffing_plans, p)
  /\ staffing_plans' =
       [x \in DOMAIN staffing_plans |->
          IF staffing_plans[x].project_id = p
          THEN [staffing_plans[x] EXCEPT !.is_selected = (x = plan)]
          ELSE staffing_plans[x]]
  /\ UNCHANGED <<projects, project_positions, position_decompositions, matches, minted>>

(***************************************************************************)
(* position_decompositions and matches                                     *)
(***************************************************************************)
\* The foreign key refuses the row of a project that is gone.
decompositions_insert(d, p, text, suggestions) ==
  /\ p \in DOMAIN projects
  /\ position_decompositions' = Put(position_decompositions, d,
       [project_id |-> p, source_text |-> text, positions_json |-> suggestions])
  /\ UNCHANGED <<projects, project_positions, staffing_plans, matches, minted>>

\* Mutant: INSERT OR IGNORE.
matches_upsertMany_insertOnly(q, scores) ==
  /\ matches' =
       [m \in DOMAIN matches \union ({q} \X DOMAIN scores) |->
          IF m \in DOMAIN matches THEN matches[m] ELSE scores[m[2]]]
  /\ UNCHANGED <<projects, project_positions, staffing_plans,
                 position_decompositions, minted>>

\* One transaction.  scores: candidate -> score, for the rows to write; a row
\* that is there already is overwritten, none is deleted.
matches_upsertMany(q, scores) ==
  /\ matches' =
       [m \in DOMAIN matches \union ({q} \X DOMAIN scores) |->
          IF m[1] = q /\ m[2] \in DOMAIN scores THEN scores[m[2]] ELSE matches[m]]
  /\ UNCHANGED <<projects, project_positions, staffing_plans,
                 position_decompositions, minted>>
=============================================================================
