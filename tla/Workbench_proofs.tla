--------------------------- MODULE Workbench_proofs ---------------------------
(***************************************************************************)
(* What the project manager's workbench promises for any number of         *)
(* managers, projects, positions, plans and candidates.                    *)
(***************************************************************************)
EXTENDS Workbench, Snapshot, FunctionTheorems, FiniteSetTheorems, TLAPS

-----------------------------------------------------------------------------
(* Tables: functions whose domain is the set of ids that exist.            *)

Table(rows, table) == table \in [DOMAIN table -> rows]

LEMMA PutIs ==
  ASSUME NEW table, NEW id, NEW row
  PROVE  /\ DOMAIN Put(table, id, row) = DOMAIN table \union {id}
         /\ Put(table, id, row)[id] = row
         /\ \A x \in DOMAIN table : x # id => Put(table, id, row)[x] = table[x]
  BY DEF Put

LEMMA PutTyped ==
  ASSUME NEW rows, NEW table, Table(rows, table), NEW id, NEW row \in rows
  PROVE  Table(rows, Put(table, id, row))
  BY DEF Table, Put

LEMMA WithoutIs ==
  ASSUME NEW table, NEW ids
  PROVE  /\ DOMAIN Without(table, ids) = DOMAIN table \ ids
         /\ \A x \in DOMAIN table \ ids : Without(table, ids)[x] = table[x]
  BY DEF Without, Restrict

LEMMA WithoutTyped ==
  ASSUME NEW rows, NEW table, Table(rows, table), NEW ids
  PROVE  Table(rows, Without(table, ids))
  BY DEF Table, Without, Restrict

-----------------------------------------------------------------------------
(* The score of a match.                                                   *)

\* A quotient is at most n when n + 1 divisors do not fit.
LEMMA QuotientBound ==
  ASSUME NEW a \in Nat, NEW b \in Nat \ {0}, NEW n \in Nat, a < (n + 1) * b
  PROVE  a \div b \in 0..n
  <1>1. a \div b \in Nat /\ (a \div b) * b <= a
    OBVIOUS
  <1>2. (a \div b) * b < (n + 1) * b
    BY <1>1
  <1>3. a \div b < n + 1
    BY <1>1, <1>2
  <1> QED
    BY <1>1, <1>3

LEMMA SkillsAreBounded ==
  ASSUME NEW a, IsFiniteSet(a), NEW b, IsFiniteSet(b)
  PROVE  SkillPoints(a, b, 40) \in 0..40
  <1>1. CASE a = {} \/ b = {}
    BY <1>1 DEF SkillPoints
  <1>2. CASE a # {} /\ b # {}
    <2> DEFINE common == Common(a, b)
               either == Either(a, b)
    <2>1. common \in Nat /\ either \in Nat /\ common <= either /\ either # 0
      <3>1. IsFiniteSet(a \union b) /\ IsFiniteSet(a \intersect b)
        BY FS_Union, FS_Intersection
      <3>2. Cardinality(a \intersect b) <= Cardinality(a \union b)
        BY <3>1, FS_Subset
      <3>3. Cardinality(a \union b) # 0
        BY <1>2, <3>1, FS_EmptySet
      <3> QED
        BY <3>1, <3>2, <3>3, FS_CardinalityType DEF Common, Either
    <2>2. SkillPoints(a, b, 40) = (2 * (40 * common) + either) \div (2 * either)
      BY <1>2 DEF SkillPoints, Round
    <2> HIDE DEF common, either
    <2>3. 2 * (40 * common) + either < (40 + 1) * (2 * either)
      BY <2>1
    <2> QED
      BY <2>1, <2>2, <2>3, QuotientBound
  <1> QED
    BY <1>1, <1>2

LEMMA TenthsAreBounded ==
  /\ \A level, other : Round(15 * LevelTenths(level, other), 10) \in 0..15
  /\ \A industry, other : Round(15 * IndustryTenths(industry, other), 10) \in 0..15
  /\ \A min, max, expected : SalaryTenths(min, max, expected) \in 0..10
  <1>1. \A n \in {0, 5, 10} : Round(15 * n, 10) \in 0..15
    BY DEF Round
  <1>2. \A level, other : LevelTenths(level, other) \in {0, 5, 10}
    BY DEF LevelTenths
  <1>3. \A industry, other : IndustryTenths(industry, other) \in {0, 5, 10}
    BY DEF IndustryTenths
  <1>4. \A min, max, expected : SalaryTenths(min, max, expected) \in {0, 5, 10}
    BY DEF SalaryTenths
  <1> QED
    BY <1>1, <1>2, <1>3, <1>4

\* Whatever is compared, the neutral points are the least and the sum of the
\* six parts, 98, the most: the cap of 100 never bites.
LEMMA ScoresAreBounded ==
  ASSUME NEW spec \in Specs, NEW profile \in Profiles
  PROVE  calculateMatch(spec, profile) \in 10..98
  <1>1. SkillPoints(spec.skills, profile.skills, 40) \in 0..40
    BY WorkbenchAssumption, SkillsAreBounded
  <1>2. Round(15 * LevelTenths(spec.level, profile.level), 10) \in 0..15
    BY TenthsAreBounded
  <1>3. EducationPoints(profile.education) \in 5..10
    BY DEF EducationPoints
  <1>4. LocationPoints(profile.location, profile.remote_ok) \in 5..8
    BY DEF LocationPoints
  <1> QED
    BY <1>1, <1>2, <1>3, <1>4, TenthsAreBounded DEF calculateMatch, Least

-----------------------------------------------------------------------------
(* The inductive invariant.  An id that was drawn is not drawn again, so a  *)
(* new row takes nobody's place and a new project finds no row of its own.  *)

IInv == TypeOK /\ NoDanglingRows /\ OneSelectedPlan

\* The same, table by table.
ProjectsSound ==
  DOMAIN projects \subseteq ProjectIds \intersect minted /\ Table(ProjectRow, projects)

Hanging(table) == \A x \in DOMAIN table : table[x].project_id \in DOMAIN projects

PositionsSound ==
  /\ DOMAIN project_positions \subseteq PositionIds \intersect minted
  /\ Table(PositionRow, project_positions) /\ Hanging(project_positions)

PlansSound ==
  /\ DOMAIN staffing_plans \subseteq PlanIds \intersect minted
  /\ Table(PlanRow, staffing_plans) /\ Hanging(staffing_plans)
  /\ OneSelectedPlan

DecompositionsSound ==
  /\ DOMAIN position_decompositions \subseteq DecompositionIds \intersect minted
  /\ Table(DecompositionRow, position_decompositions) /\ Hanging(position_decompositions)

MatchesSound ==
  /\ DOMAIN matches \subseteq PositionIds \X Candidates /\ Table(10..98, matches)
  /\ \A m \in DOMAIN matches : m[1] \in DOMAIN project_positions

RestSound ==
  /\ minted \subseteq ProjectIds \union PositionIds \union PlanIds \union DecompositionIds
  /\ DOMAIN sleeping \subseteq DecompositionIds \intersect minted
  /\ Table([project_id : ProjectIds, source_text : Targets], sleeping)
  /\ active \subseteq Candidates

Sound ==
  /\ ProjectsSound /\ PositionsSound /\ PlansSound /\ DecompositionsSound
  /\ MatchesSound /\ RestSound

\* The other roles' table, which no call of the workbench writes.
RecommendationsSound ==
  /\ DOMAIN recommendations \subseteq RecommendationIds
  /\ Table(BOOLEAN, recommendations)

LEMMA SoundIsIInv == Sound /\ RecommendationsSound <=> IInv
  BY DEF Sound, ProjectsSound, PositionsSound, PlansSound, DecompositionsSound, MatchesSound,
     RestSound, RecommendationsSound, Hanging, Table, IInv, TypeOK, NoDanglingRows

LEMMA InitSound == Init => Sound
  BY DEF Init, Sound, ProjectsSound, PositionsSound, PlansSound, DecompositionsSound,
     MatchesSound, RestSound, Hanging, Table, OneSelectedPlan, SelectedPlans, OfProject


-----------------------------------------------------------------------------
(* Projects.                                                               *)

LEMMA ProjectInserted ==
  ASSUME Sound, NEW p \in ProjectIds, NEW plan \in PlanIds, NEW u \in PMs,
         NEW target \in Targets \union {NULL}, projects_insert(p, plan, u, target),
         UNCHANGED <<sleeping, active, recommendations>>
  PROVE  Sound'
  <1> DEFINE project == [pm_user_id |-> u, target |-> target, status |-> "planning"]
             default == [project_id |-> p, is_selected |-> TRUE, positions_json |-> {}]
  <1>1. project \in ProjectRow /\ default \in PlanRow
    BY DEF ProjectRow, ProjectStatus, PlanRow
  <1>2. /\ projects' = Put(projects, p, project)
        /\ staffing_plans' = Put(staffing_plans, plan, default)
        /\ minted' = minted \union {p, plan} /\ p \notin minted /\ plan \notin minted
        /\ UNCHANGED <<project_positions, position_decompositions, matches>>
    BY DEF projects_insert
  <1>3. default.project_id = p /\ default.is_selected
    OBVIOUS
  <1> HIDE DEF project, default
  <1>4. ProjectsSound' /\ DOMAIN projects' = DOMAIN projects \union {p}
    <2>1. Table(ProjectRow, projects)
      BY DEF Sound, ProjectsSound
    <2>2. Table(ProjectRow, projects') /\ DOMAIN projects' = DOMAIN projects \union {p}
      BY <1>1, <1>2, <2>1, PutIs, PutTyped
    <2> QED
      BY <1>2, <2>2 DEF Sound, ProjectsSound
  <1>5. PositionsSound' /\ DecompositionsSound' /\ MatchesSound' /\ RestSound'
    BY <1>2, <1>4 DEF Sound, PositionsSound, DecompositionsSound, MatchesSound, RestSound,
       Hanging, Table
  <1>6. PlansSound'
    <2>1. /\ Table(PlanRow, staffing_plans') /\ DOMAIN staffing_plans' = DOMAIN staffing_plans \union {plan}
          /\ staffing_plans'[plan] = default
          /\ \A x \in DOMAIN staffing_plans : staffing_plans'[x] = staffing_plans[x]
      <3>1. Table(PlanRow, staffing_plans) /\ plan \notin DOMAIN staffing_plans
        BY <1>2 DEF Sound, PlansSound
      <3>2. Table(PlanRow, staffing_plans')
        BY <1>1, <1>2, <3>1, PutTyped
      <3> QED
        BY <1>2, <3>1, <3>2 DEF Put
    <2>2. p \notin DOMAIN projects
      BY <1>2 DEF Sound, ProjectsSound
    <2>3. \A x \in DOMAIN staffing_plans' :
            /\ x = plan <=> staffing_plans'[x].project_id = p
            /\ staffing_plans'[x].project_id \in DOMAIN projects'
      BY <1>2, <1>3, <1>4, <2>1, <2>2 DEF Sound, PlansSound, Hanging
    <2>4. OneSelectedPlan'
      BY <1>4, <2>1, <2>2, <2>3 DEF Sound, PlansSound, Hanging, OneSelectedPlan, SelectedPlans,
         OfProject
    <2> QED
      BY <1>2, <2>1, <2>3, <2>4 DEF Sound, PlansSound, Hanging
  <1> QED
    BY <1>4, <1>5, <1>6 DEF Sound

LEMMA ProjectUpdated ==
  ASSUME Sound, NEW p \in ProjectIds, NEW u \in PMs, NEW target \in Targets \union {NULL},
         NEW status \in ProjectStatus, projects_update(p, u, target, status),
         UNCHANGED <<sleeping, active, recommendations>>
  PROVE  Sound'
  <1>1. ProjectsSound' /\ DOMAIN projects = DOMAIN projects'
    BY DEF projects_update, owns, Sound, ProjectsSound, Table, ProjectRow
  <1> QED
    BY <1>1 DEF projects_update, Sound, PositionsSound, PlansSound, DecompositionsSound,
       MatchesSound, RestSound, Hanging, Table, OneSelectedPlan, SelectedPlans, OfProject

\* The cascade leaves no row of the project behind, and removes no other.
LEMMA CascadeIs ==
  ASSUME NEW table, Hanging(table), NEW p, DOMAIN projects' = DOMAIN projects \ {p},
         NEW left, left = Without(table, OfProject(table, p))
  PROVE  /\ DOMAIN left = {x \in DOMAIN table : table[x].project_id # p}
         /\ \A x \in DOMAIN left : left[x] = table[x] /\ left[x].project_id \in DOMAIN projects'
  <1>1. /\ DOMAIN left = DOMAIN table \ OfProject(table, p)
        /\ \A x \in DOMAIN table \ OfProject(table, p) : left[x] = table[x]
    BY WithoutIs
  <1> QED
    BY <1>1 DEF Hanging, OfProject

LEMMA ProjectDeleted ==
  ASSUME Sound, NEW p \in ProjectIds, NEW u \in PMs, projects_delete(p, u),
         UNCHANGED <<sleeping, active, recommendations>>
  PROVE  Sound'
  <1>1. ProjectsSound' /\ DOMAIN projects' = DOMAIN projects \ {p}
    <2>1. Table(ProjectRow, projects) /\ projects' = Without(projects, {p})
      BY DEF projects_delete, Sound, ProjectsSound
    <2>2. Table(ProjectRow, projects') /\ DOMAIN projects' = DOMAIN projects \ {p}
      BY <2>1, WithoutIs, WithoutTyped
    <2> QED
      BY <2>2 DEF projects_delete, Sound, ProjectsSound
  <1>2. /\ Table(PositionRow, project_positions')
        /\ DOMAIN project_positions' =
             {x \in DOMAIN project_positions : project_positions[x].project_id # p}
        /\ \A x \in DOMAIN project_positions' :
             /\ project_positions'[x] = project_positions[x]
             /\ project_positions'[x].project_id \in DOMAIN projects'
    <2>1. Table(PositionRow, project_positions) /\ Hanging(project_positions)
      BY DEF Sound, PositionsSound
    <2>2. project_positions' = Without(project_positions, OfProject(project_positions, p))
      BY DEF projects_delete
    <2>3. Table(PositionRow, project_positions')
      BY <2>1, <2>2, WithoutTyped
    <2>4. Hanging(project_positions) /\ DOMAIN projects' = DOMAIN projects \ {p}
      BY <1>1, <2>1
    <2>5. /\ DOMAIN project_positions' =
               {x \in DOMAIN project_positions : project_positions[x].project_id # p}
          /\ \A x \in DOMAIN project_positions' :
               /\ project_positions'[x] = project_positions[x]
               /\ project_positions'[x].project_id \in DOMAIN projects'
      BY <2>2, <2>4, CascadeIs
    <2> QED
      BY <2>3, <2>5
  <1>3. PositionsSound'
    BY <1>2 DEF projects_delete, Sound, PositionsSound, Hanging
  <1>4. /\ Table(PlanRow, staffing_plans')
        /\ DOMAIN staffing_plans' = {x \in DOMAIN staffing_plans : staffing_plans[x].project_id # p}
        /\ \A x \in DOMAIN staffing_plans' :
             /\ staffing_plans'[x] = staffing_plans[x]
             /\ staffing_plans'[x].project_id \in DOMAIN projects'
    <2>1. Table(PlanRow, staffing_plans) /\ Hanging(staffing_plans)
      BY DEF Sound, PlansSound
    <2>2. staffing_plans' = Without(staffing_plans, OfProject(staffing_plans, p))
      BY DEF projects_delete
    <2>3. Table(PlanRow, staffing_plans')
      BY <2>1, <2>2, WithoutTyped
    <2> QED
      BY <1>1, <2>1, <2>2, <2>3 DEF Without, Restrict, OfProject, Hanging
  <1>5. PlansSound'
    <2>1. OneSelectedPlan'
      BY <1>1, <1>4 DEF Sound, PlansSound, OneSelectedPlan, SelectedPlans, OfProject
    <2> QED
      BY <1>4, <2>1 DEF projects_delete, Sound, PlansSound, Hanging
  <1>6. DecompositionsSound'
    <2>1. Table(DecompositionRow, position_decompositions) /\ Hanging(position_decompositions)
      BY DEF Sound, DecompositionsSound
    <2>2. position_decompositions' =
            Without(position_decompositions, OfProject(position_decompositions, p))
      BY DEF projects_delete
    <2>3. /\ Table(DecompositionRow, position_decompositions')
          /\ DOMAIN position_decompositions' =
               {x \in DOMAIN position_decompositions : position_decompositions[x].project_id # p}
          /\ \A x \in DOMAIN position_decompositions' :
               position_decompositions'[x].project_id \in DOMAIN projects'
      <3>1. Table(DecompositionRow, position_decompositions')
        BY <2>1, <2>2, WithoutTyped
      <3>2. Hanging(position_decompositions) /\ DOMAIN projects' = DOMAIN projects \ {p}
        BY <1>1, <2>1
      <3>3. /\ DOMAIN position_decompositions' =
                 {x \in DOMAIN position_decompositions : position_decompositions[x].project_id # p}
            /\ \A x \in DOMAIN position_decompositions' :
                 position_decompositions'[x].project_id \in DOMAIN projects'
        BY <2>2, <3>2, CascadeIs
      <3> QED
        BY <3>1, <3>3
    <2> QED
      BY <2>3 DEF projects_delete, Sound, DecompositionsSound, Hanging
  <1>7. MatchesSound'
    <2>1. Table(10..98, matches)
      BY DEF Sound, MatchesSound
    <2>2. matches' = Without(matches, MatchesOf(OfProject(project_positions, p)))
      BY DEF projects_delete
    <2>3. /\ Table(10..98, matches')
          /\ DOMAIN matches' = DOMAIN matches \ MatchesOf(OfProject(project_positions, p))
      BY <2>1, <2>2, WithoutIs, WithoutTyped
    <2> QED
      BY <1>2, <2>3 DEF Sound, MatchesSound, MatchesOf, OfProject
  <1> QED
    BY <1>1, <1>3, <1>5, <1>6, <1>7 DEF projects_delete, Sound, RestSound

-----------------------------------------------------------------------------
(* Positions.                                                              *)

NewPosition(p, spec, planned) ==
  [project_id |-> p, spec |-> spec, status |-> "open", headcount_planned |-> planned,
   headcount_filled |-> 0]

LEMMA PositionsGrow ==
  ASSUME Sound, NEW p \in DOMAIN projects, NEW ids \in SUBSET PositionIds,
         DOMAIN project_positions' = DOMAIN project_positions \union ids,
         \A q \in DOMAIN project_positions \ ids : project_positions'[q] = project_positions[q],
         \A q \in ids : project_positions'[q].project_id = p /\ project_positions'[q] \in PositionRow,
         project_positions' = [q \in DOMAIN project_positions' |-> project_positions'[q]],
         minted' = minted \union ids,
         UNCHANGED <<projects, staffing_plans, position_decompositions, matches, sleeping, active,
                     recommendations>>
  PROVE  Sound'
  <1>1. PositionsSound'
    BY DEF Sound, PositionsSound, Hanging, Table
  <1>2. ProjectsSound' /\ DecompositionsSound' /\ MatchesSound' /\ RestSound'
    BY DEF Sound, ProjectsSound, DecompositionsSound, MatchesSound, RestSound, Hanging, Table
  <1>3. PlansSound'
    BY DEF Sound, PlansSound, Hanging, Table, OneSelectedPlan, SelectedPlans, OfProject
  <1> QED
    BY <1>1, <1>2, <1>3 DEF Sound

LEMMA PositionInserted ==
  ASSUME Sound, NEW p, NEW q \in PositionIds, NEW spec \in Specs, NEW planned \in Headcounts,
         positions_insert(p, q, spec, planned), UNCHANGED <<sleeping, active, recommendations>>
  PROVE  Sound'
  <1>1. NewPosition(p, spec, planned) \in PositionRow /\ p \in DOMAIN projects
    BY InputsAssumption DEF NewPosition, PositionRow, PositionStatus, positions_insert, Sound,
       ProjectsSound
  <1>2. project_positions' = Put(project_positions, q, NewPosition(p, spec, planned))
    BY DEF positions_insert, NewPosition
  <1>3. NewPosition(p, spec, planned).project_id = p
    BY DEF NewPosition
  <1>4. /\ DOMAIN project_positions' = DOMAIN project_positions \union {q}
        /\ project_positions'[q] = NewPosition(p, spec, planned)
        /\ \A x \in DOMAIN project_positions \ {q} : project_positions'[x] = project_positions[x]
        /\ project_positions' = [x \in DOMAIN project_positions' |-> project_positions'[x]]
    BY <1>2 DEF Put
  <1>5. \A x \in {q} : project_positions'[x].project_id = p /\ project_positions'[x] \in PositionRow
    BY <1>1, <1>3, <1>4
  <1>6. minted' = minted \union {q}
        /\ UNCHANGED <<projects, staffing_plans, position_decompositions, matches>>
    BY DEF positions_insert
  <1>7. {q} \in SUBSET PositionIds
    OBVIOUS
  <1> QED
    BY <1>1, <1>4, <1>5, <1>6, <1>7, PositionsGrow

LEMMA PositionsInserted ==
  ASSUME Sound, NEW p, NEW ids \in NewPositions, NEW items \in ItemsFor(ids),
         positions_bulkInsert(p, items), UNCHANGED <<sleeping, active, recommendations>>
  PROVE  Sound'
  <1>1. /\ ids \in SUBSET PositionIds /\ DOMAIN items = ids /\ p \in DOMAIN projects
        /\ \A q \in ids : items[q].spec \in Specs /\ items[q].planned \in Headcounts
    BY DEF NewPositions, ItemsFor, positions_bulkInsert
  <1>2. \A q \in ids : /\ NewPosition(p, items[q].spec, items[q].planned) \in PositionRow
                       /\ NewPosition(p, items[q].spec, items[q].planned).project_id = p
    BY <1>1, InputsAssumption DEF NewPosition, PositionRow, PositionStatus, Sound, ProjectsSound
  <1>3. project_positions' =
          [q \in DOMAIN project_positions \union ids |->
             IF q \in ids THEN NewPosition(p, items[q].spec, items[q].planned)
             ELSE project_positions[q]]
    BY <1>1 DEF positions_bulkInsert, NewPosition
  <1>4. /\ DOMAIN project_positions' = DOMAIN project_positions \union ids
        /\ \A q \in ids : project_positions'[q] = NewPosition(p, items[q].spec, items[q].planned)
        /\ \A x \in DOMAIN project_positions \ ids : project_positions'[x] = project_positions[x]
        /\ project_positions' = [x \in DOMAIN project_positions' |-> project_positions'[x]]
    BY <1>3
  <1>5. minted' = minted \union ids
        /\ UNCHANGED <<projects, staffing_plans, position_decompositions, matches>>
    BY <1>1 DEF positions_bulkInsert
  <1> QED
    BY <1>1, <1>2, <1>4, <1>5, PositionsGrow

LEMMA PositionUpdated ==
  ASSUME Sound, NEW q, NEW p, NEW spec \in Specs, NEW status \in PositionStatus,
         NEW planned \in Headcounts, NEW filled \in Filled,
         positions_update(q, p, spec, status, planned, filled), UNCHANGED <<sleeping, active, recommendations>>
  PROVE  Sound'
  <1>1. q \in DOMAIN project_positions /\ project_positions[q].project_id = p /\ p \in DOMAIN projects
    BY DEF positions_update, OfProject, Sound, PositionsSound, Hanging
  <1>2. [project_id |-> p, spec |-> spec, status |-> status, headcount_planned |-> planned,
         headcount_filled |-> filled] \in PositionRow
    BY <1>1, InputsAssumption DEF PositionRow, Sound, ProjectsSound
  <1>3. PositionsSound'
    <2> DEFINE row == [project_id |-> p, spec |-> spec, status |-> status,
                       headcount_planned |-> planned, headcount_filled |-> filled]
    <2>1. row \in PositionRow /\ row.project_id = p
      BY <1>2
    <2>2. project_positions' = [project_positions EXCEPT ![q] = row]
      BY DEF positions_update
    <2> HIDE DEF row
    <2> QED
      BY <1>1, <2>1, <2>2 DEF positions_update, Sound, PositionsSound, Hanging, Table
  <1>4. ProjectsSound' /\ DecompositionsSound' /\ MatchesSound' /\ RestSound'
    BY DEF positions_update, Sound, ProjectsSound, DecompositionsSound, MatchesSound, RestSound,
       Hanging, Table
  <1>5. PlansSound'
    BY DEF positions_update, Sound, PlansSound, Hanging, Table, OneSelectedPlan, SelectedPlans,
       OfProject
  <1> QED
    BY <1>3, <1>4, <1>5 DEF Sound

LEMMA PositionDeleted ==
  ASSUME Sound, NEW q, NEW p, positions_delete(q, p), UNCHANGED <<sleeping, active, recommendations>>
  PROVE  Sound'
  <1>1. PositionsSound'
    BY DEF positions_delete, Without, Restrict, Sound, PositionsSound, Hanging, Table
  <1>2. MatchesSound'
    BY DEF positions_delete, Without, Restrict, MatchesOf, Sound, MatchesSound, Table
  <1>3. ProjectsSound' /\ DecompositionsSound' /\ RestSound'
    BY DEF positions_delete, Sound, ProjectsSound, DecompositionsSound, RestSound, Hanging, Table
  <1>4. PlansSound'
    BY DEF positions_delete, Sound, PlansSound, Hanging, Table, OneSelectedPlan, SelectedPlans,
       OfProject
  <1> QED
    BY <1>1, <1>2, <1>3, <1>4 DEF Sound

-----------------------------------------------------------------------------
(* Staffing plans.                                                         *)

\* A call that writes the plans and nothing else but the ids it drew.
LEMMA PlansWritten ==
  ASSUME Sound, PlansSound', minted' = minted \/ \E plan \in PlanIds : minted' = minted \union {plan},
         UNCHANGED <<projects, project_positions, position_decompositions, matches, sleeping, active,
                     recommendations>>
  PROVE  Sound'
  BY DEF Sound, ProjectsSound, PositionsSound, DecompositionsSound, MatchesSound, RestSound,
     Hanging, Table

LEMMA PlanInserted ==
  ASSUME Sound, NEW p, NEW plan \in PlanIds, NEW positions \in PlanContents,
         plans_insert(p, plan, positions), UNCHANGED <<sleeping, active, recommendations>>
  PROVE  Sound'
  <1> DEFINE draft == [project_id |-> p, is_selected |-> FALSE, positions_json |-> positions]
  <1>1. draft \in PlanRow /\ draft.project_id = p /\ draft.is_selected = FALSE /\ p \in DOMAIN projects
    BY InputsAssumption DEF PlanRow, plans_insert, Sound, ProjectsSound
  <1>2. staffing_plans' = Put(staffing_plans, plan, draft) /\ plan \notin minted
    BY DEF plans_insert
  <1> HIDE DEF draft
  <1>3. /\ Table(PlanRow, staffing_plans')
        /\ DOMAIN staffing_plans' = DOMAIN staffing_plans \union {plan}
        /\ staffing_plans'[plan] = draft
        /\ \A x \in DOMAIN staffing_plans : staffing_plans'[x] = staffing_plans[x]
    <2>1. Table(PlanRow, staffing_plans) /\ plan \notin DOMAIN staffing_plans
      BY <1>2 DEF Sound, PlansSound
    <2>2. Table(PlanRow, staffing_plans')
      BY <1>1, <1>2, <2>1, PutTyped
    <2> QED
      BY <1>2, <2>1, <2>2 DEF Put
  <1>4. UNCHANGED projects
    BY DEF plans_insert
  <1>5. OneSelectedPlan'
    BY <1>1, <1>3, <1>4 DEF Sound, PlansSound, OneSelectedPlan, SelectedPlans, OfProject
  <1>6. PlansSound'
    BY <1>1, <1>3, <1>4, <1>5 DEF plans_insert, Sound, PlansSound, Hanging
  <1> QED
    BY <1>6, PlansWritten DEF plans_insert

LEMMA PlanUpdated ==
  ASSUME Sound, NEW p, NEW plan, NEW positions \in PlanContents,
         plans_update(plan, p, positions), UNCHANGED <<sleeping, active, recommendations>>
  PROVE  Sound'
  <1>1. /\ Table(PlanRow, staffing_plans') /\ DOMAIN staffing_plans' = DOMAIN staffing_plans
        /\ \A x \in DOMAIN staffing_plans :
             /\ staffing_plans'[x].project_id = staffing_plans[x].project_id
             /\ staffing_plans'[x].is_selected = staffing_plans[x].is_selected
    BY InputsAssumption DEF plans_update, OfProject, Sound, PlansSound, Table, PlanRow
  <1>2. UNCHANGED projects
    BY DEF plans_update
  <1>3. OneSelectedPlan'
    BY <1>1, <1>2 DEF Sound, PlansSound, OneSelectedPlan, SelectedPlans, OfProject
  <1>4. PlansSound'
    BY <1>1, <1>3 DEF plans_update, Sound, PlansSound, Hanging
  <1> QED
    BY <1>4, PlansWritten DEF plans_update

LEMMA PlanDeleted ==
  ASSUME Sound, NEW p, NEW plan, plans_delete(plan, p), UNCHANGED <<sleeping, active, recommendations>>
  PROVE  Sound'
  <1>1. /\ Table(PlanRow, staffing_plans') /\ DOMAIN staffing_plans' = DOMAIN staffing_plans \ {plan}
        /\ \A x \in DOMAIN staffing_plans' : staffing_plans'[x] = staffing_plans[x]
    BY DEF plans_delete, Without, Restrict, Sound, PlansSound, Table
  <1>2. UNCHANGED projects
    BY DEF plans_delete
  <1>3. OneSelectedPlan'
    BY <1>1, <1>2 DEF Sound, PlansSound, OneSelectedPlan, SelectedPlans, OfProject
  <1>4. PlansSound'
    BY <1>1, <1>3 DEF plans_delete, Sound, PlansSound, Hanging
  <1> QED
    BY <1>4, PlansWritten DEF plans_delete

\* Both statements of the transaction: of the project's plans, this one.
LEMMA PlanSelected ==
  ASSUME Sound, NEW p, NEW plan, plans_setSelected(plan, p), UNCHANGED <<sleeping, active, recommendations>>
  PROVE  Sound'
  <1>1. /\ Table(PlanRow, staffing_plans') /\ DOMAIN staffing_plans' = DOMAIN staffing_plans
        /\ \A x \in DOMAIN staffing_plans :
             /\ staffing_plans'[x].project_id = staffing_plans[x].project_id
             /\ staffing_plans'[x].is_selected <=>
                  IF staffing_plans[x].project_id = p THEN x = plan
                  ELSE staffing_plans[x].is_selected
    <2>1. \A x \in DOMAIN staffing_plans :
            LET row == [staffing_plans[x] EXCEPT !.is_selected = (x = plan)]
            IN  /\ row \in PlanRow /\ row.project_id = staffing_plans[x].project_id
                /\ row.is_selected <=> x = plan
      BY Zenon DEF Sound, PlansSound, Table, PlanRow
    <2>2. /\ Table(PlanRow, staffing_plans)
          /\ staffing_plans' = [x \in DOMAIN staffing_plans |->
                IF staffing_plans[x].project_id = p
                THEN [staffing_plans[x] EXCEPT !.is_selected = (x = plan)]
                ELSE staffing_plans[x]]
      BY DEF plans_setSelected, Sound, PlansSound
    <2>3. Table(PlanRow, staffing_plans') /\ DOMAIN staffing_plans' = DOMAIN staffing_plans
      BY <2>1, <2>2 DEF Table
    <2>4. ASSUME NEW x \in DOMAIN staffing_plans
          PROVE  /\ staffing_plans'[x].project_id = staffing_plans[x].project_id
                 /\ staffing_plans'[x].is_selected <=>
                      IF staffing_plans[x].project_id = p THEN x = plan
                      ELSE staffing_plans[x].is_selected
      <3>1. CASE staffing_plans[x].project_id = p
        <4>1. staffing_plans'[x] = [staffing_plans[x] EXCEPT !.is_selected = (x = plan)]
          BY <2>2, <3>1
        <4> QED
          BY <2>1, <3>1, <4>1, Zenon
      <3>2. CASE staffing_plans[x].project_id # p
        <4>1. staffing_plans'[x] = staffing_plans[x]
          BY <2>2, <3>2
        <4> QED
          BY <3>2, <4>1
      <3> QED
        BY <3>1, <3>2
    <2> QED
      BY <2>3, <2>4
  <1>2. OneSelectedPlan'
    <2> SUFFICES ASSUME NEW o \in DOMAIN projects', NEW a \in SelectedPlans(o)',
                        NEW b \in SelectedPlans(o)'
                 PROVE  a = b
      BY DEF OneSelectedPlan
    <2>1. /\ UNCHANGED projects
          /\ a \in DOMAIN staffing_plans /\ staffing_plans[a].project_id = o
          /\ b \in DOMAIN staffing_plans /\ staffing_plans[b].project_id = o
          /\ staffing_plans'[a].is_selected /\ staffing_plans'[b].is_selected
      BY <1>1 DEF plans_setSelected, SelectedPlans, OfProject
    <2>2. CASE o = p
      BY <1>1, <2>1, <2>2
    <2>3. CASE o # p
      <3>1. staffing_plans[a].is_selected /\ staffing_plans[b].is_selected
        BY <1>1, <2>1, <2>3
      <3> QED
        BY <2>1, <3>1 DEF Sound, PlansSound, OneSelectedPlan, SelectedPlans, OfProject
    <2> QED
      BY <2>2, <2>3
  <1>3. PlansSound'
    BY <1>1, <1>2 DEF plans_setSelected, Sound, PlansSound, Hanging
  <1> QED
    BY <1>3, PlansWritten DEF plans_setSelected

-----------------------------------------------------------------------------
(* Decompositions and matches.                                             *)

\* The call keeps what it read and, in the code, draws its id later.
LEMMA DecomposeSleeps ==
  ASSUME Sound, NEW u, NEW p \in ProjectIds, decomposeProject(u, p)
  PROVE  Sound'
  <1>1. PICK d \in DecompositionIds \ minted :
          /\ sleeping' = Put(sleeping, d, [project_id |-> p, source_text |-> projects[p].target])
          /\ minted' = minted \union {d}
    BY DEF decomposeProject
  <1>2. projects[p].target \in Targets
    BY DEF decomposeProject, owns, Sound, ProjectsSound, Table, ProjectRow
  <1>3. RestSound'
    <2>1. [project_id |-> p, source_text |-> projects[p].target] \in
            [project_id : ProjectIds, source_text : Targets]
      BY <1>2
    <2>2. Table([project_id : ProjectIds, source_text : Targets], sleeping')
      BY <1>1, <2>1, PutTyped DEF Sound, RestSound
    <2>3. DOMAIN sleeping' = DOMAIN sleeping \union {d}
      BY <1>1 DEF Put
    <2> QED
      BY <1>1, <2>2, <2>3 DEF decomposeProject, Sound, RestSound
  <1>4. ProjectsSound' /\ PositionsSound' /\ DecompositionsSound' /\ MatchesSound'
    BY <1>1 DEF decomposeProject, Sound, ProjectsSound, PositionsSound, DecompositionsSound,
       MatchesSound, Hanging, Table
  <1>5. PlansSound'
    BY <1>1 DEF decomposeProject, Sound, PlansSound, Hanging, Table, OneSelectedPlan,
       SelectedPlans, OfProject
  <1> QED
    BY <1>3, <1>4, <1>5 DEF Sound

\* It wakes up to a project that is there, or writes nothing.
LEMMA DecomposeWakes ==
  ASSUME Sound, NEW d, decomposeWakes(d)
  PROVE  Sound'
  <1> DEFINE row == [project_id |-> sleeping[d].project_id,
                     source_text |-> sleeping[d].source_text,
                     positions_json |-> decomposePositions(sleeping[d].source_text)]
  <1>1. /\ d \in DecompositionIds \intersect minted
        /\ sleeping[d] \in [project_id : ProjectIds, source_text : Targets]
    BY DEF decomposeWakes, Sound, RestSound, Table
  <1>2. row \in DecompositionRow /\ row.project_id = sleeping[d].project_id
    BY <1>1, InputsAssumption DEF DecompositionRow, decomposePositions
  <1>3. \/ /\ row.project_id \in DOMAIN projects
           /\ position_decompositions' = Put(position_decompositions, d, row)
        \/ UNCHANGED position_decompositions
    BY DEF decomposeWakes, decompositions_insert, tables
  <1>4. UNCHANGED <<projects, project_positions, staffing_plans, matches, minted, active>>
    BY DEF decomposeWakes, decompositions_insert, tables
  <1> HIDE DEF row
  <1>5. DecompositionsSound'
    <2>1. CASE UNCHANGED position_decompositions
      BY <1>4, <2>1 DEF Sound, DecompositionsSound, Hanging, Table
    <2>2. CASE /\ row.project_id \in DOMAIN projects
               /\ position_decompositions' = Put(position_decompositions, d, row)
      <3>1. Table(DecompositionRow, position_decompositions')
        BY <1>2, <2>2, PutTyped DEF Sound, DecompositionsSound
      <3>2. /\ DOMAIN position_decompositions' = DOMAIN position_decompositions \union {d}
            /\ \A x \in DOMAIN position_decompositions' :
                 position_decompositions'[x] = row \/
                   (x \in DOMAIN position_decompositions
                      /\ position_decompositions'[x] = position_decompositions[x])
        BY <2>2 DEF Put
      <3> QED
        BY <1>1, <1>4, <2>2, <3>1, <3>2 DEF Sound, DecompositionsSound, Hanging
    <2> QED
      BY <1>3, <2>1, <2>2
  <1>6. RestSound'
    <2>1. sleeping' = Without(sleeping, {d})
      BY DEF decomposeWakes
    <2>2. Table([project_id : ProjectIds, source_text : Targets], sleeping')
      BY <2>1, WithoutTyped DEF Sound, RestSound
    <2>3. DOMAIN sleeping' = DOMAIN sleeping \ {d}
      BY <2>1 DEF Without, Restrict
    <2> QED
      BY <1>4, <2>2, <2>3 DEF Sound, RestSound
  <1>7. ProjectsSound' /\ PositionsSound' /\ MatchesSound'
    BY <1>4 DEF Sound, ProjectsSound, PositionsSound, MatchesSound, Hanging, Table
  <1>8. PlansSound'
    BY <1>4 DEF Sound, PlansSound, Hanging, Table, OneSelectedPlan, SelectedPlans, OfProject
  <1> QED
    BY <1>5, <1>6, <1>7, <1>8 DEF Sound

\* What a recomputation writes: a row per active candidate with a profile.
LEMMA RecomputeIs ==
  ASSUME Sound, NEW u, NEW q, recomputeMatches(u, q)
  PROVE  \E scores :
           /\ DOMAIN scores = listAllCandidateProfiles
           /\ \A c \in listAllCandidateProfiles :
                \E profile \in ProfilesOf[c] :
                  scores[c] = calculateMatch(project_positions[q].spec, profile)
           /\ matches_upsertMany(q, scores)
  <1>1. PICK profile \in [listAllCandidateProfiles -> Profiles] :
          /\ \A c \in DOMAIN profile : profile[c] \in ProfilesOf[c]
          /\ matches_upsertMany(q,
               [c \in DOMAIN profile |->
                  calculateMatch(project_positions[q].spec, profile[c])])
    BY DEF recomputeMatches
  <1> DEFINE scores == [c \in DOMAIN profile |->
                          calculateMatch(project_positions[q].spec, profile[c])]
  <1>2. /\ DOMAIN scores = listAllCandidateProfiles
        /\ \A c \in listAllCandidateProfiles :
             /\ profile[c] \in ProfilesOf[c]
             /\ scores[c] = calculateMatch(project_positions[q].spec, profile[c])
    BY <1>1
  <1>3. matches_upsertMany(q, scores)
    BY <1>1
  <1> HIDE DEF scores
  <1> QED
    BY <1>2, <1>3

LEMMA Recomputed ==
  ASSUME Sound, NEW u, NEW q, recomputeMatches(u, q)
  PROVE  Sound'
  <1>1. PICK scores :
          /\ DOMAIN scores = listAllCandidateProfiles
          /\ \A c \in listAllCandidateProfiles :
               \E profile \in ProfilesOf[c] :
                 scores[c] = calculateMatch(project_positions[q].spec, profile)
          /\ matches_upsertMany(q, scores)
    BY RecomputeIs
  <1>2. q \in DOMAIN project_positions /\ q \in PositionIds /\ project_positions[q].spec \in Specs
    BY DEF recomputeMatches, ownsRow, Sound, PositionsSound, Table, PositionRow
  <1>3. DOMAIN scores \subseteq Candidates
    BY <1>1 DEF listAllCandidateProfiles, Sound, RestSound
  <1>4. \A c \in DOMAIN scores : scores[c] \in 10..98
    BY <1>1, <1>2, <1>3, ScoresAreBounded, InputsAssumption
  <1>5. MatchesSound'
    <2>1. /\ DOMAIN matches' = DOMAIN matches \union ({q} \X DOMAIN scores)
          /\ \A m \in DOMAIN matches' :
               matches'[m] = IF m[1] = q /\ m[2] \in DOMAIN scores THEN scores[m[2]] ELSE matches[m]
          /\ matches' = [m \in DOMAIN matches' |-> matches'[m]]
          /\ UNCHANGED project_positions
      BY <1>1 DEF matches_upsertMany
    <2>2. \A m \in DOMAIN matches' :
            /\ m \in PositionIds \X Candidates /\ m[1] \in DOMAIN project_positions
            /\ matches'[m] \in 10..98
      BY <1>2, <1>3, <1>4, <2>1 DEF Sound, MatchesSound, Table
    <2> QED
      BY <2>1, <2>2 DEF MatchesSound, Table
  <1>6. UNCHANGED <<projects, project_positions, staffing_plans, position_decompositions, minted,
                    sleeping, active>>
    BY <1>1 DEF matches_upsertMany, recomputeMatches
  <1>7. ProjectsSound' /\ PositionsSound' /\ DecompositionsSound' /\ RestSound'
    BY <1>6 DEF Sound, ProjectsSound, PositionsSound, DecompositionsSound, RestSound, Hanging, Table
  <1>8. PlansSound'
    BY <1>6 DEF Sound, PlansSound, Hanging, Table, OneSelectedPlan, SelectedPlans, OfProject
  <1> QED
    BY <1>5, <1>7, <1>8 DEF Sound

-----------------------------------------------------------------------------
(* Every call, and the rest.                                               *)

LEMMA CallStep ==
  ASSUME Sound, NEW u \in Users, Calls(u)
  PROVE  Sound'
  <1>1. CASE createProject(u)
    BY <1>1, ProjectInserted DEF createProject, assertPm
  <1>2. ASSUME NEW p \in ProjectIds,
               updateProject(u, p) \/ deleteProject(u, p) \/ createPosition(u, p)
                 \/ createPlan(u, p) \/ decomposeProject(u, p)
        PROVE  Sound'
    BY <1>2, ProjectUpdated, ProjectDeleted, PositionInserted, PlanInserted, DecomposeSleeps
       DEF updateProject, deleteProject, createPosition, createPlan, assertPm
  <1>3. ASSUME NEW p \in ProjectIds, NEW d, bulkCreate(u, p) \/ commitDecomposition(u, p, d)
        PROVE  Sound'
    BY <1>3, PositionsInserted DEF bulkCreate, commitDecomposition
  <1>4. ASSUME NEW q \in PositionIds,
               updatePosition(u, q) \/ deletePosition(u, q) \/ recomputeMatches(u, q)
        PROVE  Sound'
    BY <1>4, PositionUpdated, PositionDeleted, Recomputed DEF updatePosition, deletePosition
  <1>5. ASSUME NEW plan \in PlanIds,
               updatePlan(u, plan) \/ deletePlan(u, plan) \/ setSelectedPlan(u, plan)
        PROVE  Sound'
    BY <1>5, PlanUpdated, PlanDeleted, PlanSelected DEF updatePlan, deletePlan, setSelectedPlan
  <1> QED
    BY <1>1, <1>2, <1>3, <1>4, <1>5 DEF Calls

\* The tables stay, whoever is active and whatever calls a restart cuts off.
LEMMA TablesStay ==
  ASSUME Sound, UNCHANGED tables, RestSound'
  PROVE  Sound'
  BY DEF tables, Sound, ProjectsSound, PositionsSound, PlansSound, DecompositionsSound,
     MatchesSound, Hanging, Table, OneSelectedPlan, SelectedPlans, OfProject

LEMMA StepPreserves == Sound /\ [Next]_vars => Sound'
  <1>1. ASSUME Sound, UNCHANGED vars PROVE Sound'
    BY <1>1, TablesStay DEF vars, tables, Sound, RestSound, Table
  <1>2. ASSUME Sound, NEW c \in Leaving, CandidateStatusChanges(c) PROVE Sound'
    BY <1>2, TablesStay, InputsAssumption DEF CandidateStatusChanges, tables, Sound, RestSound, Table
  <1>3. ASSUME Sound, Restart PROVE Sound'
    BY <1>3, TablesStay DEF Restart, tables, Sound, RestSound, Table
  <1>4. ASSUME Sound, NEW r \in RecommendationIds, RecommendationMade(r) \/ RecommendationPickedUp(r)
        PROVE  Sound'
    <2>1. UNCHANGED <<tables, sleeping, active>>
      BY <1>4 DEF RecommendationMade, RecommendationPickedUp
    <2> QED
      BY <1>4, <2>1, TablesStay DEF tables, Sound, RestSound, Table
  <1> QED
    BY <1>1, <1>2, <1>3, <1>4, CallStep, DecomposeWakes DEF Next

LEMMA RecommendationsStep == RecommendationsSound /\ [Next]_vars => RecommendationsSound'
  <1> SUFFICES ASSUME RecommendationsSound, [Next]_vars PROVE RecommendationsSound'
    OBVIOUS
  <1>1. CASE UNCHANGED recommendations
    BY <1>1 DEF RecommendationsSound, Table
  <1>2. ASSUME NEW r \in RecommendationIds, RecommendationMade(r)
        PROVE  RecommendationsSound'
    BY <1>2 DEF RecommendationMade, RecommendationsSound, Table, Put
  <1>3. ASSUME NEW r \in RecommendationIds, RecommendationPickedUp(r)
        PROVE  RecommendationsSound'
    BY <1>3 DEF RecommendationPickedUp, RecommendationsSound, Table
  <1>4. ASSUME NEW u \in Users, Calls(u) PROVE UNCHANGED recommendations
    BY <1>4 DEF Calls, createProject, updateProject, deleteProject, createPosition, updatePosition,
       deletePosition, bulkCreate, createPlan, updatePlan, deletePlan, setSelectedPlan,
       decomposeProject, commitDecomposition, recomputeMatches
  <1>5. ASSUME NEW x, decomposeWakes(x) \/ CandidateStatusChanges(x) \/ Restart
        PROVE  UNCHANGED recommendations
    BY <1>5 DEF decomposeWakes, CandidateStatusChanges, Restart
  <1>6. CASE UNCHANGED vars
    BY <1>1, <1>6 DEF vars
  <1> QED
    BY <1>1, <1>2, <1>3, <1>4, <1>5, <1>6 DEF Next

\* The tables are typed, whole and have one selected plan a project, whichever
\* calls run while a decomposition sleeps, and after every restart.
THEOREM Invariance == Spec => []IInv
  <1>1. Init => RecommendationsSound
    BY DEF Init, RecommendationsSound, Table
  <1>2. Spec => [](Sound /\ RecommendationsSound)
    BY <1>1, InitSound, StepPreserves, RecommendationsStep, PTL DEF Spec
  <1> QED
    BY <1>2, SoundIsIInv, PTL

\* Every table of the workbench holds rows of its schema under ids that were
\* drawn for it, and every score lies between 10 and 98, for whatever columns
\* positions and profiles have.
THEOREM TypeCorrect == Spec => []TypeOK
  BY Invariance, PTL DEF IInv

\* The cascades of deleteProject and deletePosition miss nothing, and the foreign
\* key stops the decomposition whose project was deleted while it slept.
THEOREM NothingDangles == Spec => []NoDanglingRows
  BY Invariance, PTL DEF IInv

\* The default plan, insertions, deletions and setSelected leave a project with
\* one selected plan at most.
THEOREM OnePlanIsSelected == Spec => []OneSelectedPlan
  BY Invariance, PTL DEF IInv

-----------------------------------------------------------------------------
(* Recomputations.                                                         *)

row(q, c) == IF <<q, c>> \in DOMAIN matches THEN {matches[<<q, c>>]} ELSE {}

\* Every active candidate with a profile has the score of one of its profiles.
Ranked(q) ==
  \A c \in listAllCandidateProfiles :
    row(q, c)' \in {{calculateMatch(project_positions[q].spec, profile)} :
                      profile \in ProfilesOf[c]}

\* No other call changes a score: the deletions take rows away with their
\* positions.
LEMMA ScoresStay ==
  ASSUME Sound, Next, \A u \in Users, q \in PositionIds : ~recomputeMatches(u, q),
         NEW q \in DOMAIN project_positions \intersect DOMAIN project_positions', NEW c
  PROVE  row(q, c)' = row(q, c)
  <1>1. CASE UNCHANGED matches
    BY <1>1 DEF row
  <1>2. ASSUME NEW ids, q \notin ids, matches' = Without(matches, MatchesOf(ids))
        PROVE  row(q, c)' = row(q, c)
    <2>1. /\ DOMAIN matches' = DOMAIN matches \ MatchesOf(ids)
          /\ \A m \in DOMAIN matches \ MatchesOf(ids) : matches'[m] = matches[m]
      BY <1>2, WithoutIs
    <2>2. <<q, c>> \notin MatchesOf(ids)
      BY <1>2 DEF MatchesOf
    <2> QED
      BY <2>1, <2>2 DEF row
  <1>3. ASSUME NEW u \in Users, NEW p \in ProjectIds, deleteProject(u, p)
        PROVE  row(q, c)' = row(q, c)
    <2>1. q \notin OfProject(project_positions, p)
      BY <1>3 DEF deleteProject, projects_delete, Without, Restrict
    <2> QED
      BY <1>2, <1>3, <2>1 DEF deleteProject, projects_delete
  <1>4. ASSUME NEW u \in Users, NEW x \in PositionIds, deletePosition(u, x)
        PROVE  row(q, c)' = row(q, c)
    <2>1. q \notin {x}
      BY <1>4 DEF deletePosition, positions_delete, Without, Restrict
    <2> QED
      BY <1>2, <1>4, <2>1 DEF deletePosition, positions_delete
  <1>5. ASSUME NEW u \in Users, Calls(u),
               \A p \in ProjectIds : ~deleteProject(u, p),
               \A x \in PositionIds : ~deletePosition(u, x)
        PROVE  UNCHANGED matches
    <2>1. CASE createProject(u)
      BY <2>1 DEF createProject, projects_insert
    <2>2. ASSUME NEW p, NEW d, \/ updateProject(u, p) \/ createPosition(u, p) \/ bulkCreate(u, p)
                               \/ createPlan(u, p) \/ decomposeProject(u, p)
                               \/ commitDecomposition(u, p, d)
          PROVE  UNCHANGED matches
      BY <2>2 DEF updateProject, projects_update, createPosition, positions_insert, bulkCreate,
         createPlan, plans_insert, decomposeProject, commitDecomposition, positions_bulkInsert
    <2>3. ASSUME NEW x, updatePosition(u, x) \/ updatePlan(u, x) \/ deletePlan(u, x)
                          \/ setSelectedPlan(u, x)
          PROVE  UNCHANGED matches
      BY <2>3 DEF updatePosition, positions_update, updatePlan, plans_update, deletePlan,
         plans_delete, setSelectedPlan, plans_setSelected
    <2> QED
      BY <1>5, <2>1, <2>2, <2>3 DEF Calls
  <1>6. ASSUME NEW x, decomposeWakes(x) \/ CandidateStatusChanges(x) \/ Restart
                        \/ RecommendationMade(x) \/ RecommendationPickedUp(x)
        PROVE  UNCHANGED matches
    BY <1>6 DEF decomposeWakes, decompositions_insert, CandidateStatusChanges, Restart,
       RecommendationMade, RecommendationPickedUp, tables
  <1> QED
    BY <1>1, <1>3, <1>4, <1>5, <1>6 DEF Next

\* One transaction writes the whole ranking, whatever was there before: no
\* candidate it ranks keeps a score against what the position was.
THEOREM RankingIsWhole == Spec => RecomputeIsComplete
  <1> DEFINE Whole == \A q \in DOMAIN project_positions \intersect DOMAIN project_positions' :
               (\E c \in Candidates : row(q, c)' # row(q, c)) => Ranked(q)
  <1>1. ASSUME Sound, NEW u \in Users, NEW x \in PositionIds, recomputeMatches(u, x),
               NEW q \in DOMAIN project_positions, NEW c, row(q, c)' # row(q, c)
        PROVE  Ranked(q)
    <2>1. PICK scores :
            /\ DOMAIN scores = listAllCandidateProfiles
            /\ \A d \in listAllCandidateProfiles :
                 \E profile \in ProfilesOf[d] :
                   scores[d] = calculateMatch(project_positions[x].spec, profile)
            /\ matches_upsertMany(x, scores)
      BY <1>1, RecomputeIs
    <2>2. /\ DOMAIN matches' = DOMAIN matches \union ({x} \X DOMAIN scores)
          /\ \A m \in DOMAIN matches' :
               matches'[m] = IF m[1] = x /\ m[2] \in DOMAIN scores THEN scores[m[2]] ELSE matches[m]
      BY <2>1 DEF matches_upsertMany
    <2>3. q = x
      <3> SUFFICES ASSUME q # x PROVE FALSE
        OBVIOUS
      <3>1. <<q, c>> \in DOMAIN matches' <=> <<q, c>> \in DOMAIN matches
        BY <2>2
      <3>2. <<q, c>> \in DOMAIN matches' => matches'[<<q, c>>] = matches[<<q, c>>]
        BY <2>2
      <3> QED
        BY <1>1, <3>1, <3>2 DEF row
    <2>4. ASSUME NEW d \in listAllCandidateProfiles PROVE row(q, d)' = {scores[d]}
      <3>1. <<q, d>> \in DOMAIN matches'
        BY <2>1, <2>2, <2>3
      <3>2. matches'[<<q, d>>] = scores[d]
        BY <2>1, <2>2, <2>3, <3>1
      <3> QED
        BY <3>1, <3>2 DEF row
    <2> QED
      BY <2>1, <2>3, <2>4 DEF Ranked
  <1>2. Sound /\ [Next]_vars => [Whole]_vars
    <2>1. ASSUME Sound, Next,
                 NEW q \in DOMAIN project_positions \intersect DOMAIN project_positions',
                 NEW c \in Candidates, row(q, c)' # row(q, c)
          PROVE  Ranked(q)
      BY <1>1, <2>1, ScoresStay
    <2> QED
      BY <2>1
  <1>3. Spec => []Sound
    BY InitSound, StepPreserves, PTL DEF Spec
  <1>4. [Whole]_vars => [\A q \in DOMAIN project_positions \intersect DOMAIN project_positions' :
          LET r(c) == IF <<q, c>> \in DOMAIN matches THEN {matches[<<q, c>>]} ELSE {}
          IN  (\E c \in Candidates : r(c)' # r(c)) =>
                \A c \in listAllCandidateProfiles :
                  r(c)' \in {{calculateMatch(project_positions[q].spec, profile)} :
                               profile \in ProfilesOf[c]}]_vars
    BY DEF row, Ranked
  <1> QED
    BY <1>2, <1>3, <1>4, PTL DEF Spec, RecomputeIsComplete

-----------------------------------------------------------------------------
(* Selections.                                                             *)

\* The plans that stay are selected as before.
SelectionsStay ==
  \A x \in DOMAIN staffing_plans \intersect DOMAIN staffing_plans' :
    /\ staffing_plans'[x].project_id = staffing_plans[x].project_id
    /\ staffing_plans'[x].is_selected = staffing_plans[x].is_selected

Survives(p) ==
  SelectedPlans(p) # {} =>
    \/ SelectedPlans(p)' # {}
    \/ \E plan \in SelectedPlans(p) : plan \notin DOMAIN staffing_plans'

LEMMA StayingSurvives ==
  ASSUME SelectionsStay, NEW p
  PROVE  Survives(p)
  BY DEF SelectionsStay, Survives, SelectedPlans, OfProject

LEMMA PlanAddedStays ==
  ASSUME NEW plan, plan \notin DOMAIN staffing_plans, NEW new,
         staffing_plans' = Put(staffing_plans, plan, new)
  PROVE  SelectionsStay
  BY DEF Put, SelectionsStay

LEMMA PlansRemovedStay ==
  ASSUME NEW ids, staffing_plans' = Without(staffing_plans, ids)
  PROVE  SelectionsStay
  BY DEF Without, Restrict, SelectionsStay

LEMMA SelectionSurvivesStep ==
  ASSUME Sound, Next, NEW p
  PROVE  Survives(p)
  <1>1. CASE UNCHANGED staffing_plans
    BY <1>1, StayingSurvives DEF SelectionsStay
  <1>2. ASSUME NEW u \in Users, createProject(u)
        PROVE  SelectionsStay
    BY <1>2, PlanAddedStays DEF createProject, projects_insert, Sound, PlansSound
  <1>3. ASSUME NEW u \in Users, NEW o \in ProjectIds, deleteProject(u, o)
        PROVE  SelectionsStay
    BY <1>3, PlansRemovedStay DEF deleteProject, projects_delete
  <1>4. ASSUME NEW u \in Users, NEW o \in ProjectIds, createPlan(u, o)
        PROVE  SelectionsStay
    BY <1>4, PlanAddedStays DEF createPlan, plans_insert, Sound, PlansSound
  <1>5. ASSUME NEW u \in Users, NEW plan \in PlanIds, deletePlan(u, plan)
        PROVE  SelectionsStay
    BY <1>5, PlansRemovedStay DEF deletePlan, plans_delete
  <1>6. ASSUME NEW u \in Users, NEW plan \in PlanIds, updatePlan(u, plan)
        PROVE  SelectionsStay
    BY <1>6 DEF updatePlan, plans_update, SelectionsStay, Sound, PlansSound, Table, PlanRow
  <1>7. ASSUME NEW u \in Users, NEW plan \in PlanIds, setSelectedPlan(u, plan)
        PROVE  Survives(p)
    <2>1. /\ plan \in DOMAIN staffing_plans
          /\ staffing_plans' = [x \in DOMAIN staffing_plans |->
               IF staffing_plans[x].project_id = staffing_plans[plan].project_id
               THEN [staffing_plans[x] EXCEPT !.is_selected = (x = plan)]
               ELSE staffing_plans[x]]
      BY <1>7 DEF setSelectedPlan, plans_setSelected, ownsRow
    <2>2. CASE staffing_plans[plan].project_id = p
      <3>1. staffing_plans[plan] \in PlanRow
        BY <2>1 DEF Sound, PlansSound, Table
      <3>2. staffing_plans'[plan] = [staffing_plans[plan] EXCEPT !.is_selected = (plan = plan)]
        BY <2>1
      <3>3. staffing_plans'[plan].project_id = p /\ staffing_plans'[plan].is_selected
        BY <2>2, <3>1, <3>2 DEF PlanRow
      <3> QED
        BY <2>1, <3>3 DEF Survives, SelectedPlans, OfProject
    <2>3. CASE staffing_plans[plan].project_id # p
      <3>1. \A x \in DOMAIN staffing_plans : staffing_plans[x].project_id = p =>
              x \in DOMAIN staffing_plans' /\ staffing_plans'[x] = staffing_plans[x]
        BY <2>1, <2>3
      <3> QED
        BY <3>1 DEF Survives, SelectedPlans, OfProject
    <2> QED
      BY <2>2, <2>3
  <1>8. ASSUME NEW u \in Users, NEW o, NEW d, \/ updateProject(u, o) \/ createPosition(u, o)
                                              \/ bulkCreate(u, o) \/ decomposeProject(u, o)
                                              \/ commitDecomposition(u, o, d)
        PROVE  UNCHANGED staffing_plans
    BY <1>8 DEF updateProject, projects_update, createPosition, positions_insert, bulkCreate,
       decomposeProject, commitDecomposition, positions_bulkInsert
  <1>9. ASSUME NEW u \in Users, NEW x, updatePosition(u, x) \/ deletePosition(u, x)
                                        \/ recomputeMatches(u, x)
        PROVE  UNCHANGED staffing_plans
    BY <1>9 DEF updatePosition, positions_update, deletePosition, positions_delete,
       recomputeMatches, matches_upsertMany
  <1>10. ASSUME NEW x, decomposeWakes(x) \/ CandidateStatusChanges(x) \/ Restart
                         \/ RecommendationMade(x) \/ RecommendationPickedUp(x)
         PROVE  UNCHANGED staffing_plans
    BY <1>10 DEF decomposeWakes, decompositions_insert, CandidateStatusChanges, Restart,
       RecommendationMade, RecommendationPickedUp, tables
  <1> QED
    BY <1>1, <1>2, <1>3, <1>4, <1>5, <1>6, <1>7, <1>8, <1>9, <1>10, StayingSurvives DEF Next, Calls

\* setSelected takes the selection from one plan and gives it to another in one
\* transaction, and nothing else takes it away but the deletion of the plan.
THEOREM SelectionIsKept == Spec => SelectionSurvives
  <1> DEFINE Kept == \A p \in DOMAIN projects \intersect DOMAIN projects' :
               SelectedPlans(p) # {} =>
                 \/ SelectedPlans(p)' # {}
                 \/ \E plan \in SelectedPlans(p) : plan \notin DOMAIN staffing_plans'
  <1>1. Sound /\ [Next]_vars => [Kept]_vars
    BY SelectionSurvivesStep DEF Survives
  <1>2. Spec => []Sound
    BY InitSound, StepPreserves, PTL DEF Spec
  <1> QED
    BY <1>1, <1>2, PTL DEF Spec, SelectionSurvives

-----------------------------------------------------------------------------
(* Managers.                                                               *)

\* From `table` to `next` nothing happens outside project p.
Elsewhere(table, next, p) ==
  /\ \A x \in DOMAIN table : table[x].project_id # p => x \in DOMAIN next /\ next[x] = table[x]
  /\ \A x \in DOMAIN next : next[x].project_id # p => x \in DOMAIN table /\ next[x] = table[x]

\* The step stays within project p, and p is and remains u's.
WorksOn(u, p) ==
  /\ DOMAIN projects \ {p} = DOMAIN projects' \ {p}
  /\ \A x \in DOMAIN projects \ {p} : projects'[x] = projects[x]
  /\ p \in DOMAIN projects => projects[p].pm_user_id = u
  /\ p \in DOMAIN projects' => projects'[p].pm_user_id = u
  /\ Elsewhere(project_positions, project_positions', p)
  /\ Elsewhere(staffing_plans, staffing_plans', p)
  /\ Elsewhere(position_decompositions, position_decompositions', p)
  /\ \A m \in DOMAIN matches \union DOMAIN matches' :
       m[1] \in DOMAIN project_positions /\ project_positions[m[1]].project_id # p =>
         /\ m \in DOMAIN matches /\ m \in DOMAIN matches'
         /\ matches'[m] = matches[m]

LEMMA AddedIsElsewhere ==
  ASSUME NEW table, NEW p, NEW id, id \notin DOMAIN table, NEW new, new.project_id = p
  PROVE  Elsewhere(table, Put(table, id, new), p)
  BY DEF Elsewhere, Put

LEMMA ChangedIsElsewhere ==
  ASSUME NEW table, NEW p, NEW id \in DOMAIN table, table[id].project_id = p,
         NEW new, new.project_id = p
  PROVE  Elsewhere(table, [table EXCEPT ![id] = new], p)
  BY DEF Elsewhere

LEMMA RemovedIsElsewhere ==
  ASSUME NEW table, NEW p, NEW ids, \A x \in DOMAIN table \intersect ids : table[x].project_id = p
  PROVE  Elsewhere(table, Without(table, ids), p)
  BY DEF Elsewhere, Without, Restrict

LEMMA SameIsElsewhere ==
  ASSUME NEW table, NEW p
  PROVE  Elsewhere(table, table, p)
  BY DEF Elsewhere

\* The rows of a table that are v's, through their projects.
mine(v, table) == {x \in DOMAIN table : table[x].project_id \in ProjectsOf(v)}

LEMMA OthersElsewhere ==
  ASSUME NEW S, NEW p, p \notin S, NEW table, NEW next, Elsewhere(table, next, p)
  PROVE  /\ {x \in DOMAIN next : next[x].project_id \in S}
              = {x \in DOMAIN table : table[x].project_id \in S}
         /\ \A x \in DOMAIN table : table[x].project_id \in S => next[x] = table[x]
  <1>1. \A x \in DOMAIN next : next[x].project_id \in S =>
          x \in DOMAIN table /\ table[x].project_id \in S
    BY DEF Elsewhere
  <1>2. \A x \in DOMAIN table : table[x].project_id \in S =>
          x \in DOMAIN next /\ next[x] = table[x]
    BY DEF Elsewhere
  <1> QED
    BY <1>1, <1>2

\* Who is not the owner of p has the same rows before and after.
LEMMA OthersKeepTheirs ==
  ASSUME Sound, NEW u, NEW p, WorksOn(u, p), NEW v \in PMs, v # u
  PROVE  BelongingTo(v)' = BelongingTo(v)
  <1>1. ProjectsOf(v)' = ProjectsOf(v)
    BY DEF WorksOn, ProjectsOf, owns
  <1>2. p \notin ProjectsOf(v)
    BY DEF WorksOn, ProjectsOf, owns
  <1>3. Restrict(projects, ProjectsOf(v))' = Restrict(projects, ProjectsOf(v))
    BY <1>1, <1>2 DEF WorksOn, Restrict, ProjectsOf
  <1>4. mine(v, project_positions)' = mine(v, project_positions)
        /\ \A x \in mine(v, project_positions) : project_positions'[x] = project_positions[x]
    BY <1>1, <1>2, OthersElsewhere DEF WorksOn, mine
  <1>5. mine(v, staffing_plans)' = mine(v, staffing_plans)
        /\ \A x \in mine(v, staffing_plans) : staffing_plans'[x] = staffing_plans[x]
    BY <1>1, <1>2, OthersElsewhere DEF WorksOn, mine
  <1>6. mine(v, position_decompositions)' = mine(v, position_decompositions)
        /\ \A x \in mine(v, position_decompositions) :
             position_decompositions'[x] = position_decompositions[x]
    BY <1>1, <1>2, OthersElsewhere DEF WorksOn, mine
  <1>7. /\ MatchesOf(mine(v, project_positions))' = MatchesOf(mine(v, project_positions))
        /\ \A m \in MatchesOf(mine(v, project_positions)) : matches'[m] = matches[m]
    <2>1. \A x \in mine(v, project_positions) :
            x \in DOMAIN project_positions /\ project_positions[x].project_id # p
      BY <1>2 DEF mine
    <2>2. \A m : m[1] \in mine(v, project_positions) =>
            /\ m \in DOMAIN matches <=> m \in DOMAIN matches'
            /\ m \in DOMAIN matches => matches'[m] = matches[m]
      BY <2>1 DEF WorksOn
    <2> QED
      BY <1>4, <2>2 DEF MatchesOf
  <1>8. /\ [x \in mine(v, project_positions) |-> project_positions[x]]'
             = [x \in mine(v, project_positions) |-> project_positions[x]]
        /\ [x \in mine(v, staffing_plans) |-> staffing_plans[x]]'
             = [x \in mine(v, staffing_plans) |-> staffing_plans[x]]
        /\ [x \in mine(v, position_decompositions) |-> position_decompositions[x]]'
             = [x \in mine(v, position_decompositions) |-> position_decompositions[x]]
    BY <1>4, <1>5, <1>6
  <1>9. Restrict(matches, MatchesOf(mine(v, project_positions)))'
          = Restrict(matches, MatchesOf(mine(v, project_positions)))
    BY <1>7 DEF Restrict
  <1>10. BelongingTo(v) =
           <<Restrict(projects, ProjectsOf(v)),
             [x \in mine(v, project_positions) |-> project_positions[x]],
             [x \in mine(v, staffing_plans) |-> staffing_plans[x]],
             [x \in mine(v, position_decompositions) |-> position_decompositions[x]],
             Restrict(matches, MatchesOf(mine(v, project_positions)))>>
    BY DEF BelongingTo, mine, ProjectsOf, owns
  <1>11. BelongingTo(v)' =
           <<Restrict(projects, ProjectsOf(v)),
             [x \in mine(v, project_positions) |-> project_positions[x]],
             [x \in mine(v, staffing_plans) |-> staffing_plans[x]],
             [x \in mine(v, position_decompositions) |-> position_decompositions[x]],
             Restrict(matches, MatchesOf(mine(v, project_positions)))>>'
    BY DEF BelongingTo, mine, ProjectsOf, owns
  <1> QED
    BY <1>3, <1>8, <1>9, <1>10, <1>11

LEMMA StaysWithin ==
  ASSUME NEW u, NEW p, p \in DOMAIN projects, projects[p].pm_user_id = u,
         UNCHANGED <<projects, project_positions, matches>>,
         Elsewhere(staffing_plans, staffing_plans', p),
         Elsewhere(position_decompositions, position_decompositions', p)
  PROVE  WorksOn(u, p)
  BY SameIsElsewhere DEF WorksOn

LEMMA ProjectCallsStayWithin ==
  ASSUME Sound, NEW u \in Users, NEW p \in ProjectIds,
         updateProject(u, p) \/ deleteProject(u, p)
  PROVE  WorksOn(u, p)
  <1>1. CASE updateProject(u, p)
    <2>1. PICK target, status : projects_update(p, u, target, status)
      BY <1>1 DEF updateProject
    <2>2. p \in DOMAIN projects /\ projects[p] \in ProjectRow /\ projects[p].pm_user_id = u
      BY <2>1 DEF projects_update, owns, Sound, ProjectsSound, Table
    <2>3. /\ DOMAIN projects' = DOMAIN projects
          /\ \A x \in DOMAIN projects \ {p} : projects'[x] = projects[x]
          /\ projects'[p].pm_user_id = u
      BY <2>1, <2>2 DEF projects_update, ProjectRow
    <2> QED
      BY <2>1, <2>2, <2>3, SameIsElsewhere DEF projects_update, WorksOn
  <1>2. CASE deleteProject(u, p)
    <2>1. projects_delete(p, u)
      BY <1>2 DEF deleteProject
    <2>2. /\ p \in DOMAIN projects /\ projects[p].pm_user_id = u
          /\ DOMAIN projects' = DOMAIN projects \ {p}
          /\ \A x \in DOMAIN projects \ {p} : projects'[x] = projects[x]
      BY <2>1 DEF projects_delete, owns, Without, Restrict
    <2>3. /\ Elsewhere(project_positions, project_positions', p)
          /\ Elsewhere(staffing_plans, staffing_plans', p)
          /\ Elsewhere(position_decompositions, position_decompositions', p)
      BY <2>1, RemovedIsElsewhere DEF projects_delete, OfProject
    <2>4. /\ DOMAIN matches' = DOMAIN matches \ MatchesOf(OfProject(project_positions, p))
          /\ \A m \in DOMAIN matches' : matches'[m] = matches[m]
      BY <2>1 DEF projects_delete, Without, Restrict
    <2>5. \A m \in MatchesOf(OfProject(project_positions, p)) :
            project_positions[m[1]].project_id = p
      BY DEF MatchesOf, OfProject
    <2> QED
      BY <2>2, <2>3, <2>4, <2>5 DEF WorksOn
  <1> QED
    BY <1>1, <1>2

LEMMA CreationsStayWithin ==
  ASSUME Sound, NEW u \in Users, createProject(u)
  PROVE  \E p \in ProjectIds : WorksOn(u, p)
  <1>1. PICK p \in ProjectIds, plan \in PlanIds, target \in Targets \union {NULL} :
          projects_insert(p, plan, u, target)
    BY DEF createProject
  <1> DEFINE project == [pm_user_id |-> u, target |-> target, status |-> "planning"]
             default == [project_id |-> p, is_selected |-> TRUE, positions_json |-> {}]
  <1>2. /\ projects' = Put(projects, p, project) /\ project.pm_user_id = u
        /\ staffing_plans' = Put(staffing_plans, plan, default) /\ default.project_id = p
        /\ p \notin DOMAIN projects /\ plan \notin DOMAIN staffing_plans
        /\ UNCHANGED <<project_positions, position_decompositions, matches>>
    BY <1>1 DEF projects_insert, Sound, ProjectsSound, PlansSound
  <1> HIDE DEF project, default
  <1>3. /\ DOMAIN projects' = DOMAIN projects \union {p} /\ projects'[p] = project
        /\ \A x \in DOMAIN projects : projects'[x] = projects[x]
    BY <1>2 DEF Put
  <1>4. Elsewhere(staffing_plans, staffing_plans', p)
    BY <1>2, AddedIsElsewhere
  <1>5. WorksOn(u, p)
    BY <1>2, <1>3, <1>4, SameIsElsewhere DEF WorksOn
  <1> QED
    BY <1>5

\* A call that adds positions to p, removes one or rewrites one, with its matches.
LEMMA PositionsStayWithin ==
  ASSUME NEW u, NEW p, p \in DOMAIN projects, projects[p].pm_user_id = u,
         Elsewhere(project_positions, project_positions', p),
         UNCHANGED <<projects, staffing_plans, position_decompositions>>,
         \A m \in DOMAIN matches \union DOMAIN matches' :
           m[1] \in DOMAIN project_positions /\ project_positions[m[1]].project_id # p =>
             m \in DOMAIN matches /\ m \in DOMAIN matches' /\ matches'[m] = matches[m]
  PROVE  WorksOn(u, p)
  BY SameIsElsewhere DEF WorksOn

LEMMA PositionCallsStayWithin ==
  ASSUME Sound, NEW u \in Users, NEW p \in ProjectIds, NEW d,
         createPosition(u, p) \/ bulkCreate(u, p) \/ commitDecomposition(u, p, d)
  PROVE  WorksOn(u, p)
  <1>1. p \in DOMAIN projects /\ projects[p].pm_user_id = u
    BY DEF createPosition, bulkCreate, commitDecomposition, owns
  <1>2. CASE createPosition(u, p)
    <2>1. PICK q \in PositionIds, spec \in Specs, planned \in Headcounts :
            positions_insert(p, q, spec, planned)
      BY <1>2 DEF createPosition
    <2>2. /\ project_positions' = Put(project_positions, q, NewPosition(p, spec, planned))
          /\ NewPosition(p, spec, planned).project_id = p
          /\ q \notin DOMAIN project_positions
      BY <2>1 DEF positions_insert, NewPosition, Sound, PositionsSound
    <2>3. Elsewhere(project_positions, project_positions', p)
      BY <2>2, AddedIsElsewhere
    <2> QED
      BY <1>1, <2>1, <2>3, PositionsStayWithin DEF positions_insert
  <1>3. ASSUME NEW ids \in NewPositions, NEW items \in ItemsFor(ids), positions_bulkInsert(p, items)
        PROVE  WorksOn(u, p)
    <2>1. /\ DOMAIN items \intersect DOMAIN project_positions = {}
          /\ project_positions' =
               [q \in DOMAIN project_positions \union DOMAIN items |->
                  IF q \in DOMAIN items THEN NewPosition(p, items[q].spec, items[q].planned)
                  ELSE project_positions[q]]
      BY <1>3 DEF positions_bulkInsert, NewPosition, Sound, PositionsSound
    <2>2. \A q \in DOMAIN items : NewPosition(p, items[q].spec, items[q].planned).project_id = p
      BY DEF NewPosition
    <2>3. Elsewhere(project_positions, project_positions', p)
      BY <2>1, <2>2 DEF Elsewhere
    <2> QED
      BY <1>1, <1>3, <2>3, PositionsStayWithin DEF positions_bulkInsert
  <1> QED
    BY <1>2, <1>3 DEF bulkCreate, commitDecomposition

\* The calls that get the id of a position find its project through it.
LEMMA RowCallsStayWithin ==
  ASSUME Sound, NEW u \in Users, NEW q \in PositionIds,
         updatePosition(u, q) \/ deletePosition(u, q) \/ recomputeMatches(u, q)
  PROVE  \E p \in ProjectIds : WorksOn(u, p)
  <1>1. PICK p : p = project_positions[q].project_id
    OBVIOUS
  <1>2. /\ q \in DOMAIN project_positions /\ p \in DOMAIN projects /\ p \in ProjectIds
        /\ projects[p].pm_user_id = u
    BY <1>1 DEF updatePosition, deletePosition, recomputeMatches, ownsRow, owns, Sound, ProjectsSound
  <1>3. CASE updatePosition(u, q)
    <2>1. PICK spec, status, planned, filled : positions_update(q, p, spec, status, planned, filled)
      BY <1>1, <1>3 DEF updatePosition
    <2> DEFINE new == [project_id |-> p, spec |-> spec, status |-> status,
                       headcount_planned |-> planned, headcount_filled |-> filled]
    <2>2. project_positions' = [project_positions EXCEPT ![q] = new] /\ new.project_id = p
      BY <2>1 DEF positions_update
    <2> HIDE DEF new
    <2>3. Elsewhere(project_positions, project_positions', p)
      BY <1>1, <1>2, <2>2, ChangedIsElsewhere
    <2>4. WorksOn(u, p)
      BY <1>2, <2>1, <2>3, PositionsStayWithin DEF positions_update
    <2> QED
      BY <1>2, <2>4
  <1>4. CASE deletePosition(u, q)
    <2>1. positions_delete(q, p)
      BY <1>1, <1>4 DEF deletePosition
    <2>2. Elsewhere(project_positions, project_positions', p)
      BY <1>1, <2>1, RemovedIsElsewhere DEF positions_delete
    <2>3. /\ DOMAIN matches' = DOMAIN matches \ MatchesOf({q})
          /\ \A m \in DOMAIN matches' : matches'[m] = matches[m]
      BY <2>1 DEF positions_delete, Without, Restrict
    <2>4. \A m \in MatchesOf({q}) : project_positions[m[1]].project_id = p
      BY <1>1 DEF MatchesOf
    <2>5. WorksOn(u, p)
      BY <1>2, <2>1, <2>2, <2>3, <2>4, PositionsStayWithin DEF positions_delete
    <2> QED
      BY <1>2, <2>5
  <1>5. CASE recomputeMatches(u, q)
    <2>1. PICK scores : matches_upsertMany(q, scores)
      BY <1>5 DEF recomputeMatches
    <2>2. /\ DOMAIN matches' = DOMAIN matches \union ({q} \X DOMAIN scores)
          /\ \A m \in DOMAIN matches' :
               matches'[m] = IF m[1] = q /\ m[2] \in DOMAIN scores THEN scores[m[2]] ELSE matches[m]
      BY <2>1 DEF matches_upsertMany
    <2>3. ASSUME NEW m \in DOMAIN matches \union DOMAIN matches', project_positions[m[1]].project_id # p
          PROVE  m \in DOMAIN matches /\ m \in DOMAIN matches' /\ matches'[m] = matches[m]
      <3>1. m[1] # q
        BY <1>1, <2>3
      <3> QED
        BY <2>2, <3>1
    <2>4. WorksOn(u, p)
      BY <1>2, <2>1, <2>3, PositionsStayWithin, SameIsElsewhere DEF matches_upsertMany
    <2> QED
      BY <1>2, <2>4
  <1> QED
    BY <1>3, <1>4, <1>5

LEMMA PlanCallsStayWithin ==
  ASSUME Sound, NEW u \in Users, NEW plan \in PlanIds,
         updatePlan(u, plan) \/ deletePlan(u, plan) \/ setSelectedPlan(u, plan)
  PROVE  \E p \in ProjectIds : WorksOn(u, p)
  <1>1. PICK p : p = staffing_plans[plan].project_id
    OBVIOUS
  <1>2. /\ plan \in DOMAIN staffing_plans /\ p \in DOMAIN projects /\ p \in ProjectIds
        /\ projects[p].pm_user_id = u
    BY <1>1 DEF updatePlan, deletePlan, setSelectedPlan, ownsRow, owns, Sound, ProjectsSound
  <1>3. Table(PlanRow, staffing_plans)
    BY DEF Sound, PlansSound
  <1>4. Elsewhere(staffing_plans, staffing_plans', p)
    <2>1. CASE updatePlan(u, plan)
      BY <1>1, <1>2, <1>3, <2>1 DEF updatePlan, plans_update, Elsewhere, Table, PlanRow
    <2>2. CASE deletePlan(u, plan)
      BY <1>1, <2>2, RemovedIsElsewhere DEF deletePlan, plans_delete
    <2>3. CASE setSelectedPlan(u, plan)
      <3>1. staffing_plans' = [x \in DOMAIN staffing_plans |->
               IF staffing_plans[x].project_id = p
               THEN [staffing_plans[x] EXCEPT !.is_selected = (x = plan)]
               ELSE staffing_plans[x]]
        BY <1>1, <2>3 DEF setSelectedPlan, plans_setSelected
      <3>2. \A x \in DOMAIN staffing_plans : staffing_plans[x].project_id = p =>
              staffing_plans'[x].project_id = p
        BY <1>3, <3>1 DEF Table, PlanRow
      <3> QED
        BY <3>1, <3>2 DEF Elsewhere
    <2> QED
      BY <2>1, <2>2, <2>3
  <1>5. WorksOn(u, p)
    BY <1>2, <1>4, StaysWithin, SameIsElsewhere DEF updatePlan, plans_update, deletePlan,
       plans_delete, setSelectedPlan, plans_setSelected
  <1> QED
    BY <1>2, <1>5

LEMMA CallsStayWithin ==
  ASSUME Sound, NEW u \in Users, Calls(u)
  PROVE  \E p \in ProjectIds : WorksOn(u, p)
  <1>1. ASSUME NEW p \in ProjectIds, createPlan(u, p)
        PROVE  WorksOn(u, p)
    <2>1. PICK plan \in PlanIds, positions \in PlanContents : plans_insert(p, plan, positions)
      BY <1>1 DEF createPlan
    <2> DEFINE draft == [project_id |-> p, is_selected |-> FALSE, positions_json |-> positions]
    <2>2. /\ staffing_plans' = Put(staffing_plans, plan, draft) /\ draft.project_id = p
          /\ plan \notin DOMAIN staffing_plans
      BY <2>1 DEF plans_insert, Sound, PlansSound
    <2> HIDE DEF draft
    <2>3. Elsewhere(staffing_plans, staffing_plans', p)
      BY <2>2, AddedIsElsewhere
    <2> QED
      BY <1>1, <2>1, <2>3, StaysWithin, SameIsElsewhere DEF createPlan, owns, plans_insert
  <1>2. ASSUME NEW p \in ProjectIds, decomposeProject(u, p)
        PROVE  WorksOn(u, p)
    BY <1>2, StaysWithin, SameIsElsewhere DEF decomposeProject, owns
  <1> QED
    BY <1>1, <1>2, CreationsStayWithin, ProjectCallsStayWithin, PositionCallsStayWithin,
       RowCallsStayWithin, PlanCallsStayWithin DEF Calls

\* Every call stays within a project that is its caller's, found through the row
\* the call names: whoever else there is finds all of theirs as it was.
THEOREM ManagersAreApart == Spec => PmIsolation
  <1> DEFINE Apart == \A v \in PMs :
               BelongingTo(v)' # BelongingTo(v) => \A u \in Users \ {v} : ~Calls(u)
  <1>1. Sound /\ [Next]_vars => [Apart]_vars
    <2>1. ASSUME Sound, NEW v \in PMs, NEW u \in Users \ {v}, Calls(u)
          PROVE  BelongingTo(v)' = BelongingTo(v)
      BY <2>1, CallsStayWithin, OthersKeepTheirs
    <2> QED
      BY <2>1
  <1>2. Spec => []Sound
    BY InitSound, StepPreserves, PTL DEF Spec
  <1> QED
    BY <1>1, <1>2, PTL DEF Spec, PmIsolation

-----------------------------------------------------------------------------
(* Sums: the reads count the same rows in parts and as a whole.            *)

\* What SumOf counts, for a column that is given as a function.
Heads(rows, column) == UNION {{x} \X (1..column[x]) : x \in rows}

\* part assigns the elements of S to those of T: fibre[y] are the ones of y.
Parts(S, T, part, fibre) ==
  /\ IsFiniteSet(S) /\ part \in [S -> T]
  /\ \A y \in T : \A x : x \in fibre[y] <=> x \in S /\ part[x] = y

\* A finite set has as many elements as its parts have together.
LEMMA PartsAddUp ==
  ASSUME NEW S, NEW T, NEW part, NEW fibre, Parts(S, T, part, fibre),
         NEW size, \A y \in T : size[y] = Cardinality(fibre[y])
  PROVE  /\ \A y \in T : size[y] \in Nat
         /\ Cardinality(Heads(T, size)) = Cardinality(S)
  <1> USE DEF Parts
  <1> DEFINE number == [y \in T |-> CHOOSE g : g \in Bijection(fibre[y], 1..size[y])]
             all == Heads(T, size)
             place == [x \in S |-> <<part[x], number[part[x]][x]>>]
  <1>1. ASSUME NEW y \in T
        PROVE  size[y] \in Nat /\ number[y] \in Bijection(fibre[y], 1..size[y])
    <2>1. IsFiniteSet(fibre[y])
      BY FS_Subset
    <2>2. size[y] \in Nat /\ ExistsBijection(1..size[y], fibre[y])
      BY <2>1, FS_CardinalityType
    <2>3. ExistsBijection(fibre[y], 1..size[y])
      BY <2>2, Fun_ExistsBijSymmetric
    <2>4. \E g : g \in Bijection(fibre[y], 1..size[y])
      BY <2>3 DEF ExistsBijection
    <2> QED
      BY <2>2, <2>4
  <1>2. \A y \in T : /\ number[y] \in [fibre[y] -> 1..size[y]]
                     /\ \A a, b \in fibre[y] : a # b => number[y][a] # number[y][b]
                     /\ \A i \in 1..size[y] : \E a \in fibre[y] : number[y][a] = i
    <2> TAKE y \in T
    <2> DEFINE g == number[y]
    <2>1. g \in Bijection(fibre[y], 1..size[y])
      BY <1>1
    <2> HIDE DEF g
    <2>2. /\ g \in [fibre[y] -> 1..size[y]]
          /\ \A a, b \in fibre[y] : a # b => g[a] # g[b]
          /\ \A i \in 1..size[y] : \E a \in fibre[y] : g[a] = i
      BY <2>1 DEF Bijection, Injection, Surjection, IsInjective
    <2> QED
      BY <2>2, Zenon DEF g
  <1> HIDE DEF number
  <1>0. all = UNION {{y} \X (1..size[y]) : y \in T}
    BY DEF Heads
  <1>3. place \in [S -> all]
    <2>1. ASSUME NEW x \in S PROVE place[x] \in all
      <3>1. part[x] \in T /\ x \in fibre[part[x]]
        OBVIOUS
      <3>2. number[part[x]][x] \in 1..size[part[x]]
        BY <1>2, <3>1
      <3> QED
        BY <1>0, <3>1, <3>2
    <2> QED
      BY <2>1
  <1>4. ASSUME NEW a \in S, NEW b \in S, place[a] = place[b] PROVE a = b
    <2>1. part[a] = part[b] /\ number[part[a]][a] = number[part[b]][b]
      BY <1>4
    <2>2. a \in fibre[part[a]] /\ b \in fibre[part[a]] /\ part[a] \in T
      BY <2>1
    <2> DEFINE y == part[a]
    <2>3. number[y][a] = number[y][b]
      BY <2>1
    <2> HIDE DEF y
    <2> QED
      BY <1>2, <2>2, <2>3 DEF y
  <1>5. ASSUME NEW e \in all PROVE \E x \in S : place[x] = e
    <2>1. PICK y \in T : \E i \in 1..size[y] : e = <<y, i>>
      BY <1>0, <1>5
    <2>4. PICK i \in 1..size[y] : e = <<y, i>>
      BY <2>1
    <2>2. PICK a \in fibre[y] : number[y][a] = i
      BY <1>2, <2>4
    <2>3. a \in S /\ part[a] = y
      BY <2>2
    <2> QED
      BY <2>2, <2>3, <2>4
  <1> HIDE DEF place, all
  <1>6. place \in Bijection(S, all)
    BY <1>3, <1>4, <1>5 DEF Bijection, Injection, Surjection, IsInjective
  <1>7. Cardinality(all) = Cardinality(S)
    BY <1>6, FS_Bijection DEF ExistsBijection
  <1> QED
    BY <1>1, <1>7 DEF all

\* The pairs that a sum counts are finitely many.
LEMMA SumIsFinite ==
  ASSUME NEW S, IsFiniteSet(S), NEW size \in [S -> Nat]
  PROVE  IsFiniteSet(Heads(S, size))
  <1> DEFINE rows == {{x} \X (1..size[x]) : x \in S}
             pair == [x \in S |-> {x} \X (1..size[x])]
  <1>1. pair \in Surjection(S, rows)
    BY DEF Surjection
  <1>2. IsFiniteSet(rows)
    BY <1>1, FS_Surjection
  <1>3. ASSUME NEW r \in rows PROVE IsFiniteSet(r)
    <2>1. PICK x \in S : r = {x} \X (1..size[x])
      OBVIOUS
    <2>2. IsFiniteSet({x})
      BY FS_Singleton
    <2>3. size[x] \in Int /\ 1 \in Int
      OBVIOUS
    <2>4. IsFiniteSet(1..size[x])
      BY <2>3, FS_Interval
    <2> QED
      BY <2>1, <2>2, <2>4, FS_Product
  <1> QED
    BY <1>2, <1>3, FS_UNION DEF Heads

\* A column summed over the rows of S is summed part by part.
LEMMA SumsAddUp ==
  ASSUME NEW S, NEW T, NEW part, NEW fibre, Parts(S, T, part, fibre),
         NEW column \in [S -> Nat],
         NEW size, \A y \in T : size[y] = Cardinality(Heads(fibre[y], column))
  PROVE  Cardinality(Heads(T, size)) = Cardinality(Heads(S, column))
  <1> DEFINE pairs == Heads(S, column)
             partOf == [e \in pairs |-> part[e[1]]]
             fibreOf == [y \in T |-> Heads(fibre[y], column)]
  <1>1. IsFiniteSet(pairs)
    BY SumIsFinite DEF Parts
  <1>2. partOf \in [pairs -> T]
    BY DEF Heads, Parts
  <1>3. \A y \in T : size[y] = Cardinality(fibreOf[y])
    OBVIOUS
  <1>4. \A y \in T : \A e : e \in fibreOf[y] <=> e \in pairs /\ partOf[e] = y
    BY DEF Heads, Parts
  <1> HIDE DEF pairs, partOf, fibreOf
  <1>5. Cardinality(Heads(T, size)) = Cardinality(pairs)
    <2>1. Parts(pairs, T, partOf, fibreOf)
      BY <1>1, <1>2, <1>4 DEF Parts
    <2> QED
      BY <1>3, <2>1, PartsAddUp
  <1> QED
    BY <1>5 DEF pairs

\* What the reads of one manager see.
LEMMA ManagersRows ==
  ASSUME Sound, NEW u
  PROVE  /\ IsFiniteSet(JoinedPositions(u)) /\ IsFiniteSet(JoinedMatches(u))
         /\ \A q \in JoinedPositions(u) :
              /\ project_positions[q] \in PositionRow
              /\ project_positions[q].project_id \in Mine(u)
         /\ \A p \in Mine(u) : owns(u, p)
         /\ \A p \in Mine(u) : \A q : q \in OfProject(project_positions, p) <=>
              q \in JoinedPositions(u) /\ project_positions[q].project_id = p
         /\ \A m \in JoinedMatches(u) :
              /\ m[1] \in JoinedPositions(u) /\ m \in DOMAIN matches
              /\ m = <<m[1], m[2]>> /\ matches[m] \in 10..98
  <1>1. DOMAIN project_positions \subseteq PositionIds
    BY DEF Sound, PositionsSound
  <1>2. DOMAIN matches \subseteq PositionIds \X Candidates /\ Table(10..98, matches)
    BY DEF Sound, MatchesSound
  <1>3. IsFiniteSet(JoinedPositions(u))
    <2>1. JoinedPositions(u) \in SUBSET PositionIds
      BY <1>1 DEF JoinedPositions
    <2> QED
      BY <2>1, WorkbenchAssumption, FS_Subset
  <1>4. IsFiniteSet(JoinedMatches(u))
    <2>1. IsFiniteSet(PositionIds \X Candidates)
      BY WorkbenchAssumption, FS_Product
    <2>2. JoinedMatches(u) \in SUBSET (PositionIds \X Candidates)
      BY <1>2 DEF JoinedMatches
    <2> QED
      BY <2>1, <2>2, FS_Subset
  <1>5. \A q \in JoinedPositions(u) :
          /\ project_positions[q] \in PositionRow
          /\ project_positions[q].project_id \in Mine(u)
    BY DEF Sound, PositionsSound, Table, JoinedPositions, Mine, owns
  <1>6. \A p \in Mine(u) : owns(u, p)
    BY DEF Mine
  <1>7. \A p \in Mine(u) : \A q : q \in OfProject(project_positions, p) <=>
          q \in JoinedPositions(u) /\ project_positions[q].project_id = p
    BY <1>6 DEF OfProject, JoinedPositions
  <1>8. \A m \in JoinedMatches(u) :
          /\ m[1] \in JoinedPositions(u) /\ m \in DOMAIN matches
          /\ m = <<m[1], m[2]>> /\ matches[m] \in 10..98
    BY <1>2 DEF JoinedMatches, Table
  <1> QED
    BY <1>3, <1>4, <1>5, <1>6, <1>7, <1>8

\* The positions of the snapshot, which are read through their projects, are
\* those of the manager's projects, each once; also the ones of a status.
LEMMA PositionsInParts ==
  ASSUME Sound, NEW u
  PROVE  /\ Parts(JoinedPositions(u), Mine(u),
                  [q \in JoinedPositions(u) |-> project_positions[q].project_id],
                  [p \in Mine(u) |-> OfProject(project_positions, p)])
         /\ \A s : Parts({q \in JoinedPositions(u) : project_positions[q].status = s}, Mine(u),
                         [q \in {r \in JoinedPositions(u) : project_positions[r].status = s} |->
                            project_positions[q].project_id],
                         [p \in Mine(u) |-> positions_listByProject(p, {s})])
  <1>1. /\ IsFiniteSet(JoinedPositions(u))
        /\ \A q \in JoinedPositions(u) : project_positions[q].project_id \in Mine(u)
        /\ \A p \in Mine(u) : \A q : q \in OfProject(project_positions, p) <=>
             q \in JoinedPositions(u) /\ project_positions[q].project_id = p
    BY ManagersRows
  <1>2. Parts(JoinedPositions(u), Mine(u),
              [q \in JoinedPositions(u) |-> project_positions[q].project_id],
              [p \in Mine(u) |-> OfProject(project_positions, p)])
    BY <1>1 DEF Parts
  <1>3. ASSUME NEW s
        PROVE  Parts({q \in JoinedPositions(u) : project_positions[q].status = s}, Mine(u),
                     [q \in {r \in JoinedPositions(u) : project_positions[r].status = s} |->
                        project_positions[q].project_id],
                     [p \in Mine(u) |-> positions_listByProject(p, {s})])
    <2>1. IsFiniteSet({q \in JoinedPositions(u) : project_positions[q].status = s})
      BY <1>1, FS_Subset
    <2> QED
      BY <1>1, <2>1 DEF Parts, positions_listByProject
  <1> QED
    BY <1>2, <1>3

\* The matches of the snapshot, read through positions and projects, are those
\* that the lists of the positions show.
LEMMA MatchesInParts ==
  ASSUME Sound, NEW u, NEW size,
         \A p \in Mine(u) : size[p] =
           Cardinality(Heads(positions_listByProject(p, PositionStatus),
                             [q \in positions_listByProject(p, PositionStatus) |->
                                Cardinality(listMatches(u, q, 0))]))
  PROVE  Cardinality(Heads(Mine(u), size)) = Cardinality(JoinedMatches(u))
  <1> DEFINE part == [m \in JoinedMatches(u) |-> project_positions[m[1]].project_id]
             fibre == [p \in Mine(u) |-> {m \in JoinedMatches(u) : part[m] = p}]
  <1>1. /\ IsFiniteSet(JoinedMatches(u))
        /\ \A q \in JoinedPositions(u) :
             /\ project_positions[q] \in PositionRow
             /\ project_positions[q].project_id \in Mine(u)
        /\ \A p \in Mine(u) : owns(u, p)
        /\ \A p \in Mine(u) : \A q : q \in OfProject(project_positions, p) <=>
             q \in JoinedPositions(u) /\ project_positions[q].project_id = p
        /\ \A m \in JoinedMatches(u) :
             m[1] \in JoinedPositions(u) /\ m \in DOMAIN matches /\ matches[m] \in 10..98
    BY ManagersRows
  <1>2. Parts(JoinedMatches(u), Mine(u), part, fibre)
    BY <1>1 DEF Parts
  <1>3. ASSUME NEW p \in Mine(u) PROVE size[p] = Cardinality(fibre[p])
    <2> DEFINE positions == positions_listByProject(p, PositionStatus)
               of == [m \in fibre[p] |-> m[1]]
               listed == [q \in positions |-> listMatches(u, q, 0)]
               count == [q \in positions |-> Cardinality(listMatches(u, q, 0))]
    <2>1. \A q : q \in positions <=>
            q \in JoinedPositions(u) /\ project_positions[q].project_id = p
      BY <1>1 DEF positions_listByProject, PositionRow
    <2>2. IsFiniteSet(fibre[p])
      BY <1>1, FS_Subset
    <2>3. of \in [fibre[p] -> positions]
      BY <1>1, <2>1
    <2>4. ASSUME NEW q \in positions, NEW m
          PROVE  m \in listed[q] <=> m \in fibre[p] /\ of[m] = q
      <3>1. owns(u, project_positions[q].project_id)
        BY <1>1, <2>1
      <3>2. listed[q] = {n \in MatchesOf({q}) : matches[n] >= 0}
        BY <3>1 DEF listMatches, matches_listByPosition
      <3>3. q \in JoinedPositions(u) /\ project_positions[q].project_id = p
        BY <2>1
      <3>4. m \in MatchesOf({q}) <=> m \in DOMAIN matches /\ m[1] = q
        BY DEF MatchesOf
      <3>5. m \in DOMAIN matches /\ m[1] = q => m \in JoinedMatches(u) /\ matches[m] >= 0
        BY <1>1, <3>3 DEF JoinedMatches
      <3> QED
        BY <1>1, <3>2, <3>3, <3>4, <3>5
    <2>5. Parts(fibre[p], positions, of, listed)
      BY <2>2, <2>3, <2>4 DEF Parts
    <2>6. \A q \in positions : count[q] = Cardinality(listed[q])
      OBVIOUS
    <2>7. size[p] = Cardinality(Heads(positions, count))
      OBVIOUS
    <2> HIDE DEF positions, of, listed, count, fibre
    <2> QED
      BY <2>5, <2>6, <2>7, PartsAddUp
  <1> HIDE DEF part, fibre
  <1> QED
    BY <1>2, <1>3, PartsAddUp

matchEvents(u) == {e \in queryRecentActivity(u) : e.src = "match"}

recEvents(u) == {e \in queryRecentActivity(u) : e.src = "rec"}

\* Each match of the funnel is an event of the activity, and of one only; each
\* recommendation of the platform is another one.
LEMMA ActivityIs ==
  ASSUME Sound, RecommendationsSound, NEW u
  PROVE  /\ Cardinality(matchEvents(u)) = Cardinality(JoinedMatches(u))
         /\ Cardinality(queryRecentActivity(u))
              = Cardinality(JoinedMatches(u)) + Cardinality(DOMAIN recommendations)
         /\ Cardinality(JoinedMatches(u)) \in Nat
         /\ \A e \in matchEvents(u) : e.project_id \in Mine(u)
  <1> DEFINE found(m) == [src |-> "match", row |-> m, event_type |-> "match_created",
                          position_id |-> m[1],
                          project_id |-> project_positions[m[1]].project_id]
             entered(r) == [src |-> "rec", row |-> r,
                            event_type |-> IF recommendations[r] THEN "pickup" ELSE "application",
                            position_id |-> NULL, project_id |-> NULL]
             told == [m \in JoinedMatches(u) |-> found(m)]
             shown == [r \in DOMAIN recommendations |-> entered(r)]
  <1>1. /\ IsFiniteSet(JoinedMatches(u))
        /\ \A q \in JoinedPositions(u) : project_positions[q].project_id \in Mine(u)
        /\ \A m \in JoinedMatches(u) : m[1] \in JoinedPositions(u) /\ m = <<m[1], m[2]>>
    BY ManagersRows
  <1>2. queryRecentActivity(u) = {entered(r) : r \in DOMAIN recommendations}
                                   \union {found(m) : m \in JoinedMatches(u)}
    BY DEF queryRecentActivity
  <1>3. /\ \A r : entered(r).src = "rec" /\ entered(r).row = r
        /\ \A m : /\ found(m).src = "match" /\ found(m).row = m
                  /\ found(m).project_id = project_positions[m[1]].project_id
    OBVIOUS
  <1> HIDE DEF found, entered
  <1>4. /\ matchEvents(u) = {found(m) : m \in JoinedMatches(u)}
        /\ recEvents(u) = {entered(r) : r \in DOMAIN recommendations}
    BY <1>2, <1>3 DEF matchEvents, recEvents
  <1>5. /\ queryRecentActivity(u) = matchEvents(u) \union recEvents(u)
        /\ matchEvents(u) \intersect recEvents(u) = {}
    BY <1>2, <1>3, <1>4
  <1>6. told \in Bijection(JoinedMatches(u), matchEvents(u))
    BY <1>3, <1>4 DEF Bijection, Injection, Surjection, IsInjective
  <1>7. shown \in Bijection(DOMAIN recommendations, recEvents(u))
    BY <1>3, <1>4 DEF Bijection, Injection, Surjection, IsInjective
  <1> HIDE DEF told, shown
  <1>8. /\ IsFiniteSet(matchEvents(u))
        /\ Cardinality(matchEvents(u)) = Cardinality(JoinedMatches(u))
    BY <1>1, <1>6, FS_Bijection DEF ExistsBijection
  <1>9. IsFiniteSet(DOMAIN recommendations)
    BY WorkbenchAssumption, FS_Subset DEF RecommendationsSound
  <1>10. /\ IsFiniteSet(recEvents(u))
         /\ Cardinality(recEvents(u)) = Cardinality(DOMAIN recommendations)
    BY <1>7, <1>9, FS_Bijection DEF ExistsBijection
  <1>11. Cardinality(queryRecentActivity(u)) = Cardinality(matchEvents(u)) + Cardinality(recEvents(u))
    <2>1. Cardinality(matchEvents(u) \union recEvents(u))
            = Cardinality(matchEvents(u)) + Cardinality(recEvents(u))
                - Cardinality(matchEvents(u) \intersect recEvents(u))
      BY <1>8, <1>10, FS_Union
    <2>2. Cardinality(matchEvents(u) \intersect recEvents(u)) = 0
      BY <1>5, FS_EmptySet
    <2>3. Cardinality(matchEvents(u)) \in Nat /\ Cardinality(recEvents(u)) \in Nat
      BY <1>8, <1>10, FS_CardinalityType
    <2> QED
      BY <1>5, <2>1, <2>2, <2>3
  <1>12. Cardinality(JoinedMatches(u)) \in Nat
    BY <1>1, FS_CardinalityType
  <1>13. \A e \in matchEvents(u) : e.project_id \in Mine(u)
    BY <1>1, <1>3, <1>4
  <1> QED
    BY <1>8, <1>10, <1>11, <1>12, <1>13

\* SumOf counts the heads of its column.
LEMMA SumsOfReads ==
  ASSUME NEW u, NEW list, list = projects_list(u)
  PROVE  /\ DOMAIN list = Mine(u)
         /\ SumOf(DOMAIN list, LAMBDA p : list[p].position_count)
              = Cardinality(Heads(Mine(u), [p \in Mine(u) |->
                                              Cardinality(OfProject(project_positions, p))]))
         /\ SumOf(DOMAIN list, LAMBDA p : positions_stats(p).headcount_planned_total)
              = Cardinality(Heads(Mine(u), [p \in Mine(u) |->
                                              positions_stats(p).headcount_planned_total]))
         /\ SumOf(DOMAIN list, LAMBDA p : getProject(p).filled_positions)
              = Cardinality(Heads(Mine(u), [p \in Mine(u) |-> getProject(p).filled_positions]))
         /\ SumOf(DOMAIN list, LAMBDA p : SumOf(positions_listByProject(p, PositionStatus),
                                                LAMBDA q : Cardinality(listMatches(u, q, 0))))
              = Cardinality(Heads(Mine(u), [p \in Mine(u) |->
                  Cardinality(Heads(positions_listByProject(p, PositionStatus),
                                    [q \in positions_listByProject(p, PositionStatus) |->
                                       Cardinality(listMatches(u, q, 0))]))]))
  <1>1. DOMAIN list = Mine(u)
        /\ \A p \in Mine(u) : list[p].position_count = Cardinality(OfProject(project_positions, p))
    BY DEF projects_list
  <1>2. SumOf(DOMAIN list, LAMBDA p : list[p].position_count)
          = Cardinality(Heads(Mine(u), [p \in Mine(u) |->
                                          Cardinality(OfProject(project_positions, p))]))
    <2>1. UNION {{p} \X (1..list[p].position_count) : p \in DOMAIN list}
            = Heads(Mine(u), [p \in Mine(u) |-> Cardinality(OfProject(project_positions, p))])
      BY <1>1 DEF Heads
    <2> QED
      BY <2>1 DEF SumOf
  <1>3. SumOf(DOMAIN list, LAMBDA p : positions_stats(p).headcount_planned_total)
          = Cardinality(Heads(Mine(u), [p \in Mine(u) |->
                                          positions_stats(p).headcount_planned_total]))
    <2>1. UNION {{p} \X (1..positions_stats(p).headcount_planned_total) : p \in DOMAIN list}
            = Heads(Mine(u), [p \in Mine(u) |-> positions_stats(p).headcount_planned_total])
      BY <1>1 DEF Heads
    <2> QED
      BY <2>1 DEF SumOf
  <1>4. SumOf(DOMAIN list, LAMBDA p : getProject(p).filled_positions)
          = Cardinality(Heads(Mine(u), [p \in Mine(u) |-> getProject(p).filled_positions]))
    <2>1. UNION {{p} \X (1..getProject(p).filled_positions) : p \in DOMAIN list}
            = Heads(Mine(u), [p \in Mine(u) |-> getProject(p).filled_positions])
      BY <1>1 DEF Heads
    <2> QED
      BY <2>1 DEF SumOf
  <1> DEFINE positions(p) == positions_listByProject(p, PositionStatus)
             counts(p) == [q \in positions(p) |-> Cardinality(listMatches(u, q, 0))]
             pairs(p) == UNION {{q} \X (1..Cardinality(listMatches(u, q, 0))) : q \in positions(p)}
             whole == [p \in Mine(u) |-> Cardinality(Heads(positions(p), counts(p)))]
  <1>5. SumOf(DOMAIN list, LAMBDA p : SumOf(positions(p), LAMBDA q : Cardinality(listMatches(u, q, 0))))
          = Cardinality(Heads(Mine(u), whole))
    <2>1. ASSUME NEW p \in Mine(u) PROVE Cardinality(pairs(p)) = whole[p]
      <3>1. pairs(p) = Heads(positions(p), counts(p))
        BY DEF Heads
      <3> QED
        BY <3>1
    <2> HIDE DEF pairs, whole
    <2>2. UNION {{p} \X (1..Cardinality(pairs(p))) : p \in DOMAIN list} = Heads(Mine(u), whole)
      BY <1>1, <2>1 DEF Heads
    <2> QED
      BY <2>2 DEF SumOf, pairs
  <1> QED
    BY <1>1, <1>2, <1>3, <1>4, <1>5

\* The columns of the statistics and of the detail, as heads of the positions.
LEMMA HeadcountsOfReads ==
  ASSUME Sound, NEW u,
         NEW planned, planned = [q \in JoinedPositions(u) |-> project_positions[q].headcount_planned],
         NEW filled, filled = [q \in JoinedPositions(u) |-> project_positions[q].headcount_filled]
  PROVE  /\ planned \in [JoinedPositions(u) -> Nat] /\ filled \in [JoinedPositions(u) -> Nat]
         /\ \A p \in Mine(u) :
              /\ positions_stats(p).headcount_planned_total
                   = Cardinality(Heads(OfProject(project_positions, p), planned))
              /\ getProject(p).filled_positions
                   = Cardinality(Heads(OfProject(project_positions, p), filled))
         /\ aggregatePositions(u).headcount_planned_total
              = Cardinality(Heads(JoinedPositions(u), planned))
         /\ aggregatePositions(u).headcount_filled_total
              = Cardinality(Heads(JoinedPositions(u), filled))
  <1>1. /\ \A q \in JoinedPositions(u) : project_positions[q] \in PositionRow
        /\ \A p \in Mine(u) : \A q \in OfProject(project_positions, p) : q \in JoinedPositions(u)
    BY ManagersRows
  <1>2. planned \in [JoinedPositions(u) -> Nat] /\ filled \in [JoinedPositions(u) -> Nat]
    BY <1>1 DEF PositionRow
  <1>3. ASSUME NEW S, S \subseteq JoinedPositions(u)
        PROVE  /\ Total(project_positions, S, Planned) = Cardinality(Heads(S, planned))
               /\ Total(project_positions, S, FilledOf) = Cardinality(Heads(S, filled))
    <2>1. UNION {{q} \X (1..project_positions[q].headcount_planned) : q \in S} = Heads(S, planned)
      BY <1>3 DEF Heads
    <2>2. UNION {{q} \X (1..project_positions[q].headcount_filled) : q \in S} = Heads(S, filled)
      BY <1>3 DEF Heads
    <2>3. Total(project_positions, S, Planned)
            = Cardinality(UNION {{q} \X (1..project_positions[q].headcount_planned) : q \in S})
      BY DEF Total, SumOf, Planned
    <2>4. Total(project_positions, S, FilledOf)
            = Cardinality(UNION {{q} \X (1..project_positions[q].headcount_filled) : q \in S})
      BY DEF Total, SumOf, FilledOf
    <2> QED
      BY <2>1, <2>2, <2>3, <2>4
  <1>4. ASSUME NEW p \in Mine(u)
        PROVE  /\ positions_stats(p).headcount_planned_total
                    = Cardinality(Heads(OfProject(project_positions, p), planned))
               /\ getProject(p).filled_positions
                    = Cardinality(Heads(OfProject(project_positions, p), filled))
    <2>1. OfProject(project_positions, p) \subseteq JoinedPositions(u)
      BY <1>1
    <2>2. positions_stats(p).headcount_planned_total
            = Total(project_positions, OfProject(project_positions, p), Planned)
      BY Zenon DEF positions_stats
    <2>3. getProject(p).filled_positions
            = Total(project_positions, OfProject(project_positions, p), FilledOf)
      BY Zenon DEF getProject
    <2> QED
      BY <1>3, <2>1, <2>2, <2>3
  <1>5. aggregatePositions(u).headcount_planned_total
          = Total(project_positions, JoinedPositions(u), Planned)
    BY Zenon DEF aggregatePositions
  <1>6. aggregatePositions(u).headcount_filled_total
          = Total(project_positions, JoinedPositions(u), FilledOf)
    BY Zenon DEF aggregatePositions
  <1>7. JoinedPositions(u) \subseteq JoinedPositions(u)
    OBVIOUS
  <1> QED
    BY <1>2, <1>3, <1>4, <1>5, <1>6, <1>7

\* Lists, detail, statistics and snapshot agree, for any number of projects,
\* positions and matches and headcounts of any size.
THEOREM ReadsTellOneStory == Spec => []ReadsAgree
  <1>1. IInv => ReadsAgree
    <2> SUFFICES ASSUME IInv, NEW u \in PMs
                 PROVE  LET list == projects_list(u)
                            snapshot == getSnapshot(u)
                            overProjects(column(_)) == SumOf(DOMAIN list, column)
                            events == {e \in snapshot.activity : e.src = "match"}
                        IN  /\ snapshot.projects.total = Cardinality(DOMAIN list)
                            /\ \A p \in DOMAIN list :
                                 /\ list[p].position_count = getProject(p).total_positions
                                 /\ list[p].position_count = positions_stats(p).total
                                 /\ list[p].plan_count = Cardinality(plans_listByProject(p))
                                 /\ list[p].plan_count = getProject(p).total_plans
                                 /\ getProject(p).filled_positions
                                      = positions_stats(p).headcount_filled_total
                            /\ snapshot.positions.total =
                                 overProjects(LAMBDA p : list[p].position_count)
                            /\ \A s \in PositionStatus :
                                 snapshot.positions.by_status[s] =
                                   overProjects(LAMBDA p :
                                     Cardinality(positions_listByProject(p, {s})))
                            /\ snapshot.positions.headcount_planned_total =
                                 overProjects(LAMBDA p :
                                   positions_stats(p).headcount_planned_total)
                            /\ snapshot.positions.headcount_filled_total =
                                 overProjects(LAMBDA p : getProject(p).filled_positions)
                            /\ snapshot.matches.total =
                                 overProjects(LAMBDA p :
                                   SumOf(positions_listByProject(p, PositionStatus),
                                         LAMBDA q : Cardinality(listMatches(u, q, 0))))
                            /\ snapshot.candidates.total = Cardinality(events)
                            /\ {e.project_id : e \in events} \subseteq DOMAIN list
                            /\ Cardinality(snapshot.activity) =
                                 snapshot.candidates.total + Cardinality(DOMAIN recommendations)
      BY DEF ReadsAgree
    <2>1. Sound /\ RecommendationsSound
      BY SoundIsIInv
    <2> DEFINE list == projects_list(u)
               snapshot == getSnapshot(u)
    <2>2. /\ snapshot.projects.total = Cardinality(Mine(u))
          /\ snapshot.positions = aggregatePositions(u)
          /\ snapshot.positions.total = Cardinality(JoinedPositions(u))
          /\ snapshot.matches.total = Cardinality(JoinedMatches(u))
          /\ snapshot.candidates.total = Cardinality(JoinedMatches(u))
          /\ snapshot.activity = queryRecentActivity(u)
      BY Zenon DEF getSnapshot, aggregateProjects, aggregatePositions, aggregateMatches,
                   aggregateCandidates
    <2>3. \A s \in PositionStatus :
            snapshot.positions.by_status[s]
              = Cardinality({q \in JoinedPositions(u) : project_positions[q].status = s})
      BY <2>2 DEF aggregatePositions, CountBy
    <2>4. /\ DOMAIN list = Mine(u)
          /\ \A p \in Mine(u) :
               /\ list[p].position_count = getProject(p).total_positions
               /\ list[p].position_count = positions_stats(p).total
               /\ list[p].plan_count = Cardinality(plans_listByProject(p))
               /\ list[p].plan_count = getProject(p).total_plans
               /\ getProject(p).filled_positions = positions_stats(p).headcount_filled_total
      BY DEF projects_list, getProject, positions_stats, plans_listByProject
    <2>5. snapshot.positions.total = SumOf(DOMAIN list, LAMBDA p : list[p].position_count)
      <3> DEFINE fibre == [p \in Mine(u) |-> OfProject(project_positions, p)]
                 part == [q \in JoinedPositions(u) |-> project_positions[q].project_id]
                 size == [p \in Mine(u) |-> Cardinality(OfProject(project_positions, p))]
      <3>1. SumOf(DOMAIN list, LAMBDA p : list[p].position_count)
              = Cardinality(Heads(Mine(u), size))
        BY SumsOfReads
      <3>2. Parts(JoinedPositions(u), Mine(u), part, fibre)
        BY <2>1, PositionsInParts
      <3>3. \A p \in Mine(u) : size[p] = Cardinality(fibre[p])
        OBVIOUS
      <3> HIDE DEF fibre, part, size
      <3>4. Cardinality(Heads(Mine(u), size)) = Cardinality(JoinedPositions(u))
        BY <3>2, <3>3, PartsAddUp
      <3> QED
        BY <2>2, <3>1, <3>4
    <2>6. ASSUME NEW s \in PositionStatus
          PROVE  snapshot.positions.by_status[s] =
                   SumOf(DOMAIN list, LAMBDA p : Cardinality(positions_listByProject(p, {s})))
      <3> DEFINE rows == {q \in JoinedPositions(u) : project_positions[q].status = s}
                 fibre == [p \in Mine(u) |-> positions_listByProject(p, {s})]
                 part == [q \in rows |-> project_positions[q].project_id]
                 size == [p \in Mine(u) |-> Cardinality(positions_listByProject(p, {s}))]
      <3>1. SumOf(DOMAIN list, LAMBDA p : Cardinality(positions_listByProject(p, {s})))
              = Cardinality(Heads(Mine(u), size))
        <4>1. UNION {{p} \X (1..Cardinality(positions_listByProject(p, {s}))) : p \in DOMAIN list}
                = Heads(Mine(u), size)
          BY <2>4 DEF Heads
        <4> QED
          BY <4>1 DEF SumOf
      <3>2. Parts(rows, Mine(u), part, fibre)
        BY <2>1, PositionsInParts
      <3>3. \A p \in Mine(u) : size[p] = Cardinality(fibre[p])
        OBVIOUS
      <3>4. snapshot.positions.by_status[s] = Cardinality(rows)
        BY <2>3
      <3> HIDE DEF fibre, part, size, rows, snapshot
      <3>5. Cardinality(Heads(Mine(u), size)) = Cardinality(rows)
        BY <3>2, <3>3, PartsAddUp
      <3> QED
        BY <3>1, <3>4, <3>5
    <2> DEFINE planned == [q \in JoinedPositions(u) |-> project_positions[q].headcount_planned]
               filled == [q \in JoinedPositions(u) |-> project_positions[q].headcount_filled]
               fibre == [p \in Mine(u) |-> OfProject(project_positions, p)]
               part == [q \in JoinedPositions(u) |-> project_positions[q].project_id]
    <2>7. /\ planned \in [JoinedPositions(u) -> Nat] /\ filled \in [JoinedPositions(u) -> Nat]
          /\ \A p \in Mine(u) :
               /\ positions_stats(p).headcount_planned_total
                    = Cardinality(Heads(OfProject(project_positions, p), planned))
               /\ getProject(p).filled_positions
                    = Cardinality(Heads(OfProject(project_positions, p), filled))
          /\ aggregatePositions(u).headcount_planned_total
               = Cardinality(Heads(JoinedPositions(u), planned))
          /\ aggregatePositions(u).headcount_filled_total
               = Cardinality(Heads(JoinedPositions(u), filled))
      BY <2>1, HeadcountsOfReads
    <2>8. Parts(JoinedPositions(u), Mine(u), part, fibre)
      BY <2>1, PositionsInParts
    <2>9. \A p \in Mine(u) : fibre[p] = OfProject(project_positions, p)
      OBVIOUS
    <2> HIDE DEF planned, filled, fibre, part
    <2>10. snapshot.positions.headcount_planned_total =
             SumOf(DOMAIN list, LAMBDA p : positions_stats(p).headcount_planned_total)
      <3> DEFINE size == [p \in Mine(u) |-> positions_stats(p).headcount_planned_total]
      <3>1. SumOf(DOMAIN list, LAMBDA p : positions_stats(p).headcount_planned_total)
              = Cardinality(Heads(Mine(u), size))
        BY SumsOfReads
      <3>2. \A p \in Mine(u) : size[p] = Cardinality(Heads(fibre[p], planned))
        BY <2>7, <2>9
      <3> HIDE DEF size
      <3>3. Cardinality(Heads(Mine(u), size)) = Cardinality(Heads(JoinedPositions(u), planned))
        BY <2>7, <2>8, <3>2, SumsAddUp
      <3> HIDE DEF snapshot
      <3> QED
        BY <2>2, <2>7, <3>1, <3>3
    <2>11. snapshot.positions.headcount_filled_total =
             SumOf(DOMAIN list, LAMBDA p : getProject(p).filled_positions)
      <3> DEFINE size == [p \in Mine(u) |-> getProject(p).filled_positions]
      <3>1. SumOf(DOMAIN list, LAMBDA p : getProject(p).filled_positions)
              = Cardinality(Heads(Mine(u), size))
        BY SumsOfReads
      <3>2. \A p \in Mine(u) : size[p] = Cardinality(Heads(fibre[p], filled))
        BY <2>7, <2>9
      <3> HIDE DEF size
      <3>3. Cardinality(Heads(Mine(u), size)) = Cardinality(Heads(JoinedPositions(u), filled))
        BY <2>7, <2>8, <3>2, SumsAddUp
      <3> HIDE DEF snapshot
      <3> QED
        BY <2>2, <2>7, <3>1, <3>3
    <2>12. snapshot.matches.total =
             SumOf(DOMAIN list, LAMBDA p :
               SumOf(positions_listByProject(p, PositionStatus),
                     LAMBDA q : Cardinality(listMatches(u, q, 0))))
      <3> DEFINE size == [p \in Mine(u) |->
                   Cardinality(Heads(positions_listByProject(p, PositionStatus),
                                     [q \in positions_listByProject(p, PositionStatus) |->
                                        Cardinality(listMatches(u, q, 0))]))]
      <3>1. SumOf(DOMAIN list, LAMBDA p :
              SumOf(positions_listByProject(p, PositionStatus),
                    LAMBDA q : Cardinality(listMatches(u, q, 0))))
              = Cardinality(Heads(Mine(u), size))
        BY SumsOfReads
      <3>2. \A p \in Mine(u) : size[p] =
              Cardinality(Heads(positions_listByProject(p, PositionStatus),
                                [q \in positions_listByProject(p, PositionStatus) |->
                                   Cardinality(listMatches(u, q, 0))]))
        OBVIOUS
      <3> HIDE DEF size
      <3>3. Cardinality(Heads(Mine(u), size)) = Cardinality(JoinedMatches(u))
        BY <2>1, <3>2, MatchesInParts
      <3> HIDE DEF snapshot
      <3> QED
        BY <2>2, <3>1, <3>3
    <2>13. /\ snapshot.candidates.total = Cardinality({e \in snapshot.activity : e.src = "match"})
           /\ {e.project_id : e \in {f \in snapshot.activity : f.src = "match"}}
                \subseteq DOMAIN list
           /\ Cardinality(snapshot.activity) =
                snapshot.candidates.total + Cardinality(DOMAIN recommendations)
      <3> HIDE DEF snapshot, list
      <3>1. /\ Cardinality(matchEvents(u)) = Cardinality(JoinedMatches(u))
            /\ Cardinality(queryRecentActivity(u))
                 = Cardinality(JoinedMatches(u)) + Cardinality(DOMAIN recommendations)
            /\ \A e \in matchEvents(u) : e.project_id \in Mine(u)
        BY <2>1, ActivityIs
      <3>2. matchEvents(u) = {e \in snapshot.activity : e.src = "match"}
        BY <2>2 DEF matchEvents
      <3> QED
        BY <2>2, <2>4, <3>1, <3>2
    <2>14. snapshot.projects.total = Cardinality(DOMAIN list)
      <3> HIDE DEF snapshot, list
      <3> QED
        BY <2>2, <2>4
    <2>15. \A s \in PositionStatus : snapshot.positions.by_status[s] =
             SumOf(DOMAIN list, LAMBDA p : Cardinality(positions_listByProject(p, {s})))
      BY <2>6
    <2> QED
      BY <2>4, <2>5, <2>10, <2>11, <2>12, <2>13, <2>14, <2>15
  <1> QED
    BY <1>1, Invariance, PTL
==============================================================================
