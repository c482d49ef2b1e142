CONSTANTS
  NULL = NULL
  ann = ann
  bob = bob
  eve = eve
  carl = carl
  dora = dora
  text = text
  Users = {ann, bob, eve}
  PMs = {ann, bob}
  Candidates = {carl, dora}
  ProjectIds = {p1, p2}
  PositionIds = {q1, q2}
  PlanIds = {s1, s2, s3}
  DecompositionIds = {d1}
  RecommendationIds = {r1}
  Targets = {text}
  Specs <- MCSpecs
  Profiles <- MCProfiles
  ProfilesOf <- MCProfilesOf
  Mentions <- MCMentions
  Fallback <- senior
  StatusInputs = {"planning", "filled"}
  Headcounts = {1}
  Filled = {1}
  PlanContents <- MCPlanContents
  Leaving = {dora}
  MaxBulk = 2
SPECIFICATION Spec
SYMMETRY Symmetry
CONSTRAINT Budget
CHECK_DEADLOCK FALSE
INVARIANT TypeOK
INVARIANT NoDanglingRows
INVARIANT OneSelectedPlan
INVARIANT ReadsAgree
PROPERTY SelectionSurvives
PROPERTY PmIsolation
PROPERTY RecomputeIsComplete
