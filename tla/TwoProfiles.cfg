CONSTANTS
  NULL = NULL
  Employers = {e1}
  Hunters = {h1, h2}
  Candidates = {c1, c2}
  Jobs = {j1}
  Anon = {a1, a2}
  Suspendable = {}
  Pooled = {}
  Referrers = {NULL}
  ColumnStages = {}
SYMMETRY Symmetry
SPECIFICATION Spec
INVARIANTS
  OneActiveApplication
  ContactFollowsConsent
PROPERTIES
  NoReleaseAfterErasure
CHECK_DEADLOCK FALSE
