CONSTANTS
  NULL = NULL
  Employers = {e1}
  Hunters = {h1, h2}
  Candidates = {c1}
  Jobs = {j1}
  Anon = {a1}
  Suspendable = {}
  Pooled = {}
  Referrers = {NULL}
  ColumnStages = {"submitted"}
SPECIFICATION Spec
INVARIANT ErasedCandidateHasNoPii
CHECK_DEADLOCK FALSE
