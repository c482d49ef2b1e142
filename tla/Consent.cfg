CONSTANTS
  NULL = NULL
  Employers = {e1, e2}
  Hunters = {h1, h2}
  Candidates = {c1}
  Jobs = {j1}
  Anon = {a1}
  Suspendable = {e1, c1}
  Pooled = {a1}
  Referrers = {NULL, h1, h2}
  ColumnStages = {"submitted", "screen_passed", "interview", "offer", "onboarded"}
SYMMETRY Symmetry
SPECIFICATION Spec
INVARIANTS
  TypeOK
  RecEmployerOwnsJob
  ApplicationMirrorsRecommendation
  ContactFollowsConsent
  UnlockedIffQueued
  PlacementIsEarned
  AnnouncedPlacementExists
  PagesAgree
PROPERTIES
  OwnershipIsSticky
  NoReleaseAfterErasure
  SettledPlacementIsFinal
  BoardBelongsToOwner
  ImplementsUnlockProtocol
CHECK_DEADLOCK FALSE
