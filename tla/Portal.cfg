CONSTANTS
  NULL = NULL
  Users = {hal, hope, pam}
  Hunters = {hal, hope}
  PMs = {pam}
  Newcomers = {hal}
  Suspendable = {hal}
  Metered = {hal}
  QUOTA_PER_DAY <- MCQuotaPerDay
  QuotaInputs = {1}
  Notified = {hal}
  DedupKeys = {unlock}
  Ids = {r1, r2}
  Subjects = {carl}
  Notes = {}
  Bodies = {hired}
SPECIFICATION Spec
INVARIANT SentTwiceCountsOnce
INVARIANT MenuIsHonest
PROPERTY DesksAreApart
PROPERTY QuotaComesBack
