CONSTANTS
  p1 = p1
  q1 = q1
  u1 = u1
  s1 = s1
  s2 = s2
  Processes = {p1, p2}
  Requests = {q1, q2}
  Seeders = {p1, p2, q1, q2, Cron}
  SeedIds = {s1, s2, s3, s4, s5, s6, s7, s8}
  PersonIds = {u1}
  Administrator = Administrator
  Nobody = Nobody
  Cron = Cron
  SeedUsers = 2
  SeedReviews = 1
  SeedVotes = 1
  Ops = {"signUp", "signIn", "signOut", "createItem", "createReview", "voteReview", "deleteVote", "deleteAccount", "requestSignOutAll", "runSeed", "health", "filterItems"}
  Starts <- SomeRows
  Budgets <- FewEvents
  RATE_LIMIT_PROFILES <- SmallLimits
SPECIFICATION HistorySpec
CONSTRAINT Bounded
INVARIANTS ServerTypeOK SeedFailsForAReason DriftHasCause ServingHasAdmin  LimitPerWindow
PROPERTIES LostOnlyByFailure ClosingEnds
CHECK_DEADLOCK FALSE
