CONSTANTS
  u1 = u1
  u2 = u2
  r1 = r1
  Users = {u1, u2}
  Reviews = {r1}
  Backends = {b1}
  Deleters = {d1, d2}
  Cron = Cron
  Nobody = Nobody
  LockKeys <- Pairs
  HashText <- DistinctKeys
  Owners <- OwnedByU2
SYMMETRY Symmetry
SPECIFICATION HistorySpec
INVARIANT CountersInStep
