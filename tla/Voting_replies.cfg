CONSTANTS
  Users = {u1, u2}
  Reviews = {r1}
  Backends = {b1, b2}
  Nobody = Nobody
  LockKeys <- Pairs
  HashText <- DistinctKeys
SPECIFICATION VotingFairSpec
PROPERTY RepliesAsDocumented
