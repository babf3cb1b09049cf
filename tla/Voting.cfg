CONSTANTS
  Users = {u1, u2}
  Reviews = {r1, r2}
  Backends = {b1, b2}
  Nobody = Nobody
  LockKeys <- KeysWithCollision
  HashText <- CollidingKeys
SPECIFICATION VotingFairSpec
INVARIANTS TypeOK CountersConsistent NeverRefused SessionInv
PROPERTIES DeleteReplyTruthful VoteReplyTruthful LedgerSpec EveryRequestAnswered
