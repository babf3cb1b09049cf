CONSTANTS
  m1 = m1
  Users = {m1, u1}
  Requests = {q1, q2}
  Links = {t1, t2}
  Nobody = Nobody
  Role <- Roles
  MaxMishaps = 1
SYMMETRY Symmetry
SPECIFICATION AccountsSpec
INVARIANTS AccountsTypeOK UsedLinkInert CacheTruthful
PROPERTIES ChangesLegal
CHECK_DEADLOCK FALSE
