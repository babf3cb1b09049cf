CONSTANTS
  m1 = m1
  Users = {m1, u1}
  Requests = {q1, q2}
  Links = {t1}
  Nobody = Nobody
  Role <- Roles
  MaxMishaps = 0
SPECIFICATION AccountsSpec
PROPERTIES DeletedStaysDeleted
CHECK_DEADLOCK FALSE
