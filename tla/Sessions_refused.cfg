CONSTANTS
  Users = {u1}
  Requests = {q1, q2}
  Nobody = Nobody
  MaxUserSessions = 2
  MaxSids = 3
  MaxMishaps = 0
SPECIFICATION SessionsSpec
PROPERTIES RefusedOnlyWhenFull
CHECK_DEADLOCK FALSE
