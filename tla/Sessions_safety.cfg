CONSTANTS
  Users = {u1}
  Requests = {q1, q2}
  Nobody = Nobody
  MaxUserSessions = 1
  MaxSids = 3
  MaxMishaps = 1
SYMMETRY Symmetry
SPECIFICATION SessionsSpec
CONSTRAINT Bounded
INVARIANTS SessionsTypeOK ClosedStaysClosed OvershootBounded
PROPERTIES SignedOutIsCleaned
CHECK_DEADLOCK FALSE
