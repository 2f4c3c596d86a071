SPECIFICATION RTSpec
CONSTANTS
  Requests = {q1, q2, q3, q4, q5}
  Users = {u1, u2}
  None = None
SYMMETRY Interchangeable
INVARIANTS RTTypeOK ParentsAreRevoked AlarmsHaveACause RevokedMeansOver
CHECK_DEADLOCK FALSE
