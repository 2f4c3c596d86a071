SPECIFICATION Spec
CONSTANTS
  Chats = {k1}
  Evidence = {e1, e2}
  None = None
  NotFound = NotFound
  MaxCrashes = 1
SYMMETRY Alike
INVARIANTS TypeOK PollsAreWhole AnswersAreGrounded
CHECK_DEADLOCK FALSE
