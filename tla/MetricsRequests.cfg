SPECIFICATION Spec
CONSTANTS
  Requests = {r1, r2}
  MaxChanges = 1
  Nil = Nil
INVARIANTS TypeOK ResponsesAreRecent LoneRequestsShowTheirOwn
CHECK_DEADLOCK FALSE
