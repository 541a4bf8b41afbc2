CONSTANTS
  r1 = r1 r2 = r2 r3 = r3
  None = None
  Requests = {r1, r2, r3}
  Kinds = {"read", "put", "authorize", "callback", "logout"}
  Stores = {"memory", "redis"}
SYMMETRY Symmetry
SPECIFICATION Spec
INVARIANTS SeesWhatWasLeft WritesMeet DeletedIsGone StateIsUsedOnce
CHECK_DEADLOCK FALSE
