SPECIFICATION Spec
CONSTANTS
  Conn = {c1, c2}
  Query = {q1}
  Row = {r1}
  Caller = {j1, j2}
  Object = {o1, o2}
  None = None
  Sharing = TRUE
INVARIANTS
  HandlesAreLive
