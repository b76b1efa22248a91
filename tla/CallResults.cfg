SPECIFICATION Spec
CONSTANTS
  Conn = {c1, c2}
  Shared = c1
  Query = {q1}
  Row = {r1}
  Thread = {t1, t2}
  None = None
INVARIANTS
  TypeOK
  CountIsOwn
  ErrorTellsInsert
  ErrorTellsCommit
SYMMETRY Symmetric
