SPECIFICATION Spec
CONSTANTS
  t1 = t1
  t2 = t2
  c1 = c1
  c2 = c2
  Conn = {c1, c2}
  Thread = {t1}
  Query = {q1}
  Row = {r1}
  Client <- TwoConnections
  Sql = {"BEGIN", "BEGIN;", "COMMIT;", "ROLLBACK;"}
  Fault = {"constraint", "rollback", "bind"}
INVARIANTS
  TypeOK
  LockInv
PROPERTIES
  ReadersUndisturbed

SYMMETRY TwoConnectionsSymmetry
