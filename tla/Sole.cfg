SPECIFICATION Spec
CONSTANTS
  t1 = t1
  t2 = t2
  c1 = c1
  c2 = c2
  Conn = {c1}
  Thread = {t1}
  Query = {q1, q2}
  Row = {r1, r2, r3}
  Client <- OneClient
  Sql = {"INSERT", "BEGIN"}
  Fault = {"constraint"}
INVARIANTS
  NoOrphanTransaction
  KeptIsDurable
  UndoneIsGone
PROPERTIES
  CommitIsFinal
