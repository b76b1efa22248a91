SPECIFICATION Spec
CONSTANTS
  t1 = t1
  t2 = t2
  c1 = c1
  c2 = c2
  Conn = {c1, c2}
  Thread = {t1, t2}
  Query = {q1}
  Row = {r1}
  Client <- OwnConnection
  Sql = {}
  Fault = {}
PROPERTIES
  CommitIsFinal
