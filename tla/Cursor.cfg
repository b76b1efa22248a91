SPECIFICATION Spec
CONSTANTS
  Conn = {c1, c2}
  Reader = c1
  Query = {q1}
  Row = {1, 2, 3}
INVARIANTS
  TypeOK
  ScanIsExact
  
PROPERTIES
  RowsAscend
  LoopTerminates
