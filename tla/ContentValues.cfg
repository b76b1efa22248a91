SPECIFICATION Spec
CONSTANTS
  k1 = k1
  k2 = k2
  k3 = k3
  Key = {k1, k2, k3}
  Value = {v1, v2}
  Handle = {h1, h2}
  Impl = {m1}
  None = None
  Torn = Torn
  Column <- TwoColumns
  AllocFails = TRUE
  MaxValues = 4
INVARIANTS
  TypeOK
  IndexesAgree
PROPERTIES
  IsKeyValueMap

SYMMETRY Symmetric
