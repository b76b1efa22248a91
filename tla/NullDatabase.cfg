SPECIFICATION Spec
CONSTANTS
  Thread = {t1, t2, t3}
  Path = {p1}
  Inode = {i1, i2}
  Object = {o1, o2, o3}
  None = None
  Removal = "unused"
PROPERTIES
  NeverNull
