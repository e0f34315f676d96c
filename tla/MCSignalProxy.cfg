SPECIFICATION Spec
CONSTANTS
  n1 = n1
  n2 = n2
  id = id
  o1 = o1
  o2 = o2
  o3 = o3
  Names = {n1, n2, id}
  Objs = {o1, o2, o3}
  Ids = {id}
  None = None
  MaxValue = 2
  MaxWire = 3
SYMMETRY Symmetry
INVARIANTS RightObject Synchronized
