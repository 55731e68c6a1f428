SPECIFICATION Spec
CONSTANTS
  Workers = {w1, w2}
  o1 = o1
  o2 = o2
  i1 = i1
  i2 = i2
  Orders = {o1, o2}
  Keys = {k1, k2, k3}
  Inputs = {i1, i2}
  OrderOf <- MCOrderOf
  Times = {0, 1, 2}
  Ttl = 1
SYMMETRY Symmetry
INVARIANTS
  IInv
  ValidityDisjoint
  OkIsRecorded
