SPECIFICATION Spec
CONSTANTS
  Clients = {c1}
  s1 = s1
  s2 = s2
  o1 = o1
  o2 = o2
  m1 = m1
  m2 = m2
  m3 = m3
  Sources = {s1, s2}
  Orders = {o1, o2}
  Matters = {m1, m2, m3}
  Keys = {0, 1, 2, 3, 4, 5, 6, 7, 8}
  Requests <- MCRequests
CONSTRAINT ElsewhereFirst
SYMMETRY Symmetry
INVARIANTS
  MatterMeetsChecks
