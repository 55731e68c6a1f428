SPECIFICATION Spec
CONSTANTS
  Workers = {w1, w2}
  l1 = l1
  v1 = v1
  a1 = a1
  a2 = a2
  r1 = r1
  r2 = r2
  x1 = x1
  k1 = k1
  k2 = k2
  k3 = k3
  k4 = k4
  k5 = k5
  k6 = k6
  Locks = {l1}
  LockVersions = {v1, v2}
  Authorizations = {a1, a2}
  Releases = {r1, r2}
  Executors = {x1}
  Keys = {k1, k2, k3, k4, k5, k6}
  MaxVersion = 3
  Requests <- MCRequests
SYMMETRY Symmetry
INVARIANTS
  IInv
  ValidatedIsCurrent
PROPERTIES
  BarredStaysBarred
  PromiseSpec
