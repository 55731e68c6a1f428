SPECIFICATION Spec
CONSTANTS
  Workers = {w1, w2}
  Checkouts = {c1}
  InitiationKeys = {k1, k2}
  RefundKeys = {}
  Events = {e1, e2, e3}
  PaidAmount = 2
  Amount <- MCAmount
  CapturedAmounts = {1}
  RefundAmounts = {1, 2}
  CreationStatuses = {"PENDING", "PROCESSING"}
  RefundReplay = TRUE
  MaxObservations = 1
SYMMETRY Symmetry
INVARIANTS
  IInv
  NoLostUpdate
  TerminalIsVerified
  MatchIsFinal
