SPECIFICATION Spec
CONSTANTS
  Workers = {w1, w2}
  Checkouts = {c1}
  InitiationKeys = {k1}
  RefundKeys = {}
  Events = {e1}
  PaidAmount = 1
  Amount <- MCAmount
  CapturedAmounts = {}
  RefundAmounts = {1}
  CreationStatuses = {"PROCESSING"}
  RefundReplay = TRUE
  MaxObservations = 0
INVARIANTS
  OpenIsUnsettled
