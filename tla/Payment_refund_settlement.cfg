SPECIFICATION StoredFairSpec
CONSTANTS
  Workers = {w1, w2}
  Checkouts = {c1}
  InitiationKeys = {k1}
  RefundKeys = {r1}
  Events = {e1, e2}
  PaidAmount = 1
  Amount <- MCAmount
  CapturedAmounts = {}
  RefundAmounts = {1}
  CreationStatuses = {"PENDING"}
  RefundReplay = TRUE
  MaxObservations = 0
PROPERTIES
  EveryEventAnswered
  RefundOutcomeSettles
  FullSuccessSettles
