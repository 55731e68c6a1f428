SPECIFICATION StoredRetrySpec
CONSTANTS
  Workers = {w1}
  Checkouts = {c1}
  InitiationKeys = {k1}
  RefundKeys = {r1}
  Events = {e1, e2}
  PaidAmount = 1
  Amount <- MCAmount
  CapturedAmounts = {}
  RefundAmounts = {1}
  CreationStatuses = {"PENDING"}
  RefundReplay = FALSE
  MaxObservations = 0
PROPERTIES
  RefundStoredOnRetry
