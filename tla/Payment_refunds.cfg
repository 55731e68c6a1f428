SPECIFICATION Spec
CONSTANTS
  Workers = {w1, w2}
  Checkouts = {c1}
  InitiationKeys = {k1}
  RefundKeys = {r1, r2}
  Events = {e1, e2, e3}
  PaidAmount = 2
  Amount <- MCAmount
  CapturedAmounts = {}
  RefundAmounts = {1, 2}
  CreationStatuses = {"PENDING"}
  RefundReplay = TRUE
  MaxObservations = 0
SYMMETRY Symmetry
INVARIANTS
  RefundsWithinPayment
  RefundedIsSumOfRefunds
  RefundIsTheProviders
  IgnoredForGood
PROPERTIES
  SettledIsFinal
  ImplementsLedger
