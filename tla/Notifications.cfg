SPECIFICATION Spec
CONSTANTS
  Workers = {w1, w2}
  Keys = {k1, k2}
  Triggers = {t1}
  Endpoints = {p1, p2}
  Channels = {"EMAIL", "SMS"}
  SesEvents = {"HARD_BOUNCED"}
  TwilioStatuses = {"sent", "delivered"}
  RuleMoves = {"ACTIVE", "SUSPENDED"}
  MaxVersion = 3
SYMMETRY Symmetry
INVARIANTS
  IInv
  AtMostOnce
  BouncesSuppress
PROPERTIES
  BarredStaysBarred
  LateEvidenceIsUnknown
  ClearedStaysCleared
  PromiseSpec
