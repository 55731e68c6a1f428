SPECIFICATION FairSpec
CONSTANTS
  Tokens = {t1, t2, t3}
  Fingerprints = {f1, f2}
  Outcomes = {plain, exact}
  WithOutput = {exact}
INVARIANTS
  IInv
  AtMostOnce
  AnswersAgree
PROPERTIES
  CompletedIsFinal
  PromiseSpec
  NoLimbo
