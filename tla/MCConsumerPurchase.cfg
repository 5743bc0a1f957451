CONSTANTS
  s1 = s1
  s2 = s2
  Calls = {c1, c2}
  SourceIds <- TwoSources
  Txs = {t1, t2}
  Nothing = Nothing
  Lost = Lost
SPECIFICATION FairSpec
INVARIANTS BoughtOnce PaidIsRecoverable OutcomeIsTruth
PROPERTIES ReceiptsResolve
