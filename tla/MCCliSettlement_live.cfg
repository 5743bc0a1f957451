CONSTANTS
  Processes = {c1}
  Txs = {t1, t2}
  Nothing = Nothing
  Overlap <- Alone
SPECIFICATION FairSpec
PROPERTIES LockIsFreed
