CONSTANTS
  Agents = {a1, a2}
  Calls = {c1}
  Txs = {t1}
  Nothing = Nothing
  Overlaps = {FALSE}
SPECIFICATION FairSpec
PROPERTIES Unblocked
