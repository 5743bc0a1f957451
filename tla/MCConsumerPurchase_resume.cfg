CONSTANTS
  s1 = s1
  s2 = s2
  Calls = {c1}
  SourceIds <- TwoSources
  Txs = {t1, t2}
  Nothing = Nothing
  Lost = Lost
SPECIFICATION Spec
INVARIANTS Resumable
