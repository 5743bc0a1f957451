CONSTANTS
  Processes = {c1, c2, c3}
  Txs = {t1, t2, t3}
  Nothing = Nothing
  Overlap <- Intended
SYMMETRY Alike
SPECIFICATION Spec
INVARIANTS Remembered OneAtATime
