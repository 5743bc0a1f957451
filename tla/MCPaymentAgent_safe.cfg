CONSTANTS
  Agents = {a1, a2}
  Calls = {c1, c2}
  Txs = {t1, t2}
  Nothing = Nothing
  Overlaps = {TRUE, FALSE}
SYMMETRY Alike
SPECIFICATION Spec
INVARIANTS NoneForgotten NoSecondPayment ExclusivePayer
PROPERTIES SentDurably
