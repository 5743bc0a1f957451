CONSTANTS
  m1 = m1
  m2 = m2
  m3 = m3
  u1 = u1
  u2 = u2
  v1 = v1
  v2 = v2
  usd = usd
  p1 = p1
  NoPool = NoPool
  Mandates = {m1, m2, m3}
  Users = {u1, u2}
  Merchants = {v1, v2}
  Assets = {usd}
  Pools = {p1}
  Offers <- PoolOffers
  PoolTerms <- FloorPool
  CaptureWindow = 1
  MaxPoolMembers = 2
  MaxPoolHorizon = 2
  MaxSchedulePoints = 2
  MaxUnitPrice = 3
  MaxQty = 3
  MaxTime = 3
  PayAmounts = {}
  ExpectedSeqs = {0, 1, 2, 3}
  Approvals = {0, 2, 6}
  InitialHolding = 6
  Holdings = {1}
  Freezable <- UserFreezable
SPECIFICATION Spec
INVARIANTS PaysSignedPayee MembershipAgrees CommittedIsSound NoMemberVeto UniformPriceCapture
PROPERTIES SimulateIsCapture
