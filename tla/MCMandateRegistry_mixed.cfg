CONSTANTS
  m1 = m1
  m2 = m2
  m3 = m3
  u1 = u1
  u2 = u2
  v1 = v1
  v2 = v2
  usd = usd
  p1 = p1
  NoPool = NoPool
  Mandates = {m1, m2}
  Users = {u1, u2}
  Merchants = {v1, v2}
  Assets = {usd}
  Pools = {p1}
  Offers <- MixedOffers
  PoolTerms <- FloorPool
  CaptureWindow = 1
  MaxPoolMembers = 2
  MaxPoolHorizon = 2
  MaxSchedulePoints = 2
  MaxUnitPrice = 3
  MaxQty = 3
  MaxTime = 3
  PayAmounts <- Signed
  ExpectedSeqs = {0, 1, 2}
  Approvals = {0, 2, 6}
  InitialHolding = 6
  Holdings = {}
  Freezable <- MerchantFreezable
SPECIFICATION FairSpec
INVARIANTS TypeOK SpentIsTransferred MerchantsReceiveSpent SequenceConsumedOnce
PROPERTIES ImplementsAuthority CommitmentKept MembersAreFreed
