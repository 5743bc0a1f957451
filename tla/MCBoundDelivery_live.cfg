CONSTANTS
  r1 = r1
  r2 = r2
  t1 = t1
  t2 = t2
  p1 = p1
  p2 = p2
  p3 = p3
  p4 = p4
  p5 = p5
  body = body
  user = user
  agent = agent
  stranger = stranger
  merchant = merchant
  xlm = xlm
  usdc = usdc
  registry = registry
  m1 = m1
  m2 = m2
  secret = secret
  mainnet = mainnet
  Requests = {r1, r2}
  Site <- TheSite
  Net <- TheNet
  Target <- TheTarget
  Mandate <- TheMandates
  Results = {body}
  Terminal = Terminal
  Nothing = Nothing
  Absent = Absent
  Garbage = Garbage
  MaxStroops = 1000
  Skew = 0
  MaxProofAge = 1
  RpcLag = 1
  Txs = {t1, t2}
  Chain <- TwoPayments
  Proofs = {p1, p2}
  Proof <- ProofEach
  StoreFaults = {t2}
  MaxTime = 2
  MaxCrashes = 2
SPECIFICATION FairSpec
PROPERTIES ClaimIsAnswered
