CONSTANTS
  r1 = r1
  r2 = r2
  t1 = t1
  t2 = t2
  t3 = t3
  t4 = t4
  t5 = t5
  t6 = t6
  m1 = m1
  m2 = m2
  user = user
  agent = agent
  stranger = stranger
  merchant = merchant
  other = other
  xlm = xlm
  usdc = usdc
  registry = registry
  fake = fake
  mainnet = mainnet
  cheap = cheap
  dear = dear
  namespace = namespace
  full = full
  half = half
  wrong = wrong
  faked = faked
  failed = failed
  twice = twice
  elsewhere = elsewhere
  captured = captured
  signed = signed
  again = again
  tampered = tampered
  resigned = resigned
  rehashed = rehashed
  Requests = {r1, r2}
  Txs = {t1, t2, t3, t4, t5, t6}
  Old = {t2, t3, t4, t5, t6}
  Items <- TheItems
  Item <- TheItem
  StoreFaults = {half, again}
  Shop <- TheShop
  Price <- ThePrice
  Net <- TheNet
  Namespace = namespace
  Intents <- TheIntents
  Mandate <- TheMandates
  Chain <- TheChain
  MaxProofAge = 1
  RpcLag = 1
  MaxTime = 3
  Skew = 0
  MaxStroops = 1000
  Garbage = Garbage
  Absent = Absent
  Nothing = Nothing
SYMMETRY Alike
SPECIFICATION Spec
INVARIANTS AdmittedOnce AdmittedIsPaid HonestIsAdmitted
PROPERTIES AdmittedIsSigned
