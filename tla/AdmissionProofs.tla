--------------------------- MODULE AdmissionProofs ---------------------------
(***************************************************************************)
(* What the two gates promise, for every set of requests, items and        *)
(* transactions.                                                           *)
(*                                                                         *)
(* The invariant of a request says, at each point of its code, what the    *)
(* checks it has passed have established (RequestOK); that of the stores   *)
(* says that the keys consumed are those of the items admitted, but for    *)
(* what a failing store consumed (Books).  What the checks themselves      *)
(* establish is no matter of steps: that a payment shown by a transaction  *)
(* was made by it is proved in VerificationProofs, and that a credential   *)
(* the validator accepts is what its user signed, and one a user signed is *)
(* accepted, is proved here of the operators of Ap2, from the two          *)
(* assumptions on hashes and signatures (Crypto, SignatureAssumption).     *)
(***************************************************************************)
EXTENDS Admission, VerificationProofs

-----------------------------------------------------------------------------
(* The inductive invariant                                                 *)

States  == {"idle", "verify", "consume", "answer"}
Answers == {"refused", "unavailable", "duplicate", "admitted", Nothing}

TypeInv ==
    /\ now \in Nat
    /\ settled \in [Txs -> Nat \cup {Nothing}]
    /\ request \in [Requests -> [pc : States, item : Items \cup {Nothing}, at : Nat, answer : Answers]]
    /\ admitted \in [Items -> Nat]

\* The item's transaction has settled, succeeded and shows what its route asks for.
Earned(i) == /\ Presentable(i) /\ i \in Paying
             /\ settled[Item[i].tx] # Nothing /\ Chain[Item[i].tx].status = "SUCCESS"

\* What is refused had been given its chance.
FairlyRefused(i, at) ==
    /\ i \in Honest => settled[Item[i].tx] # Nothing /\ now - settled[Item[i].tx] > MaxProofAge
    /\ i \in SignedFor => Item[i].credential.payload.intent.expiry.at <= at

\* What is known of a call at each point of it.
RequestOK(r) ==
    LET q == request[r] IN
    /\ q.pc # "idle" => q.item \in Items
    /\ q.pc = "verify" => q.item \in Payments /\ Presentable(q.item)
    /\ q.pc = "consume" => IF q.item \in Payments THEN Earned(q.item)
                           ELSE Valid(Item[q.item].credential, Item[q.item].input, q.at)
    /\ q.pc = "answer" /\ q.answer = "refused"   => FairlyRefused(q.item, q.at)
    /\ q.pc = "answer" /\ q.answer = "duplicate" => Key(q.item) \in consumed

\* The store's keys are those of what was admitted, but for its failures.
Books ==
    /\ \A i \in Items : admitted[i] > 0 => Key(i) \in consumed /\ (i \in Payments => Earned(i))
    /\ \A i, j \in Items : admitted[i] > 0 /\ admitted[j] > 0 /\ Key(i) = Key(j) =>
          i = j /\ admitted[i] = 1
    /\ \A key \in consumed : \E j \in Items : Key(j) = key /\ (admitted[j] > 0 \/ j \in StoreFaults)

IInv == TypeInv /\ (\A r \in Requests : RequestOK(r)) /\ Books

-----------------------------------------------------------------------------
(* What the checks establish                                               *)

\* A text has a whole number of stroops, or none.
LEMMA StroopsAreWhole ==
    ASSUME NEW text, IsText(text), NEW decimals \in Nat
    PROVE  ToStroops(text, decimals) \in Int \cup {Garbage}
<1>1. CASE text = Garbage \/ text.places > decimals
  BY <1>1 DEF ToStroops
<1>2. CASE ~ (text = Garbage \/ text.places > decimals)
  <2>1. text.units \in Nat /\ text.places \in Nat /\ decimals - text.places \in Nat
    BY <1>2 DEF IsText
  <2>2. 10 ^ (decimals - text.places) \in Int
    BY <2>1
  <2>3. text.units * 10 ^ (decimals - text.places) \in Int
    BY <2>1, <2>2
  <2> QED  BY <1>2, <2>3 DEF ToStroops
<1> QED  BY <1>1, <1>2

\* Two items have one key just if they present one thing.
LEMMA KeysTell ==
    ASSUME NEW i \in Items, NEW j \in Items
    PROVE  Key(i) = Key(j) <=> SameThing(i, j)
<1>1. \A a, b, c, d, e : <<a, b, c>> # <<d, e>>
  OBVIOUS
<1>2. \A a, b, c, d : (<<a, b, c>> = <<a, b, d>> <=> c = d) /\ (<<a, c>> = <<a, d>> <=> c = d)
  OBVIOUS
<1> QED  BY <1>1, <1>2 DEF Key, RedemptionKey, SameThing, Payments, Mandates

\* Who takes the route's challenge and pays what it asks passes every check of it.
LEMMA HonestIsShown ==
    ASSUME NEW i \in Honest
    PROVE  Presentable(i) /\ i \in Paying /\ Chain[Item[i].tx].status = "SUCCESS"
<1> DEFINE t    == Item[i].tx
           need == Need(i)
<1>1. i \in Payments /\ i \in Items /\ t \in Txs /\ t \in DOMAIN Chain
  BY AdmissionAssumption, PaymentAssumption DEF Honest, Payments
<1>2. PICK m \in DOMAIN Mandate :
         /\ Mandate[m].decimals = Shop.decimals
         /\ Payable(BuildChallenge(Item[i].resource), Mandate[m], Net, Nothing, 0, TRUE)
         /\ Chain[t] = [status |-> "SUCCESS", calls |-> <<Pay(Net.registry, m, need.stroops)>>]
  BY DEF Honest, PaidFor
<1>3. Item[i].scheme = Shop.scheme /\ Item[i].network = Shop.network
  BY DEF Honest, PaidFor
<1>4. Mandate[m].merchant = Shop.merchant /\ Mandate[m].asset = Shop.asset
  BY <1>2, PaymentAssumption DEF Payable, BuildChallenge
<1>5. need.merchant = Shop.merchant /\ need.asset = Shop.asset /\ need.registry = Shop.registry
      /\ need.stroops = ToStroops(Price[Item[i].resource], Shop.decimals)
  BY DEF Need
<1>6. Chain[t].status = "SUCCESS" /\ Chain[t].calls = <<Pay(need.registry, m, need.stroops)>>
  <2>1. Net.registry = need.registry
    BY <1>5, PaymentAssumption
  <2> HIDE DEF t, need
  <2> QED  BY <1>2, <2>1
<1> DEFINE c == Pay(need.registry, m, need.stroops)
<1>7. c.op = "pay" /\ c.amount = need.stroops
  BY DEF Pay
<1>8. DOMAIN Chain[t].calls = {1} /\ Chain[t].calls[1] = c
  BY <1>6
<1>9. need.stroops \in Nat \ {0} /\ VerifiedPayment(t, PaymentEvent(c), need) # Nothing
  <2> HIDE DEF c
  <2> QED  BY <1>1, <1>7, <1>8, PaymentAssumption
<1>10. Presentable(i)
  BY <1>3, <1>5, <1>9, SignatureAssumption DEF Presentable, IsPrice
<1>11. Shown(t, need) = VerifiedPayment(t, PaymentEvent(c), need)
  <2> HIDE DEF need, t
  <2> QED  BY <1>1, <1>4, <1>5, <1>6, <1>9, PaymentIsShown
<1> QED  BY <1>1, <1>6, <1>9, <1>10, <1>11 DEF Paying

\* A signed credential, taken apart: what its signature is of tells every field of it.
LEMMA SignatureTells ==
    ASSUME NEW k1, NEW v1, NEW p1, NEW id1, NEW k2, NEW v2, NEW p2, NEW id2,
           Sign(k1, SigningDigest(v1, p1, id1)) = Sign(k2, SigningDigest(v2, p2, id2))
    PROVE  k1 = k2 /\ p1 = p2 /\ id1 = id2
<1> DEFINE d1 == SigningDigest(v1, p1, id1)
           d2 == SigningDigest(v2, p2, id2)
<1>1. Sign(k1, d1).by = k1 /\ Sign(k2, d2).by = k2 /\ Sign(k1, d1).of = d1 /\ Sign(k2, d2).of = d2
  BY DEF Sign
<1>2. k1 = k2 /\ d1 = d2
  <2>1. Sign(k1, d1) = Sign(k2, d2)
    OBVIOUS
  <2> HIDE DEF d1, d2
  <2> QED  BY <1>1, <2>1
<1>3. \A x : Hash(x).hash = x
  BY DEF Hash
<1>4. <<v1, p1.spec, p1.key, p1.binding, Hash(p1), id1>> = <<v2, p2.spec, p2.key, p2.binding, Hash(p2), id2>>
  BY <1>2, <1>3 DEF SigningDigest
<1>5. Hash(p1) = Hash(p2) /\ id1 = id2
  <2>1. \A a, b, c, d, e, f, g, h, i, j, k, l :
           <<a, b, c, d, e, f>> = <<g, h, i, j, k, l>> => e = k /\ f = l
    OBVIOUS
  <2> QED  BY <1>4, <2>1
<1>6. p1 = p2
  BY <1>3, <1>5
<1> QED  BY <1>2, <1>5, <1>6

\* What an intent's signer normalises keeps its terms.
LEMMA NormalizedKeeps ==
    ASSUME NEW intent, IsIntent(intent)
    PROVE  LET it == Normalized(intent)
           IN  /\ it.confirm = intent.confirm /\ it.refund = intent.refund
               /\ it.merchants = intent.merchants /\ it.skus = intent.skus
               /\ it.expiry = [at |-> Utc(intent.expiry), zone |-> 0]
               /\ it.expiry.at = Utc(intent.expiry) /\ it.expiry.zone = 0
               /\ Utc(intent.expiry) \in Int
<1> DEFINE x == [at |-> Utc(intent.expiry), zone |-> 0]
<1>1. x.at = Utc(intent.expiry) /\ x.zone = 0 /\ Utc(intent.expiry) \in Int
  BY DEF IsIntent, Utc
<1>2. Normalized(intent) = [intent EXCEPT !.expiry = x]
  BY DEF Normalized
<1> HIDE DEF x
<1>3. \A e : LET it == [intent EXCEPT !.expiry = e]
             IN  /\ it.confirm = intent.confirm /\ it.refund = intent.refund
                 /\ it.merchants = intent.merchants /\ it.skus = intent.skus /\ it.expiry = e
  BY DEF IsIntent
<1> QED  BY <1>1, <1>2, <1>3 DEF x

\* The two sides bind alike: the mandate rebuilt from the payload a signer made is the
\* one the signer bound.
LEMMA SidesBindAlike ==
    ASSUME NEW intent, IsIntent(intent), NEW stellar
    PROVE  RebuildBinding(Payload(intent, stellar)) = BindIntentMandate(intent, stellar)
<1> DEFINE it == Normalized(intent)
           p  == Payload(intent, stellar)
<1>1. it.merchants = intent.merchants /\ it.expiry.at = Utc(intent.expiry)
  BY NormalizedKeeps
<1>2. p.intent = it /\ p.stellar = stellar /\ p.binding = BindingVersion
  BY DEF Payload
<1> HIDE DEF it, p
<1>3. RebuildBinding(p) =
        CreateIntentMandate(stellar.user, stellar.agent, intent.merchants[1], stellar.asset,
           stellar.max, Utc(intent.expiry), stellar.decimals, <<BindingVersion, Hash(it), stellar.nonce>>)
  BY <1>1, <1>2 DEF RebuildBinding
<1> QED  BY <1>3 DEF BindIntentMandate, it, p

\* What the validator accepts is what its user signed: whoever made the credential, and
\* whatever was changed in it, the mandate it binds is the one of the user's own terms,
\* and the purchase is within them.
THEOREM AcceptedIsSigned ==
    ASSUME NEW i \in Mandates, NEW at, Valid(Item[i].credential, Item[i].input, at)
    PROVE  \E s \in Intents :
              /\ s.stellar.user = Item[i].input.user
              /\ RebuildBinding(Item[i].credential.payload) = BindIntentMandate(s.intent, s.stellar)
              /\ s.intent.merchants = <<Item[i].input.merchant>>
              /\ ToStroops(Item[i].input.amount, s.stellar.decimals)
                    \in 1 .. ToStroops(s.stellar.max, s.stellar.decimals)
              /\ at < Utc(s.intent.expiry)
<1> DEFINE c  == Item[i].credential
           in == Item[i].input
           p  == c.payload
<1>1. Authentic(c, in.user) /\ Covers(c, in, at)
  BY DEF Valid
<1> HIDE DEF c, in
<1>2. p.stellar.user = in.user
      /\ c.signature = Sign(p.stellar.user, SigningDigest(c.version, p, c.id))
  BY <1>1 DEF Authentic
<1>3. c.signature.by = in.user
  <2>1. \A k, d : Sign(k, d).by = k
    BY DEF Sign
  <2> QED  BY <1>2, <2>1
<1>4. PICK s \in Intents : /\ s.stellar.user = in.user
                           /\ c.signature = SignedCredential(s.intent, s.stellar, s.stellar.user).signature
  BY <1>3, SignatureAssumption DEF c, in
<1> DEFINE made == Payload(s.intent, s.stellar)
           id   == BindIntentMandate(s.intent, s.stellar).id
<1>5. c.signature = Sign(s.stellar.user, SigningDigest(CredentialVersion, made, id))
  <2>1. \A a, b, d, e, f : [version |-> a, payload |-> b, id |-> d, algorithm |-> e, signature |-> f].signature = f
    OBVIOUS
  <2> QED  BY <1>4, <2>1 DEF SignedCredential
<1>6. p = made
  <2>1. Sign(p.stellar.user, SigningDigest(c.version, p, c.id))
           = Sign(s.stellar.user, SigningDigest(CredentialVersion, made, id))
    BY <1>2, <1>5
  <2> HIDE DEF made, id, p
  <2> QED  BY <2>1, SignatureTells
<1>7. IsIntent(s.intent) /\ Enforceable(s.intent, 0) /\ s.stellar.decimals \in 0 .. MaxDecimals
      /\ IsText(s.stellar.max) /\ ToStroops(s.stellar.max, s.stellar.decimals) # Garbage
  BY SignatureAssumption, AdmissionAssumption
<1>8. RebuildBinding(p) = BindIntentMandate(s.intent, s.stellar)
  BY <1>6, <1>7, SidesBindAlike
<1> DEFINE mandate == BindIntentMandate(s.intent, s.stellar)
<1>9. /\ mandate.merchant = s.intent.merchants[1] /\ mandate.decimals = s.stellar.decimals
      /\ mandate.max = ToStroops(s.stellar.max, s.stellar.decimals)
      /\ mandate.expiry = Utc(s.intent.expiry)
  BY DEF BindIntentMandate, CreateIntentMandate
<1> HIDE DEF mandate
<1>10. /\ in.merchant = mandate.merchant
       /\ IsPrice(in.amount, mandate.decimals)
       /\ ToStroops(in.amount, mandate.decimals) <= mandate.max
       /\ mandate.expiry > at
  BY <1>1, <1>8 DEF Covers, p, mandate
<1>11. s.intent.merchants = <<in.merchant>>
  <2>1. s.intent.merchants \in Seq({s.intent.merchants[k] : k \in DOMAIN s.intent.merchants})
        /\ Len(s.intent.merchants) = 1
    BY <1>7 DEF IsIntent, Enforceable
  <2>2. \A S, q : q \in Seq(S) /\ Len(q) = 1 => q = <<q[1]>>
    OBVIOUS
  <2>3. s.intent.merchants = <<s.intent.merchants[1]>>
    BY <2>1, <2>2
  <2> QED  BY <2>3, <1>9, <1>10
<1>12. ToStroops(in.amount, s.stellar.decimals) \in 1 .. ToStroops(s.stellar.max, s.stellar.decimals)
  <2> DEFINE amount == ToStroops(in.amount, s.stellar.decimals)
             max    == ToStroops(s.stellar.max, s.stellar.decimals)
  <2>1. s.stellar.decimals \in Nat /\ IsText(in.amount)
    BY <1>7, SignatureAssumption DEF MaxDecimals, in
  <2>2. amount \in Int \cup {Garbage} /\ max \in Int \cup {Garbage}
    BY <2>1, <1>7, StroopsAreWhole
  <2>3. amount # Garbage /\ amount > 0 /\ amount <= max /\ max # Garbage
    BY <1>7, <1>9, <1>10 DEF IsPrice
  <2> HIDE DEF amount, max
  <2> QED  BY <2>2, <2>3 DEF amount, max
<1>13. at < Utc(s.intent.expiry)
  BY <1>9, <1>10
<1> QED  BY <1>4, <1>8, <1>11, <1>12, <1>13 DEF c, in, p

\* A credential its user signed is accepted, for whatever purchase is within its terms,
\* until it expires.
THEOREM SignedIsAccepted ==
    ASSUME NEW i \in SignedFor, NEW at \in Nat,
           ~ (Item[i].credential.payload.intent.expiry.at <= at)
    PROVE  Valid(Item[i].credential, Item[i].input, at)
<1> DEFINE c  == Item[i].credential
           in == Item[i].input
<1>1. i \in Mandates
  BY DEF SignedFor
<1>2. PICK s \in Intents :
         /\ c = SignedCredential(s.intent, s.stellar, s.stellar.user)
         /\ in.user = s.stellar.user
         /\ <<in.merchant>> = s.intent.merchants
         /\ ToStroops(in.amount, s.stellar.decimals)
               \in 1 .. ToStroops(s.stellar.max, s.stellar.decimals)
  BY DEF SignedFor
<1> DEFINE p  == Payload(s.intent, s.stellar)
           it == Normalized(s.intent)
           id == BindIntentMandate(s.intent, s.stellar).id
<1>3. IsIntent(s.intent) /\ Enforceable(s.intent, 0) /\ s.stellar.decimals \in 0 .. MaxDecimals
      /\ IsText(s.stellar.max) /\ ToStroops(s.stellar.max, s.stellar.decimals) # Garbage
      /\ IsText(in.amount)
  BY <1>1, SignatureAssumption, AdmissionAssumption
<1> HIDE DEF in
<1>4. /\ c.version = CredentialVersion /\ c.payload = p /\ c.id = id /\ c.algorithm = Algorithm
      /\ c.signature = Sign(s.stellar.user, SigningDigest(CredentialVersion, p, id))
  <2>1. \A a, b, d, e, f :
           LET x == [version |-> a, payload |-> b, id |-> d, algorithm |-> e, signature |-> f]
           IN  x.version = a /\ x.payload = b /\ x.id = d /\ x.algorithm = e /\ x.signature = f
    OBVIOUS
  <2>2. c = [version |-> CredentialVersion, payload |-> p, id |-> id, algorithm |-> Algorithm,
             signature |-> Sign(s.stellar.user, SigningDigest(CredentialVersion, p, id))]
    BY <1>2 DEF SignedCredential
  <2> HIDE DEF c, p, id
  <2> QED  BY <2>1, <2>2
<1>5. /\ p.spec = SpecVersion /\ p.key = DataKey /\ p.binding = BindingVersion
      /\ p.intent = it /\ p.stellar = s.stellar
  BY DEF Payload
<1>6. /\ it.confirm = s.intent.confirm /\ it.refund = s.intent.refund
      /\ it.merchants = s.intent.merchants /\ it.skus = s.intent.skus
      /\ it.expiry.at = Utc(s.intent.expiry) /\ it.expiry.zone = 0
      /\ Utc(s.intent.expiry) \in Int
  BY <1>3, NormalizedKeeps
<1>7. /\ ~ s.intent.confirm /\ ~ s.intent.refund
      /\ Len(s.intent.merchants) = 1 /\ s.intent.skus = << >> /\ Utc(s.intent.expiry) > 0
  BY <1>3 DEF Enforceable
<1>8. RebuildBinding(p) = BindIntentMandate(s.intent, s.stellar)
  BY <1>3, SidesBindAlike
<1> HIDE DEF c, it, p, id
<1>9. ParsesAsCredential(c)
  BY <1>3, <1>4, <1>5, <1>6, <1>7 DEF ParsesAsCredential
<1>10. Rebindable(p)
  BY <1>3, <1>5, <1>6, <1>7 DEF Rebindable
<1>11. Authentic(c, in.user)
  <2>1. RebuildBinding(c.payload).id = c.id
    BY <1>4, <1>8 DEF id
  <2>2. c.payload.stellar.user = in.user /\ Rebindable(c.payload)
    BY <1>2, <1>4, <1>5, <1>10
  <2>3. c.signature = Sign(c.payload.stellar.user, SigningDigest(c.version, c.payload, c.id))
    BY <1>4, <1>5
  <2> QED  BY <1>9, <2>1, <2>2, <2>3 DEF Authentic
<1> DEFINE mandate == BindIntentMandate(s.intent, s.stellar)
<1>12. /\ mandate.merchant = s.intent.merchants[1] /\ mandate.decimals = s.stellar.decimals
       /\ mandate.max = ToStroops(s.stellar.max, s.stellar.decimals)
       /\ mandate.expiry = Utc(s.intent.expiry)
  BY DEF BindIntentMandate, CreateIntentMandate
<1> HIDE DEF mandate
<1>13. in.merchant = mandate.merchant
  BY <1>2, <1>12
<1>14. mandate.expiry > at
  BY <1>4, <1>5, <1>6, <1>12 DEF c
<1>15. /\ IsPrice(in.amount, mandate.decimals)
       /\ ToStroops(in.amount, mandate.decimals) <= mandate.max
  <2> DEFINE amount == ToStroops(in.amount, s.stellar.decimals)
             max    == ToStroops(s.stellar.max, s.stellar.decimals)
  <2>1. s.stellar.decimals \in Nat
    BY <1>3 DEF MaxDecimals
  <2>2. amount \in Int \cup {Garbage} /\ max \in Int \cup {Garbage} /\ max # Garbage
    BY <2>1, <1>3, StroopsAreWhole
  <2>3. amount \in 1 .. max
    BY <1>2
  <2>4. amount # Garbage /\ amount > 0 /\ amount <= max
    <3> HIDE DEF amount, max
    <3> QED  BY <2>2, <2>3, SignatureAssumption
  <2> QED  BY <1>12, <2>4 DEF IsPrice
<1>16. Covers(c, in, at)
  BY <1>4, <1>8, <1>13, <1>14, <1>15 DEF Covers, mandate
<1> QED  BY <1>11, <1>16 DEF Valid, c, in
-----------------------------------------------------------------------------
(* The steps keep the invariant                                            *)

\* An item names a settlement transaction, or it is a mandate.
LEMMA ItemsAreTold ==
    /\ \A i \in Payments : i \in Items /\ Item[i].tx \in Txs
    /\ \A i \in Items : i \notin Payments => i \in Mandates
    /\ \A i \in Mandates : i \in Items /\ i \notin Payments
BY AdmissionAssumption DEF Payments, Mandates

\* Time passing and transactions settling take nothing from what was established.
LEMMA EstablishedStays ==
    ASSUME TypeInv, now' \in Nat, now <= now',
           \A t \in Txs : settled[t] # Nothing => settled'[t] = settled[t]
    PROVE  /\ \A i \in Items : i \in Payments /\ Earned(i) => Earned(i)'
           /\ \A i \in Items, at \in Nat : FairlyRefused(i, at) => FairlyRefused(i, at)'
<1>1. ASSUME NEW i \in Items, i \in Payments, Earned(i) PROVE Earned(i)'
  BY <1>1, ItemsAreTold DEF Earned, Presentable, Paying, Need
<1>2. ASSUME NEW i \in Items, NEW at \in Nat, FairlyRefused(i, at) PROVE FairlyRefused(i, at)'
  <2> DEFINE t == Item[i].tx
  <2>1. i \in Honest => /\ i \in Payments /\ t \in Txs /\ settled[t] # Nothing
                        /\ settled[t] \in Nat /\ now - settled[t] > MaxProofAge
    BY <1>2, ItemsAreTold DEF FairlyRefused, Honest, TypeInv
  <2>2. i \in Honest => settled'[t] # Nothing /\ now' - settled'[t] > MaxProofAge
    BY <2>1, AdmissionAssumption DEF TypeInv
  <2>3. i \in SignedFor => Item[i].credential.payload.intent.expiry.at <= at
    BY <1>2 DEF FairlyRefused
  <2> QED  BY <2>2, <2>3 DEF FairlyRefused
<1> QED  BY <1>1, <1>2

\* At first the invariant holds.
LEMMA InitIInv == Init => IInv
<1> SUFFICES ASSUME Init PROVE IInv
  OBVIOUS
<1>1. TypeInv
  BY DEF Init, TypeInv, Idle, States, Answers
<1>2. \A r \in Requests : RequestOK(r)
  BY DEF Init, RequestOK, Idle
<1>3. Books
  BY DEF Init, Books
<1> QED  BY <1>1, <1>2, <1>3 DEF IInv

\* A step of one call, that leaves the stores and the clock alone, keeps what is known
\* of all, once it is known of that call.
LEMMA CallKeeps ==
    ASSUME IInv, NEW r \in Requests,
           NEW q \in [pc : States, item : Items \cup {Nothing}, at : Nat, answer : Answers],
           request' = [request EXCEPT ![r] = q],
           UNCHANGED <<now, settled, consumed, admitted>>, RequestOK(r)'
    PROVE  IInv'
<1>0. /\ \A i \in Items : i \in Payments /\ Earned(i) => Earned(i)'
      /\ \A i \in Items, at \in Nat : FairlyRefused(i, at) => FairlyRefused(i, at)'
  <2>1. TypeInv /\ now' \in Nat /\ now <= now'
    BY DEF IInv, TypeInv
  <2> QED  BY <2>1, EstablishedStays
<1>1. TypeInv'
  BY DEF IInv, TypeInv
<1>2. ASSUME NEW s \in Requests PROVE RequestOK(s)'
  <2>1. CASE s = r
    BY <2>1
  <2>2. CASE s # r
    <3>1. request'[s] = request[s]
      BY <2>2 DEF IInv, TypeInv
    <3>2. RequestOK(s) /\ request[s].at \in Nat
      BY DEF IInv, TypeInv
    <3>3. /\ \A i : Earned(i)' <=> Earned(i)
          /\ \A i, at : FairlyRefused(i, at)' <=> FairlyRefused(i, at)
      BY DEF Earned, FairlyRefused
    <3> QED  BY <3>1, <3>2, <3>3 DEF RequestOK
  <2> QED  BY <2>1, <2>2
<1>3. Books'
  BY <1>0 DEF IInv, Books
<1> QED  BY <1>1, <1>2, <1>3 DEF IInv

\* A call that arrives is refused only fairly, and goes on only if what it presents is
\* presentable, or a credential that is valid at that time.
LEMMA ArriveKeeps ==
    ASSUME IInv, NEW r \in Requests, NEW i \in Items, Arrive(r, i)
    PROVE  IInv'
<1> DEFINE pc == IF i \in Payments
                 THEN IF Presentable(i) THEN "verify" ELSE "answer"
                 ELSE IF Valid(Item[i].credential, Item[i].input, now) THEN "consume" ELSE "answer"
           a  == IF pc = "answer" THEN "refused" ELSE Nothing
           q  == [pc |-> pc, item |-> i, at |-> now, answer |-> a]
<1>1. q \in [pc : States, item : Items \cup {Nothing}, at : Nat, answer : Answers]
  BY DEF States, Answers, IInv, TypeInv
<1>2. request' = [request EXCEPT ![r] = q] /\ UNCHANGED <<now, settled, consumed, admitted>>
  BY DEF Arrive
<1>3. /\ q.pc = pc /\ q.item = i /\ q.at = now /\ q.answer = a
  OBVIOUS
<1> HIDE DEF q
<1>4. request'[r] = q /\ now \in Nat
  BY <1>2 DEF IInv, TypeInv
<1>5. /\ pc # "idle" /\ (pc = "verify" => i \in Payments /\ Presentable(i))
      /\ pc = "consume" => i \notin Payments /\ Valid(Item[i].credential, Item[i].input, now)
      /\ pc = "answer" => /\ a = "refused"
                          /\ i \in Payments => ~ Presentable(i)
                          /\ i \notin Payments => ~ Valid(Item[i].credential, Item[i].input, now)
  OBVIOUS
<1> HIDE DEF pc, a
<1>6. ASSUME pc = "answer" PROVE FairlyRefused(i, now)
  <2>1. i \notin Honest
    BY <1>5, <1>6, HonestIsShown DEF Honest
  <2>2. ASSUME i \in SignedFor PROVE Item[i].credential.payload.intent.expiry.at <= now
    BY <1>4, <1>5, <1>6, <2>2, ItemsAreTold, SignedIsAccepted DEF SignedFor
  <2> QED  BY <2>1, <2>2 DEF FairlyRefused
<1>7. RequestOK(r)'
  BY <1>2, <1>3, <1>4, <1>5, <1>6 DEF RequestOK, FairlyRefused
<1> QED  BY <1>1, <1>2, <1>7, CallKeeps

\* A call that goes on, or answers, changes nothing else of itself.
LEMMA GotoGives ==
    ASSUME TypeInv, NEW r \in Requests, NEW pc \in States, Goto(r, pc)
    PROVE  \E q \in [pc : States, item : Items \cup {Nothing}, at : Nat, answer : Answers] :
              /\ request' = [request EXCEPT ![r] = q] /\ request'[r] = q
              /\ q.pc = pc /\ q.item = request[r].item /\ q.at = request[r].at
              /\ q.answer = request[r].answer
<1> DEFINE q == [request[r] EXCEPT !.pc = pc]
<1>1. q \in [pc : States, item : Items \cup {Nothing}, at : Nat, answer : Answers]
      /\ q.pc = pc /\ q.item = request[r].item /\ q.at = request[r].at /\ q.answer = request[r].answer
  BY DEF TypeInv
<1>2. request' = [request EXCEPT ![r] = q] /\ request'[r] = q
  BY DEF Goto, TypeInv
<1> QED  BY <1>1, <1>2

\* A call that answers keeps what it was about.
LEMMA AnswerGives ==
    ASSUME TypeInv, NEW r \in Requests, NEW a \in Answers, Answer(r, a)
    PROVE  \E q \in [pc : States, item : Items \cup {Nothing}, at : Nat, answer : Answers] :
              /\ request' = [request EXCEPT ![r] = q] /\ request'[r] = q
              /\ q.pc = "answer" /\ q.item = request[r].item /\ q.at = request[r].at
              /\ q.answer = a
<1> DEFINE q == [request[r] EXCEPT !.pc = "answer", !.answer = a]
<1>1. q \in [pc : States, item : Items \cup {Nothing}, at : Nat, answer : Answers]
      /\ q.pc = "answer" /\ q.item = request[r].item /\ q.at = request[r].at /\ q.answer = a
  BY DEF TypeInv, States
<1>2. request' = [request EXCEPT ![r] = q] /\ request'[r] = q
  BY DEF Answer, TypeInv
<1> QED  BY <1>1, <1>2

\* The verifier lets through what has earned it, and says that a transaction did not pay
\* only of one that did not, or that is too old.
LEMMA VerifyKeeps ==
    ASSUME IInv, NEW r \in Requests, Verify(r)
    PROVE  IInv'
<1>1. TypeInv /\ request[r].pc = "verify" /\ RequestOK(r)
      /\ UNCHANGED <<now, settled, consumed, admitted>>
  BY DEF Verify, IInv
<1>2. PICK i \in Payments : i = request[r].item
  BY <1>1 DEF RequestOK
<1> DEFINE t == Item[i].tx
<1>3. i \in Items /\ t \in Txs /\ Presentable(i)
  BY <1>1, <1>2, ItemsAreTold DEF RequestOK
<1>4. CASE Answer(r, "unavailable")
  <2>1. PICK q \in [pc : States, item : Items \cup {Nothing}, at : Nat, answer : Answers] :
              /\ request' = [request EXCEPT ![r] = q] /\ request'[r] = q
              /\ q.pc = "answer" /\ q.item = request[r].item /\ q.at = request[r].at
              /\ q.answer = "unavailable"
    BY <1>1, <1>4, AnswerGives DEF Answers
  <2>2. RequestOK(r)'
    BY <1>2, <1>3, <2>1 DEF RequestOK
  <2> QED  BY <1>1, <2>1, <2>2, CallKeeps
<1>5. ASSUME NEW latest \in now - RpcLag .. now,
             LET verdict == Verdict(t, i \in Paying, settled[t], latest)
             IN  IF verdict = "ok" THEN Goto(r, "consume")
                 ELSE Answer(r, IF verdict = "invalid" THEN "refused" ELSE verdict)
      PROVE  IInv'
  <2> DEFINE verdict == Verdict(t, i \in Paying, settled[t], latest)
  <2>1. latest \in Int /\ latest <= now /\ settled[t] \in Nat \cup {Nothing} /\ now \in Nat
        /\ MaxProofAge \in Nat
    BY <1>1, <1>3, AdmissionAssumption DEF TypeInv
  <2>2. verdict \in {"ok", "invalid", "unavailable"}
    BY DEF Verdict
  <2>3. verdict = "ok" => /\ Chain[t].status = "SUCCESS" /\ settled[t] # Nothing /\ i \in Paying
    BY DEF Verdict
  <2>4. verdict = "invalid" =>
           /\ settled[t] # Nothing
           /\ Chain[t].status = "SUCCESS" /\ i \in Paying => now - settled[t] > MaxProofAge
    BY <2>1 DEF Verdict, Fresh
  <2> HIDE DEF verdict
  <2>5. CASE verdict = "ok"
    <3>1. PICK q \in [pc : States, item : Items \cup {Nothing}, at : Nat, answer : Answers] :
              /\ request' = [request EXCEPT ![r] = q] /\ request'[r] = q
              /\ q.pc = "consume" /\ q.item = request[r].item /\ q.at = request[r].at
              /\ q.answer = request[r].answer
      BY <1>1, <1>5, <2>5, GotoGives DEF States, verdict
    <3>2. RequestOK(r)'
      BY <1>1, <1>2, <1>3, <2>3, <2>5, <3>1 DEF RequestOK, Earned
    <3> QED  BY <1>1, <3>1, <3>2, CallKeeps
  <2>6. CASE verdict = "unavailable"
    BY <1>4, <1>5, <2>6 DEF verdict
  <2>7. CASE verdict = "invalid"
    <3>1. Answer(r, "refused")
      BY <1>5, <2>7 DEF verdict
    <3>2. PICK q \in [pc : States, item : Items \cup {Nothing}, at : Nat, answer : Answers] :
              /\ request' = [request EXCEPT ![r] = q] /\ request'[r] = q
              /\ q.pc = "answer" /\ q.item = request[r].item /\ q.at = request[r].at
              /\ q.answer = "refused"
      BY <1>1, <3>1, AnswerGives DEF Answers
    <3>3. i \in Honest => settled[t] # Nothing /\ now - settled[t] > MaxProofAge
      BY <2>4, <2>7, HonestIsShown
    <3>4. i \notin SignedFor
      BY ItemsAreTold DEF SignedFor
    <3>5. RequestOK(r)'
      BY <1>1, <1>2, <1>3, <3>2, <3>3, <3>4 DEF RequestOK, FairlyRefused
    <3> QED  BY <1>1, <3>2, <3>5, CallKeeps
  <2> QED  BY <2>2, <2>5, <2>6, <2>7
<1> QED  BY <1>2, <1>4, <1>5 DEF Verify

\* The key of an item is consumed by the one call that admits it, or by a store that
\* fails on it; what the other calls know stays true.
LEMMA ConsumeKeeps ==
    ASSUME IInv, NEW r \in Requests, Consume(r)
    PROVE  IInv'
<1>1. TypeInv /\ request[r].pc = "consume" /\ RequestOK(r) /\ Books /\ UNCHANGED <<now, settled>>
  BY DEF Consume, IInv
<1>2. PICK i \in Items : i = request[r].item
  BY <1>1 DEF RequestOK
<1>3. i \in Payments => Earned(i)
  BY <1>1, <1>2 DEF RequestOK
<1>4. ASSUME NEW a \in {"admitted", "duplicate", "unavailable"}, Answer(r, a),
             consumed \subseteq consumed', a = "duplicate" => Key(i) \in consumed
      PROVE  /\ request' \in [Requests -> [pc : States, item : Items \cup {Nothing}, at : Nat, answer : Answers]]
             /\ \A s \in Requests : RequestOK(s)'
  <2>1. PICK q \in [pc : States, item : Items \cup {Nothing}, at : Nat, answer : Answers] :
              /\ request' = [request EXCEPT ![r] = q] /\ request'[r] = q
              /\ q.pc = "answer" /\ q.item = request[r].item /\ q.at = request[r].at
              /\ q.answer = a
    BY <1>1, <1>4, AnswerGives DEF Answers
  <2>2. ASSUME NEW s \in Requests PROVE RequestOK(s)'
    <3>1. CASE s = r
      BY <1>2, <1>4, <2>1, <3>1 DEF RequestOK
    <3>2. CASE s # r
      <4>1. request'[s] = request[s]
        BY <1>1, <2>1, <3>2 DEF TypeInv
      <4>2. RequestOK(s)
        BY DEF IInv
      <4> QED  BY <1>1, <1>4, <4>1, <4>2 DEF RequestOK, Earned, FairlyRefused
    <3> QED  BY <3>1, <3>2
  <2> QED  BY <1>1, <2>1, <2>2 DEF TypeInv
<1>5. \A j \in Items : j \in Payments /\ Earned(j) => Earned(j)'
  <2>1. now' \in Nat /\ now <= now' /\ \A t \in Txs : settled[t] # Nothing => settled'[t] = settled[t]
    BY <1>1 DEF TypeInv
  <2> QED  BY <1>1, <2>1, EstablishedStays
<1>6. CASE /\ Key(i) \notin consumed
           /\ consumed' = consumed \cup {Key(i)}
           /\ admitted' = [admitted EXCEPT ![i] = @ + 1]
           /\ Answer(r, "admitted")
  <2>1. admitted[i] = 0 /\ \A j \in Items : admitted[j] > 0 => Key(j) # Key(i)
    BY <1>1, <1>6 DEF Books, TypeInv
  <2>2. admitted' \in [Items -> Nat] /\ admitted'[i] = 1
        /\ \A j \in Items : j # i => admitted'[j] = admitted[j]
    BY <1>1, <1>6, <2>1 DEF TypeInv
  <2>3. \A j \in Items : admitted'[j] > 0 => Key(j) \in consumed' /\ (j \in Payments => Earned(j)')
    BY <1>1, <1>3, <1>5, <1>6, <2>2 DEF Books
  <2>4. \A j, k \in Items : admitted'[j] > 0 /\ admitted'[k] > 0 /\ Key(j) = Key(k) =>
           j = k /\ admitted'[j] = 1
    BY <1>1, <2>1, <2>2 DEF Books
  <2>5. \A key \in consumed' : \E j \in Items : Key(j) = key /\ (admitted'[j] > 0 \/ j \in StoreFaults)
    <3> SUFFICES ASSUME NEW key \in consumed'
                 PROVE  \E j \in Items : Key(j) = key /\ (admitted'[j] > 0 \/ j \in StoreFaults)
      OBVIOUS
    <3>1. CASE key = Key(i)
      BY <2>2, <3>1
    <3>2. CASE key # Key(i)
      BY <1>1, <1>6, <2>2, <3>2 DEF Books
    <3> QED  BY <3>1, <3>2
  <2>6. Books'
    BY <2>3, <2>4, <2>5 DEF Books
  <2>7. request' \in [Requests -> [pc : States, item : Items \cup {Nothing}, at : Nat, answer : Answers]]
        /\ \A s \in Requests : RequestOK(s)'
    BY <1>4, <1>6
  <2> QED  BY <1>1, <2>2, <2>6, <2>7 DEF IInv, TypeInv
<1>7. CASE /\ Key(i) \in consumed
           /\ UNCHANGED <<consumed, admitted>>
           /\ Answer(r, "duplicate")
  <2>1. Books'
    BY <1>1, <1>5, <1>7 DEF Books
  <2>2. request' \in [Requests -> [pc : States, item : Items \cup {Nothing}, at : Nat, answer : Answers]]
        /\ \A s \in Requests : RequestOK(s)'
    BY <1>4, <1>7
  <2> QED  BY <1>1, <1>7, <2>1, <2>2 DEF IInv, TypeInv
<1>8. CASE /\ i \in StoreFaults
           /\ consumed' \in {consumed, consumed \cup {Key(i)}}
           /\ UNCHANGED admitted
           /\ Answer(r, "unavailable")
  <2>1. Books'
    BY <1>1, <1>5, <1>8 DEF Books
  <2>2. request' \in [Requests -> [pc : States, item : Items \cup {Nothing}, at : Nat, answer : Answers]]
        /\ \A s \in Requests : RequestOK(s)'
    BY <1>4, <1>8
  <2> QED  BY <1>1, <1>8, <2>1, <2>2 DEF IInv, TypeInv
<1> QED  BY <1>2, <1>6, <1>7, <1>8 DEF Consume

\* A call that has answered is gone.
LEMMA RespondKeeps ==
    ASSUME IInv, NEW r \in Requests, Respond(r)
    PROVE  IInv'
<1>1. Idle \in [pc : States, item : Items \cup {Nothing}, at : Nat, answer : Answers] /\ Idle.pc = "idle"
  BY DEF Idle, States, Answers
<1>2. request' = [request EXCEPT ![r] = Idle] /\ UNCHANGED <<now, settled, consumed, admitted>>
  BY DEF Respond
<1>3. request'[r] = Idle
  BY <1>2 DEF IInv, TypeInv
<1>4. RequestOK(r)'
  BY <1>1, <1>3 DEF RequestOK
<1> QED  BY <1>1, <1>2, <1>4, CallKeeps

\* Time passes and transactions settle beside the calls.
LEMMA WorldKeeps ==
    ASSUME IInv, Tick \/ \E t \in Txs : Settle(t)
    PROVE  IInv'
<1>1. /\ UNCHANGED <<consumed, request, admitted>>
      /\ now' \in Nat /\ now <= now' /\ settled' \in [Txs -> Nat \cup {Nothing}]
      /\ \A t \in Txs : settled[t] # Nothing => settled'[t] = settled[t]
  BY DEF Tick, Settle, IInv, TypeInv
<1>2. TypeInv'
  BY <1>1 DEF IInv, TypeInv
<1>3. /\ \A i \in Items : i \in Payments /\ Earned(i) => Earned(i)'
      /\ \A i \in Items, at \in Nat : FairlyRefused(i, at) => FairlyRefused(i, at)'
  BY <1>1, EstablishedStays DEF IInv
<1>4. ASSUME NEW r \in Requests PROVE RequestOK(r)'
  <2>1. RequestOK(r) /\ request'[r] = request[r] /\ request[r].at \in Nat
    BY <1>1 DEF IInv, TypeInv
  <2>2. CASE request[r].pc = "idle"
    BY <2>1, <2>2 DEF RequestOK
  <2>3. CASE request[r].pc # "idle"
    <3>1. PICK i \in Items : i = request[r].item
      BY <2>1, <2>3 DEF RequestOK
    <3>2. PICK at \in Nat : at = request[r].at
      BY <2>1
    <3>3. i = request'[r].item /\ at = request'[r].at
      BY <2>1, <3>1, <3>2
    <3>4. (i \in Payments /\ Earned(i) => Earned(i)') /\ (FairlyRefused(i, at) => FairlyRefused(i, at)')
      BY <1>3
    <3> QED  BY <1>1, <2>1, <2>3, <3>1, <3>2, <3>3, <3>4 DEF RequestOK, Earned, FairlyRefused
  <2> QED  BY <2>2, <2>3
<1>5. Books'
  BY <1>1, <1>3 DEF IInv, Books
<1> QED  BY <1>2, <1>4, <1>5 DEF IInv

\* Every step keeps the invariant.
LEMMA NextKeeps == IInv /\ [Next]_vars => IInv'
<1> SUFFICES ASSUME IInv, [Next]_vars PROVE IInv'
  OBVIOUS
<1>1. ASSUME NEW r \in Requests, NEW i \in Items, Arrive(r, i) PROVE IInv'
  BY <1>1, ArriveKeeps
<1>2. ASSUME NEW r \in Requests, Verify(r) PROVE IInv'
  BY <1>2, VerifyKeeps
<1>3. ASSUME NEW r \in Requests, Consume(r) PROVE IInv'
  BY <1>3, ConsumeKeeps
<1>4. ASSUME NEW r \in Requests, Respond(r) PROVE IInv'
  BY <1>4, RespondKeeps
<1>5. CASE Tick \/ \E t \in Txs : Settle(t)
  BY <1>5, WorldKeeps
<1>6. CASE UNCHANGED vars
  <2>1. TypeInv'
    BY <1>6 DEF vars, IInv, TypeInv
  <2>2. ASSUME NEW r \in Requests PROVE RequestOK(r)'
    BY <1>6 DEF vars, IInv, RequestOK, Earned, FairlyRefused
  <2>3. Books'
    BY <1>6 DEF vars, IInv, Books, Earned
  <2> QED  BY <2>1, <2>2, <2>3 DEF IInv
<1> QED  BY <1>1, <1>2, <1>3, <1>4, <1>5, <1>6 DEF Next

\* In every reachable state the invariant holds.
LEMMA Invariance == Spec => []IInv
<1>1. Init => IInv
  BY InitIInv
<1>2. IInv /\ [Next]_vars => IInv'
  BY NextKeeps
<1> QED  BY <1>1, <1>2, PTL DEF Spec
-----------------------------------------------------------------------------
(* What the gates promise                                                  *)

\* One transaction admits one request, and one mandate is admitted once, however many
\* requests present it together and whatever the store answers.
THEOREM OneAdmission == Spec => []AdmittedOnce
<1>1. IInv => AdmittedOnce
  BY KeysTell DEF IInv, Books, AdmittedOnce
<1> QED  BY <1>1, Invariance, PTL

\* What opened a route was a successful transaction, in which the shop's registry paid
\* the route's price to the shop in its asset, once.
THEOREM PaymentsArePaid == Spec => []AdmittedIsPaid
<1>1. IInv => AdmittedIsPaid
  <2> SUFFICES ASSUME IInv, NEW i \in Payments, admitted[i] > 0
               PROVE  LET t   == Item[i].tx
                          its == {k \in DOMAIN Chain[t].calls :
                                     /\ Chain[t].calls[k].op = "pay" /\ Chain[t].calls[k].on = Shop.registry
                                     /\ Chain[t].calls[k].to = Shop.merchant
                                     /\ Chain[t].calls[k].amount >= Need(i).stroops}
                      IN  /\ settled[t] # Nothing /\ Chain[t].status = "SUCCESS"
                          /\ Cardinality(its) = 1
                          /\ \A k \in its : Mandate[Chain[t].calls[k].mandate].asset = Shop.asset
    BY DEF AdmittedIsPaid
  <2> DEFINE t     == Item[i].tx
             calls == Chain[t].calls
             need  == Need(i)
             its   == {k \in DOMAIN calls :
                          /\ calls[k].op = "pay" /\ calls[k].on = Shop.registry
                          /\ calls[k].to = Shop.merchant
                          /\ calls[k].amount >= need.stroops}
  <2>1. i \in Items /\ t \in Txs /\ t \in DOMAIN Chain /\ Earned(i)
    BY ItemsAreTold, PaymentAssumption DEF IInv, Books
  <2>2. need.merchant = Shop.merchant /\ need.asset = Shop.asset /\ need.registry = Shop.registry
        /\ need.stroops = ToStroops(Price[Item[i].resource], Shop.decimals)
    BY DEF Need
  <2>3. need.stroops \in Int /\ need.stroops > 0
    <3>1. need.stroops \in Int \cup {Garbage}
      BY <2>2, PaymentAssumption, StroopsAreWhole
    <3> QED  BY <2>1, <2>2, <3>1 DEF Earned, Presentable, IsPrice
  <2>4. Shown(t, need) # Nothing /\ settled[t] # Nothing /\ Chain[t].status = "SUCCESS"
    BY <2>1 DEF Earned, Paying
  <2>5. \A k \in DOMAIN calls : calls[k].op = "pay" => calls[k].amount \in Nat \ {0}
    BY PaymentAssumption
  <2> HIDE DEF need, t
  <2>6. PICK k \in DOMAIN calls :
           /\ PaysFor(calls[k], need)
           /\ \A l \in DOMAIN calls : PaysFor(calls[l], need) => l = k
           /\ Mandate[calls[k].mandate].asset = need.asset
    BY <2>1, <2>4, ShownIsPaid
  <2> HIDE DEF calls
  <2>7. \A l \in DOMAIN calls : l \in its <=> PaysFor(calls[l], need)
    BY <2>2, <2>3, <2>5 DEF PaysFor
  <2>8. its = {k}
    BY <2>6, <2>7
  <2>9. Cardinality(its) = 1
    BY <2>8, FS_Singleton
  <2>10. \A l \in its : Mandate[calls[l].mandate].asset = Shop.asset
    BY <2>2, <2>6, <2>8
  <2> QED  BY <2>4, <2>9, <2>10 DEF t, calls, need
<1> QED  BY <1>1, Invariance, PTL

\* Nobody honest is turned away for good, and "already used" is said only of what was
\* admitted, or what a failing store may have lost.
THEOREM HonestAreAdmitted == Spec => []HonestIsAdmitted
<1>1. IInv => HonestIsAdmitted
  <2> SUFFICES ASSUME IInv, NEW r \in Requests, request[r].pc = "answer"
               PROVE  LET i == request[r].item IN
                      /\ request[r].answer = "refused" =>
                            /\ i \in Honest => settled[Item[i].tx] # Nothing
                                               /\ now - settled[Item[i].tx] > MaxProofAge
                            /\ i \in SignedFor =>
                                  Item[i].credential.payload.intent.expiry.at <= request[r].at
                      /\ request[r].answer = "duplicate" =>
                            \E j \in Items : SameThing(i, j) /\ (admitted[j] > 0 \/ j \in StoreFaults)
    BY DEF HonestIsAdmitted
  <2>1. RequestOK(r)
    BY DEF IInv
  <2>2. PICK i \in Items : i = request[r].item
    BY <2>1 DEF RequestOK
  <2>3. request[r].answer = "duplicate" =>
           \E j \in Items : SameThing(i, j) /\ (admitted[j] > 0 \/ j \in StoreFaults)
    <3> SUFFICES ASSUME request[r].answer = "duplicate"
                 PROVE  \E j \in Items : SameThing(i, j) /\ (admitted[j] > 0 \/ j \in StoreFaults)
      OBVIOUS
    <3>1. Key(i) \in consumed
      BY <2>1, <2>2 DEF RequestOK
    <3>2. PICK j \in Items : Key(j) = Key(i) /\ (admitted[j] > 0 \/ j \in StoreFaults)
      BY <3>1 DEF IInv, Books
    <3> QED  BY <3>2, KeysTell
  <2> QED  BY <2>1, <2>2, <2>3 DEF RequestOK, FairlyRefused
<1> QED  BY <1>1, Invariance, PTL

\* Whatever is admitted on a credential was signed by its user, in all its terms, covers
\* the purchase, and was submitted before it expired.
THEOREM AdmittedWereSigned == Spec => AdmittedIsSigned
<1>1. IInv /\ [Next]_vars => [AdmittedStep]_vars
  <2> SUFFICES ASSUME IInv, Next PROVE AdmittedStep
    OBVIOUS
  <2> SUFFICES ASSUME NEW i \in Mandates, admitted'[i] > admitted[i]
               PROVE  \E s \in Intents, r \in Requests :
                         /\ request[r].item = i /\ request'[r].answer = "admitted"
                         /\ s.stellar.user = Item[i].input.user
                         /\ RebuildBinding(Item[i].credential.payload) = BindIntentMandate(s.intent, s.stellar)
                         /\ s.intent.merchants = <<Item[i].input.merchant>>
                         /\ ToStroops(Item[i].input.amount, s.stellar.decimals)
                               \in 1 .. ToStroops(s.stellar.max, s.stellar.decimals)
                         /\ request[r].at < Utc(s.intent.expiry)
    BY DEF AdmittedStep
  <2>1. admitted \in [Items -> Nat] /\ i \in Items /\ i \notin Payments /\ admitted[i] \in Nat
    BY ItemsAreTold DEF IInv, TypeInv
  <2>2. admitted' # admitted
    BY <2>1
  <2>3. PICK r \in Requests : Consume(r)
    BY <2>2 DEF Next, Arrive, Verify, Respond, Tick, Settle
  <2>4. admitted' = [admitted EXCEPT ![request[r].item] = @ + 1] /\ Answer(r, "admitted")
    BY <2>2, <2>3 DEF Consume
  <2>5. request[r].item = i
    BY <2>1, <2>4
  <2>6. request'[r].answer = "admitted"
    <3>1. PICK q \in [pc : States, item : Items \cup {Nothing}, at : Nat, answer : Answers] :
             request'[r] = q /\ q.answer = "admitted"
      BY <2>4, AnswerGives DEF IInv, Answers
    <3> QED  BY <3>1
  <2>7. PICK at : at = request[r].at
    OBVIOUS
  <2>8. Valid(Item[i].credential, Item[i].input, at)
    BY <2>1, <2>3, <2>5, <2>7 DEF Consume, IInv, RequestOK
  <2>9. PICK s \in Intents :
              /\ s.stellar.user = Item[i].input.user
              /\ RebuildBinding(Item[i].credential.payload) = BindIntentMandate(s.intent, s.stellar)
              /\ s.intent.merchants = <<Item[i].input.merchant>>
              /\ ToStroops(Item[i].input.amount, s.stellar.decimals)
                    \in 1 .. ToStroops(s.stellar.max, s.stellar.decimals)
              /\ at < Utc(s.intent.expiry)
    BY <2>8, AcceptedIsSigned
  <2> QED  BY <2>5, <2>6, <2>7, <2>9
<1> QED  BY <1>1, Invariance, PTL DEF Spec, AdmittedIsSigned
=============================================================================
