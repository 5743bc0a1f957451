------------------------ MODULE BoundDeliveryProofs -------------------------
(***************************************************************************)
(* The paid route's safety for every set of requests, transactions and     *)
(* proofs, for a clock without end and any number of crashes and store     *)
(* errors, and that it implements at-most-once delivery.                   *)
(*                                                                         *)
(* The properties speak of the store, of what was sent and of which        *)
(* handler owns a transaction; the inductive invariant IInv adds what a    *)
(* handler knows at each of its awaits (HandlerOK): that what it read      *)
(* before the await still supports what it does after it.                  *)
(***************************************************************************)
EXTENDS BoundDelivery, VerificationProofs

Pcs     == {"idle", "lookup", "verify", "claim", "fulfill", "working", "complete", "send"}
Handler == [pc : Pcs, proof : Proofs \cup {Nothing}, captured : Nat,
            value : Answers \cup Refusals \cup {Nothing}]

TypeInv ==
    /\ now \in Nat
    /\ settled \in [Txs -> Nat \cup {Nothing}]
    /\ DOMAIN records \subseteq Txs
    /\ records \in [DOMAIN records -> [proof : Proofs, answer : Answers \cup {Nothing}]]
    /\ up \in BOOLEAN /\ sweeping \in BOOLEAN /\ sweep \subseteq DOMAIN records
    /\ sweeping => ~ up
    /\ request \in [Requests -> Handler]
    /\ begun \in [Txs -> Nat]
    /\ shown \subseteq Proofs \X Answers

\* Transaction t is settled, succeeded, and was recent at time at, for a reader that
\* may be behind.
Redeemable(t, at) == /\ settled[t] # Nothing /\ Chain[t].status = "SUCCESS"
                     /\ settled[t] + MaxProofAge + RpcLag >= at

\* The proofs the route has ever opened a record for.
Valid == Exact \cap Matching

\* What the handler of r relies on.
Admitted(r) == request[r].pc # "idle" =>
    up /\ request[r].proof \in Proofs /\ request[r].captured <= now
Decoded(r) == request[r].pc \notin {"idle", "send"} => request[r].proof \in Exact
Timely(r) == request[r].pc \in {"verify", "claim"} => InWindow(r)
Verified(r) == request[r].pc = "claim" =>
    request[r].proof \in Matching /\ Redeemable(TxOf(r), request[r].captured)
Counted(r) == /\ request[r].pc = "fulfill" => begun[TxOf(r)] = 0
              /\ request[r].pc \in {"working", "complete"} => begun[TxOf(r)] = 1
Stored(r) == /\ request[r].pc = "complete" => request[r].value \in Answers
             /\ request[r].pc = "send" /\ request[r].value \notin Refusals =>
                  /\ TxOf(r) \in DOMAIN records
                  /\ request[r].value \in Answers
                  /\ records[TxOf(r)] = [proof |-> request[r].proof, answer |-> request[r].value]
Owns(r) == request[r].pc \in OwnerPcs =>
    Executing(TxOf(r)) /\ records[TxOf(r)].proof = request[r].proof
Honoured(r) == request[r].pc = "send" /\ request[r].proof \in Bought =>
    /\ Deliverable(ProofOf(r), Target)
    /\ request[r].value = PayFirst =>
          \/ ~ InWindow(r)
          \/ settled[TxOf(r)] # Nothing /\ now - settled[TxOf(r)] > MaxProofAge
    /\ request[r].value = Conflict =>
          TxOf(r) \in DOMAIN records /\ records[TxOf(r)].proof # request[r].proof
HandlerOK(r) == /\ Admitted(r) /\ Decoded(r) /\ Timely(r) /\ Verified(r)
                /\ Counted(r) /\ Stored(r) /\ Owns(r) /\ Honoured(r)

\* What the file says.
Books == /\ \A t \in Txs : begun[t] <= 1 /\ (t \notin DOMAIN records => begun[t] = 0)
         /\ \A t \in DOMAIN records :
               /\ records[t].proof \in Valid /\ Proof[records[t].proof].tx = t
               /\ settled[t] # Nothing /\ Chain[t].status = "SUCCESS"

\* No transaction has two owners.
Exclusive == \A r, q \in Requests :
    request[r].pc \in OwnerPcs /\ request[q].pc \in OwnerPcs /\ TxOf(q) = TxOf(r) => q = r

IInv == /\ TypeInv
        /\ \A r \in Requests : HandlerOK(r)
        /\ Exclusive
        /\ Books
        /\ ShownIsStored

-----------------------------------------------------------------------------
(* Proofs, before anything happens                                         *)

\* What an agent has to pay is what the route's requirement says.
LEMMA NeedFields ==
    /\ Need.merchant = Site.merchant /\ Need.asset = Site.asset
    /\ Need.registry = Site.registry
    /\ Need.stroops = ToStroops(Site.amount, Site.decimals)
    /\ Need.stroops \in Nat /\ Need.stroops > 0
<1>1. /\ Need.merchant = Site.merchant /\ Need.asset = Site.asset
      /\ Need.registry = Site.registry
      /\ Need.stroops = ToStroops(Site.amount, Site.decimals)
  BY DEF Need
<1>2. Need.stroops \in Nat
  BY ProofAssumption
<1>3. ToStroops(Site.amount, Site.decimals) > 0
  BY DeliveryAssumption DEF Configured, IsPrice
<1> QED
  BY <1>1, <1>2, <1>3

\* The transaction of a matching proof paid this merchant the price, out of the mandate
\* the proof names, whose agent signed it.
LEMMA MatchingPays ==
    ASSUME NEW p \in Matching
    PROVE  /\ Pays(Proof[p].tx, Proof[p].mandate)
           /\ SignedBy(Proof[p], Mandate[Proof[p].mandate].agent)
<1> DEFINE t == Proof[p].tx
           s == Shown(t, Need)
<1>1. p \in Proofs /\ t \in Txs /\ s # Nothing /\ PaymentMatches(Site, Proof[p], s)
  BY DEF Matching, Paying
<1>2. t \in DOMAIN Chain
  BY <1>1, ProofAssumption
<1>3. PICK k \in DOMAIN Chain[t].calls :
         /\ PaysFor(Chain[t].calls[k], Need)
         /\ Mandate[Chain[t].calls[k].mandate].merchant = Need.merchant
         /\ Mandate[Chain[t].calls[k].mandate].asset = Need.asset
         /\ Tells(s, t, Chain[t].calls[k], Need)
  BY <1>1, <1>2, ShownIsPaid
<1> DEFINE c == Chain[t].calls[k]
           m == Proof[p].mandate
<1>4. c.mandate = m /\ c.amount = Need.stroops /\ SignedBy(Proof[p], Mandate[m].agent)
  <2> HIDE DEF s
  <2> QED  BY <1>1, <1>3, NeedFields DEF PaymentMatches, Tells
<1>5. c.op = "pay" /\ c.on = Site.registry /\ IsCall(c)
  BY <1>2, <1>3, NeedFields, ChainAssumption DEF PaysFor
<1>6. c = Pay(Site.registry, m, Need.stroops)
  <2>1. c = [Pay(c.on, c.mandate, c.amount) EXCEPT !.op = c.op]
    BY <1>5 DEF IsCall
  <2>2. [Pay(Site.registry, m, Need.stroops) EXCEPT !.op = "pay"] = Pay(Site.registry, m, Need.stroops)
    BY DEF Pay
  <2> HIDE DEF c, m
  <2> QED  BY <1>4, <1>5, <2>1, <2>2
<1> QED
  <2> HIDE DEF s
  <2> QED  BY <1>3, <1>4, <1>6, NeedFields DEF Pays

\* A challenge with this route's values and a valid MAC is one that it issued.
LEMMA ExactIsOffered ==
    ASSUME NEW p \in Exact
    PROVE  Proof[p].challenge = Offer(p).challenge
<1> DEFINE c == Proof[p].challenge
           x == [id |-> c.id, audience |-> Site.audience, scheme |-> "reapp-soroban-bound",
                 method |-> Target.method, resource |-> <<Target.path, Target.query>>, body |-> Absent,
                 network |-> Site.network, networkId |-> Site.passphrase,
                 registry |-> Site.registry, merchant |-> Site.merchant, asset |-> Site.asset,
                 amount |-> ToStroops(Site.amount, Site.decimals), decimals |-> Site.decimals,
                 issued |-> c.issued, expires |-> c.issued + Site.ttl, mac |-> Absent]
<1>1. IsChallenge(c) /\ ExactChallenge(Site, Target, Proof[p])
  BY ProofAssumption DEF Exact, IsProof
<1>2. Unsigned(Site, Target, c.id, c.issued) = x
  BY DEF Unsigned
<1>3. c.expires = c.issued + Site.ttl
  <2>1. c.expires - c.issued = Site.ttl /\ c.expires \in Int /\ c.issued \in Int /\ Site.ttl \in Int
    BY <1>1, ProofAssumption DEF ExactChallenge, IsChallenge
  <2> HIDE DEF c
  <2> QED  BY <2>1
<1>4. c = [x EXCEPT !.mac = c.mac]
  <2> DEFINE a == ToStroops(Site.amount, Site.decimals)
             e == c.issued + Site.ttl
             q == <<Target.path, Target.query>>
  <2>1. c = [id |-> c.id, audience |-> Site.audience, scheme |-> "reapp-soroban-bound",
             method |-> Target.method, resource |-> q, body |-> Absent,
             network |-> Site.network, networkId |-> Site.passphrase,
             registry |-> Site.registry, merchant |-> Site.merchant, asset |-> Site.asset,
             amount |-> a, decimals |-> Site.decimals,
             issued |-> c.issued, expires |-> e, mac |-> c.mac]
    <3> HIDE DEF a, e, q
    <3>1. /\ c.audience = Site.audience /\ c.scheme = "reapp-soroban-bound"
          /\ c.method = Target.method /\ c.resource = q /\ c.body = Absent
          /\ c.network = Site.network /\ c.networkId = Site.passphrase
          /\ c.registry = Site.registry /\ c.merchant = Site.merchant /\ c.asset = Site.asset
          /\ c.amount = a /\ c.decimals = Site.decimals /\ c.expires = e
      BY <1>1, <1>3 DEF ExactChallenge, a, e, q
    <3>2. c = [id |-> c.id, audience |-> c.audience, scheme |-> c.scheme,
               method |-> c.method, resource |-> c.resource, body |-> c.body,
               network |-> c.network, networkId |-> c.networkId,
               registry |-> c.registry, merchant |-> c.merchant, asset |-> c.asset,
               amount |-> c.amount, decimals |-> c.decimals,
               issued |-> c.issued, expires |-> c.expires, mac |-> c.mac]
      BY <1>1 DEF IsChallenge
    <3> HIDE DEF c
    <3> QED  BY <3>1, <3>2
  <2>2. x = [id |-> c.id, audience |-> Site.audience, scheme |-> "reapp-soroban-bound",
             method |-> Target.method, resource |-> q, body |-> Absent,
             network |-> Site.network, networkId |-> Site.passphrase,
             registry |-> Site.registry, merchant |-> Site.merchant, asset |-> Site.asset,
             amount |-> a, decimals |-> Site.decimals,
             issued |-> c.issued, expires |-> e, mac |-> Absent]
    OBVIOUS
  <2> DEFINE i == c.id
             s == c.issued
             m == c.mac
  <2> HIDE DEF x, a, e, q, i, s, m
  <2>3. [[id |-> i, audience |-> Site.audience, scheme |-> "reapp-soroban-bound",
          method |-> Target.method, resource |-> q, body |-> Absent,
          network |-> Site.network, networkId |-> Site.passphrase,
          registry |-> Site.registry, merchant |-> Site.merchant, asset |-> Site.asset,
          amount |-> a, decimals |-> Site.decimals,
          issued |-> s, expires |-> e, mac |-> Absent] EXCEPT !.mac = m]
        = [id |-> i, audience |-> Site.audience, scheme |-> "reapp-soroban-bound",
           method |-> Target.method, resource |-> q, body |-> Absent,
           network |-> Site.network, networkId |-> Site.passphrase,
           registry |-> Site.registry, merchant |-> Site.merchant, asset |-> Site.asset,
           amount |-> a, decimals |-> Site.decimals,
           issued |-> s, expires |-> e, mac |-> m]
    OBVIOUS
  <2> QED  BY <2>1, <2>2, <2>3 DEF i, s, m
<1>5. Bytes(c) = x
  <2>1. [[x EXCEPT !.mac = c.mac] EXCEPT !.mac = Absent] = [x EXCEPT !.mac = Absent]
    <3> DEFINE m == c.mac
    <3> HIDE DEF m, x
    <3>1. [[x EXCEPT !.mac = m] EXCEPT !.mac = Absent] = [x EXCEPT !.mac = Absent]
      OBVIOUS
    <3> QED  BY <3>1 DEF m
  <2>2. [x EXCEPT !.mac = Absent] = x
    OBVIOUS
  <2> HIDE DEF c, x
  <2> QED  BY <1>4, <2>1, <2>2 DEF Bytes
<1>6. c.mac = Hmac(Site.secret, x)
  <2> HIDE DEF c, x
  <2>1. c.mac = Hmac(Site.secret, Bytes(c))
    BY <1>1 DEF ExactChallenge, MacIsValid, c
  <2> QED  BY <1>5, <2>1
<1>7. Offer(p).challenge = Authenticate(x, Site.secret)
  <2> HIDE DEF x
  <2> QED  BY <1>2 DEF Offer, ChallengeFor, c
<1> QED
  <2> HIDE DEF x
  <2> QED  BY <1>4, <1>6, <1>7 DEF Authenticate

\* A proof that the route opens a record for is genuine: the agent of the mandate that
\* paid made it of a challenge this route issued for this very request.
THEOREM ValidIsGenuine ==
    ASSUME NEW p \in Valid
    PROVE  p \in Genuine
<1> DEFINE P == Proof[p]
           c == P.challenge
           m == P.mandate
<1>1. p \in Proofs /\ IsProof(P) /\ P.scheme = c.scheme /\ P.network = c.network
  BY ProofAssumption DEF Valid, Exact, Decodable
<1>2. c = Offer(p).challenge
  BY ExactIsOffered DEF Valid
<1>3. P.signature = Sign(Mandate[m].agent, Digest(c, P.tx, m))
  BY MatchingPays DEF Valid, SignedBy
<1>4. P = [scheme |-> P.scheme, network |-> P.network, tx |-> P.tx, mandate |-> P.mandate,
           challenge |-> P.challenge, signature |-> P.signature]
  BY <1>1 DEF IsProof
<1>5. P = [scheme |-> c.scheme, network |-> c.network, tx |-> P.tx, mandate |-> m,
           challenge |-> c, signature |-> Sign(Mandate[m].agent, Digest(c, P.tx, m))]
  <2> DEFINE g == Sign(Mandate[m].agent, Digest(c, P.tx, m))
  <2>1. P.signature = g
    BY <1>3
  <2> HIDE DEF g
  <2>2. P = [scheme |-> c.scheme, network |-> c.network, tx |-> P.tx, mandate |-> m,
             challenge |-> c, signature |-> g]
    BY <1>1, <1>4, <2>1
  <2> QED  BY <2>2 DEF g
<1>6. P = CreateProof(c, P.tx, m, Mandate[m].agent)
  BY <1>5 DEF CreateProof
<1>7. P = CreateProof(Offer(p).challenge, P.tx, P.mandate, Mandate[P.mandate].agent)
  <2> HIDE DEF c
  <2> QED  BY <1>2, <1>6
<1> QED
  BY <1>1, <1>7 DEF Genuine

\* The challenge this route issues for p's request has this route's values.
LEMMA OfferFields ==
    ASSUME NEW p \in Proofs
    PROVE  LET c == Offer(p).challenge IN
           /\ c.audience = Site.audience /\ c.scheme = "reapp-soroban-bound"
           /\ c.method = Target.method /\ c.resource = <<Target.path, Target.query>>
           /\ c.body = Absent /\ c.network = Site.network /\ c.networkId = Site.passphrase
           /\ c.registry = Site.registry /\ c.merchant = Site.merchant /\ c.asset = Site.asset
           /\ c.amount = ToStroops(Site.amount, Site.decimals) /\ c.decimals = Site.decimals
           /\ c.issued = Proof[p].challenge.issued
           /\ c.expires = Proof[p].challenge.issued + Site.ttl
           /\ MacIsValid(c, Site.secret)
           /\ Offer(p).version = 2
<1> DEFINE i == Proof[p].challenge.id
           s == Proof[p].challenge.issued
           a == ToStroops(Site.amount, Site.decimals)
           e == s + Site.ttl
           q == <<Target.path, Target.query>>
           x == [id |-> i, audience |-> Site.audience, scheme |-> "reapp-soroban-bound",
                 method |-> Target.method, resource |-> q, body |-> Absent,
                 network |-> Site.network, networkId |-> Site.passphrase,
                 registry |-> Site.registry, merchant |-> Site.merchant, asset |-> Site.asset,
                 amount |-> a, decimals |-> Site.decimals,
                 issued |-> s, expires |-> e, mac |-> Absent]
           h == Hmac(Site.secret, x)
           c == [x EXCEPT !.mac = h]
<1>1. Unsigned(Site, Target, i, s) = x
  BY DEF Unsigned
<1>2. Offer(p).challenge = c /\ Offer(p).version = 2
  <2> HIDE DEF x, i, s
  <2> QED  BY <1>1 DEF Offer, ChallengeFor, Authenticate, i, s
<1> HIDE DEF i, s, a, e, q, h
<1>3. [c EXCEPT !.mac = Absent] = x
  <2>1. [x EXCEPT !.mac = Absent] = x
    OBVIOUS
  <2> HIDE DEF x
  <2>2. [[x EXCEPT !.mac = h] EXCEPT !.mac = Absent] = [x EXCEPT !.mac = Absent]
    OBVIOUS
  <2> QED  BY <2>1, <2>2
<1>4. c.mac = h
  OBVIOUS
<1>5. MacIsValid(c, Site.secret)
  <2> HIDE DEF c, x
  <2> QED  BY <1>3, <1>4 DEF MacIsValid, Bytes, h
<1>6. /\ c.audience = Site.audience /\ c.scheme = "reapp-soroban-bound"
      /\ c.method = Target.method /\ c.resource = q
      /\ c.body = Absent /\ c.network = Site.network /\ c.networkId = Site.passphrase
      /\ c.registry = Site.registry /\ c.merchant = Site.merchant /\ c.asset = Site.asset
      /\ c.amount = a /\ c.decimals = Site.decimals
      /\ c.issued = s /\ c.expires = e
  OBVIOUS
<1> HIDE DEF c
<1> QED
  BY <1>2, <1>5, <1>6 DEF i, s, a, e, q

\* What an agent bought here, the route's checks accept: the two sides, that check in
\* different code what the other built, agree.
THEOREM BoughtIsValid ==
    ASSUME NEW p \in Bought
    PROVE  /\ p \in Valid
           /\ Chain[Proof[p].tx].status = "SUCCESS"
           /\ Deliverable(Proof[p], Target)
<1> DEFINE P == Proof[p]
           c == P.challenge
           m == P.mandate
           t == P.tx
           o == Offer(p).challenge
<1>1. p \in Proofs /\ IsProof(P) /\ t \in Txs /\ t \in DOMAIN Chain
  BY ProofAssumption, DeliveryAssumption DEF Bought, Genuine
<1>2. P = CreateProof(o, t, m, Mandate[m].agent)
  BY DEF Bought, Genuine
<1>3. /\ c = o /\ P.scheme = c.scheme /\ P.network = c.network
      /\ SignedBy(P, Mandate[m].agent)
  <2> DEFINE g == Sign(Mandate[m].agent, Digest(o, t, m))
  <2>1. P = [scheme |-> o.scheme, network |-> o.network, tx |-> t, mandate |-> m,
             challenge |-> o, signature |-> g]
    BY <1>2 DEF CreateProof
  <2> HIDE DEF g, o
  <2>2. P.challenge = o /\ P.scheme = o.scheme /\ P.network = o.network /\ P.signature = g
    BY <2>1
  <2> QED  BY <2>2 DEF SignedBy, g
<1>4. PICK at \in 1 .. MaxTime : Payable(Offer(p), Mandate[m], Net, Target, at, FALSE)
  BY DEF Bought
<1>5. /\ WellFormed(c)
      /\ c.merchant = Mandate[m].merchant /\ c.asset = Mandate[m].asset
  <2> HIDE DEF c, m, P
  <2>1. Offer(p).version = 2
    BY <1>1, OfferFields
  <2>2. WellFormed(o) /\ o.merchant = Mandate[m].merchant /\ o.asset = Mandate[m].asset
    BY <1>4, <2>1 DEF Payable, Parses, ExactRequest
  <2> QED  BY <1>3, <2>2
<1>6. /\ c.audience = Site.audience /\ c.scheme = "reapp-soroban-bound"
      /\ c.method = Target.method /\ c.resource = <<Target.path, Target.query>>
      /\ c.body = Absent /\ c.network = Site.network /\ c.networkId = Site.passphrase
      /\ c.registry = Site.registry /\ c.merchant = Site.merchant /\ c.asset = Site.asset
      /\ c.amount = ToStroops(Site.amount, Site.decimals) /\ c.decimals = Site.decimals
      /\ c.expires = c.issued + Site.ttl
      /\ MacIsValid(c, Site.secret)
  <2>1. o.issued = c.issued
    BY <1>1, OfferFields
  <2> HIDE DEF c, o
  <2> QED  BY <1>1, <1>3, <2>1, OfferFields DEF o, c
<1>7. c.expires - c.issued = Site.ttl
  <2>1. c.issued \in Int /\ Site.ttl \in Int
    BY <1>1, ProofAssumption DEF IsProof, IsChallenge
  <2> HIDE DEF c
  <2> QED  BY <1>6, <2>1
<1>8. p \in Exact
  <2>1. Decodable(P)
    BY <1>3, <1>5 DEF Decodable
  <2>2. ExactChallenge(Site, Target, P)
    <3> HIDE DEF c, P
    <3>1. P.challenge = c
      BY DEF c
    <3> QED  BY <1>3, <1>6, <1>7, <3>1 DEF ExactChallenge
  <2> QED  BY <1>1, <2>1, <2>2 DEF Exact
<1>9. Chain[t].status = "SUCCESS" /\ Chain[t].calls = <<Pay(Site.registry, m, Need.stroops)>>
  <2> DEFINE pay == Pay(Site.registry, m, Need.stroops)
  <2>1. Chain[t] = [status |-> "SUCCESS", calls |-> <<pay>>]
    BY DEF Bought
  <2> HIDE DEF pay
  <2>2. Chain[t].status = "SUCCESS" /\ Chain[t].calls = <<pay>>
    BY <2>1
  <2> QED  BY <2>2 DEF pay
<1>10. PICK e : /\ Shown(t, Need) = VerifiedPayment(t, e, Need)
                /\ e = PaymentEvent(Pay(Need.registry, m, Need.stroops))
                /\ Tells(Shown(t, Need), t, Pay(Need.registry, m, Need.stroops), Need)
  <2>1. Mandate[m].merchant = Need.merchant /\ Mandate[m].asset = Need.asset
    BY <1>5, <1>6, NeedFields
  <2>2. Chain[t].calls = <<Pay(Need.registry, m, Need.stroops)>>
    BY <1>9, NeedFields
  <2> HIDE DEF t, m
  <2> QED  BY <1>1, <2>1, <2>2, NeedFields, PaymentIsShown
<1>11. Shown(t, Need) # Nothing
  <2> DEFINE pay == Pay(Need.registry, m, Need.stroops)
  <2>1. pay.op = "pay" /\ Chain[t].calls = <<pay>>
    BY <1>9, NeedFields DEF Pay
  <2> HIDE DEF pay
  <2>2. 1 \in DOMAIN Chain[t].calls /\ Chain[t].calls[1] = pay
    BY <2>1
  <2>3. VerifiedPayment(t, PaymentEvent(pay), Need) # Nothing
    BY <1>1, <2>1, <2>2, ProofAssumption
  <2> QED  BY <1>10, <2>3 DEF pay
<1>12. p \in Matching
  <2> DEFINE pay == Pay(Need.registry, m, Need.stroops)
             s   == Shown(t, Need)
  <2>1. pay.mandate = m /\ pay.amount = Need.stroops
    BY DEF Pay
  <2>2. Tells(s, t, pay, Need)
    BY <1>10
  <2> HIDE DEF pay, s
  <2>3. PaymentMatches(Site, P, s)
    <3> HIDE DEF c
    <3> QED  BY <2>1, <2>2, <1>3, <1>5, <1>6, NeedFields DEF PaymentMatches, Tells
  <2> QED  BY <1>1, <1>11, <2>3 DEF Matching, Paying, s
<1>13. Deliverable(P, Target)
  BY <1>6, DeliveryAssumption DEF Deliverable, Resource
<1> QED
  BY <1>8, <1>9, <1>12, <1>13 DEF Valid

-----------------------------------------------------------------------------
(* What a step leaves as it was                                            *)

\* The handler of r goes on, the others are where they were.
Moves(r, pc, v) ==
    /\ request' \in [Requests -> Handler]
    /\ request'[r].pc = pc /\ request'[r].value = v
    /\ request'[r].proof = request[r].proof /\ request'[r].captured = request[r].captured
    /\ \A q \in Requests : q # r => request'[q] = request[q]

\* Goto and GotoWith do just that.
LEMMA GotoMoves ==
    ASSUME TypeInv, NEW r \in Requests, NEW pc \in Pcs, NEW v \in Answers \cup Refusals
    PROVE  /\ Goto(r, pc) => Moves(r, pc, request[r].value)
           /\ GotoWith(r, pc, v) => Moves(r, pc, v)
<1>1. request \in [Requests -> Handler] /\ request[r] \in Handler
  BY DEF TypeInv
<1>2. ASSUME NEW h \in Handler, request' = [request EXCEPT ![r] = h],
             h.proof = request[r].proof, h.captured = request[r].captured
      PROVE  Moves(r, h.pc, h.value)
  BY <1>1, <1>2 DEF Moves
<1>3. ASSUME Goto(r, pc)  PROVE Moves(r, pc, request[r].value)
  <2> DEFINE h == [request[r] EXCEPT !.pc = pc]
  <2>1. request' = [request EXCEPT ![r] = h]
    BY <1>3 DEF Goto
  <2>2. /\ h \in Handler /\ h.pc = pc /\ h.value = request[r].value
        /\ h.proof = request[r].proof /\ h.captured = request[r].captured
    BY <1>1 DEF Handler
  <2> HIDE DEF h
  <2> QED  BY <1>2, <2>1, <2>2
<1>4. ASSUME GotoWith(r, pc, v)  PROVE Moves(r, pc, v)
  <2> DEFINE h == [request[r] EXCEPT !.pc = pc, !.value = v]
  <2>1. request' = [request EXCEPT ![r] = h]
    BY <1>1, <1>4 DEF GotoWith
  <2>2. /\ h \in Handler /\ h.pc = pc /\ h.value = v
        /\ h.proof = request[r].proof /\ h.captured = request[r].captured
    BY <1>1 DEF Handler
  <2> HIDE DEF h
  <2> QED  BY <1>2, <2>1, <2>2
<1> QED
  BY <1>3, <1>4

\* Nothing that the handler of q relies on is taken back: time goes on, settlements,
\* records and answers stay, and what q owns nobody else touches.
Frame(q) ==
    /\ request'[q] = request[q] /\ up' = up
    /\ now' \in Nat /\ now <= now'
    /\ \A t \in Txs : settled[t] # Nothing => settled'[t] = settled[t]
    /\ \A t \in DOMAIN records : /\ t \in DOMAIN records' /\ records'[t].proof = records[t].proof
                                 /\ records[t].answer # Nothing => records'[t] = records[t]
    /\ request[q].pc \in OwnerPcs => /\ records'[TxOf(q)] = records[TxOf(q)]
                                     /\ begun'[TxOf(q)] = begun[TxOf(q)]

\* Refusals, answers and nothing are told apart.
LEMMA ValuesDiffer ==
    /\ Nothing \notin Answers /\ Nothing \notin Refusals /\ Nothing \notin Proofs
    /\ \A v \in Answers : v \notin Refusals
    /\ PayFirst \in Refusals /\ Conflict \in Refusals /\ Unavailable \in Refusals
    /\ PayFirst # Conflict /\ PayFirst # Unavailable /\ Conflict # Unavailable
BY DeliveryAssumption DEF Answers, Refusals, PayFirst, Conflict, Unavailable

\* A handler that is framed loses nothing of what is known of it.
LEMMA FrameKeeps ==
    ASSUME IInv, NEW q \in Requests, Frame(q)
    PROVE  HandlerOK(q)'
<1>1. TypeInv /\ HandlerOK(q) /\ request'[q] = request[q] /\ Books
  BY DEF IInv, Frame
<1>2. TxOf(q)' = TxOf(q) /\ ProofOf(q)' = ProofOf(q)
  BY <1>1 DEF TxOf, ProofOf
<1>3. request[q] \in Handler /\ now \in Nat /\ now' \in Nat /\ now <= now'
  BY <1>1 DEF TypeInv, Frame
<1>4. Admitted(q)' /\ Decoded(q)'
  <2>1. request[q].captured \in Nat
    BY <1>3 DEF Handler
  <2> QED  BY <1>1, <1>3, <2>1 DEF HandlerOK, Admitted, Decoded, Frame
<1>5. InWindow(q)' <=> InWindow(q)
  BY <1>1, <1>2 DEF InWindow
<1>6. Timely(q)'
  BY <1>1, <1>5 DEF HandlerOK, Timely
<1>7. ASSUME request[q].pc # "idle"
      PROVE  TxOf(q) \in Txs
  BY <1>1, <1>7, DeliveryAssumption DEF HandlerOK, Admitted, TxOf, ProofOf
<1>8. Verified(q)'
  <2> SUFFICES ASSUME request[q].pc = "claim"
               PROVE  request[q].proof \in Matching /\ Redeemable(TxOf(q), request[q].captured)'
    BY <1>1, <1>2 DEF Verified
  <2>1. request[q].proof \in Matching /\ Redeemable(TxOf(q), request[q].captured)
    BY <1>1 DEF HandlerOK, Verified
  <2>2. settled'[TxOf(q)] = settled[TxOf(q)]
    BY <1>7, <2>1 DEF Redeemable, Frame
  <2> QED  BY <1>1, <1>2, <2>1, <2>2 DEF Redeemable
<1>9. ASSUME request[q].pc \in OwnerPcs
      PROVE  /\ TxOf(q) \in DOMAIN records /\ TxOf(q) \in DOMAIN records'
             /\ records'[TxOf(q)] = records[TxOf(q)] /\ begun'[TxOf(q)] = begun[TxOf(q)]
  <2>1. TxOf(q) \in DOMAIN records
    BY <1>1, <1>9 DEF HandlerOK, Owns, Executing
  <2> QED  BY <1>9, <2>1 DEF Frame
<1>10. Counted(q)'
  BY <1>1, <1>2, <1>9 DEF HandlerOK, Counted, OwnerPcs
<1>11. Owns(q)'
  <2> SUFFICES ASSUME request[q].pc \in OwnerPcs
               PROVE  Executing(TxOf(q))' /\ records'[TxOf(q)].proof = request[q].proof
    BY <1>1, <1>2 DEF Owns
  <2>1. Executing(TxOf(q)) /\ records[TxOf(q)].proof = request[q].proof
    BY <1>1 DEF HandlerOK, Owns
  <2> QED  BY <2>1, <1>2, <1>9 DEF Executing
<1>12. Stored(q)'
  <2>1. Stored(q)
    BY <1>1 DEF HandlerOK
  <2> SUFFICES ASSUME request[q].pc = "send", request[q].value \notin Refusals
               PROVE  /\ TxOf(q) \in DOMAIN records'
                      /\ request[q].value \in Answers
                      /\ records'[TxOf(q)] = [proof |-> request[q].proof, answer |-> request[q].value]
    BY <1>1, <1>2, <2>1 DEF Stored
  <2>2. /\ TxOf(q) \in DOMAIN records /\ request[q].value \in Answers
        /\ records[TxOf(q)] = [proof |-> request[q].proof, answer |-> request[q].value]
    BY <2>1 DEF Stored
  <2>3. records[TxOf(q)].answer = request[q].value
    BY <2>2
  <2>4. records[TxOf(q)].answer # Nothing
    BY <2>2, <2>3, ValuesDiffer
  <2> QED  BY <2>2, <2>4 DEF Frame
<1>13. Honoured(q)'
  <2> SUFFICES ASSUME request[q].pc = "send", request[q].proof \in Bought
               PROVE  /\ Deliverable(ProofOf(q), Target)
                      /\ request[q].value = PayFirst =>
                            \/ ~ InWindow(q)
                            \/ settled'[TxOf(q)] # Nothing /\ now' - settled'[TxOf(q)] > MaxProofAge
                      /\ request[q].value = Conflict =>
                            TxOf(q) \in DOMAIN records' /\ records'[TxOf(q)].proof # request[q].proof
    BY <1>1, <1>2, <1>5 DEF Honoured
  <2>1. Honoured(q) /\ TxOf(q) \in Txs
    BY <1>1, <1>7 DEF HandlerOK
  <2>2. Deliverable(ProofOf(q), Target)
    BY <2>1 DEF Honoured
  <2>3. ASSUME request[q].value = PayFirst, InWindow(q)
        PROVE  settled'[TxOf(q)] # Nothing /\ now' - settled'[TxOf(q)] > MaxProofAge
    <3>1. settled[TxOf(q)] # Nothing /\ now - settled[TxOf(q)] > MaxProofAge
      BY <2>1, <2>3 DEF Honoured
    <3>2. settled'[TxOf(q)] = settled[TxOf(q)]
      BY <2>1, <3>1 DEF Frame
    <3>3. settled[TxOf(q)] \in Nat /\ MaxProofAge \in Nat
      BY <1>1, <2>1, <3>1, DeliveryAssumption DEF TypeInv
    <3> QED  BY <1>3, <3>1, <3>2, <3>3
  <2>4. ASSUME request[q].value = Conflict
        PROVE  TxOf(q) \in DOMAIN records' /\ records'[TxOf(q)].proof # request[q].proof
    BY <2>1, <2>4 DEF Honoured, Frame
  <2> QED  BY <2>2, <2>3, <2>4
<1> QED
  BY <1>4, <1>6, <1>8, <1>10, <1>11, <1>12, <1>13 DEF HandlerOK

\* A step of r's handler keeps the invariant if it keeps what is not of one handler,
\* leaves r its own, and the others theirs, and makes r no second owner.
LEMMA StepKeeps ==
    ASSUME IInv, NEW r \in Requests, TypeInv', Books', ShownIsStored', HandlerOK(r)',
           \A q \in Requests : q # r => Frame(q),
           request'[r].pc \in OwnerPcs =>
              \/ request[r].pc \in OwnerPcs /\ request'[r].proof = request[r].proof
              \/ \A q \in Requests : q # r /\ request[q].pc \in OwnerPcs => TxOf(q) # TxOf(r)'
    PROVE  IInv'
<1>1. \A q \in Requests : HandlerOK(q)'
  BY FrameKeeps
<1>2. \A q \in Requests : q # r => request'[q] = request[q] /\ TxOf(q)' = TxOf(q)
  BY DEF Frame, TxOf, ProofOf
<1>3. request'[r].proof = request[r].proof => TxOf(r)' = TxOf(r)
  BY DEF TxOf, ProofOf
<1>4. Exclusive'
  <2> SUFFICES ASSUME NEW p \in Requests, NEW q \in Requests,
                      request'[p].pc \in OwnerPcs, request'[q].pc \in OwnerPcs,
                      TxOf(q)' = TxOf(p)', p # q
               PROVE  FALSE
    BY DEF Exclusive
  <2>0. Exclusive
    BY DEF IInv
  <2>1. CASE p # r /\ q # r
    BY <2>0, <2>1, <1>2 DEF Exclusive
  <2>2. CASE p = r
    BY <2>0, <2>2, <1>2, <1>3 DEF Exclusive
  <2>3. CASE q = r
    BY <2>0, <2>3, <1>2, <1>3 DEF Exclusive
  <2> QED  BY <2>1, <2>2, <2>3
<1> QED
  BY <1>1, <1>4 DEF IInv

\* A step of r's handler that neither writes nor sends keeps the invariant if it
\* leaves r its own.
LEMMA QuietStep ==
    ASSUME IInv, NEW r \in Requests,
           UNCHANGED <<now, settled, records, serverVars, historyVars>>,
           request' \in [Requests -> Handler],
           \A q \in Requests : q # r => request'[q] = request[q],
           HandlerOK(r)',
           request'[r].pc \in OwnerPcs =>
              request[r].pc \in OwnerPcs /\ request'[r].proof = request[r].proof
    PROVE  IInv'
<1>1. TypeInv /\ Books /\ ShownIsStored
  BY DEF IInv
<1>2. /\ now' = now /\ settled' = settled /\ records' = records /\ up' = up
      /\ sweeping' = sweeping /\ sweep' = sweep /\ begun' = begun /\ shown' = shown
  BY DEF serverVars, historyVars
<1>3. TypeInv'
  BY <1>1, <1>2 DEF TypeInv
<1>4. Books' /\ ShownIsStored'
  BY <1>1, <1>2 DEF Books, ShownIsStored
<1>5. \A q \in Requests : q # r => Frame(q)
  BY <1>1, <1>2 DEF Frame, TypeInv
<1> QED
  BY <1>3, <1>4, <1>5, StepKeeps

\* A handler that refuses relies on nothing more than that it may.
LEMMA RefusedIsOK ==
    ASSUME TypeInv, NEW r \in Requests, HandlerOK(r), request[r].pc # "idle",
           NEW v \in Refusals, Moves(r, "send", v),
           up' = up, now' = now, settled' = settled, DOMAIN records \subseteq DOMAIN records',
           \A t \in DOMAIN records : records'[t].proof = records[t].proof,
           request[r].proof \in Bought =>
              /\ v = PayFirst =>
                   \/ ~ InWindow(r)
                   \/ settled[TxOf(r)] # Nothing /\ now - settled[TxOf(r)] > MaxProofAge
              /\ v = Conflict =>
                   TxOf(r) \in DOMAIN records /\ records[TxOf(r)].proof # request[r].proof
    PROVE  HandlerOK(r)'
<1>1. /\ request'[r].pc = "send" /\ request'[r].value = v
      /\ request'[r].proof = request[r].proof /\ request'[r].captured = request[r].captured
  BY DEF Moves
<1>2. TxOf(r)' = TxOf(r) /\ ProofOf(r)' = ProofOf(r) /\ (InWindow(r)' <=> InWindow(r))
  BY <1>1 DEF TxOf, ProofOf, InWindow
<1>3. Admitted(r)'
  BY <1>1 DEF HandlerOK, Admitted
<1>4. Decoded(r)' /\ Timely(r)' /\ Verified(r)' /\ Counted(r)' /\ Stored(r)' /\ Owns(r)'
  BY <1>1 DEF Decoded, Timely, Verified, Counted, Stored, Owns, OwnerPcs
<1>5. Honoured(r)'
  <2> SUFFICES ASSUME request[r].proof \in Bought
               PROVE  /\ Deliverable(ProofOf(r), Target)
                      /\ v = PayFirst =>
                           \/ ~ InWindow(r)
                           \/ settled[TxOf(r)] # Nothing /\ now - settled[TxOf(r)] > MaxProofAge
                      /\ v = Conflict =>
                           TxOf(r) \in DOMAIN records' /\ records'[TxOf(r)].proof # request[r].proof
    BY <1>1, <1>2 DEF Honoured
  <2>1. Deliverable(ProofOf(r), Target)
    BY BoughtIsValid DEF ProofOf
  <2> QED  BY <2>1
<1> QED
  BY <1>3, <1>4, <1>5 DEF HandlerOK

\* A handler that replays the record's answer sends what is stored.
LEMMA ReplayedIsOK ==
    ASSUME IInv, NEW r \in Requests, request[r].pc # "idle", up' = up, now' = now,
           settled' = settled, records' = records,
           Completed(TxOf(r)), records[TxOf(r)].proof = request[r].proof,
           Moves(r, "send", records[TxOf(r)].answer)
    PROVE  HandlerOK(r)'
<1> DEFINE t == TxOf(r)
           v == records[t].answer
<1>1. /\ request'[r].pc = "send" /\ request'[r].value = v
      /\ request'[r].proof = request[r].proof /\ request'[r].captured = request[r].captured
  BY DEF Moves
<1>2. TxOf(r)' = t
  BY <1>1 DEF TxOf, ProofOf
<1>3. t \in DOMAIN records /\ v # Nothing
  BY DEF Completed
<1>4. v \in Answers /\ v \notin Refusals /\ records[t] = [proof |-> request[r].proof, answer |-> v]
  <2>1. records[t] \in [proof : Proofs, answer : Answers \cup {Nothing}]
    BY <1>3 DEF IInv, TypeInv
  <2>2. records[t] = [proof |-> records[t].proof, answer |-> records[t].answer]
    BY <2>1
  <2> QED  BY <2>1, <2>2, <1>3, ValuesDiffer
<1> HIDE DEF t, v
<1>5. Admitted(r)'
  BY <1>1 DEF HandlerOK, Admitted, IInv
<1>6. Decoded(r)' /\ Timely(r)' /\ Verified(r)' /\ Counted(r)' /\ Owns(r)'
  BY <1>1 DEF Decoded, Timely, Verified, Counted, Owns, OwnerPcs
<1>7. Stored(r)'
  BY <1>1, <1>2, <1>3, <1>4 DEF Stored
<1>8. Honoured(r)'
  <2>1. request'[r].proof \in Bought => Deliverable(ProofOf(r), Target)'
    BY <1>1, BoughtIsValid DEF ProofOf
  <2> QED  BY <1>1, <1>4, <2>1, ValuesDiffer DEF Honoured
<1> QED
  BY <1>5, <1>6, <1>7, <1>8 DEF HandlerOK

\* A handler that is idle relies on nothing.
LEMMA IdleIsOK ==
    ASSUME \A q \in Requests : request'[q].pc = "idle"
    PROVE  (\A q \in Requests : HandlerOK(q)') /\ Exclusive'
BY DEF HandlerOK, Admitted, Decoded, Timely, Verified, Counted, Stored, Owns, Honoured,
       Exclusive, OwnerPcs

\* A record written is the only change to the file.
LEMMA PutWrites ==
    ASSUME TypeInv, NEW t \in Txs, NEW p \in Proofs, NEW a \in Answers \cup {Nothing},
           Put(t, [proof |-> p, answer |-> a])
    PROVE  /\ DOMAIN records' = DOMAIN records \cup {t} /\ DOMAIN records' \subseteq Txs
           /\ records'[t] = [proof |-> p, answer |-> a]
           /\ \A x \in DOMAIN records : x # t => records'[x] = records[x]
           /\ records' \in [DOMAIN records' -> [proof : Proofs, answer : Answers \cup {Nothing}]]
<1> DEFINE new == [proof |-> p, answer |-> a]
<1>1. new \in [proof : Proofs, answer : Answers \cup {Nothing}]
  OBVIOUS
<1>2. records' = [x \in DOMAIN records \cup {t} |-> IF x = t THEN new ELSE records[x]]
  BY DEF Put
<1> HIDE DEF new
<1>3. DOMAIN records' = DOMAIN records \cup {t} /\ records'[t] = new
      /\ \A x \in DOMAIN records : x # t => records'[x] = records[x]
  BY <1>2
<1>4. \A x \in DOMAIN records' : records'[x] \in [proof : Proofs, answer : Answers \cup {Nothing}]
  BY <1>1, <1>3 DEF TypeInv
<1>5. records' = [x \in DOMAIN records' |-> records'[x]]
  BY <1>2, <1>3
<1>6. records' \in [DOMAIN records' -> [proof : Proofs, answer : Answers \cup {Nothing}]]
  BY <1>4, <1>5
<1> QED
  BY <1>3, <1>6 DEF TypeInv, new

-----------------------------------------------------------------------------
(* The invariant is inductive                                              *)

\* The invariant holds at the start.
LEMMA InitIInv == Init => IInv
<1> SUFFICES ASSUME Init  PROVE IInv
  OBVIOUS
<1>1. Idle \in Handler
  BY DEF Idle, Handler, Pcs
<1>2. DOMAIN records = {} /\ records = [t \in DOMAIN records |-> Nothing]
  BY DEF Init
<1>3. TypeInv
  <2>1. records \in [DOMAIN records -> [proof : Proofs, answer : Answers \cup {Nothing}]]
    BY <1>2
  <2>2. request \in [Requests -> Handler]
    BY <1>1 DEF Init
  <2> QED  BY <1>2, <2>1, <2>2 DEF Init, TypeInv
<1>4. \A q \in Requests : request[q].pc = "idle"
  BY DEF Init, Idle
<1>5. (\A q \in Requests : HandlerOK(q)) /\ Exclusive
  BY <1>4 DEF HandlerOK, Admitted, Decoded, Timely, Verified, Counted, Stored, Owns, Honoured,
              Exclusive, OwnerPcs
<1>6. Books /\ ShownIsStored
  BY <1>2 DEF Init, Books, ShownIsStored
<1> QED
  BY <1>3, <1>5, <1>6 DEF IInv

\* A proof arrives: it is looked up if its shape is right, and answered if not.
LEMMA ArriveKeeps ==
    ASSUME IInv, NEW r \in Requests, NEW p \in Proofs, Arrive(r, p)
    PROVE  IInv'
<1> DEFINE h == [pc |-> IF p \in Exact THEN "lookup" ELSE "send",
                 proof |-> p, captured |-> now,
                 value |-> IF p \in Exact THEN Nothing ELSE PayFirst]
<1>1. /\ request \in [Requests -> Handler] /\ request' = [request EXCEPT ![r] = h]
      /\ up /\ now \in Nat
      /\ UNCHANGED <<now, settled, records, serverVars, historyVars>>
  BY DEF IInv, TypeInv, Arrive, At
<1>2. h \in Handler
  BY <1>1, ValuesDiffer DEF Handler, Pcs
<1>3. /\ h.proof = p /\ h.captured = now
      /\ \/ p \in Exact /\ h.pc = "lookup"
         \/ p \notin Exact /\ h.pc = "send" /\ h.value = PayFirst
  OBVIOUS
<1> HIDE DEF h
<1>4. /\ request' \in [Requests -> Handler] /\ request'[r] = h
      /\ \A q \in Requests : q # r => request'[q] = request[q]
  BY <1>1, <1>2
<1>5. HandlerOK(r)'
  <2>1. Admitted(r)'
    BY <1>1, <1>3, <1>4 DEF Admitted, serverVars
  <2>2. Decoded(r)' /\ Timely(r)' /\ Verified(r)' /\ Counted(r)' /\ Owns(r)'
    BY <1>3, <1>4 DEF Decoded, Timely, Verified, Counted, Owns, OwnerPcs
  <2>3. Stored(r)'
    BY <1>3, <1>4, ValuesDiffer DEF Stored
  <2>4. Honoured(r)'
    BY <1>3, <1>4, BoughtIsValid DEF Honoured, Valid
  <2> QED  BY <2>1, <2>2, <2>3, <2>4 DEF HandlerOK
<1>6. request'[r].pc \notin OwnerPcs
  BY <1>3, <1>4 DEF OwnerPcs
<1> QED
  BY <1>1, <1>4, <1>5, <1>6, QuietStep

\* A refusal, whatever was read for it, keeps the invariant.
LEMMA RefuseKeeps ==
    ASSUME IInv, NEW r \in Requests, request[r].pc # "idle", NEW v \in Refusals, Refuse(r, v),
           UNCHANGED <<now, settled, records, serverVars, historyVars>>,
           request[r].proof \in Bought =>
              /\ v = PayFirst =>
                   \/ ~ InWindow(r)
                   \/ settled[TxOf(r)] # Nothing /\ now - settled[TxOf(r)] > MaxProofAge
              /\ v = Conflict =>
                   TxOf(r) \in DOMAIN records /\ records[TxOf(r)].proof # request[r].proof
    PROVE  IInv'
<1>1. TypeInv /\ HandlerOK(r)
  BY DEF IInv
<1>2. Moves(r, "send", v)
  BY <1>1, GotoMoves DEF Refuse, Pcs
<1>3. HandlerOK(r)'
  BY <1>1, <1>2, RefusedIsOK DEF serverVars
<1>4. request'[r].pc \notin OwnerPcs
  BY <1>2 DEF Moves, OwnerPcs
<1> QED
  BY <1>2, <1>3, <1>4, QuietStep DEF Moves

\* So does the replay of an answer.
LEMMA ReplayKeeps ==
    ASSUME IInv, NEW r \in Requests, request[r].pc # "idle", Replay(r),
           Find(TxOf(r), request[r].proof) = "completed",
           UNCHANGED <<now, settled, records, serverVars, historyVars>>
    PROVE  IInv'
<1>1. CASE request[r].proof \notin Matching
  BY <1>1, RefuseKeeps, ValuesDiffer DEF Replay
<1>2. CASE request[r].proof \in Matching
  <2> DEFINE t == TxOf(r)
  <2>1. t \in DOMAIN records /\ records[t].proof = request[r].proof /\ ~ Executing(t)
    BY DEF Find
  <2>2. Completed(t) /\ records[t].answer \in Answers
    <3>1. records[t] \in [proof : Proofs, answer : Answers \cup {Nothing}]
      BY <2>1 DEF IInv, TypeInv
    <3> QED  BY <2>1, <3>1 DEF Completed, Executing
  <2>3. Moves(r, "send", records[t].answer)
    <3>1. GotoWith(r, "send", records[t].answer)
      BY <1>2 DEF Replay
    <3> HIDE DEF t
    <3> QED  BY <2>2, <3>1, GotoMoves DEF Pcs, IInv
  <2>4. HandlerOK(r)'
    BY <2>1, <2>2, <2>3, ReplayedIsOK DEF serverVars
  <2>5. request'[r].pc \notin OwnerPcs
    BY <2>3 DEF Moves, OwnerPcs
  <2> QED  BY <2>3, <2>4, <2>5, QuietStep DEF Moves
<1> QED
  BY <1>1, <1>2

\* What the lookup finds stands in the store, whatever it decides.
LEMMA LookupKeeps ==
    ASSUME IInv, NEW r \in Requests, Lookup(r)
    PROVE  IInv'
<1> DEFINE found == Find(TxOf(r), request[r].proof)
<1>1. /\ request[r].pc = "lookup" /\ HandlerOK(r) /\ TypeInv
      /\ UNCHANGED <<now, settled, records, serverVars, historyVars>>
  BY DEF Lookup, At, IInv
<1>2. request[r].pc # "idle"
  BY <1>1
<1>3. CASE found = "completed" /\ Replay(r)
  BY <1>1, <1>2, <1>3, ReplayKeeps
<1>4. CASE found = "missing" /\ InWindow(r) /\ Goto(r, "verify")
  <2>1. Moves(r, "verify", request[r].value)
    BY <1>1, <1>4, GotoMoves, ValuesDiffer DEF Pcs
  <2>2. /\ request'[r].pc = "verify"
        /\ request'[r].proof = request[r].proof /\ request'[r].captured = request[r].captured
    BY <2>1 DEF Moves
  <2>3. Admitted(r)' /\ Decoded(r)'
    BY <1>1, <2>2 DEF HandlerOK, Admitted, Decoded, serverVars
  <2>4. Timely(r)'
    BY <1>4, <2>2 DEF Timely, InWindow, ProofOf
  <2>5. Verified(r)' /\ Counted(r)' /\ Stored(r)' /\ Owns(r)' /\ Honoured(r)'
    BY <2>2 DEF Verified, Counted, Stored, Owns, Honoured, OwnerPcs
  <2>6. HandlerOK(r)' /\ request'[r].pc \notin OwnerPcs
    BY <2>2, <2>3, <2>4, <2>5 DEF HandlerOK, OwnerPcs
  <2> QED  BY <1>1, <2>1, <2>6, QuietStep DEF Moves
<1>5. CASE found = "missing" /\ ~ InWindow(r) /\ Refuse(r, PayFirst)
  BY <1>1, <1>2, <1>5, RefuseKeeps, ValuesDiffer
<1>6. CASE found = "conflict" /\ Refuse(r, Conflict)
  <2>1. TxOf(r) \in DOMAIN records /\ records[TxOf(r)].proof # request[r].proof
    BY <1>6 DEF Find
  <2> QED  BY <1>1, <1>2, <1>6, <2>1, RefuseKeeps, ValuesDiffer
<1>7. CASE Refuse(r, Unavailable)
  BY <1>1, <1>2, <1>7, RefuseKeeps, ValuesDiffer
<1> QED
  BY <1>3, <1>4, <1>5, <1>6, <1>7 DEF Lookup

\* The verifier's "ok" is about a payment that was made and is recent.
LEMMA OkIsRedeemable ==
    ASSUME IInv, NEW r \in Requests, request[r].pc = "verify",
           NEW latest \in now - RpcLag .. now
    PROVE  /\ VerdictOn(r, latest) = "ok" => Redeemable(TxOf(r), request[r].captured)
           /\ request[r].proof \in Bought /\ Conclusive(r, latest) =>
                settled[TxOf(r)] # Nothing /\ now - settled[TxOf(r)] > MaxProofAge
<1> DEFINE t == TxOf(r)
<1>1. /\ t \in Txs /\ request[r].captured <= now /\ request[r].captured \in Nat
      /\ now \in Nat /\ MaxProofAge \in Nat /\ RpcLag \in Nat
      /\ latest \in Int /\ now - RpcLag <= latest /\ latest <= now
      /\ settled[t] # Nothing => settled[t] \in Nat
  <2>1. HandlerOK(r) /\ TypeInv /\ request[r] \in Handler
    BY DEF IInv, TypeInv
  <2>2. t \in Txs /\ request[r].captured <= now
    BY <2>1, DeliveryAssumption DEF HandlerOK, Admitted, TxOf, ProofOf
  <2> HIDE DEF t
  <2> QED  BY <2>1, <2>2, DeliveryAssumption DEF TypeInv, Handler
<1> HIDE DEF t
<1>2. VerdictOn(r, latest) = Verdict(t, t \in Paying, settled[t], latest)
  BY DEF VerdictOn, t
<1>3. ASSUME VerdictOn(r, latest) = "ok"  PROVE Redeemable(t, request[r].captured)
  <2>1. settled[t] # Nothing /\ Chain[t].status = "SUCCESS" /\ Fresh(settled[t], latest)
    BY <1>2, <1>3 DEF Verdict
  <2>2. settled[t] + MaxProofAge + RpcLag >= request[r].captured
    BY <1>1, <2>1 DEF Fresh
  <2> QED  BY <2>1, <2>2 DEF Redeemable
<1>4. ASSUME request[r].proof \in Bought, Conclusive(r, latest)
      PROVE  settled[t] # Nothing /\ now - settled[t] > MaxProofAge
  <2>1. request[r].proof \in Matching /\ Chain[t].status = "SUCCESS"
    BY <1>4, BoughtIsValid DEF Valid, t, TxOf, ProofOf
  <2>2. t \in Paying
    BY <2>1 DEF Matching, t, TxOf, ProofOf
  <2>3. VerdictOn(r, latest) = "invalid"
    BY <1>4, <2>1 DEF Conclusive
  <2>4. settled[t] # Nothing /\ ~ Fresh(settled[t], latest)
    BY <1>2, <2>1, <2>2, <2>3 DEF Verdict
  <2> QED  BY <1>1, <2>4 DEF Fresh
<1> QED
  BY <1>3, <1>4 DEF t

\* A verified proof was captured within its binding's time.
LEMMA VerifyKeeps ==
    ASSUME IInv, NEW r \in Requests, Verify(r)
    PROVE  IInv'
<1>1. /\ request[r].pc = "verify" /\ HandlerOK(r) /\ TypeInv
      /\ UNCHANGED <<now, settled, records, serverVars, historyVars>>
  BY DEF Verify, At, IInv
<1>2. request[r].pc # "idle"
  BY <1>1
<1>3. CASE \E latest \in now - RpcLag .. now : Conclusive(r, latest) /\ Refuse(r, PayFirst)
  BY <1>1, <1>2, <1>3, RefuseKeeps, OkIsRedeemable, ValuesDiffer
<1>4. CASE \E latest \in now - RpcLag .. now :
              ~ Conclusive(r, latest) /\ VerdictOn(r, latest) = "ok" /\ Goto(r, "claim")
  <2>1. Moves(r, "claim", request[r].value)
    BY <1>1, <1>4, GotoMoves, ValuesDiffer DEF Pcs
  <2>2. /\ request'[r].pc = "claim"
        /\ request'[r].proof = request[r].proof /\ request'[r].captured = request[r].captured
    BY <2>1 DEF Moves
  <2>3. Admitted(r)' /\ Decoded(r)'
    BY <1>1, <2>2 DEF HandlerOK, Admitted, Decoded, serverVars
  <2>4. Timely(r)'
    BY <1>1, <2>2 DEF HandlerOK, Timely, InWindow, ProofOf
  <2>5. Verified(r)'
    <3>1. request[r].proof \in Matching /\ Redeemable(TxOf(r), request[r].captured)
      BY <1>1, <1>4, OkIsRedeemable DEF Conclusive
    <3> QED  BY <1>1, <2>2, <3>1 DEF Verified, Redeemable, TxOf, ProofOf
  <2>6. Counted(r)' /\ Stored(r)' /\ Owns(r)' /\ Honoured(r)'
    BY <2>2 DEF Counted, Stored, Owns, Honoured, OwnerPcs
  <2>7. HandlerOK(r)' /\ request'[r].pc \notin OwnerPcs
    BY <2>2, <2>3, <2>4, <2>5, <2>6 DEF HandlerOK, OwnerPcs
  <2> QED  BY <1>1, <2>1, <2>7, QuietStep DEF Moves
<1>5. CASE Refuse(r, Unavailable)
  BY <1>1, <1>2, <1>5, RefuseKeeps, ValuesDiffer
<1> QED
  BY <1>3, <1>4, <1>5 DEF Verify

\* Fulfillment produces an answer, of nobody's choosing.
LEMMA FinishKeeps ==
    ASSUME IInv, NEW r \in Requests, Finish(r)
    PROVE  IInv'
<1>1. /\ request[r].pc = "working" /\ HandlerOK(r) /\ TypeInv
      /\ UNCHANGED <<now, settled, records, serverVars, historyVars>>
  BY DEF Finish, At, IInv
<1>2. PICK a \in Answers : GotoWith(r, "complete", a)
  BY DEF Finish, Bodies
<1>3. Moves(r, "complete", a)
  BY <1>1, <1>2, GotoMoves DEF Pcs
<1>4. /\ request'[r].pc = "complete" /\ request'[r].value = a
      /\ request'[r].proof = request[r].proof /\ request'[r].captured = request[r].captured
  BY <1>3 DEF Moves
<1>5. TxOf(r)' = TxOf(r)
  BY <1>4 DEF TxOf, ProofOf
<1>6. Admitted(r)' /\ Decoded(r)'
  BY <1>1, <1>4 DEF HandlerOK, Admitted, Decoded, serverVars
<1>7. Counted(r)'
  BY <1>1, <1>4, <1>5 DEF HandlerOK, Counted, historyVars
<1>8. Owns(r)'
  BY <1>1, <1>4, <1>5 DEF HandlerOK, Owns, OwnerPcs, Executing
<1>9. Timely(r)' /\ Verified(r)' /\ Stored(r)' /\ Honoured(r)'
  BY <1>4 DEF Timely, Verified, Stored, Honoured
<1>10. HandlerOK(r)' /\ request[r].pc \in OwnerPcs
  BY <1>1, <1>6, <1>7, <1>8, <1>9 DEF HandlerOK, OwnerPcs
<1> QED
  BY <1>1, <1>3, <1>4, <1>10, QuietStep DEF Moves

\* Work begins for a record that no work was begun for.
LEMMA BeginKeeps ==
    ASSUME IInv, NEW r \in Requests, Begin(r)
    PROVE  IInv' /\ begun[TxOf(r)] = 0 /\ Executing(TxOf(r))
<1> DEFINE t == TxOf(r)
<1>1. /\ request[r].pc = "fulfill" /\ HandlerOK(r) /\ TypeInv /\ Books /\ ShownIsStored /\ Exclusive
      /\ Goto(r, "working") /\ begun' = [begun EXCEPT ![t] = @ + 1]
      /\ UNCHANGED <<now, settled, records, serverVars, shown>>
  BY DEF Begin, At, IInv
<1>2. t \in Txs /\ begun[t] = 0 /\ Executing(t) /\ records[t].proof = request[r].proof
  <2>1. request[r].proof \in Proofs
    BY <1>1 DEF HandlerOK, Admitted
  <2> QED  BY <1>1, <2>1, DeliveryAssumption DEF HandlerOK, Counted, Owns, OwnerPcs, TxOf, ProofOf
<1>3. Moves(r, "working", request[r].value)
  BY <1>1, GotoMoves, ValuesDiffer DEF Pcs
<1>4. /\ request' \in [Requests -> Handler] /\ request'[r].pc = "working"
      /\ request'[r].proof = request[r].proof /\ request'[r].captured = request[r].captured
      /\ \A q \in Requests : q # r => request'[q] = request[q]
  BY <1>3 DEF Moves
<1>5. TxOf(r)' = t
  BY <1>4 DEF TxOf, ProofOf
<1> HIDE DEF t
<1>6. /\ begun \in [Txs -> Nat] /\ begun' \in [Txs -> Nat] /\ begun'[t] = 1
      /\ \A x \in Txs : x # t => begun'[x] = begun[x]
  BY <1>1, <1>2 DEF TypeInv
<1>7. /\ now' = now /\ settled' = settled /\ records' = records /\ up' = up
      /\ sweeping' = sweeping /\ sweep' = sweep /\ shown' = shown
  BY <1>1 DEF serverVars
<1>8. TypeInv'
  BY <1>1, <1>4, <1>6, <1>7 DEF TypeInv
<1>9. Books'
  BY <1>1, <1>2, <1>6, <1>7 DEF Books, Executing
<1>10. ShownIsStored'
  BY <1>1, <1>7 DEF ShownIsStored
<1>11. HandlerOK(r)'
  <2>1. Admitted(r)' /\ Decoded(r)'
    BY <1>1, <1>4, <1>7 DEF HandlerOK, Admitted, Decoded
  <2>2. Counted(r)' /\ Owns(r)'
    BY <1>2, <1>4, <1>5, <1>6, <1>7 DEF Counted, Owns, Executing
  <2>3. Timely(r)' /\ Verified(r)' /\ Stored(r)' /\ Honoured(r)'
    BY <1>4 DEF Timely, Verified, Stored, Honoured
  <2> QED  BY <2>1, <2>2, <2>3 DEF HandlerOK
<1>12. \A q \in Requests : q # r => Frame(q)
  <2> SUFFICES ASSUME NEW q \in Requests, q # r  PROVE Frame(q)
    OBVIOUS
  <2>1. ASSUME request[q].pc \in OwnerPcs  PROVE begun'[TxOf(q)] = begun[TxOf(q)]
    <3>1. TxOf(q) # t
      BY <1>1, <2>1 DEF Exclusive, OwnerPcs, t
    <3>2. TxOf(q) \in Txs
      <4>1. HandlerOK(q)
        BY DEF IInv
      <4> QED  BY <4>1, <2>1, DeliveryAssumption DEF HandlerOK, Admitted, OwnerPcs, TxOf, ProofOf
    <3> QED  BY <1>6, <3>1, <3>2
  <2> QED  BY <1>1, <1>4, <1>7, <2>1 DEF Frame, TypeInv
<1>13. request[r].pc \in OwnerPcs
  BY <1>1 DEF OwnerPcs
<1> QED
  BY <1>2, <1>4, <1>8, <1>9, <1>10, <1>11, <1>12, <1>13, StepKeeps DEF t

\* A handler's transaction is one of Txs.
LEMMA TxOfHandler ==
    ASSUME IInv, NEW r \in Requests, request[r].pc # "idle"
    PROVE  TxOf(r) \in Txs /\ request[r].proof \in Proofs /\ up
BY DeliveryAssumption DEF IInv, HandlerOK, Admitted, TxOf, ProofOf

\* A record opened for a verified proof keeps the invariant, whether its handler is told
\* of it and goes on to fulfill, or gets an error.
LEMMA OpeningKeeps ==
    ASSUME IInv, NEW r \in Requests, request[r].pc = "claim", TxOf(r) \notin DOMAIN records,
           Put(TxOf(r), [proof |-> request[r].proof, answer |-> Nothing]),
           UNCHANGED <<now, settled, serverVars, historyVars>>,
           NEW pc, NEW v, Moves(r, pc, v),
           \/ pc = "fulfill"
           \/ pc = "send" /\ v = Unavailable
    PROVE  IInv'
<1> DEFINE t == TxOf(r)
           p == request[r].proof
<1>1. TypeInv /\ HandlerOK(r) /\ Books /\ ShownIsStored /\ Exclusive
  BY DEF IInv
<1>2. t \in Txs /\ p \in Proofs /\ up /\ Proof[p].tx = t
  BY TxOfHandler DEF TxOf, ProofOf
<1>3. p \in Valid /\ Redeemable(t, request[r].captured)
  BY <1>1 DEF HandlerOK, Decoded, Verified, Valid
<1>4. /\ request' \in [Requests -> Handler] /\ request'[r].pc = pc /\ request'[r].value = v
      /\ request'[r].proof = p /\ request'[r].captured = request[r].captured
      /\ \A q \in Requests : q # r => request'[q] = request[q]
  BY DEF Moves
<1>5. TxOf(r)' = t
  BY <1>4 DEF TxOf, ProofOf
<1>6. t \notin DOMAIN records /\ Put(t, [proof |-> p, answer |-> Nothing])
  OBVIOUS
<1> HIDE DEF t, p
<1>7. /\ DOMAIN records' = DOMAIN records \cup {t} /\ DOMAIN records' \subseteq Txs
      /\ records'[t] = [proof |-> p, answer |-> Nothing]
      /\ \A x \in DOMAIN records : records'[x] = records[x]
      /\ records' \in [DOMAIN records' -> [proof : Proofs, answer : Answers \cup {Nothing}]]
  <2> DEFINE S == [proof : Proofs, answer : Answers \cup {Nothing}]
  <2>1. Nothing \in Answers \cup {Nothing}
    OBVIOUS
  <2>2. /\ DOMAIN records' = DOMAIN records \cup {t} /\ DOMAIN records' \subseteq Txs
        /\ records'[t] = [proof |-> p, answer |-> Nothing]
        /\ \A x \in DOMAIN records : x # t => records'[x] = records[x]
        /\ records' \in [DOMAIN records' -> S]
    BY <1>1, <1>2, <1>6, <2>1, PutWrites
  <2> HIDE DEF S
  <2> QED  BY <1>6, <2>2 DEF S
<1>8. records'[t].proof = p /\ records'[t].answer = Nothing
  BY <1>7
<1>9. /\ now' = now /\ settled' = settled /\ up' = up /\ begun' = begun
      /\ sweeping' = sweeping /\ sweep' = sweep /\ shown' = shown
  BY DEF serverVars, historyVars
<1>10. TypeInv'
  BY <1>1, <1>4, <1>7, <1>9 DEF TypeInv
<1>11. Books'
  BY <1>1, <1>2, <1>3, <1>7, <1>8, <1>9 DEF Books, Redeemable
<1>12. ShownIsStored'
  BY <1>1, <1>7, <1>9 DEF ShownIsStored
<1>13. HandlerOK(r)'
  <2>1. CASE pc = "fulfill"
    <3>1. Admitted(r)' /\ Decoded(r)'
      BY <1>1, <1>4, <1>9, <2>1 DEF HandlerOK, Admitted, Decoded, p
    <3>2. begun[t] = 0
      BY <1>1, <1>2, <1>6 DEF Books
    <3>3. Counted(r)'
      BY <1>4, <1>5, <1>9, <2>1, <3>2 DEF Counted
    <3>4. Owns(r)'
      BY <1>4, <1>5, <1>7, <1>8, <2>1 DEF Owns, Executing
    <3>5. Timely(r)' /\ Verified(r)' /\ Stored(r)' /\ Honoured(r)'
      BY <1>4, <2>1 DEF Timely, Verified, Stored, Honoured
    <3> QED  BY <3>1, <3>3, <3>4, <3>5 DEF HandlerOK
  <2>2. CASE pc = "send" /\ v = Unavailable
    <3>1. v \in Refusals /\ Moves(r, "send", v) /\ v # PayFirst /\ v # Conflict
      BY <2>2, ValuesDiffer
    <3>2. DOMAIN records \subseteq DOMAIN records'
          /\ \A x \in DOMAIN records : records'[x].proof = records[x].proof
      BY <1>7
    <3> QED  BY <1>1, <1>9, <3>1, <3>2, RefusedIsOK
  <2> QED  BY <2>1, <2>2
<1>14. ASSUME NEW q \in Requests, q # r, request[q].pc \in OwnerPcs
       PROVE  TxOf(q) # t /\ records'[TxOf(q)] = records[TxOf(q)]
  <2>1. TxOf(q) \in DOMAIN records
    <3>1. HandlerOK(q)
      BY DEF IInv
    <3> QED  BY <1>14, <3>1 DEF HandlerOK, Owns, Executing
  <2> QED  BY <2>1, <1>6, <1>7
<1>15. \A q \in Requests : q # r => Frame(q)
  BY <1>1, <1>4, <1>7, <1>9, <1>14 DEF Frame, TypeInv
<1> QED
  BY <1>5, <1>10, <1>11, <1>12, <1>13, <1>14, <1>15, StepKeeps

\* The claim inserts a record, or answers from the one that is there.
LEMMA ClaimKeeps ==
    ASSUME IInv, NEW r \in Requests, Claim(r)
    PROVE  IInv'
<1> DEFINE p     == request[r].proof
           found == Find(TxOf(r), p)
           new   == [proof |-> p, answer |-> Nothing]
<1>1. /\ request[r].pc = "claim" /\ HandlerOK(r) /\ TypeInv
      /\ UNCHANGED <<now, settled, serverVars, historyVars>>
  BY DEF Claim, At, IInv
<1>2. request[r].pc # "idle"
  BY <1>1
<1>3. \/ found = "missing" /\ Put(TxOf(r), new) /\ Goto(r, "fulfill")
      \/ found = "missing" /\ Put(TxOf(r), new) /\ Refuse(r, Unavailable)
      \/ found = "completed" /\ Replay(r) /\ UNCHANGED records
      \/ found = "conflict" /\ Refuse(r, Conflict) /\ UNCHANGED records
      \/ Refuse(r, Unavailable) /\ UNCHANGED records
  BY DEF Claim, FindAgain, Written
<1>4. CASE found = "missing" /\ Put(TxOf(r), new) /\ (Goto(r, "fulfill") \/ Refuse(r, Unavailable))
  <2>1. TxOf(r) \notin DOMAIN records
    BY <1>4 DEF Find
  <2>2. Goto(r, "fulfill") => Moves(r, "fulfill", request[r].value)
    BY <1>1, GotoMoves, ValuesDiffer DEF Pcs
  <2>3. Refuse(r, Unavailable) => Moves(r, "send", Unavailable)
    BY <1>1, GotoMoves, ValuesDiffer DEF Pcs, Refuse
  <2> QED  BY <1>1, <1>4, <2>1, <2>2, <2>3, OpeningKeeps
<1>5. CASE found = "completed" /\ Replay(r) /\ UNCHANGED records
  BY <1>1, <1>2, <1>5, ReplayKeeps
<1>6. CASE found = "conflict" /\ Refuse(r, Conflict) /\ UNCHANGED records
  <2>1. TxOf(r) \in DOMAIN records /\ records[TxOf(r)].proof # request[r].proof
    BY <1>6 DEF Find
  <2> QED  BY <1>1, <1>2, <1>6, <2>1, RefuseKeeps, ValuesDiffer
<1>7. CASE Refuse(r, Unavailable) /\ UNCHANGED records
  BY <1>1, <1>2, <1>7, RefuseKeeps, ValuesDiffer
<1> QED
  BY <1>3, <1>4, <1>5, <1>6, <1>7

\* What the owner of an execution finds when it stores the answer.
LEMMA OwnerMayAnswer ==
    ASSUME IInv, NEW r \in Requests, request[r].pc = "complete"
    PROVE  /\ TxOf(r) \in DOMAIN records /\ records[TxOf(r)].proof = request[r].proof
           /\ records[TxOf(r)].answer = Nothing /\ request[r].value \in Answers
           /\ begun[TxOf(r)] = 1
           /\ MayAnswer(TxOf(r), request[r].proof, request[r].value)
BY DEF IInv, HandlerOK, Owns, Stored, Counted, OwnerPcs, Executing, MayAnswer

\* The owner's answer keeps the invariant, whether its handler is told that it is stored
\* or gets an error.
LEMMA ClosingKeeps ==
    ASSUME IInv, NEW r \in Requests, request[r].pc = "complete",
           Put(TxOf(r), [proof |-> request[r].proof, answer |-> request[r].value]),
           UNCHANGED <<now, settled, serverVars, historyVars>>,
           NEW v, Moves(r, "send", v), v \in {request[r].value, Unavailable}
    PROVE  IInv'
<1> DEFINE t == TxOf(r)
           p == request[r].proof
           a == request[r].value
<1>1. TypeInv /\ HandlerOK(r) /\ Books /\ ShownIsStored /\ Exclusive
  BY DEF IInv
<1>2. /\ t \in Txs /\ p \in Proofs /\ up /\ t \in DOMAIN records /\ a \in Answers
      /\ records[t].proof = p /\ records[t].answer = Nothing
  BY TxOfHandler, OwnerMayAnswer
<1>3. /\ request' \in [Requests -> Handler] /\ request'[r].pc = "send" /\ request'[r].value = v
      /\ request'[r].proof = p /\ request'[r].captured = request[r].captured
      /\ \A q \in Requests : q # r => request'[q] = request[q]
  BY DEF Moves
<1>4. TxOf(r)' = t
  BY <1>3 DEF TxOf, ProofOf
<1>5. Put(t, [proof |-> p, answer |-> a]) /\ v \in {a, Unavailable}
  OBVIOUS
<1> HIDE DEF t, p, a
<1>6. /\ DOMAIN records' = DOMAIN records /\ records'[t] = [proof |-> p, answer |-> a]
      /\ \A x \in DOMAIN records : x # t => records'[x] = records[x]
      /\ records' \in [DOMAIN records' -> [proof : Proofs, answer : Answers \cup {Nothing}]]
  <2> DEFINE S == [proof : Proofs, answer : Answers \cup {Nothing}]
  <2>1. a \in Answers \cup {Nothing}
    BY <1>2
  <2>2. /\ DOMAIN records' = DOMAIN records \cup {t} /\ DOMAIN records' \subseteq Txs
        /\ records'[t] = [proof |-> p, answer |-> a]
        /\ \A x \in DOMAIN records : x # t => records'[x] = records[x]
        /\ records' \in [DOMAIN records' -> S]
    <3>1. TypeInv /\ t \in Txs /\ p \in Proofs
      BY <1>1, <1>2
    <3>2. Put(t, [proof |-> p, answer |-> a])
      BY <1>5
    <3> QED  BY <2>1, <3>1, <3>2, PutWrites
  <2> HIDE DEF S
  <2>3. DOMAIN records \cup {t} = DOMAIN records
    BY <1>2
  <2> QED  BY <2>2, <2>3 DEF S
<1>7. \A x \in DOMAIN records : records'[x].proof = records[x].proof
  BY <1>2, <1>6
<1>8. /\ now' = now /\ settled' = settled /\ up' = up /\ begun' = begun
      /\ sweeping' = sweeping /\ sweep' = sweep /\ shown' = shown
  BY DEF serverVars, historyVars
<1>9. TypeInv'
  BY <1>1, <1>3, <1>6, <1>8 DEF TypeInv
<1>10. Books'
  BY <1>1, <1>6, <1>7, <1>8 DEF Books
<1>11. ShownIsStored'
  <2> SUFFICES ASSUME NEW s \in shown
               PROVE  Proof[s[1]].tx \in DOMAIN records
                      /\ records'[Proof[s[1]].tx] = [proof |-> s[1], answer |-> s[2]]
    <3>1. DOMAIN records' = DOMAIN records /\ shown' = shown
      BY <1>6, <1>8
    <3> QED  BY <3>1, Zenon DEF ShownIsStored
  <2> DEFINE x == Proof[s[1]].tx
  <2>1. x \in DOMAIN records /\ records[x] = [proof |-> s[1], answer |-> s[2]]
    BY <1>1 DEF ShownIsStored
  <2>2. s[2] \in Answers
    BY <1>1 DEF TypeInv
  <2> HIDE DEF x
  <2>3. records[x].answer = s[2]
    BY <2>1
  <2>4. x # t
    BY <2>2, <2>3, <1>2, ValuesDiffer
  <2> QED  BY <2>1, <2>4, <1>6 DEF x
<1>12. HandlerOK(r)'
  <2>1. CASE v = Unavailable
    BY <2>1, <1>1, <1>6, <1>7, <1>8, RefusedIsOK, ValuesDiffer
  <2>2. CASE v = a
    <3>1. Admitted(r)'
      BY <1>1, <1>3, <1>8 DEF HandlerOK, Admitted, p
    <3>2. Decoded(r)' /\ Timely(r)' /\ Verified(r)' /\ Counted(r)' /\ Owns(r)'
      BY <1>3 DEF Decoded, Timely, Verified, Counted, Owns, OwnerPcs
    <3>3. Stored(r)'
      BY <1>2, <1>3, <1>4, <1>6, <2>2 DEF Stored
    <3>4. Honoured(r)'
      <4>1. p \in Bought => Deliverable(ProofOf(r), Target)'
        BY <1>3, BoughtIsValid DEF ProofOf
      <4> QED  BY <1>2, <1>3, <2>2, <4>1, ValuesDiffer DEF Honoured
    <3> QED  BY <3>1, <3>2, <3>3, <3>4 DEF HandlerOK
  <2> QED  BY <1>5, <2>1, <2>2
<1>13. ASSUME NEW q \in Requests, q # r, request[q].pc \in OwnerPcs
       PROVE  records'[TxOf(q)] = records[TxOf(q)]
  <2>1. TxOf(q) \in DOMAIN records
    <3>1. HandlerOK(q)
      BY DEF IInv
    <3> QED  BY <1>13, <3>1 DEF HandlerOK, Owns, Executing
  <2>2. TxOf(q) # t
    BY <1>1, <1>13 DEF Exclusive, OwnerPcs, t
  <2> QED  BY <2>1, <2>2, <1>6
<1>14. \A q \in Requests : q # r => Frame(q)
  BY <1>1, <1>2, <1>3, <1>6, <1>7, <1>8, <1>13 DEF Frame, TypeInv
<1>15. request'[r].pc \notin OwnerPcs
  BY <1>3 DEF OwnerPcs
<1> QED
  BY <1>9, <1>10, <1>11, <1>12, <1>14, <1>15, StepKeeps

\* The result is stored over the record that was claimed for it.
LEMMA CommitKeeps ==
    ASSUME IInv, NEW r \in Requests, Commit(r)
    PROVE  IInv'
<1> DEFINE new == [proof |-> request[r].proof, answer |-> request[r].value]
<1>1. /\ request[r].pc = "complete" /\ TypeInv
      /\ UNCHANGED <<now, settled, serverVars, historyVars>>
  BY DEF Commit, At, IInv
<1>2. MayAnswer(TxOf(r), request[r].proof, request[r].value) /\ request[r].value \in Answers
  BY <1>1, OwnerMayAnswer
<1>3. \/ Put(TxOf(r), new) /\ Goto(r, "send")
      \/ Put(TxOf(r), new) /\ Refuse(r, Unavailable)
      \/ UNCHANGED records /\ Refuse(r, Unavailable)
  BY <1>2 DEF Commit, Complete, Written
<1>4. /\ Goto(r, "send") => Moves(r, "send", request[r].value)
      /\ Refuse(r, Unavailable) => Moves(r, "send", Unavailable)
  BY <1>1, <1>2, GotoMoves, ValuesDiffer DEF Pcs, Refuse
<1>5. CASE Put(TxOf(r), new) /\ (Goto(r, "send") \/ Refuse(r, Unavailable))
  BY <1>1, <1>4, <1>5, ClosingKeeps
<1>6. CASE UNCHANGED records /\ Refuse(r, Unavailable)
  BY <1>1, <1>6, RefuseKeeps, ValuesDiffer
<1> QED
  BY <1>3, <1>5, <1>6

\* What is sent is stored, unless it is a refusal.
LEMMA SendKeeps ==
    ASSUME IInv, NEW r \in Requests, Send(r)
    PROVE  IInv'
<1>1. /\ request[r].pc = "send" /\ HandlerOK(r) /\ TypeInv /\ Books /\ ShownIsStored
      /\ request' = [request EXCEPT ![r] = Idle]
      /\ shown' = IF request[r].value \in Refusals THEN shown
                  ELSE shown \cup {<<request[r].proof, request[r].value>>}
      /\ UNCHANGED <<now, settled, records, serverVars, begun>>
  BY DEF Send, At, IInv
<1>2. Idle \in Handler /\ Idle.pc = "idle"
  BY DEF Idle, Handler, Pcs
<1>3. /\ request' \in [Requests -> Handler] /\ request'[r].pc = "idle"
      /\ \A q \in Requests : q # r => request'[q] = request[q]
  BY <1>1, <1>2 DEF TypeInv
<1>4. /\ now' = now /\ settled' = settled /\ records' = records /\ up' = up
      /\ sweeping' = sweeping /\ sweep' = sweep /\ begun' = begun
  BY <1>1 DEF serverVars
<1>5. request[r].value \notin Refusals =>
         /\ TxOf(r) \in DOMAIN records /\ request[r].value \in Answers
         /\ records[TxOf(r)] = [proof |-> request[r].proof, answer |-> request[r].value]
  BY <1>1 DEF HandlerOK, Stored
<1>6. request[r].proof \in Proofs
  BY <1>1, TxOfHandler
<1>7. TypeInv'
  <2>1. shown' \subseteq Proofs \X Answers
    BY <1>1, <1>5, <1>6 DEF TypeInv
  <2> QED  BY <1>1, <1>3, <1>4, <2>1 DEF TypeInv
<1>8. Books'
  BY <1>1, <1>4 DEF Books
<1>9. ShownIsStored'
  <2> DEFINE s == <<request[r].proof, request[r].value>>
  <2>1. s[1] = request[r].proof /\ s[2] = request[r].value
    OBVIOUS
  <2>2. Proof[s[1]].tx = TxOf(r)
    BY <2>1 DEF TxOf, ProofOf
  <2>3. shown' \subseteq shown \/ (request[r].value \notin Refusals /\ shown' = shown \cup {s})
    BY <1>1
  <2> HIDE DEF s
  <2> QED  BY <1>1, <1>4, <1>5, <2>1, <2>2, <2>3 DEF ShownIsStored
<1>10. HandlerOK(r)'
  BY <1>3 DEF HandlerOK, Admitted, Decoded, Timely, Verified, Counted, Stored, Owns, Honoured,
              OwnerPcs
<1>11. \A q \in Requests : q # r => Frame(q)
  BY <1>1, <1>3, <1>4 DEF Frame, TypeInv
<1>12. request'[r].pc \notin OwnerPcs
  BY <1>3 DEF OwnerPcs
<1> QED
  BY <1>7, <1>8, <1>9, <1>10, <1>11, <1>12, StepKeeps

\* No handler runs before the server listens.
LEMMA DownIsIdle ==
    ASSUME IInv, ~ up
    PROVE  \A q \in Requests : request[q].pc = "idle"
BY DEF IInv, HandlerOK, Admitted

\* A server that starts has its whole store to go through.
LEMMA StartKeeps ==
    ASSUME IInv, Start
    PROVE  IInv'
<1>1. \A q \in Requests : request'[q].pc = "idle"
  BY DownIsIdle DEF Start
<1>2. TypeInv'
  <2>1. sweep' \subseteq DOMAIN records
    BY DEF Start, Interrupted
  <2> QED  BY <2>1 DEF Start, historyVars, IInv, TypeInv
<1>3. Books' /\ ShownIsStored'
  BY DEF Start, historyVars, IInv, Books, ShownIsStored
<1> QED
  BY <1>1, <1>2, <1>3, IdleIsOK DEF IInv

\* Closing an interrupted record answers it for ever.
LEMMA ResolveOneKeeps ==
    ASSUME IInv, ResolveOne
    PROVE  IInv'
<1>1. TypeInv /\ Books /\ ShownIsStored /\ sweeping /\ ~ up
  BY DEF IInv, TypeInv, ResolveOne
<1>2. /\ now' = now /\ settled' = settled /\ up' = up /\ request' = request
      /\ begun' = begun /\ shown' = shown
  BY DEF ResolveOne, historyVars
<1>3. \A q \in Requests : request'[q].pc = "idle"
  BY <1>1, <1>2, DownIsIdle
<1>4. PICK t \in sweep :
         /\ \/ UNCHANGED records
            \/ /\ MayAnswer(t, records[t].proof, Terminal)
               /\ Put(t, [proof |-> records[t].proof, answer |-> Terminal])
         /\ sweep' \subseteq sweep
         /\ sweeping' \in BOOLEAN
  <2>1. PICK t \in sweep :
           Complete(t, records[t].proof, Terminal,
                    sweep' = sweep \ {t} /\ UNCHANGED sweeping, sweep' = {} /\ sweeping' = FALSE)
    BY DEF ResolveOne
  <2>2. sweep \ {t} \subseteq sweep /\ {} \subseteq sweep /\ sweeping \in BOOLEAN
    BY <1>1 DEF TypeInv
  <2> QED  BY <2>1, <2>2 DEF Complete, Written
<1>5. CASE UNCHANGED records
  <2>1. TypeInv'
    BY <1>1, <1>2, <1>4, <1>5 DEF TypeInv
  <2>2. Books' /\ ShownIsStored'
    BY <1>1, <1>2, <1>5 DEF Books, ShownIsStored
  <2> QED  BY <1>3, <2>1, <2>2, IdleIsOK DEF IInv
<1>6. CASE /\ MayAnswer(t, records[t].proof, Terminal)
           /\ Put(t, [proof |-> records[t].proof, answer |-> Terminal])
  <2> DEFINE p == records[t].proof
             S == [proof : Proofs, answer : Answers \cup {Nothing}]
  <2>1. t \in DOMAIN records /\ t \in Txs /\ p \in Proofs /\ records[t].answer \in {Nothing, Terminal}
    BY <1>1, <1>6 DEF TypeInv, MayAnswer
  <2>2. Terminal \in Answers \cup {Nothing}
    BY DEF Answers
  <2>3. Put(t, [proof |-> p, answer |-> Terminal])
    BY <1>6
  <2> HIDE DEF p
  <2>4. /\ DOMAIN records' = DOMAIN records \cup {t} /\ DOMAIN records' \subseteq Txs
        /\ records'[t] = [proof |-> p, answer |-> Terminal]
        /\ \A x \in DOMAIN records : x # t => records'[x] = records[x]
        /\ records' \in [DOMAIN records' -> S]
    BY <1>1, <2>1, <2>2, <2>3, PutWrites
  <2> HIDE DEF S
  <2>5. DOMAIN records' = DOMAIN records
    BY <2>1, <2>4
  <2>6. \A x \in DOMAIN records : records'[x].proof = records[x].proof
    BY <2>4 DEF p
  <2>7. TypeInv'
    BY <1>1, <1>2, <1>4, <2>4, <2>5 DEF TypeInv, S
  <2>8. Books'
    BY <1>1, <1>2, <2>5, <2>6 DEF Books
  <2>9. ShownIsStored'
    <3> SUFFICES ASSUME NEW s \in shown
                 PROVE  Proof[s[1]].tx \in DOMAIN records
                        /\ records'[Proof[s[1]].tx] = [proof |-> s[1], answer |-> s[2]]
      BY <1>2, <2>5 DEF ShownIsStored
    <3> DEFINE x == Proof[s[1]].tx
    <3>1. x \in DOMAIN records /\ records[x] = [proof |-> s[1], answer |-> s[2]]
      BY <1>1 DEF ShownIsStored
    <3>2. s[2] \in Answers
      BY <1>1 DEF TypeInv
    <3> HIDE DEF x
    <3>3. CASE x # t
      BY <2>4, <3>1, <3>3 DEF x
    <3>4. CASE x = t
      <4>1. records[t].answer = s[2] /\ p = s[1]
        BY <3>1, <3>4 DEF p
      <4>2. s[2] = Terminal
        BY <2>1, <3>2, <4>1, ValuesDiffer
      <4> QED  BY <2>4, <3>1, <3>4, <4>1, <4>2 DEF x
    <3> QED  BY <3>3, <3>4
  <2> QED  BY <1>3, <2>7, <2>8, <2>9, IdleIsOK DEF IInv
<1> QED
  BY <1>4, <1>5, <1>6

\* Listening begins with no handler alive.
LEMMA ListenKeeps ==
    ASSUME IInv, Listen
    PROVE  IInv'
<1>1. \A q \in Requests : request'[q].pc = "idle"
  BY DownIsIdle DEF Listen, Swept, IInv, TypeInv
<1>2. TypeInv'
  BY DEF Listen, historyVars, IInv, TypeInv
<1>3. Books' /\ ShownIsStored'
  BY DEF Listen, historyVars, IInv, Books, ShownIsStored
<1> QED
  BY <1>1, <1>2, <1>3, IdleIsOK DEF IInv

\* A crash ends the handlers and leaves the store.
LEMMA CrashKeeps ==
    ASSUME IInv, Crash
    PROVE  IInv'
<1>1. Idle \in Handler /\ Idle.pc = "idle"
  BY DEF Idle, Handler, Pcs
<1>2. request' \in [Requests -> Handler] /\ \A q \in Requests : request'[q].pc = "idle"
  BY <1>1 DEF Crash
<1>3. TypeInv'
  BY <1>2 DEF Crash, historyVars, IInv, TypeInv
<1>4. Books' /\ ShownIsStored'
  BY DEF Crash, historyVars, IInv, Books, ShownIsStored
<1> QED
  BY <1>2, <1>3, <1>4, IdleIsOK DEF IInv

\* The clock and the ledger go on without the server.
LEMMA EnvironmentKeeps ==
    ASSUME IInv, Tick \/ \E t \in Txs : Settle(t)
    PROVE  IInv'
<1>1. TypeInv /\ Books /\ ShownIsStored /\ Exclusive
  BY DEF IInv
<1>2. /\ records' = records /\ up' = up /\ sweeping' = sweeping /\ sweep' = sweep
      /\ request' = request /\ begun' = begun /\ shown' = shown
  BY DEF Tick, Settle, serverVars, historyVars
<1>3. /\ now' \in Nat /\ now <= now' /\ settled' \in [Txs -> Nat \cup {Nothing}]
      /\ \A t \in Txs : settled[t] # Nothing => settled'[t] = settled[t]
  <2>1. CASE Tick
    BY <1>1, <2>1 DEF Tick, TypeInv
  <2>2. CASE \E t \in Txs : Settle(t)
    BY <1>1, <2>2 DEF Settle, TypeInv
  <2> QED  BY <2>1, <2>2
<1>4. TypeInv'
  BY <1>1, <1>2, <1>3 DEF TypeInv
<1>5. Books'
  <2>1. DOMAIN records \subseteq Txs
    BY <1>1 DEF TypeInv
  <2> QED  BY <1>1, <1>2, <1>3, <2>1 DEF Books
<1>6. ShownIsStored'
  BY <1>1, <1>2 DEF ShownIsStored
<1>7. \A q \in Requests : Frame(q)
  BY <1>2, <1>3 DEF Frame
<1>8. \A q \in Requests : HandlerOK(q)'
  BY <1>7, FrameKeeps
<1>9. Exclusive'
  BY <1>1, <1>2 DEF Exclusive, TxOf, ProofOf
<1> QED
  BY <1>4, <1>5, <1>6, <1>8, <1>9 DEF IInv

\* Every step keeps the invariant.
LEMMA NextKeeps == IInv /\ [Next]_vars => IInv'
<1> SUFFICES ASSUME IInv, [Next]_vars  PROVE IInv'
  OBVIOUS
<1>1. ASSUME NEW r \in Requests, NEW p \in Proofs, Arrive(r, p)  PROVE IInv'
  BY <1>1, ArriveKeeps
<1>2. ASSUME NEW r \in Requests, Handle(r)  PROVE IInv'
  BY <1>2, LookupKeeps, VerifyKeeps, ClaimKeeps, BeginKeeps, FinishKeeps, CommitKeeps, SendKeeps
     DEF Handle
<1>3. CASE Start \/ ResolveOne \/ Listen \/ Crash
  BY <1>3, StartKeeps, ResolveOneKeeps, ListenKeeps, CrashKeeps
<1>4. CASE Tick \/ \E t \in Txs : Settle(t)
  BY <1>4, EnvironmentKeeps
<1>5. CASE UNCHANGED vars
  <2>1. /\ now' = now /\ settled' = settled /\ records' = records /\ up' = up
        /\ sweeping' = sweeping /\ sweep' = sweep /\ request' = request
        /\ begun' = begun /\ shown' = shown
    BY <1>5 DEF vars, serverVars, historyVars
  <2>2. TypeInv' /\ Books' /\ ShownIsStored'
    BY <2>1 DEF IInv, TypeInv, Books, ShownIsStored
  <2>3. \A q \in Requests : Frame(q)
    BY <2>1 DEF Frame, IInv, TypeInv
  <2>4. \A q \in Requests : HandlerOK(q)'
    BY <2>3, FrameKeeps
  <2>5. Exclusive'
    BY <2>1 DEF IInv, Exclusive, TxOf, ProofOf
  <2> QED  BY <2>2, <2>4, <2>5 DEF IInv
<1> QED
  BY <1>1, <1>2, <1>3, <1>4, <1>5 DEF Next

-----------------------------------------------------------------------------
(* What the route promises                                                 *)

\* The invariant is one.
LEMMA Invariance == Spec => []IInv
<1>1. IInv /\ UNCHANGED vars => IInv'
  BY NextKeeps
<1> QED
  BY InitIInv, NextKeeps, PTL DEF Spec

\* However often a proof is presented, by however many requests at once, across store
\* errors and crashes, paid work is begun at most once per transaction.
THEOREM WorkIsDoneOnce == Spec => []WorkAtMostOnce
<1>1. IInv => WorkAtMostOnce
  BY DEF IInv, Books, WorkAtMostOnce
<1> QED
  BY <1>1, Invariance, PTL

\* Work is done only for money that arrived, for the agent that paid it.
THEOREM WorkIsForMoney == Spec => []WorkIsPaid
<1>1. IInv => WorkIsPaid
  <2> SUFFICES ASSUME IInv  PROVE WorkIsPaid
    OBVIOUS
  <2>1. \A t \in Txs : begun[t] > 0 => t \in DOMAIN records
    BY DEF IInv, Books
  <2>2. ASSUME NEW t \in DOMAIN records
        PROVE  LET p == records[t].proof
               IN  /\ settled[t] # Nothing /\ Chain[t].status = "SUCCESS"
                   /\ Proof[p].tx = t /\ Pays(t, Proof[p].mandate)
                   /\ p \in Genuine
    <3> DEFINE p == records[t].proof
    <3>1. p \in Valid /\ Proof[p].tx = t /\ settled[t] # Nothing /\ Chain[t].status = "SUCCESS"
      BY DEF IInv, Books
    <3> HIDE DEF p
    <3>2. Pays(Proof[p].tx, Proof[p].mandate) /\ p \in Genuine
      BY <3>1, MatchingPays, ValidIsGenuine DEF Valid
    <3> QED  BY <3>1, <3>2 DEF p
  <2> QED  BY <2>1, <2>2 DEF WorkIsPaid
<1> QED
  BY <1>1, Invariance, PTL

\* Whatever left the server is what the store holds: every client that presents the
\* proof is shown the same.
THEOREM AnswersAreStored == Spec => []ShownIsStored
<1>1. IInv => ShownIsStored
  BY DEF IInv
<1> QED
  BY <1>1, Invariance, PTL

\* At most one handler owns a transaction's execution, and nobody answers in its place.
THEOREM OwnersExclude == Spec => []ExclusiveOwner
<1>1. IInv => ExclusiveOwner
  BY DEF IInv, HandlerOK, Owns, Exclusive, ExclusiveOwner
<1> QED
  BY <1>1, Invariance, PTL

\* Who paid as the route's challenge asked is not told to pay again while the payment
\* can be redeemed, nor that it bought something else.
THEOREM PayersAreHonoured == Spec => []PaidIsHonoured
<1>1. IInv => PaidIsHonoured
  BY DEF IInv, HandlerOK, Honoured, PaidIsHonoured
<1> QED
  BY <1>1, Invariance, PTL

-----------------------------------------------------------------------------
(* How the file changes                                                    *)

\* A handler's claim opens the record of its transaction.
Opens(r, t) == /\ request[r].pc = "claim" /\ TxOf(r) = t /\ t \notin DOMAIN records
               /\ Put(t, [proof |-> request[r].proof, answer |-> Nothing])

\* The record of t, if it is open, is answered by a; if not, a is its answer.
Closes(t, a) == /\ t \in DOMAIN records /\ a \in Answers /\ records[t].answer \in {Nothing, a}
                /\ a # Terminal => begun[t] = 1
                /\ Put(t, [proof |-> records[t].proof, answer |-> a])

\* Every step leaves the file alone, opens a record or closes one; nothing else is then
\* begun or shown.
LEMMA FileSteps ==
    ASSUME IInv, [Next]_vars
    PROVE  \/ records' = records
           \/ /\ begun' = begun /\ shown' = shown
              /\ \/ \E r \in Requests, t \in Txs : Opens(r, t)
                 \/ \E t \in Txs, a \in Answers : Closes(t, a)
<1>1. ASSUME NEW r \in Requests, Claim(r)
      PROVE  \/ records' = records
             \/ begun' = begun /\ shown' = shown /\ Opens(r, TxOf(r)) /\ TxOf(r) \in Txs
  <2>1. request[r].pc = "claim" /\ begun' = begun /\ shown' = shown
    BY <1>1 DEF Claim, At, historyVars
  <2>2. TxOf(r) \in Txs
    BY <2>1, TxOfHandler
  <2>3. \/ records' = records
        \/ /\ Find(TxOf(r), request[r].proof) = "missing"
           /\ Put(TxOf(r), [proof |-> request[r].proof, answer |-> Nothing])
    BY <1>1 DEF Claim, FindAgain, Written
  <2> QED  BY <2>1, <2>2, <2>3 DEF Opens, Find
<1>2. ASSUME NEW r \in Requests, Commit(r)
      PROVE  \/ records' = records
             \/ begun' = begun /\ shown' = shown /\ Closes(TxOf(r), request[r].value) /\ TxOf(r) \in Txs
  <2>1. request[r].pc = "complete" /\ begun' = begun /\ shown' = shown
    BY <1>2 DEF Commit, At, historyVars
  <2>2. TxOf(r) \in Txs
    BY <2>1, TxOfHandler
  <2>3. \/ records' = records
        \/ Put(TxOf(r), [proof |-> request[r].proof, answer |-> request[r].value])
    BY <1>2 DEF Commit, Complete, Written
  <2> QED  BY <2>1, <2>2, <2>3, OwnerMayAnswer DEF Closes
<1>3. ASSUME ResolveOne
      PROVE  \/ records' = records
             \/ begun' = begun /\ shown' = shown /\ \E t \in Txs : Closes(t, Terminal)
  <2>1. PICK t \in sweep :
           \/ records' = records
           \/ /\ MayAnswer(t, records[t].proof, Terminal)
              /\ Put(t, [proof |-> records[t].proof, answer |-> Terminal])
    BY <1>3 DEF ResolveOne, Complete, Written
  <2>2. t \in DOMAIN records /\ t \in Txs
    BY DEF IInv, TypeInv
  <2> QED  BY <1>3, <2>1, <2>2 DEF ResolveOne, historyVars, MayAnswer, Closes, Answers
<1>4. ASSUME NEW r \in Requests,
             \/ \E p \in Proofs : Arrive(r, p)
             \/ Lookup(r) \/ Verify(r) \/ Begin(r) \/ Finish(r) \/ Send(r)
      PROVE  records' = records
  BY <1>4 DEF Arrive, Lookup, Verify, Begin, Finish, Send
<1>5. Start \/ Listen \/ Crash \/ Tick \/ (\E t \in Txs : Settle(t)) \/ UNCHANGED vars
         => records' = records
  BY DEF Start, Listen, Crash, Tick, Settle, vars
<1>6. Terminal \in Answers /\ \A r \in Requests : Closes(TxOf(r), request[r].value) =>
                                  request[r].value \in Answers
  BY DEF Answers, Closes
<1> QED
  BY <1>1, <1>2, <1>3, <1>4, <1>5, <1>6 DEF Next, Handle

\* A transaction is bound only by a request that arrived before the challenge ran out
\* and while the payment was recent for an RPC at most RpcLag behind, however late the
\* record was opened.
THEOREM BindingIsFresh == Spec => FreshWhenBound
<1>1. IInv /\ [Next]_vars => [FreshStep]_vars
  <2> SUFFICES ASSUME IInv, [Next]_vars, NEW t \in DOMAIN records', t \notin DOMAIN records
               PROVE  \E r \in Requests :
                         /\ request[r].proof = records'[t].proof
                         /\ Proof[request[r].proof].challenge.expires > request[r].captured
                         /\ settled[t] # Nothing
                         /\ settled[t] + MaxProofAge + RpcLag >= request[r].captured
    BY DEF FreshStep
  <2>1. \A x \in Txs, a \in Answers : Closes(x, a) => DOMAIN records' = DOMAIN records
    BY DEF Closes, Put
  <2>2. PICK r \in Requests, x \in Txs : Opens(r, x)
    BY <2>1, FileSteps
  <2>3. x = t /\ records'[t].proof = request[r].proof
    BY <2>2 DEF Opens, Put
  <2>4. HandlerOK(r) /\ request[r].pc = "claim" /\ TxOf(r) = t
    BY <2>2, <2>3 DEF IInv, Opens
  <2>5. InWindow(r) /\ Redeemable(t, request[r].captured)
    BY <2>4 DEF HandlerOK, Timely, Verified
  <2> QED  BY <2>3, <2>5 DEF InWindow, ProofOf, Redeemable
<1> QED
  BY <1>1, Invariance, PTL DEF Spec, FreshWhenBound

-----------------------------------------------------------------------------
(* What liveness rests on                                                  *)

\* A handler owns the execution of t.
Owned(t) == \E r \in Requests : request[r].pc \in OwnerPcs /\ TxOf(r) = t

\* An execution left open has somebody to answer it: its handler, or the sweep that is
\* under way, or the one that every server makes before it listens; unless the server
\* that runs has had a store error for it.
Answerable ==
    \A t \in DOMAIN records : Executing(t) =>
        IF up THEN t \in StoreFaults \/ Owned(t) ELSE sweeping => t \in sweep

\* An owner that does not move, or moves on as an owner, is still one.
LEMMA OwnersStay ==
    ASSUME NEW r \in Requests, \A q \in Requests : q # r => request'[q] = request[q],
           NEW t, Owned(t),
           request[r].pc \in OwnerPcs /\ TxOf(r) = t =>
              request'[r].pc \in OwnerPcs /\ request'[r].proof = request[r].proof
    PROVE  Owned(t)'
<1>1. PICK q \in Requests : request[q].pc \in OwnerPcs /\ TxOf(q) = t
  BY DEF Owned
<1>2. request'[q].pc \in OwnerPcs /\ request'[q].proof = request[q].proof
  BY <1>1
<1>3. TxOf(q)' = t
  BY <1>1, <1>2 DEF TxOf, ProofOf
<1> QED  BY <1>2, <1>3 DEF Owned

\* A handler that writes nothing takes no ownership back.
LEMMA ReadingKeepsAnswerable ==
    ASSUME IInv, Answerable, NEW r \in Requests,
           \/ \E p \in Proofs : Arrive(r, p)
           \/ Lookup(r) \/ Verify(r) \/ Begin(r) \/ Finish(r) \/ Send(r)
    PROVE  Answerable'
<1>1. request \in [Requests -> Handler]
  BY DEF IInv, TypeInv
<1>2. up /\ up' = up /\ records' = records
  BY DEF Arrive, Lookup, Verify, Begin, Finish, Send, At, serverVars
<1>3. /\ \A q \in Requests : q # r => request'[q] = request[q]
      /\ request[r].pc \in OwnerPcs =>
            request'[r].pc \in OwnerPcs /\ request'[r].proof = request[r].proof
  <2>1. CASE (\E p \in Proofs : Arrive(r, p)) \/ Lookup(r) \/ Verify(r) \/ Send(r)
    <3>1. request[r].pc \notin OwnerPcs
      BY <2>1 DEF Arrive, Lookup, Verify, Send, At, OwnerPcs
    <3>2. \A q \in Requests : q # r => request'[q] = request[q]
      BY <1>1, <2>1 DEF Arrive, Lookup, Verify, Send, Replay, Refuse, Goto, GotoWith
    <3> QED  BY <3>1, <3>2
  <2>2. CASE Begin(r)
    <3>1. Moves(r, "working", request[r].value)
      BY <1>1, <2>2, GotoMoves, ValuesDiffer DEF Begin, Pcs, IInv
    <3> QED  BY <3>1 DEF Moves, OwnerPcs
  <2>3. CASE Finish(r)
    <3>1. PICK a \in Answers : GotoWith(r, "complete", a)
      BY <2>3 DEF Finish, Bodies
    <3>2. Moves(r, "complete", a)
      BY <1>1, <3>1, GotoMoves DEF Pcs, IInv
    <3> QED  BY <3>2 DEF Moves, OwnerPcs
  <2> QED  BY <2>1, <2>2, <2>3
<1>4. \A t : Owned(t) => Owned(t)'
  BY <1>3, OwnersStay
<1> QED  BY <1>2, <1>4 DEF Answerable, Executing

\* A record is opened with its owner, or after an error of the store.
LEMMA ClaimKeepsAnswerable ==
    ASSUME IInv, Answerable, NEW r \in Requests, Claim(r)
    PROVE  Answerable'
<1> DEFINE new == [proof |-> request[r].proof, answer |-> Nothing]
<1>0. PICK t : t = TxOf(r)
  OBVIOUS
<1>1. /\ request[r].pc = "claim" /\ up /\ up' = up /\ request \in [Requests -> Handler]
      /\ request[r].pc \notin OwnerPcs
  BY DEF Claim, At, serverVars, IInv, TypeInv, OwnerPcs
<1>2. \/ Put(t, new) /\ (Goto(r, "fulfill") \/ (t \in StoreFaults /\ Refuse(r, Unavailable)))
      \/ UNCHANGED records /\ (Replay(r) \/ Refuse(r, Conflict) \/ Refuse(r, Unavailable))
  BY <1>0 DEF Claim, FindAgain, Written
<1>3. \A q \in Requests : q # r => request'[q] = request[q]
  BY <1>1, <1>2 DEF Replay, Refuse, Goto, GotoWith
<1>4. \A x : Owned(x) => Owned(x)'
  BY <1>1, <1>3, OwnersStay
<1>5. CASE UNCHANGED records
  BY <1>1, <1>4, <1>5 DEF Answerable, Executing
<1>6. CASE Put(t, new) /\ (Goto(r, "fulfill") \/ (t \in StoreFaults /\ Refuse(r, Unavailable)))
  <2>1. \A x \in DOMAIN records' : x # t => x \in DOMAIN records /\ records'[x] = records[x]
    BY <1>6 DEF Put
  <2>2. t \in StoreFaults \/ Owned(t)'
    <3>1. CASE Goto(r, "fulfill")
      <4>1. request'[r].pc = "fulfill" /\ request'[r].proof = request[r].proof
        BY <1>1, <3>1 DEF Goto, Handler
      <4>2. TxOf(r)' = t
        BY <1>0, <4>1 DEF TxOf, ProofOf
      <4> QED  BY <4>1, <4>2 DEF Owned, OwnerPcs
    <3> QED  BY <1>6, <3>1
  <2>3. ASSUME NEW x \in DOMAIN records', Executing(x)'
        PROVE  x \in StoreFaults \/ Owned(x)'
    <3>1. CASE x = t
      BY <2>2, <3>1
    <3>2. CASE x # t
      <4>1. x \in DOMAIN records /\ Executing(x)
        BY <2>1, <2>3, <3>2 DEF Executing
      <4> QED  BY <1>1, <1>4, <4>1 DEF Answerable
    <3> QED  BY <3>1, <3>2
  <2> QED  BY <1>1, <2>3 DEF Answerable
<1> QED  BY <1>2, <1>5, <1>6

\* An owner lets go of its execution when it is answered, or after an error of the store.
LEMMA CommitKeepsAnswerable ==
    ASSUME IInv, Answerable, NEW r \in Requests, Commit(r)
    PROVE  Answerable'
<1> DEFINE t   == TxOf(r)
           new == [proof |-> request[r].proof, answer |-> request[r].value]
<1>1. /\ request[r].pc = "complete" /\ up /\ up' = up /\ request \in [Requests -> Handler]
  BY DEF Commit, At, serverVars, IInv, TypeInv
<1>2. MayAnswer(t, request[r].proof, request[r].value) /\ request[r].value # Nothing
  BY <1>1, OwnerMayAnswer, ValuesDiffer
<1>3. /\ Goto(r, "send") \/ Refuse(r, Unavailable)
      /\ Put(t, new) \/ (t \in StoreFaults /\ UNCHANGED records)
  BY <1>2 DEF Commit, Complete, Written
<1>4. \A q \in Requests : q # r => request'[q] = request[q]
  BY <1>1, <1>3 DEF Refuse, Goto, GotoWith
<1>5. \A x : x # t /\ Owned(x) => Owned(x)'
  BY <1>4, OwnersStay
<1>6. /\ \A x \in DOMAIN records' : x # t => x \in DOMAIN records /\ records'[x] = records[x]
      /\ t \in StoreFaults \/ records'[t].answer # Nothing
  BY <1>2, <1>3 DEF Put
<1>7. ASSUME NEW x \in DOMAIN records', Executing(x)'
      PROVE  x \in StoreFaults \/ Owned(x)'
  <2>1. CASE x = t
    BY <1>6, <1>7, <2>1 DEF Executing
  <2>2. CASE x # t
    <3>1. x \in DOMAIN records /\ Executing(x)
      BY <1>6, <1>7, <2>2 DEF Executing
    <3> QED  BY <1>1, <1>5, <2>2, <3>1 DEF Answerable
  <2> QED  BY <2>1, <2>2
<1> QED  BY <1>1, <1>7 DEF Answerable

\* The sweep goes through all that a dead server has left, before anything is served.
LEMMA RestartKeepsAnswerable ==
    ASSUME IInv, Answerable, Start \/ ResolveOne \/ Listen \/ Crash
    PROVE  Answerable'
<1>1. TypeInv
  BY DEF IInv
<1>2. CASE Start
  BY <1>2 DEF Start, Interrupted, Answerable, Executing
<1>3. CASE ResolveOne
  <2>1. up' = up /\ ~ up /\ sweeping
    BY <1>1, <1>3 DEF ResolveOne, TypeInv
  <2>2. PICK t \in sweep :
           Complete(t, records[t].proof, Terminal,
                    sweep' = sweep \ {t} /\ UNCHANGED sweeping, sweep' = {} /\ sweeping' = FALSE)
    BY <1>3 DEF ResolveOne
  <2>3. CASE sweeping' = FALSE
    BY <2>1, <2>3 DEF Answerable
  <2>4. CASE sweep' = sweep \ {t} /\ Put(t, [proof |-> records[t].proof, answer |-> Terminal])
    <3>1. Terminal # Nothing
      BY ValuesDiffer DEF Answers
    <3>2. \A x \in DOMAIN records' : Executing(x)' => x # t /\ x \in DOMAIN records /\ Executing(x)
      BY <2>4, <3>1 DEF Put, Executing
    <3> QED  BY <2>1, <2>4, <3>2 DEF Answerable
  <2> QED  BY <2>2, <2>3, <2>4 DEF Complete, Written
<1>4. CASE Listen
  <2>1. up' /\ records' = records /\ ~ up /\ sweeping /\ sweep = {}
    BY <1>1, <1>4 DEF Listen, Swept, TypeInv
  <2> QED  BY <2>1 DEF Answerable, Executing
<1>5. CASE Crash
  BY <1>5 DEF Crash, Answerable
<1> QED  BY <1>2, <1>3, <1>4, <1>5

\* "Recovery either waits for that claim or replays its completed result"
\* (bound-store.ts): nobody waits for an execution that nobody will answer, the safety
\* half of ClaimIsAnswered; what that adds is that the one to answer goes on.
THEOREM ClaimsAreAnswerable == Spec => []Answerable
<1>1. Init => Answerable
  BY DEF Init, Answerable
<1>2. ASSUME IInv, Answerable, [Next]_vars
      PROVE  Answerable'
  <2>1. ASSUME NEW r \in Requests, (\E p \in Proofs : Arrive(r, p)) \/ Handle(r)
        PROVE  Answerable'
    BY <1>2, <2>1, ReadingKeepsAnswerable, ClaimKeepsAnswerable, CommitKeepsAnswerable DEF Handle
  <2>2. CASE Start \/ ResolveOne \/ Listen \/ Crash
    BY <1>2, <2>2, RestartKeepsAnswerable
  <2>3. CASE Tick \/ (\E t \in Txs : Settle(t)) \/ UNCHANGED vars
    <3>1. /\ records' = records /\ request' = request
          /\ up' = up /\ sweeping' = sweeping /\ sweep' = sweep
      BY <2>3 DEF Tick, Settle, vars, serverVars
    <3> QED  BY <1>2, <3>1 DEF Answerable, Executing, Owned, TxOf, ProofOf
  <2> QED  BY <1>2, <2>1, <2>2, <2>3 DEF Next
<1> QED  BY <1>1, <1>2, Invariance, PTL DEF Spec

-----------------------------------------------------------------------------
(* At-most-once delivery                                                   *)

\* The refinement mapping of Delivery.
BoundTo  == [t \in Txs |-> IF t \in DOMAIN records THEN records[t].proof ELSE Nothing]
Started  == {t \in Txs : begun[t] > 0}
Answered == [t \in Txs |-> IF t \in DOMAIN records THEN records[t].answer ELSE Nothing]

\* Opening a record binds, closing one answers, unless that was its answer already.
LEMMA OpeningBinds ==
    ASSUME IInv, NEW r \in Requests, NEW t \in Txs, Opens(r, t), begun' = begun, shown' = shown
    PROVE  Delivery!Next
<1>1. PICK p \in Proofs : t \notin DOMAIN records /\ Put(t, [proof |-> p, answer |-> Nothing])
  BY TxOfHandler DEF Opens
<1>2. /\ DOMAIN records' = DOMAIN records \cup {t}
      /\ records'[t].proof = p /\ records'[t].answer = Nothing
      /\ \A x \in DOMAIN records : records'[x] = records[x]
  BY <1>1 DEF Put
<1>3. BoundTo[t] = Nothing /\ BoundTo' = [BoundTo EXCEPT ![t] = p]
  BY <1>1, <1>2 DEF BoundTo
<1>4. Answered' = Answered
  BY <1>1, <1>2 DEF Answered
<1>5. Started' = Started
  BY DEF Started
<1>6. Delivery!Bind(t, p)
  BY <1>3, <1>4, <1>5 DEF Delivery!Bind, BoundTo, Answered, Started
<1> QED
  BY <1>6 DEF Delivery!Next

\* Storing a result is an Answer of the paid delivery, or nothing new to it.
LEMMA ClosingAnswers ==
    ASSUME IInv, NEW t \in Txs, NEW a \in Answers, Closes(t, a), begun' = begun, shown' = shown
    PROVE  Delivery!Next \/ UNCHANGED Delivery!vars
<1>1. /\ t \in DOMAIN records /\ records[t].answer \in {Nothing, a}
      /\ a # Terminal => begun[t] = 1
      /\ DOMAIN records' = DOMAIN records
      /\ records'[t].proof = records[t].proof /\ records'[t].answer = a
      /\ \A x \in DOMAIN records : x # t => records'[x] = records[x]
  BY DEF Closes, Put
<1>2. records[t].proof # Nothing
  BY <1>1, ValuesDiffer DEF IInv, TypeInv
<1>3. BoundTo' = BoundTo /\ BoundTo[t] # Nothing
  BY <1>1, <1>2 DEF BoundTo
<1>4. Started' = Started /\ (a # Terminal => t \in Started)
  BY <1>1 DEF Started
<1>5. Answered' = [Answered EXCEPT ![t] = a] /\ Answered[t] = records[t].answer
  BY <1>1 DEF Answered
<1>6. CASE records[t].answer = Nothing
  <2>1. Delivery!Answer(t, a)
    BY <1>3, <1>4, <1>5, <1>6 DEF Delivery!Answer, BoundTo, Answered, Started
  <2> QED  BY <2>1 DEF Delivery!Next, Answers
<1>7. CASE records[t].answer = a
  <2>1. Answered' = Answered
    BY <1>5, <1>7 DEF Answered
  <2> QED  BY <1>3, <1>4, <2>1 DEF Delivery!vars, BoundTo, Answered, Started
<1> QED
  BY <1>1, <1>6, <1>7

\* Begin of the handler is Begin of the paid delivery.
LEMMA BeginningBegins ==
    ASSUME IInv, NEW r \in Requests, Begin(r)
    PROVE  Delivery!Next
<1>1. PICK t \in Txs : t = TxOf(r) /\ begun[t] = 0 /\ Executing(t)
  BY BeginKeeps, TxOfHandler DEF Begin, At
<1>2. /\ begun \in [Txs -> Nat] /\ begun' = [begun EXCEPT ![t] = @ + 1]
      /\ records' = records /\ shown' = shown
  BY <1>1 DEF Begin, IInv, TypeInv
<1>3. t \notin Started /\ Started' = Started \cup {t}
  BY <1>1, <1>2 DEF Started
<1>4. BoundTo[t] # Nothing /\ Answered[t] = Nothing
  BY <1>1, ValuesDiffer DEF BoundTo, Answered, Executing, IInv, TypeInv
<1>5. BoundTo' = BoundTo /\ Answered' = Answered
  BY <1>2 DEF BoundTo, Answered
<1>6. Delivery!Begin(t)
  BY <1>2, <1>3, <1>4, <1>5 DEF Delivery!Begin, BoundTo, Answered, Started
<1> QED
  BY <1>6 DEF Delivery!Next

\* What is sent is shown, or was shown already, or was a refusal.
LEMMA SendingShows ==
    ASSUME IInv, NEW r \in Requests, Send(r)
    PROVE  Delivery!Next \/ UNCHANGED Delivery!vars
<1> DEFINE t == TxOf(r)
           s == <<request[r].proof, request[r].value>>
<1>1. /\ records' = records /\ begun' = begun /\ request[r].pc = "send" /\ t \in Txs
      /\ shown' = IF request[r].value \in Refusals THEN shown ELSE shown \cup {s}
  BY TxOfHandler DEF Send, At
<1>2. BoundTo' = BoundTo /\ Answered' = Answered /\ Started' = Started
  BY <1>1 DEF BoundTo, Answered, Started
<1>3. CASE request[r].value \in Refusals
  BY <1>1, <1>2, <1>3 DEF Delivery!vars, BoundTo, Answered, Started
<1>4. CASE request[r].value \notin Refusals
  <2>1. /\ t \in DOMAIN records /\ request[r].value \in Answers
        /\ records[t] = [proof |-> request[r].proof, answer |-> request[r].value]
    BY <1>1, <1>4 DEF IInv, HandlerOK, Stored
  <2>2. Answered[t] = request[r].value /\ BoundTo[t] = request[r].proof /\ Answered[t] # Nothing
    <3>1. records[t].proof = request[r].proof /\ records[t].answer = request[r].value
      BY <2>1
    <3> HIDE DEF t
    <3> QED  BY <1>1, <2>1, <3>1, ValuesDiffer DEF Answered, BoundTo
  <2>3. shown' = shown \cup {<<BoundTo[t], Answered[t]>>}
    BY <1>1, <1>4, <2>2
  <2> HIDE DEF t
  <2>4. Delivery!Show(t)
    BY <1>2, <2>2, <2>3 DEF Delivery!Show, BoundTo, Answered, Started
  <2> QED  BY <1>1, <2>4 DEF Delivery!Next
<1> QED
  BY <1>3, <1>4

\* Every step is one of the paid delivery, or a stutter of it.
LEMMA DeliveryStep ==
    ASSUME IInv, [Next]_vars
    PROVE  [Delivery!Next]_(Delivery!vars)
<1>1. ASSUME NEW r \in Requests, NEW t \in Txs, Opens(r, t), begun' = begun, shown' = shown
      PROVE  Delivery!Next
  BY <1>1, OpeningBinds
<1>2. ASSUME NEW t \in Txs, NEW a \in Answers, Closes(t, a), begun' = begun, shown' = shown
      PROVE  Delivery!Next \/ UNCHANGED Delivery!vars
  BY <1>2, ClosingAnswers
<1>3. CASE \E r \in Requests : Begin(r)
  BY <1>3, BeginningBegins
<1>4. CASE \E r \in Requests : Send(r)
  BY <1>4, SendingShows
<1>5. ASSUME records' = records, begun' = begun, shown' = shown
      PROVE  UNCHANGED Delivery!vars
  BY <1>5 DEF Delivery!vars
<1>6. \/ begun' = begun /\ shown' = shown
      \/ \E r \in Requests : Begin(r) \/ Send(r)
  BY DEF Next, Handle, Arrive, Lookup, Verify, Claim, Finish, Commit, Start, ResolveOne, Listen,
         Crash, Tick, Settle, vars, historyVars
<1> QED
  BY <1>1, <1>2, <1>3, <1>4, <1>5, <1>6, FileSteps

\* The route, its store and its restarts implement at-most-once delivery: every step
\* binds, begins, answers or shows, once and in this order, or is not seen from outside.
THEOREM RouteIsDelivery == Spec => ImplementsDelivery
<1>1. Init => Delivery!Init
  <2> SUFFICES ASSUME Init  PROVE Delivery!Init
    OBVIOUS
  <2>1. DOMAIN records = {} /\ begun = [t \in Txs |-> 0] /\ shown = {}
    BY DEF Init
  <2> QED  BY <2>1 DEF Delivery!Init
<1>2. IInv /\ [Next]_vars => [Delivery!Next]_(Delivery!vars)
  BY DeliveryStep
<1> QED
  BY <1>1, <1>2, Invariance, PTL DEF Spec, ImplementsDelivery, Delivery!Spec
=============================================================================
