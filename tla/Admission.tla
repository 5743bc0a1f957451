----------------------------- MODULE Admission ------------------------------
(***************************************************************************)
(* The two gates that admit a request once: the legacy payment middleware, *)
(* which lets a settled transaction through to the route it is presented   *)
(* at, and the AP2 validator, which admits a signed mandate.  Each checks, *)
(* awaits, and then consumes a key in a store of its own, whose consumeOnce*)
(* is linearizable; nothing else stands between two requests that present  *)
(* the same thing.                                                         *)
(*                                                                         *)
(* A store operation may fail with or without having consumed.  The RPC    *)
(* may be unavailable, and behind the ledger by RpcLag.  What is presented *)
(* is an item: [gate "payment", scheme, network, tx, resource], or         *)
(* [gate "mandate", credential, input], the input being what the           *)
(* application wants to buy and for whom.                                  *)
(*                                                                         *)
(* A definition marked "Faulty:" is a plausible bug in the one after it;   *)
(* nothing uses it but the check that a property would notice the bug.     *)
(***************************************************************************)
EXTENDS X402, Ap2, Verification

CONSTANTS
    Requests,     \* requests in flight together
    Txs,          \* settlement transactions
    Old,          \* those of them that have settled at the start
    Items, Item,  \* Item[i]: what may be presented
    StoreFaults,  \* items for which the store may fail
    Shop,         \* [scheme, network, passphrase, registry, merchant, asset, decimals]
    Price,        \* Price[resource]: the configured amount
    Net,          \* the registry and passphrase clients are configured for
    Namespace,    \* replayNamespace
    Intents,      \* what users signed: [intent, stellar]
    MaxTime       \* bound on the clock

VARIABLES
    now,
    settled,    \* settled[t]: the ledger t closed in, or Nothing
    consumed,   \* keys in the redemption store and the AP2 replay store
    request,    \* request[r]: a call's local state
    admitted    \* history: how often an item was admitted

vars == <<now, settled, consumed, request, admitted>>

ASSUME AdmissionAssumption ==
    /\ \A i \in Items : Item[i].gate \in {"payment", "mandate"}
    /\ \A i \in Items : Item[i].gate = "payment" => Item[i].tx \in Txs
    /\ StoreFaults \subseteq Items /\ Old \subseteq Txs
    /\ RpcLag \in Nat /\ MaxProofAge \in Nat /\ MaxTime \in Nat
    /\ \A s \in Intents : Enforceable(s.intent, 0)

Payments == {i \in Items : Item[i].gate = "payment"}
Mandates == Items \ Payments
Idle     == [pc |-> "idle", item |-> Nothing, at |-> 0, answer |-> Nothing]

Goto(r, pc)   == request' = [request EXCEPT ![r].pc = pc]
Answer(r, a)  == request' = [request EXCEPT ![r].pc = "answer", ![r].answer = a]

-----------------------------------------------------------------------------
(* middleware.ts                                                           *)

\* The requirement of the route i is presented at.
Need(i) == [merchant |-> Shop.merchant, asset |-> Shop.asset, registry |-> Shop.registry,
            stroops |-> ToStroops(Price[Item[i].resource], Shop.decimals),
            decimals |-> Shop.decimals]

\* buildChallenge: what an unpaid request is answered.
BuildChallenge(resource) ==
    [version |-> 1, scheme |-> Shop.scheme, network |-> Shop.network, amount |-> Price[resource],
     asset |-> Shop.asset, payTo |-> Shop.merchant, resource |-> resource, contract |-> Shop.registry]

\* The checks before the verifier is asked.
Presentable(i) == /\ IsPrice(Price[Item[i].resource], Shop.decimals)
                  /\ Item[i].scheme = Shop.scheme /\ Item[i].network = Shop.network

\* The items whose transactions show a payment of their route's price.
Paying == {i \in Payments : Shown(Item[i].tx, Need(i)) # Nothing}

\* Faulty: a payment is redeemed at each route.
KeyPerResource(i) == <<Shop.passphrase, Item[i].resource, Item[i].tx>>
\* createRedemptionKey
RedemptionKey(i) == <<Shop.passphrase, Shop.registry, Item[i].tx>>

-----------------------------------------------------------------------------
(* The gates                                                               *)

\* The key in the replay store is the mandate's.
Key(i) == IF i \in Payments THEN RedemptionKey(i) ELSE <<Namespace, Item[i].credential.id>>

\* What users can have signed: an intent the signer did not refuse (bindIntentMandate
\* throws otherwise), and theirs are the only signatures of their keys.
ASSUME SignatureAssumption ==
    /\ Garbage \notin Int
    /\ \A s \in Intents : /\ IsIntent(s.intent) /\ s.stellar.decimals \in 0 .. MaxDecimals
                         /\ IsText(s.stellar.max)
                         /\ ToStroops(s.stellar.max, s.stellar.decimals) # Garbage
    /\ \A i \in Mandates : IsText(Item[i].input.amount)
    /\ \A i \in Mandates : Item[i].credential.signature.by = Item[i].input.user =>
          \E s \in Intents :
             /\ s.stellar.user = Item[i].input.user
             /\ Item[i].credential.signature
                   = SignedCredential(s.intent, s.stellar, s.stellar.user).signature

\* What is on the chain: the registry pays positive amounts only (payment.rs).  The
\* shop has an asset, and the clients' registry is the shop's, which nothing in a
\* legacy challenge makes a client compare.
ASSUME PaymentAssumption ==
    /\ Txs \subseteq DOMAIN Chain
    /\ Shop.asset # Absent /\ Net.registry = Shop.registry /\ Shop.decimals \in Nat
    /\ \A i \in Payments :
          /\ IsText(Price[Item[i].resource])
          /\ \A k \in DOMAIN Chain[Item[i].tx].calls :
                LET call == Chain[Item[i].tx].calls[k]
                IN  call.op = "pay" => /\ call.amount \in Nat \ {0}
                                       /\ VerifiedPayment(Item[i].tx, PaymentEvent(call), Need(i)) # Nothing

\* Up to the first await: the payment gate asks the verifier, the AP2 gate its store.
Arrive(r, i) ==
    /\ request[r].pc = "idle"
    /\ LET pc == IF i \in Payments
                 THEN IF Presentable(i) THEN "verify" ELSE "answer"
                 ELSE IF Valid(Item[i].credential, Item[i].input, now) THEN "consume" ELSE "answer"
       IN  request' = [request EXCEPT ![r] =
               [pc |-> pc, item |-> i, at |-> now,
                answer |-> IF pc = "answer" THEN "refused" ELSE Nothing]]
    /\ UNCHANGED <<now, settled, consumed, admitted>>

Verify(r) ==
    /\ request[r].pc = "verify"
    /\ LET i == request[r].item
           t == Item[i].tx
       IN  \/ \E latest \in now - RpcLag .. now :
                 LET verdict == Verdict(t, i \in Paying, settled[t], latest)
                 IN  IF verdict = "ok" THEN Goto(r, "consume")
                     ELSE Answer(r, IF verdict = "invalid" THEN "refused" ELSE verdict)
           \/ Answer(r, "unavailable")
    /\ UNCHANGED <<now, settled, consumed, admitted>>

\* consumeOnce, and the admission of the one caller it answers "consumed".
Consume(r) ==
    /\ request[r].pc = "consume"
    /\ LET i == request[r].item IN
          \/ /\ Key(i) \notin consumed
             /\ consumed' = consumed \cup {Key(i)}
             /\ admitted' = [admitted EXCEPT ![i] = @ + 1]
             /\ Answer(r, "admitted")
          \/ /\ Key(i) \in consumed
             /\ UNCHANGED <<consumed, admitted>>
             /\ Answer(r, "duplicate")
          \/ /\ i \in StoreFaults
             /\ consumed' \in {consumed, consumed \cup {Key(i)}}
             /\ UNCHANGED admitted
             /\ Answer(r, "unavailable")
    /\ UNCHANGED <<now, settled>>

Respond(r) ==
    /\ request[r].pc = "answer"
    /\ request' = [request EXCEPT ![r] = Idle]
    /\ UNCHANGED <<now, settled, consumed, admitted>>

Tick == /\ now < MaxTime
        /\ now' = now + 1
        /\ UNCHANGED <<settled, consumed, request, admitted>>

Settle(t) == /\ settled[t] = Nothing
             /\ settled' = [settled EXCEPT ![t] = now]
             /\ UNCHANGED <<now, consumed, request, admitted>>

Init ==
    /\ now = 1
    /\ settled = [t \in Txs |-> IF t \in Old THEN now ELSE Nothing]
    /\ consumed = {}
    /\ request = [r \in Requests |-> Idle]
    /\ admitted = [i \in Items |-> 0]

Next == \/ \E r \in Requests : (\E i \in Items : Arrive(r, i)) \/ Verify(r) \/ Consume(r) \/ Respond(r)
        \/ Tick \/ \E t \in Txs : Settle(t)

Spec == Init /\ [][Next]_vars

-----------------------------------------------------------------------------
(* What the gates promise                                                  *)

\* "Only the caller receiving consumed may serve the resource" (types.ts): one
\* transaction admits one request, at whichever route, and one mandate is admitted
\* once, in whatever credential and for whatever purchase, however many requests
\* present them together and whatever errors the store answers.
SameThing(i, j) ==
    IF i \in Payments THEN j \in Payments /\ Item[i].tx = Item[j].tx
    ELSE j \in Mandates /\ Item[i].credential.id = Item[j].credential.id
AdmittedOnce ==
    \A i, j \in Items : admitted[i] > 0 /\ admitted[j] > 0 /\ SameThing(i, j) =>
        i = j /\ admitted[i] = 1

\* What opened a route did pay for it: the transaction succeeded, in it the shop's own
\* registry moved at least the route's price to the shop in its asset, and this was
\* the only such payment in it.
AdmittedIsPaid ==
    \A i \in Payments : admitted[i] > 0 =>
        LET t   == Item[i].tx
            its == {k \in DOMAIN Chain[t].calls :
                       /\ Chain[t].calls[k].op = "pay" /\ Chain[t].calls[k].on = Shop.registry
                       /\ Chain[t].calls[k].to = Shop.merchant
                       /\ Chain[t].calls[k].amount >= Need(i).stroops}
        IN  /\ settled[t] # Nothing /\ Chain[t].status = "SUCCESS"
            /\ Cardinality(its) = 1
            /\ \A k \in its : Mandate[Chain[t].calls[k].mandate].asset = Shop.asset

\* An admitted credential is what a user signed: the mandate rebuilt from it is, to the
\* last field, the one the user's own terms make, the purchase is from its merchant
\* and within its budget, and it was submitted before it expired.
AdmittedStep ==
    \A i \in Mandates : admitted'[i] > admitted[i] =>
        \E s \in Intents, r \in Requests :
            /\ request[r].item = i /\ request'[r].answer = "admitted"
            /\ s.stellar.user = Item[i].input.user
            /\ RebuildBinding(Item[i].credential.payload) = BindIntentMandate(s.intent, s.stellar)
            /\ s.intent.merchants = <<Item[i].input.merchant>>
            /\ ToStroops(Item[i].input.amount, s.stellar.decimals)
                  \in 1 .. ToStroops(s.stellar.max, s.stellar.decimals)
            /\ request[r].at < Utc(s.intent.expiry)
AdmittedIsSigned == [][AdmittedStep]_vars

\* Nobody honest is turned away for good.  A client that took the route's challenge,
\* paid what it asks with the asset's own decimals and presents the payment while it is
\* recent is never told that it did not pay; a credential that its user signed is never
\* refused for a purchase it covers; and "already used" is said only of what was
\* admitted, or what a failing store may have lost.
PaidFor(i) == /\ \E m \in DOMAIN Mandate :
                    /\ Mandate[m].decimals = Shop.decimals
                    /\ Payable(BuildChallenge(Item[i].resource), Mandate[m], Net, Nothing, 0, TRUE)
                    /\ Chain[Item[i].tx] = [status |-> "SUCCESS",
                                           calls |-> <<Pay(Net.registry, m, Need(i).stroops)>>]
              /\ Item[i].scheme = Shop.scheme /\ Item[i].network = Shop.network
Honest     == {i \in Payments : PaidFor(i)}
SignedFor  == {i \in Mandates : \E s \in Intents :
                  /\ Item[i].credential = SignedCredential(s.intent, s.stellar, s.stellar.user)
                  /\ Item[i].input.user = s.stellar.user
                  /\ <<Item[i].input.merchant>> = s.intent.merchants
                  /\ ToStroops(Item[i].input.amount, s.stellar.decimals)
                        \in 1 .. ToStroops(s.stellar.max, s.stellar.decimals)}
HonestIsAdmitted ==
    \A r \in Requests : request[r].pc = "answer" =>
        LET i == request[r].item IN
        /\ request[r].answer = "refused" =>
              /\ i \in Honest => settled[Item[i].tx] # Nothing /\ now - settled[Item[i].tx] > MaxProofAge
              /\ i \in SignedFor => Item[i].credential.payload.intent.expiry.at <= request[r].at
        /\ request[r].answer = "duplicate" =>
              \E j \in Items : SameThing(i, j) /\ (admitted[j] > 0 \/ j \in StoreFaults)
=============================================================================
