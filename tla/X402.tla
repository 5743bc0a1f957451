-------------------------------- MODULE X402 --------------------------------
(***************************************************************************)
(* The bound-v2 exchange over HTTP 402: the challenge a paid route issues  *)
(* for one request, the checks an agent makes before it pays, the proof it *)
(* signs, and the checks the route makes when the proof is presented.      *)
(* The two sides check in different code, by different comparisons, what   *)
(* the other one built.                                                    *)
(*                                                                         *)
(* Base64, JSON and the canonical order of fields are left out.            *)
(*                                                                         *)
(* A request is [method, origin, path, query]; a route's configuration is  *)
(* [audience, network, passphrase, registry, merchant, asset, amount,      *)
(* decimals, ttl, secret], amount being the text it was configured with.   *)
(***************************************************************************)
EXTENDS Amounts, Crypto

CONSTANTS
    Skew,       \* seconds a challenge may have been issued in the future
    Absent      \* bodySha256 of a request without a body, MAC of an unsigned challenge

\* The resource of a request: its path and query, as both sides write it.
Resource(req) == <<req.path, req.query>>

-----------------------------------------------------------------------------
(* bound.ts: the route's challenge                                         *)

\* createBoundReappPaymentMiddleware does not throw: a price that is one in these
\* decimals, and a lifetime of the challenge (30 .. 3600 seconds there).
Configured(site) == /\ site.decimals \in 0 .. MaxDecimals
                    /\ IsPrice(site.amount, site.decimals)
                    /\ site.ttl > 0

\* challengeFor, before authenticateChallenge.
Unsigned(site, req, id, at) ==
    [id |-> id, audience |-> site.audience, scheme |-> "reapp-soroban-bound",
     method |-> req.method, resource |-> <<req.path, req.query>>, body |-> Absent,
     network |-> site.network, networkId |-> site.passphrase,
     registry |-> site.registry, merchant |-> site.merchant, asset |-> site.asset,
     amount |-> ToStroops(site.amount, site.decimals), decimals |-> site.decimals,
     issued |-> at, expires |-> at + site.ttl, mac |-> Absent]

Bytes(challenge)               == [challenge EXCEPT !.mac = Absent]
Authenticate(unsigned, secret) == [unsigned EXCEPT !.mac = Hmac(secret, unsigned)]

\* challengeFor: the body of the 402, with the one requirement it accepts.
ChallengeFor(site, req, id, at) ==
    [version |-> 2, scheme |-> "reapp-soroban-bound", network |-> site.network,
     amount |-> site.amount, asset |-> site.asset, payTo |-> site.merchant,
     resource |-> <<req.path, req.query>>, contract |-> site.registry,
     challenge |-> Authenticate(Unsigned(site, req, id, at), site.secret)]

-----------------------------------------------------------------------------
(* x402.ts, sdk index.ts: the agent's side                                 *)

\* parseBoundPaymentChallenge does not throw.
WellFormed(challenge) ==
    /\ challenge.amount # Garbage /\ challenge.amount > 0
    /\ challenge.decimals \in 0 .. MaxDecimals
    /\ challenge.issued > 0
    /\ challenge.expires > challenge.issued

\* parse402 does not throw: a challenge of the version announced, well formed.
Parses(required) == required.version = 2 => WellFormed(required.challenge)

\* What fetch makes sure of before it pays a bound challenge.
ExactRequest(required, mandate, net, req, at) ==
    LET challenge == required.challenge IN
    /\ required.scheme = "reapp-soroban-bound" /\ challenge.scheme = required.scheme
    /\ req.method = "GET"
    /\ challenge.audience = req.origin
    /\ challenge.method = req.method
    /\ challenge.resource = Resource(req) /\ required.resource = Resource(req)
    /\ challenge.body = Absent
    /\ challenge.registry = net.registry /\ required.contract = net.registry
    /\ challenge.networkId = net.passphrase
    /\ challenge.merchant = mandate.merchant /\ challenge.asset = mandate.asset
    /\ challenge.network = required.network
    /\ challenge.amount = ToStroops(required.amount, challenge.decimals)
    /\ challenge.decimals = mandate.decimals
    /\ challenge.expires > at /\ challenge.issued <= at + Skew

\* The checks of fetch on a 402, for an agent of the mandate on the network net,
\* that accepts legacy challenges or, by its policy, does not.
Payable(required, mandate, net, req, at, legacy) ==
    /\ Parses(required)
    /\ required.payTo = mandate.merchant
    /\ required.asset \in {mandate.asset, Absent}
    /\ IF required.version = 2 THEN ExactRequest(required, mandate, net, req, at)
       ELSE legacy

\* The fields of BoundPaymentProofV2 and of the challenge in it, as decoded.
IsChallenge(c) ==
    /\ c = [id |-> c.id, audience |-> c.audience, scheme |-> c.scheme,
            method |-> c.method, resource |-> c.resource, body |-> c.body,
            network |-> c.network, networkId |-> c.networkId,
            registry |-> c.registry, merchant |-> c.merchant, asset |-> c.asset,
            amount |-> c.amount, decimals |-> c.decimals,
            issued |-> c.issued, expires |-> c.expires, mac |-> c.mac]
    /\ c.issued \in Int /\ c.expires \in Int
IsProof(p) ==
    /\ p = [scheme |-> p.scheme, network |-> p.network, tx |-> p.tx, mandate |-> p.mandate,
            challenge |-> p.challenge, signature |-> p.signature]
    /\ IsChallenge(p.challenge)

\* boundProofDigest: the challenge counts with all its fields but its MAC.
Digest(challenge, tx, m) ==
    [scheme |-> challenge.scheme, network |-> challenge.network,
     networkId |-> challenge.networkId, registry |-> challenge.registry,
     id |-> challenge.id, challenge |-> Bytes(challenge), tx |-> tx, mandate |-> m]

\* createBoundPaymentProof; it throws unless the challenge is WellFormed.
CreateProof(challenge, tx, m, signer) ==
    [scheme |-> challenge.scheme, network |-> challenge.network,
     tx |-> tx, mandate |-> m, challenge |-> challenge,
     signature |-> Sign(signer, Digest(challenge, tx, m))]

\* retryDelivery: the receipt's proof was made for the request it is presented with.
Deliverable(proof, req) ==
    /\ proof.challenge.method = req.method
    /\ proof.challenge.resource = Resource(req)
    /\ proof.challenge.audience = req.origin

-----------------------------------------------------------------------------
(* bound.ts: the route's checks                                            *)

\* decodePaymentProof does not throw: the proof repeats its challenge's scheme and network.
Decodable(proof) == /\ WellFormed(proof.challenge)
                    /\ proof.scheme = proof.challenge.scheme
                    /\ proof.network = proof.challenge.network

MacIsValid(challenge, secret) == challenge.mac = Hmac(secret, Bytes(challenge))

\* exactChallenge: the proof is bound to this exact request of this route.
ExactChallenge(site, req, proof) ==
    LET challenge == proof.challenge IN
    /\ challenge.audience = site.audience
    /\ challenge.scheme = "reapp-soroban-bound" /\ proof.scheme = challenge.scheme
    /\ challenge.method = req.method
    /\ challenge.resource = <<req.path, req.query>>
    /\ challenge.body = Absent
    /\ challenge.network = site.network /\ proof.network = site.network
    /\ challenge.networkId = site.passphrase
    /\ challenge.registry = site.registry
    /\ challenge.merchant = site.merchant /\ challenge.asset = site.asset
    /\ challenge.amount = ToStroops(site.amount, site.decimals)
    /\ challenge.decimals = site.decimals
    /\ challenge.expires - challenge.issued = site.ttl
    /\ MacIsValid(challenge, site.secret)

\* verifyBoundPaymentProofSignature
SignedBy(proof, agent) ==
    proof.signature = Sign(agent, Digest(proof.challenge, proof.tx, proof.mandate))

\* Faulty: any agent's signature will do.
PaymentMatchesUnsigned(site, proof, payment) ==
    /\ payment.tx = proof.tx /\ payment.mandate = proof.mandate
    /\ payment.amount = ToStroops(site.amount, site.decimals)
\* paymentMatchesProof: the payment on the chain is the one the proof claims, of the
\* price, and its agent signed the proof.
PaymentMatches(site, proof, payment) ==
    /\ payment.tx = proof.tx /\ payment.mandate = proof.mandate
    /\ payment.amount = ToStroops(site.amount, site.decimals)
    /\ payment.merchant = site.merchant /\ payment.asset = site.asset
    /\ payment.registry = site.registry
    /\ SignedBy(proof, payment.agent)
=============================================================================
