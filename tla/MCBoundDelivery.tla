-------------------------- MODULE MCBoundDelivery ---------------------------
(***************************************************************************)
(* Small instances of the paid route: two requests at a time.  A payment   *)
(* in full, with two genuine proofs (two challenges, one payment), a proof *)
(* signed by somebody else and one made of a challenge for another         *)
(* resource; and a payment out of a mandate in another asset.  For         *)
(* liveness, two payments with a proof each, whose records share the one   *)
(* file.                                                                   *)
(***************************************************************************)
EXTENDS BoundDelivery

CONSTANTS r1, r2, t1, t2, p1, p2, p3, p4, p5, body,
          user, agent, stranger, merchant, xlm, usdc, registry,
          m1, m2, secret, mainnet

One  == [units |-> 10, places |-> 1]

TheMandates ==
    m1 :> [user |-> user, agent |-> agent, merchant |-> merchant, asset |-> xlm, decimals |-> 1]
    @@ m2 :> [user |-> user, agent |-> agent, merchant |-> merchant, asset |-> usdc, decimals |-> 1]
TheChain ==
    t1 :> [status |-> "SUCCESS", calls |-> <<Pay(registry, m1, 10)>>]
    @@ t2 :> [status |-> "SUCCESS", calls |-> <<Pay(registry, m2, 10)>>]
TwoPayments ==
    t1 :> [status |-> "SUCCESS", calls |-> <<Pay(registry, m1, 10)>>]
    @@ t2 :> [status |-> "SUCCESS", calls |-> <<Pay(registry, m1, 10)>>]

TheSite == [audience |-> "https://api", network |-> "stellar", passphrase |-> mainnet,
            registry |-> registry, merchant |-> merchant, asset |-> xlm,
            amount |-> One, decimals |-> 1, ttl |-> 2, secret |-> secret]
TheNet  == [registry |-> registry, passphrase |-> mainnet]
Get(query) == [method |-> "GET", origin |-> "https://api", path |-> "/source", query |-> query]
TheTarget  == Get("one")

Made(t, query, issued, m, signer) ==
    CreateProof(ChallengeFor(TheSite, Get(query), issued, issued).challenge, t, m, signer)

Table == (   p1 :> Made(t1, "one", 1, m1, agent)
              @@ p2 :> Made(t1, "one", 2, m1, agent)
              @@ p3 :> Made(t1, "one", 1, m1, stranger)
              @@ p4 :> Made(t1, "two", 1, m1, agent)
              @@ p5 :> Made(t2, "one", 1, m2, agent))
TableEach == (p1 :> Made(t1, "one", 1, m1, agent) @@ p2 :> Made(t2, "one", 1, m1, agent))

\* TLC keeps the value of a definition, but not that of a definition substituted for
\* a constant: these have their values kept.
TheProofs == Table
ProofEach == TableEach

Alike == Permutations(Requests)
=============================================================================
