---------------------------- MODULE MCAdmission -----------------------------
(***************************************************************************)
(* Two requests at a time.  Payments: one in full, presented at two routes *)
(* of different prices and under a wrong scheme; one to a registry of the  *)
(* payer's own; one that failed; one of two payments at once; one in       *)
(* another asset; the capture of a pool.  Mandates: one signed with a zone *)
(* of its own and bought for twice, one with its decimals changed, one     *)
(* re-signed by somebody else, one whose hash is another's.                *)
(***************************************************************************)
EXTENDS Admission, TLC

CONSTANTS r1, r2, t1, t2, t3, t4, t5, t6, m1, m2, user, agent, stranger, merchant, other,
          xlm, usdc, registry, fake, mainnet, cheap, dear, namespace,
          full, half, wrong, faked, failed, twice, elsewhere, captured,
          signed, again, tampered, resigned, rehashed

One  == [units |-> 10, places |-> 1]
Half == [units |-> 5, places |-> 1]

TheMandates ==
    m1 :> [user |-> user, agent |-> agent, merchant |-> merchant, asset |-> xlm, decimals |-> 1]
    @@ m2 :> [user |-> user, agent |-> agent, merchant |-> merchant, asset |-> usdc, decimals |-> 1]
TheChain ==
    t1 :> [status |-> "SUCCESS", calls |-> <<Pay(registry, m1, 10)>>]
    @@ t2 :> [status |-> "SUCCESS", calls |-> <<Transfer(xlm, user, other, 10), Pay(fake, m1, 10)>>]
    @@ t3 :> [status |-> "FAILED", calls |-> <<Pay(registry, m1, 10)>>]
    @@ t4 :> [status |-> "SUCCESS", calls |-> <<Pay(registry, m1, 10), Pay(registry, m1, 10)>>]
    @@ t5 :> [status |-> "SUCCESS", calls |-> <<Pay(registry, m2, 10)>>]
    @@ t6 :> [status |-> "SUCCESS", calls |-> <<Capture(registry, m1, 10)>>]

TheShop  == [scheme |-> "reapp-soroban", network |-> "stellar", passphrase |-> mainnet,
             registry |-> registry, merchant |-> merchant, asset |-> xlm, decimals |-> 1]
ThePrice == dear :> One @@ cheap :> Half
TheNet   == [registry |-> registry, passphrase |-> mainnet]

TheIntent  == [confirm |-> FALSE, refund |-> FALSE, merchants |-> <<merchant>>, skus |-> <<>>,
               expiry |-> [at |-> 5, zone |-> 2]]
TheStellar == [user |-> user, agent |-> agent, asset |-> xlm, max |-> One, decimals |-> 1, nonce |-> 7]
TheSigned  == SignedCredential(TheIntent, TheStellar, user)

TheIntents == {[intent |-> TheIntent, stellar |-> TheStellar]}

Presented(tx, resource) == [gate |-> "payment", scheme |-> "reapp-soroban", network |-> "stellar",
                            tx |-> tx, resource |-> resource]
Submitted(credential, amount) ==
    [gate |-> "mandate", credential |-> credential,
     input |-> [user |-> user, merchant |-> merchant, amount |-> amount]]

Table == (full :> Presented(t1, dear) @@ half :> Presented(t1, cheap)
       @@ wrong :> [Presented(t1, dear) EXCEPT !.scheme = "reapp-soroban-bound"]
       @@ faked :> Presented(t2, dear) @@ failed :> Presented(t3, dear)
       @@ twice :> Presented(t4, dear) @@ elsewhere :> Presented(t5, dear)
       @@ captured :> Presented(t6, dear)
       @@ signed :> Submitted(TheSigned, One) @@ again :> Submitted(TheSigned, Half)
       @@ tampered :> Submitted([TheSigned EXCEPT !.payload.stellar.decimals = 2], One)
       @@ resigned :> Submitted(SignedCredential(TheIntent, TheStellar, stranger), One)
       @@ rehashed :> Submitted([TheSigned EXCEPT !.payload.stellar.nonce = 8], One))
TheItems == DOMAIN Table
TheItem  == Table

Alike == Permutations(Requests)
=============================================================================
