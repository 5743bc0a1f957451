------------------------------- MODULE Token --------------------------------
(***************************************************************************)
(* The SEP-41 token contract the registry is the spender of: balances,     *)
(* the allowances users gave to the registry, and the trustlines a Stellar *)
(* asset issuer has deauthorized.  The token's own code is not in this     *)
(* repository; it is modelled from the calls payment.rs and pool.rs make.  *)
(***************************************************************************)
EXTENDS Integers, FiniteSets, FiniteSetsExt

CONSTANTS Users, Merchants, Assets

Accounts == Users \cup Merchants

ASSUME TokenAssumption == /\ Users \cap Merchants = {}
                          /\ IsFiniteSet(Users)

VARIABLES
    balance,     \* balance[a][x]: what account x holds of asset a
    allowance,   \* allowance[a][u]: what the registry may still pull from u
    frozen       \* the <<asset, account>> pairs whose trustline is deauthorized

tokenVars == <<balance, allowance, frozen>>

TokenTypeOK ==
    /\ balance \in [Assets -> [Accounts -> Nat]]
    /\ allowance \in [Assets -> [Users -> Nat]]
    /\ frozen \subseteq Assets \X Accounts

Authorized(a, x) == <<a, x>> \notin frozen

\* What a batch of legs takes from user u: leg[m] is drawn on owner[m].
Debit(u, owner, leg) ==
    MapThenSumSet(LAMBDA m : leg[m], {m \in DOMAIN leg : owner[m] = u})

\* Every transfer_from of the batch succeeds.
CanTransferAll(a, owner, to, leg) ==
    \A m \in DOMAIN leg :
        LET u == owner[m] IN /\ Debit(u, owner, leg) <= balance[a][u]
                             /\ Debit(u, owner, leg) <= allowance[a][u]
                             /\ Authorized(a, u)
                             /\ Authorized(a, to)

\* The batch's effect: debits at the users, one credit at the merchant.
TransferAll(a, owner, to, leg) ==
    /\ CanTransferAll(a, owner, to, leg)
    /\ balance' = [balance EXCEPT ![a] =
          [x \in Accounts |-> IF x = to
                              THEN @[x] + MapThenSumSet(LAMBDA m : leg[m], DOMAIN leg)
                              ELSE @[x] - Debit(x, owner, leg)]]
    /\ allowance' = [allowance EXCEPT ![a] =
          [u \in Users |-> @[u] - Debit(u, owner, leg)]]
    /\ UNCHANGED frozen

\* approve overwrites whatever allowance was left.
Approve(a, u, x) ==
    /\ allowance' = [allowance EXCEPT ![a][u] = x]
    /\ UNCHANGED <<balance, frozen>>

\* The user moves funds of their own, in or out.
MoveFunds(a, u, x) ==
    /\ balance' = [balance EXCEPT ![a][u] = x]
    /\ UNCHANGED <<allowance, frozen>>

\* The asset's issuer deauthorizes a trustline, or authorizes it again.
ToggleTrustline(a, x) ==
    /\ frozen' = IF Authorized(a, x) THEN frozen \cup {<<a, x>>}
                                      ELSE frozen \ {<<a, x>>}
    /\ UNCHANGED <<balance, allowance>>

=============================================================================
