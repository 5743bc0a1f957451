--------------------------- MODULE MCPaymentAgent ---------------------------
(***************************************************************************)
(* Small instances of the SDK's agents.                                    *)
(***************************************************************************)
EXTENDS PaymentAgent, TLC

Alike == Permutations(Agents) \cup Permutations(Calls) \cup Permutations(Txs)
=============================================================================
