-------------------------- MODULE MCCliSettlement ---------------------------
(***************************************************************************)
(* Small instances of the settlement journal.                              *)
(***************************************************************************)
EXTENDS CliSettlement, TLC

Alone == {}

Alike == Permutations(Processes) \cup Permutations(Txs)
=============================================================================
