------------------------- MODULE MCConsumerPurchase -------------------------
(***************************************************************************)
(* Small instances of the consumer: a walk over two sources.               *)
(***************************************************************************)
EXTENDS ConsumerPurchase

CONSTANTS s1, s2

TwoSources == <<s1, s2>>
=============================================================================
