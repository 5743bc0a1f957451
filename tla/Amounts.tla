------------------------------ MODULE Amounts -------------------------------
(***************************************************************************)
(* Amounts of money as the SDK, the middleware and the AP2 package write   *)
(* and read them: a decimal text is the number it shows and the fraction   *)
(* digits it shows it with, so that "5.0" is [units |-> 50, places |-> 1]. *)
(* Texts that are no plain decimal are Garbage.                            *)
(***************************************************************************)
EXTENDS Integers

CONSTANTS
    MaxStroops,   \* I128_MAX
    Garbage       \* what is not a decimal, and what has no value in stroops

MaxDecimals == 38

\* A decimal text, or what is none.
IsText(text) == text = Garbage \/ (text.units \in Nat /\ text.places \in Nat)

\* toStroops(): the value in the asset's least unit; it throws on a text that is no
\* decimal, has more fraction digits than the asset, or does not fit an i128.
ToStroops(text, decimals) ==
    IF text = Garbage \/ text.places > decimals THEN Garbage
    ELSE LET stroops == text.units * 10 ^ (decimals - text.places)
         IN  IF stroops > MaxStroops THEN Garbage ELSE stroops

\* The text is a price, or an amount to be paid.
IsPrice(text, decimals) ==
    ToStroops(text, decimals) # Garbage /\ ToStroops(text, decimals) > 0

\* formatStroops(): the shortest text, without trailing zeros.
FormatStroops(stroops, decimals) ==
    LET places == CHOOSE k \in 0 .. decimals :
                     /\ stroops % 10 ^ (decimals - k) = 0
                     /\ \A j \in 0 .. k - 1 : stroops % 10 ^ (decimals - j) # 0
    IN  [units |-> stroops \div 10 ^ (decimals - places), places |-> places]
=============================================================================
