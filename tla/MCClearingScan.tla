--------------------------- MODULE MCClearingScan ---------------------------
(***************************************************************************)
(* Three members, in every commit order, one of whom may be ineligible.    *)
(* The curves' intervals are wide enough for the binary search to take     *)
(* several turns; the fee is large enough for its flooring to show.        *)
(***************************************************************************)
EXTENDS ClearingScan

Pt(p, q) == [unit_price |-> p, max_qty |-> q]

Steep   == <<Pt(1, 3), Pt(6, 1)>>
Flat    == <<Pt(5, 2)>>
Ladder  == <<Pt(2, 4), Pt(3, 3), Pt(7, 1)>>
Bargain == <<Pt(1, 4)>>

Curves == {<<Steep, Flat, Ladder>>, <<Ladder, Ladder, Bargain>>, <<Flat, Steep, Flat>>}

Orders == {f \in [1 .. 3 -> 1 .. 3] : \A i, j \in 1 .. 3 : i # j => f[i] # f[j]}

AllViews ==
    {[i \in 1 .. 3 |-> [mandate_id |-> order[i],
                        schedule   |-> curve[order[i]],
                        eligible   |-> order[i] \in present]] :
        <<order, curve, present>> \in
            Orders \X Curves \X {{}, {1}, {2, 3}, {1, 3}, {1, 2, 3}}}

AllFloors == [threshold_qty : {0, 3}, threshold_value : {0, 5, 11}]
                \ {[threshold_qty |-> 0, threshold_value |-> 0]}
=============================================================================
