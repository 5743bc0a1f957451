-------------------------- MODULE MCMandateRegistry --------------------------
(***************************************************************************)
(* Small instances of the contract for TLC.  An allowance or a balance is  *)
(* either nothing or enough for everything, plus one in between; prices    *)
(* and quantities are small enough that every breakpoint is met.           *)
(***************************************************************************)
EXTENDS MandateRegistry, TLC

CONSTANTS m1, m2, m3, u1, u2, v1, v2, usd, p1

Pt(price, qty) == [unit_price |-> price, max_qty |-> qty]

Solo(u, max, until) ==
    [user |-> u, merchant |-> v1, asset |-> usd, max_amount |-> max,
     expiry |-> until, pool_id |-> NoPool, price_schedule |-> << >>]

Pooled(u, v, max, until, schedule) ==
    [user |-> u, merchant |-> v, asset |-> usd, max_amount |-> max,
     expiry |-> until, pool_id |-> p1, price_schedule |-> schedule]

\* Two users' demand curves, a second mandate of the first user, and terms that
\* registration must refuse: the wrong merchant, an expiry inside the window, a
\* worst case above the budget.  m1 and m2 clear together at price 2, inside
\* the interval (1, 3]; m2 fires alone at 3, where m3 is priced out.
PoolOffers ==
    (  m1 :> {Pooled(u1, v1, 4, 3, <<Pt(1, 3), Pt(3, 1)>>),
              Pooled(u1, v2, 4, 4, <<Pt(1, 3), Pt(3, 1)>>)}
    @@ m2 :> {Pooled(u2, v1, 6, 4, <<Pt(3, 2)>>),
              Pooled(u2, v1, 6, 2, <<Pt(3, 2)>>)}
    @@ m3 :> {Pooled(u1, v1, 2, 4, <<Pt(1, 2)>>),
              Pooled(u1, v1, 1, 4, <<Pt(1, 2)>>)})

\* A pooled mandate beside one that is pooled or standalone: standalone, it
\* shares the first user's allowance with m1; pooled, it clears with m1.
MixedOffers ==
    (  m1 :> {Pooled(u1, v1, 4, 3, <<Pt(1, 3), Pt(3, 1)>>),
              Pooled(u1, v2, 4, 4, <<Pt(1, 3), Pt(3, 1)>>)}
    @@ m2 :> {Pooled(u2, v1, 6, 4, <<Pt(3, 2)>>), Solo(u1, 2, 2)})

ThePool(qty, value, least) ==
    (p1 :> [merchant |-> v1, asset |-> usd, kind |-> "ThresholdFloor",
            threshold_qty |-> qty, threshold_value |-> value,
            min_child_value |-> least, clearing_deadline |-> 1])

FloorPool == ThePool(2, 6, 2)
Signed == {-1, 1}
UserFreezable == {usd} \X {u1}
MerchantFreezable == {usd} \X {v1}
=============================================================================
