------------------------------ MODULE Clearing ------------------------------
(***************************************************************************)
(* The pure arithmetic of a clearing pool: demand schedules (mandate.rs)   *)
(* and the uniform-price clearing function (clearing.rs).  No state, no    *)
(* clock, no token.  MandateRegistry settles pools with Clear; the loops   *)
(* that compute it step by step are in ClearingScan.                       *)
(*                                                                         *)
(* A schedule is a sequence of points [unit_price, max_qty].  `kids' is    *)
(* the set of eligible mandates, `schedule' a function giving each its     *)
(* demand curve, `terms' the pool's thresholds.                            *)
(*                                                                         *)
(* A definition marked "Faulty:" is a plausible bug in the one after it;   *)
(* nothing uses it but the check that a property would notice the bug.     *)
(***************************************************************************)
EXTENDS Integers, Sequences, FiniteSets, FiniteSetsExt

CONSTANTS
    MaxSchedulePoints,  \* MAX_SCHEDULE_POINTS, 8 in the code
    MaxUnitPrice,       \* MAX_UNIT_PRICE, 1e15 in the code
    MaxQty              \* MAX_QTY, 1e9 in the code

ASSUME ClearingAssumption ==
    /\ MaxSchedulePoints \in Nat \ {0}
    /\ MaxUnitPrice \in Nat \ {0}
    /\ MaxQty \in Nat \ {0}

BPS_DENOM == 10000

SchedulePoint == [unit_price : Int, max_qty : Nat]

\* Prices strictly ascend, quantities strictly descend, both within their caps.
ValidSchedule(s) ==
    /\ Len(s) \in 1 .. MaxSchedulePoints
    /\ \A i \in DOMAIN s : /\ s[i].unit_price \in 1 .. MaxUnitPrice
                           /\ s[i].max_qty \in 1 .. MaxQty
    /\ \A i, j \in DOMAIN s : i < j => /\ s[i].unit_price < s[j].unit_price
                                       /\ s[i].max_qty > s[j].max_qty

\* The quantity of the first point whose price reaches p; 0 above them all.
Demand(s, p) ==
    LET reaching == {i \in DOMAIN s : s[i].unit_price >= p}
    IN  IF reaching = {} THEN 0 ELSE s[Min(reaching)].max_qty

\* The largest leg any clearing price can produce.
WorstCase(s) ==
    Max({0} \cup {s[i].unit_price * s[i].max_qty : i \in DOMAIN s})

FeeOf(leg, fee_bps) == (leg * fee_bps) \div BPS_DENOM

TotalQty(kids, schedule, p) ==
    MapThenSumSet(LAMBDA k : Demand(schedule[k], p), kids)

\* Faulty: values the order at the demand of the lowest price, not of p.
NetValueOfInterest(kids, schedule, p, fee_bps) ==
    MapThenSumSet(LAMBDA k : LET leg == p * Demand(schedule[k], 1)
                             IN  leg - FeeOf(leg, fee_bps), kids)

NetValue(kids, schedule, p, fee_bps) ==
    MapThenSumSet(LAMBDA k : LET leg == p * Demand(schedule[k], p)
                             IN  leg - FeeOf(leg, fee_bps), kids)

Breakpoints(kids, schedule) ==
    UNION {{schedule[k][i].unit_price : i \in DOMAIN schedule[k]} : k \in kids}

\* A price at which the aggregate order satisfies both of the vendor's floors.
Feasible(terms, kids, schedule, p, fee_bps) ==
    /\ TotalQty(kids, schedule, p) >= terms.threshold_qty
    /\ NetValue(kids, schedule, p, fee_bps) >= terms.threshold_value

NoFire == [fires |-> FALSE, clearing_price |-> 0, allocations |-> [k \in {} |-> 0]]

OutcomeAt(kids, schedule, p) ==
    LET buyers == {k \in kids : Demand(schedule[k], p) # 0}
    IN  [fires          |-> TRUE,
         clearing_price |-> p,
         allocations    |-> [k \in buyers |-> Demand(schedule[k], p)]]

\* The first breakpoint that is feasible bounds the interval (prev, b] of
\* constant demand; inside it the least price whose net value suffices clears.
Clear(terms, kids, schedule, fee_bps) ==
    LET points == Breakpoints(kids, schedule)
        firing == {b \in points : Feasible(terms, kids, schedule, b, fee_bps)}
        b      == Min(firing)
        prev   == Max({0} \cup {x \in points : x < b})
        price  == Min({p \in (prev + 1) .. b :
                          NetValue(kids, schedule, p, fee_bps) >= terms.threshold_value})
    IN  IF firing = {} THEN NoFire ELSE OutcomeAt(kids, schedule, price)

=============================================================================
