---------------------------- MODULE ClearingScan ----------------------------
(***************************************************************************)
(* clearing.rs as it runs: the eligible members are insertion-sorted by    *)
(* mandate id, their price points merged into ascending breakpoints, the   *)
(* breakpoints scanned for the first one at which the pool fires, and the  *)
(* least price of that interval found by binary search.  Each step is one  *)
(* turn of one of these loops.                                             *)
(*                                                                         *)
(* MandateRegistry uses Clear, which says in one expression what this      *)
(* module computes; MatchesClear is the link between the two.              *)
(*                                                                         *)
(* A definition marked "Faulty:" is a plausible bug in the one after it;   *)
(* nothing uses it but the check that a property would notice the bug.     *)
(***************************************************************************)
EXTENDS Clearing, SequencesExt

CONSTANTS
    Views,      \* member lists clear may be called with, in commit order
    PoolFloors, \* the vendors' floors: [threshold_qty, threshold_value]
    Fees        \* fee_bps_pinned; register_pool pins 0, clear takes any

VARIABLES
    views,        \* argument: sequence of [mandate_id, schedule, eligible]
    floor,        \* argument: the pool's thresholds
    fee,          \* argument: the pool's pinned fee
    pc,           \* the loop that is running
    next,         \* index of the next view, kid or breakpoint of that loop
    point,        \* index of the next point of that kid's schedule
    sorted,       \* kids: eligible views, in mandate_id order
    breakpoints,  \* prices, ascending
    prev, lo, hi, \* the interval under search
    result        \* ClearOutcome

arguments == <<views, floor, fee>>
search    == <<prev, lo, hi>>
scanVars  == <<arguments, pc, next, point, sorted, breakpoints, search, result>>

\* Mandate ids are compared as byte strings: as numbers here.
ChildView == [mandate_id : Nat, schedule : Seq(SchedulePoint), eligible : BOOLEAN]

\* The members of a pool differ (pool.rs appends one at its commit), their schedules
\* were validated when they registered; register_pool refuses a pool without floors.
ASSUME ScanAssumption ==
    /\ \A v \in Views : /\ v \in Seq(ChildView)
                        /\ \A i \in DOMAIN v : ValidSchedule(v[i].schedule)
                        /\ \A i, j \in DOMAIN v : v[i].mandate_id = v[j].mandate_id => i = j
    /\ \A f \in PoolFloors : /\ f.threshold_qty \in Nat /\ f.threshold_value \in Nat
                             /\ ~ (f.threshold_qty = 0 /\ f.threshold_value = 0)
    /\ Fees \subseteq 0 .. BPS_DENOM

\* index of the first element that satisfies Test, or one past the end.
FirstOr(s, Test(_)) ==
    LET i == SelectInSeq(s, Test) IN IF i = 0 THEN Len(s) + 1 ELSE i

CurveOf(k) == [i \in DOMAIN k |-> k[i].schedule]
Qty(p)     == TotalQty(DOMAIN sorted, CurveOf(sorted), p)
Net(p)     == NetValue(DOMAIN sorted, CurveOf(sorted), p, fee)

NoOutcome == [fires |-> FALSE, clearing_price |-> 0, allocations |-> << >>,
              total_qty |-> 0, gross_value |-> 0, total_fee |-> 0, net_value |-> 0]

\* Faulty: members are kept in commit order.
AtTheEnd(view)    == Len(sorted) + 1
KidPosition(view) == FirstOr(sorted, LAMBDA k : k.mandate_id > view.mandate_id)

SortKids ==
    /\ pc = "sort"
    /\ next <= Len(views)
    /\ next' = next + 1
    /\ sorted' = IF views[next].eligible
                 THEN InsertAt(sorted, KidPosition(views[next]), views[next])
                 ELSE sorted
    /\ UNCHANGED <<arguments, pc, point, breakpoints, search, result>>

Sorted ==
    /\ pc = "sort"
    /\ next > Len(views)
    /\ pc' = IF sorted = << >> THEN "done" ELSE "merge"
    /\ next' = 1
    /\ UNCHANGED <<arguments, point, sorted, breakpoints, search, result>>

\* Faulty: prices stay in the order they are met.
InOrderMet(points, p)  == Append(points, p)
InsertPoint(points, p) ==
    IF Contains(points, p) THEN points
    ELSE InsertAt(points, FirstOr(points, LAMBDA x : x > p), p)

MergePoint ==
    /\ pc = "merge"
    /\ next <= Len(sorted)
    /\ point <= Len(sorted[next].schedule)
    /\ point' = point + 1
    /\ breakpoints' = InsertPoint(breakpoints, sorted[next].schedule[point].unit_price)
    /\ UNCHANGED <<arguments, pc, next, sorted, search, result>>

NextKid ==
    /\ pc = "merge"
    /\ next <= Len(sorted)
    /\ point > Len(sorted[next].schedule)
    /\ next' = next + 1
    /\ point' = 1
    /\ UNCHANGED <<arguments, pc, sorted, breakpoints, search, result>>

Merged ==
    /\ pc = "merge"
    /\ next > Len(sorted)
    /\ pc' = "scan"
    /\ next' = 1
    /\ UNCHANGED <<arguments, point, sorted, breakpoints, search, result>>

Fires(b) == Qty(b) >= floor.threshold_qty /\ Net(b) >= floor.threshold_value

Skip ==
    /\ pc = "scan"
    /\ next <= Len(breakpoints)
    /\ ~ Fires(breakpoints[next])
    /\ prev' = breakpoints[next]
    /\ next' = next + 1
    /\ UNCHANGED <<arguments, pc, point, sorted, breakpoints, lo, hi, result>>

Hit ==
    /\ pc = "scan"
    /\ next <= Len(breakpoints)
    /\ Fires(breakpoints[next])
    /\ pc' = "bisect"
    /\ lo' = prev + 1
    /\ hi' = breakpoints[next]
    /\ UNCHANGED <<arguments, next, point, sorted, breakpoints, prev, result>>

ScannedInVain ==
    /\ pc = "scan"
    /\ next > Len(breakpoints)
    /\ pc' = "done"
    /\ UNCHANGED <<arguments, next, point, sorted, breakpoints, search, result>>

\* Faulty: a price that does not suffice is kept in the interval.
NarrowTo(mid) ==
    IF Net(mid) >= floor.threshold_value
    THEN hi' = mid /\ UNCHANGED lo
    ELSE lo' = mid /\ UNCHANGED hi

Narrow(mid) ==
    IF Net(mid) >= floor.threshold_value
    THEN hi' = mid /\ UNCHANGED lo
    ELSE lo' = mid + 1 /\ UNCHANGED hi

Bisect ==
    /\ pc = "bisect"
    /\ lo < hi
    /\ Narrow(lo + (hi - lo) \div 2)
    /\ UNCHANGED <<arguments, pc, next, point, sorted, breakpoints, prev, result>>

Found ==
    /\ pc = "bisect"
    /\ lo >= hi
    /\ pc' = "allocate"
    /\ next' = 1
    /\ result' = [NoOutcome EXCEPT !.fires = TRUE, !.clearing_price = lo]
    /\ UNCHANGED <<arguments, point, sorted, breakpoints, search>>

\* What a kid with demand adds to the outcome; one without adds nothing.
Allot(k, p) ==
    LET qty == Demand(k.schedule, p)
        leg == p * qty
    IN  IF qty = 0 THEN result
        ELSE [result EXCEPT !.allocations = Append(@, [mandate_id |-> k.mandate_id, qty |-> qty]),
                            !.total_qty   = @ + qty,
                            !.gross_value = @ + leg,
                            !.total_fee   = @ + FeeOf(leg, fee)]

Allocate ==
    /\ pc = "allocate"
    /\ next <= Len(sorted)
    /\ next' = next + 1
    /\ result' = Allot(sorted[next], result.clearing_price)
    /\ UNCHANGED <<arguments, pc, point, sorted, breakpoints, search>>

Allocated ==
    /\ pc = "allocate"
    /\ next > Len(sorted)
    /\ pc' = "done"
    /\ result' = [result EXCEPT !.net_value = result.gross_value - result.total_fee]
    /\ UNCHANGED <<arguments, next, point, sorted, breakpoints, search>>

ScanInit ==
    /\ views \in Views
    /\ floor \in PoolFloors
    /\ fee \in Fees
    /\ pc = "sort"
    /\ next = 1 /\ point = 1
    /\ sorted = << >>
    /\ breakpoints = << >>
    /\ prev = 0 /\ lo = 0 /\ hi = 0
    /\ result = NoOutcome

ScanNext == \/ SortKids \/ Sorted
            \/ MergePoint \/ NextKid \/ Merged
            \/ Skip \/ Hit \/ ScannedInVain
            \/ Bisect \/ Found
            \/ Allocate \/ Allocated

\* A contract call runs until it returns.
ScanSpec == ScanInit /\ [][ScanNext]_scanVars /\ WF_scanVars(ScanNext)

-----------------------------------------------------------------------------
(* What the loops promise                                                  *)

Chosen == {i \in DOMAIN views : views[i].eligible}

\* A price at which both floors hold, for the argument rather than for `kids'.
Suffices(p) == Feasible(floor, Chosen, CurveOf(views), p, fee)

\* The result is what MandateRegistry settles pools with: Clear of the set of
\* eligible members, which knows no commit order, so that every caller computes the
\* same however the members joined (pool_test.rs order_independence).  The
\* allocations, which allocation_root hashes in sequence, ascend by mandate_id, and
\* the totals reported are the sums of the legs that clear_pool moves one by one,
\* each fee floored on its own.
MatchesClear ==
    pc = "done" =>
        LET expected == Clear(floor, Chosen, CurveOf(views), fee)
            price    == expected.clearing_price
            index(a) == CHOOSE i \in DOMAIN views : views[i].mandate_id = a.mandate_id
            given    == result.allocations
        IN  /\ result.fires = expected.fires
            /\ result.clearing_price = price
            /\ {index(given[i]) : i \in DOMAIN given} = DOMAIN expected.allocations
            /\ \A i \in DOMAIN given : given[i].qty = expected.allocations[index(given[i])]
            /\ \A i, j \in DOMAIN given : i < j => given[i].mandate_id < given[j].mandate_id
            /\ result.fires =>
                  /\ result.total_qty = TotalQty(Chosen, CurveOf(views), price)
                  /\ result.gross_value = NetValue(Chosen, CurveOf(views), price, 0)
                  /\ result.net_value = NetValue(Chosen, CurveOf(views), price, fee)

\* "Globally minimal" (clearing.rs header): of all prices, not only of those
\* the search looks at, the one charged is the lowest at which the order meets
\* both floors, and the pool fails to fire only if no price at all does.
MinimalPrice ==
    pc = "done" =>
        LET prices == {p \in 1 .. MaxUnitPrice : Suffices(p)}
        IN  /\ result.fires <=> prices # {}
            /\ result.fires => result.clearing_price = Min(prices)

\* The search ends: simulate_clear and clear_pool return on every input.
Terminates == <>(pc = "done")
=============================================================================
