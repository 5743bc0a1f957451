--------------------------- MODULE MandateRegistry ---------------------------
(***************************************************************************)
(* The on-chain MandateRegistry contract: mandates, clearing pools and the *)
(* two money paths, execute_payment (solo) and clear_pool (composite).     *)
(*                                                                         *)
(* A contract call is one atomic step: its guards are the code's early     *)
(* returns, and a call that fails anywhere, inside the token included,     *)
(* reverts, so that it is no step at all.  require_auth is enforced by the *)
(* host: each action is taken by the principal the code names.             *)
(*                                                                         *)
(* `statement' is history: the transfers the token made for each mandate,  *)
(* in ledger order, as the payment_executed and pool_cleared events and    *)
(* the transfer_from calls give them.  No guard reads it.                  *)
(*                                                                         *)
(* A definition marked "Faulty:" is a plausible bug in the one after it;   *)
(* nothing uses it but the check that a property would notice the bug.     *)
(***************************************************************************)
EXTENDS Clearing, Token

CONSTANTS
    Mandates,          \* vc_hash values, the mandates' storage keys
    Pools,             \* pool ids
    NoPool,            \* pool_id = None
    Offers,            \* Offers[m]: the terms mandate m may be registered with
    PoolTerms,         \* PoolTerms[p]: a pool id is a hash of its terms, so it fixes them
    CaptureWindow,     \* CAPTURE_WINDOW_SECS
    MaxPoolMembers,    \* MAX_POOL_MEMBERS
    MaxPoolHorizon,    \* MAX_POOL_HORIZON_SECS
    MaxTime,           \* bound on the ledger clock
    PayAmounts,        \* amounts an agent may ask to pay
    ExpectedSeqs,      \* values of expected_seq a transaction may carry
    Approvals,         \* allowances a user may approve
    InitialHolding,    \* every user's balance at the start
    Holdings,          \* balances a user may move to by own transfers
    Freezable          \* <<asset, account>> pairs whose issuer may freeze them

VARIABLES
    now,        \* env.ledger().timestamp()
    mandate,    \* storage under DataKey::Mandate; its domain is what is stored
    pool,       \* storage under DataKey::Pool and DataKey::PoolMembers
    statement   \* history: the transfers made for each mandate

registryVars == <<mandate, pool, statement>>
vars == <<now, registryVars, tokenVars>>

Status     == {"Active", "Revoked", "Exhausted"}
PoolState  == {"Unlinked", "Committed", "Captured", "Released"}
PoolStatus == {"Open", "Cleared", "Aborted"}

\* What the user signs: the arguments of register_mandate.
Terms == [user : Users, merchant : Merchants, asset : Assets,
          max_amount : Int, expiry : Nat,
          pool_id : Pools \cup {NoPool}, price_schedule : Seq(SchedulePoint)]

\* The stored Mandate: the signed terms and what has been consumed of them.
Mandate == [terms : Terms, spent : Nat, seq : Nat,
            status : Status, pool_state : PoolState]

ClearingPool == [status : PoolStatus, members : SUBSET Mandates,
                 member_count : Nat, fee_bps_pinned : {0}]

Entry == [seq : Nat, amount : Nat, total : Nat,
          merchant : Merchants, asset : Assets]

ASSUME RegistryAssumption ==
    /\ NoPool \notin Pools
    /\ IsFiniteSet(Mandates)
    /\ \A m \in Mandates : Offers[m] \subseteq Terms
    /\ PoolTerms \in [Pools -> [kind : STRING, merchant : Merchants, asset : Assets,
                                threshold_qty : Nat, threshold_value : Nat,
                                min_child_value : Nat, clearing_deadline : Nat]]
    /\ CaptureWindow \in Nat
    /\ MaxPoolMembers \in Nat
    /\ MaxPoolHorizon \in Nat
    /\ MaxTime \in Nat
    /\ PayAmounts \subseteq Int
    /\ ExpectedSeqs \subseteq Nat
    /\ Approvals \subseteq Nat
    /\ InitialHolding \in Nat
    /\ Holdings \subseteq Nat
    /\ Freezable \subseteq Assets \X Accounts

-----------------------------------------------------------------------------
(* Storage and readings of it                                              *)

\* storage().persistent().set(key, value)
Store(map, key, value) ==
    [k \in DOMAIN map \cup {key} |-> IF k = key THEN value ELSE map[k]]

PoolOf(m)      == mandate[m].terms.pool_id
Schedule(m)    == mandate[m].terms.price_schedule
Deadline(p)    == PoolTerms[p].clearing_deadline
WindowEnd(p)   == Deadline(p) + CaptureWindow
Committed(p)   == {m \in pool[p].members : mandate[m].pool_state = "Committed"}


Active(m) == mandate[m].status = "Active"

\* Faulty: the expiry instant itself still counts as valid.
NotPastExpiry(m) == now <= mandate[m].terms.expiry
Unexpired(m)     == now < mandate[m].terms.expiry

\* Faulty: a member is locked only once it is captured.
NotCaptured(m) == mandate[m].pool_state # "Captured"
Unlocked(m)    == mandate[m].pool_state \in {"Unlinked", "Released"}

DeadlineReached(p) == now >= Deadline(p)

\* The total the token has moved on behalf of mandate m.
Paid(m) == LET s == statement[m] IN IF s = << >> THEN 0 ELSE s[Len(s)].total

\* What is left of the budget, the balance and the allowance covers the
\* schedule's worst case in asset a, and the trustline is authorized.
Funded(m, a) ==
    LET wc == WorstCase(Schedule(m))
        u  == mandate[m].terms.user
    IN  /\ mandate[m].terms.max_amount - mandate[m].spent >= wc
        /\ allowance[a][u] >= wc
        /\ balance[a][u] >= wc
        /\ Authorized(a, u)

\* Faulty: trusts the funds check made when the member committed.
EligibleAsCommitted(p, m) ==
    /\ mandate[m].pool_state = "Committed"
    /\ Active(m)
    /\ Unexpired(m)

\* pool.rs is_eligible: objective same-ledger state only.
Eligible(p, m) ==
    /\ mandate[m].pool_state = "Committed"
    /\ Active(m)
    /\ Unexpired(m)
    /\ Funded(m, PoolTerms[p].asset)

\* The outcome of clearing the eligible members as they stand in this ledger.
ClearNow(p) ==
    LET kids == {m \in pool[p].members : Eligible(p, m)}
    IN  Clear(PoolTerms[p], kids, [m \in kids |-> Schedule(m)], pool[p].fee_bps_pinned)

\* Faulty: the window's last instant is taken to be outside it.
SimulateClearShort(p) == IF now >= WindowEnd(p) THEN NoFire ELSE ClearNow(p)

\* simulate_clear: what a third party is told clear_pool would do right now.
SimulateClear(p) == IF now > WindowEnd(p) THEN NoFire ELSE ClearNow(p)

-----------------------------------------------------------------------------
(* registry.rs                                                             *)

\* Faulty: the mandate's payee is not compared with the pool's.
SameAsset(t, p) == t.asset = PoolTerms[p].asset
SameDeal(t, p)  == t.merchant = PoolTerms[p].merchant /\ t.asset = PoolTerms[p].asset

\* The terms may join their pool: every pool rule is enforced at signing time.
PoolCompatible(t) ==
    LET p == t.pool_id IN
    /\ p \in DOMAIN pool
    /\ pool[p].status = "Open"
    /\ now < Deadline(p)
    /\ SameDeal(t, p)
    /\ ValidSchedule(t.price_schedule)
    /\ WorstCase(t.price_schedule) <= t.max_amount
    /\ WorstCase(t.price_schedule) >= PoolTerms[p].min_child_value
    /\ t.expiry > WindowEnd(p)

RegisterMandate(m, t) ==
    /\ t.max_amount > 0
    /\ t.expiry > now
    /\ m \notin DOMAIN mandate
    /\ IF t.pool_id = NoPool THEN t.price_schedule = << >> ELSE PoolCompatible(t)
    /\ mandate' = Store(mandate, m, [terms |-> t, spent |-> 0, seq |-> 0,
                                     status |-> "Active", pool_state |-> "Unlinked"])
    /\ statement' = Store(statement, m, << >>)
    /\ UNCHANGED <<now, pool, tokenVars>>

\* What revocation and eviction do to the pool: the slot is freed.
WithoutMember(p, m) ==
    [pool EXCEPT ![p].members = @ \ {m},
                 ![p].member_count = IF @ = 0 THEN 0 ELSE @ - 1]

RevokeMandate(m) ==
    /\ m \in DOMAIN mandate
    /\ IF /\ mandate[m].pool_state = "Committed"
          /\ PoolOf(m) # NoPool
          /\ pool[PoolOf(m)].status = "Open"
       THEN /\ pool' = WithoutMember(PoolOf(m), m)
            /\ mandate' = [mandate EXCEPT ![m].status = "Revoked",
                                          ![m].pool_state = "Released"]
       ELSE /\ mandate' = [mandate EXCEPT ![m].status = "Revoked"]
            /\ UNCHANGED pool
    /\ UNCHANGED <<now, statement, tokenVars>>

-----------------------------------------------------------------------------
(* payment.rs                                                              *)

\* Faulty: the amount's sign is not checked.
CheckUnsigned(m, amount, merchant) ==
    /\ Active(m) /\ Unlocked(m) /\ Unexpired(m)
    /\ merchant = mandate[m].terms.merchant
    /\ mandate[m].spent + amount <= mandate[m].terms.max_amount

\* The single source of enforcement truth; validate_mandate is exactly this.
Check(m, amount, merchant) ==
    /\ amount > 0
    /\ Active(m) /\ Unlocked(m) /\ Unexpired(m)
    /\ merchant = mandate[m].terms.merchant
    /\ mandate[m].spent + amount <= mandate[m].terms.max_amount

\* Faulty: the amount replaces what was spent before.
ConsumeAfresh(r, amount) ==
    [r EXCEPT !.spent = amount,
              !.seq = @ + 1,
              !.status = IF amount = r.terms.max_amount THEN "Exhausted" ELSE @]

\* The mandate after `amount' of it is consumed.
Consume(r, amount) ==
    [r EXCEPT !.spent = @ + amount,
              !.seq = @ + 1,
              !.status = IF r.spent + amount = r.terms.max_amount THEN "Exhausted" ELSE @]

\* The statement's next entry: `amount' of asset a moved to merchant v under seq.
Transferred(m, seq, amount, v, a) ==
    Append(statement[m], [seq |-> seq, amount |-> amount, total |-> Paid(m) + amount,
                          merchant |-> v, asset |-> a])

\* Faulty: a transaction is good under any sequence number not yet passed.
MayPayAhead(m, amount, expected_seq) ==
    /\ m \in DOMAIN mandate
    /\ expected_seq >= mandate[m].seq
    /\ Check(m, amount, mandate[m].terms.merchant)

\* The agent's transaction is the next one and is within the mandate.
MayPay(m, amount, expected_seq) ==
    /\ m \in DOMAIN mandate
    /\ expected_seq = mandate[m].seq
    /\ Check(m, amount, mandate[m].terms.merchant)

ExecutePayment(m, amount, expected_seq) ==
    /\ MayPay(m, amount, expected_seq)
    /\ mandate' = [mandate EXCEPT ![m] = Consume(@, amount)]
    /\ LET t == mandate[m].terms IN
          /\ TransferAll(t.asset, [x \in {m} |-> t.user], t.merchant, [x \in {m} |-> amount])
          /\ statement' = [statement EXCEPT ![m] =
                              Transferred(m, expected_seq, amount, t.merchant, t.asset)]
    /\ UNCHANGED <<now, pool>>

-----------------------------------------------------------------------------
(* pool.rs                                                                 *)

RegisterPool(p) ==
    /\ p \notin DOMAIN pool
    /\ LET t == PoolTerms[p] IN
          /\ t.kind = "ThresholdFloor"
          /\ ~ (t.threshold_qty = 0 /\ t.threshold_value = 0)
          /\ t.threshold_qty <= MaxPoolMembers * MaxQty
          /\ t.threshold_value <= MaxPoolMembers * MaxUnitPrice * MaxQty
          /\ t.min_child_value <= MaxUnitPrice * MaxQty
    /\ now < Deadline(p)
    /\ WindowEnd(p) - now <= MaxPoolHorizon
    /\ pool' = Store(pool, p, [status |-> "Open", members |-> {},
                               member_count |-> 0, fee_bps_pinned |-> 0])
    /\ UNCHANGED <<now, mandate, statement, tokenVars>>

\* Faulty: members that could not pay any more are overlooked.
DuplicatePayer(p, m) ==
    \E x \in Committed(p) : /\ Eligible(p, x)
                            /\ mandate[x].terms.user = mandate[m].terms.user

\* The user already has a Committed member in the pool.
DuplicateMember(p, m) ==
    \E x \in Committed(p) : mandate[x].terms.user = mandate[m].terms.user

CommitChild(m) ==
    /\ m \in DOMAIN mandate
    /\ LET p == PoolOf(m) IN
          /\ p \in DOMAIN pool
          /\ Active(m) /\ Unexpired(m)
          /\ mandate[m].pool_state = "Unlinked"
          /\ pool[p].status = "Open"
          /\ now < Deadline(p)
          /\ pool[p].member_count < MaxPoolMembers
          /\ ~ DuplicateMember(p, m)
          /\ Funded(m, PoolTerms[p].asset)
          /\ mandate' = [mandate EXCEPT ![m].pool_state = "Committed"]
          /\ pool' = [pool EXCEPT ![p].members = @ \cup {m},
                                  ![p].member_count = @ + 1]
    /\ UNCHANGED <<now, statement, tokenVars>>

EvictChild(p, m) ==
    /\ p \in DOMAIN pool
    /\ pool[p].status = "Open"
    /\ m \in DOMAIN mandate
    /\ PoolOf(m) = p
    /\ mandate[m].pool_state = "Committed"
    /\ ~ Eligible(p, m)
    /\ pool' = WithoutMember(p, m)
    /\ mandate' = [mandate EXCEPT ![m].pool_state = "Released"]
    /\ UNCHANGED <<now, statement, tokenVars>>

Release(S) == [m \in DOMAIN mandate |->
                  IF m \in S THEN [mandate[m] EXCEPT !.pool_state = "Released"]
                             ELSE mandate[m]]

\* Faulty: members that became ineligible are left behind.
AbortEligible(p) ==
    /\ pool' = [pool EXCEPT ![p].status = "Aborted"]
    /\ mandate' = Release({m \in Committed(p) : Eligible(p, m)})
    /\ UNCHANGED <<statement, tokenVars>>

\* The pool did not fire: every committed member is let go.
AbortPool(p) ==
    /\ pool' = [pool EXCEPT ![p].status = "Aborted"]
    /\ mandate' = Release(Committed(p))
    /\ UNCHANGED <<statement, tokenVars>>

\* The pool fired: members with an allocation are charged their leg and the
\* other ones released, then every leg moves to the pool's merchant, all in
\* one transaction that reverts if any part of it fails.
CapturePool(p, outcome) ==
    LET t       == PoolTerms[p]
        bought  == DOMAIN outcome.allocations
        Leg(m)  == outcome.clearing_price * outcome.allocations[m]
        Net(m)  == Leg(m) - FeeOf(Leg(m), pool[p].fee_bps_pinned)
    IN  /\ \A m \in Committed(p) \cap bought :
              mandate[m].spent + Leg(m) <= mandate[m].terms.max_amount
        /\ pool' = [pool EXCEPT ![p].status = "Cleared"]
        /\ mandate' = [m \in DOMAIN mandate |->
              IF m \notin Committed(p) THEN mandate[m]
              ELSE IF m \in bought
              THEN [Consume(mandate[m], Leg(m)) EXCEPT !.pool_state = "Captured"]
              ELSE [mandate[m] EXCEPT !.pool_state = "Released"]]
        /\ TransferAll(t.asset, [m \in bought |-> mandate[m].terms.user], t.merchant,
                       [m \in bought |-> Net(m)])
        /\ statement' = [m \in DOMAIN statement |->
              IF m \in bought
              THEN Transferred(m, mandate[m].seq, Net(m), t.merchant, t.asset)
              ELSE statement[m]]

\* Faulty: a pool can be captured however late clear_pool is called.
LateOutcome(p)    == ClearNow(p)
ClosingOutcome(p) == IF now <= WindowEnd(p) THEN ClearNow(p) ELSE NoFire

ClearPool(p) ==
    /\ p \in DOMAIN pool
    /\ pool[p].status = "Open"
    /\ DeadlineReached(p)
    /\ \E outcome \in {ClosingOutcome(p)} :
          \/ ~ outcome.fires /\ AbortPool(p)
          \/ outcome.fires /\ CapturePool(p, outcome)
    /\ UNCHANGED now

-----------------------------------------------------------------------------
(* The environment: the ledger's clock, the users' wallets, the issuer      *)

Tick == /\ now < MaxTime
        /\ now' = now + 1
        /\ UNCHANGED <<registryVars, tokenVars>>

Wallet ==
    /\ \/ \E a \in Assets, u \in Users :
             \/ \E x \in Approvals : Approve(a, u, x)
             \/ \E x \in Holdings : MoveFunds(a, u, x)
       \/ \E f \in Freezable : ToggleTrustline(f[1], f[2])
    /\ UNCHANGED <<now, registryVars>>

-----------------------------------------------------------------------------

Init ==
    /\ now = 0
    /\ mandate = [m \in {} |-> 0]
    /\ pool = [p \in {} |-> 0]
    /\ statement = [m \in {} |-> << >>]
    /\ balance = [a \in Assets |->
                     [x \in Accounts |-> IF x \in Users THEN InitialHolding ELSE 0]]
    /\ allowance = [a \in Assets |-> [u \in Users |-> 0]]
    /\ frozen = {}

Next ==
    \/ \E m \in Mandates : \E t \in Offers[m] : RegisterMandate(m, t)
    \/ \E m \in Mandates : RevokeMandate(m)
    \/ \E m \in Mandates, amount \in PayAmounts, s \in ExpectedSeqs :
          ExecutePayment(m, amount, s)
    \/ \E p \in Pools : RegisterPool(p)
    \/ \E m \in Mandates : CommitChild(m)
    \/ \E p \in Pools, m \in Mandates : EvictChild(p, m)
    \/ \E p \in Pools : ClearPool(p)
    \/ Tick
    \/ Wallet

\* Safety only.
Spec == Init /\ [][Next]_vars

\* Ledger time advances and, clearing being permissionless, somebody closes a
\* pool whose capture window is past.  Nobody is obliged to call any earlier.
Fairness ==
    /\ WF_vars(Tick)
    /\ \A p \in Pools : WF_vars(p \in DOMAIN pool /\ now > WindowEnd(p) /\ ClearPool(p))

FairSpec == Spec /\ Fairness

-----------------------------------------------------------------------------
(* Safety                                                                  *)

\* The contract's storage and the statements have their types.
TypeOK ==
    /\ now \in Nat
    /\ mandate \in [DOMAIN mandate -> Mandate]
    /\ DOMAIN mandate \subseteq Mandates
    /\ pool \in [DOMAIN pool -> ClearingPool]
    /\ DOMAIN pool \subseteq Pools
    /\ statement \in [DOMAIN mandate -> Seq(Entry)]

\* What a mandate's storage says is spent is exactly what the token moved for
\* it, and never more than the user signed for: budget and transfer change
\* together on both money paths, or not at all (payment.rs, pool.rs).
SpentIsTransferred ==
    \A m \in DOMAIN mandate :
        /\ mandate[m].spent = Paid(m)
        /\ mandate[m].spent <= mandate[m].terms.max_amount

\* Merchants hold exactly what the mandates naming them record as spent: no
\* leg is lost, doubled or sent to another account (tests call this
\* property_spent_equals_transferred).
MerchantsReceiveSpent ==
    \A a \in Assets, v \in Merchants :
        balance[a][v] = MapThenSumSet(
            LAMBDA m : mandate[m].spent,
            {m \in DOMAIN mandate : /\ mandate[m].terms.asset = a
                                    /\ mandate[m].terms.merchant = v})

\* A sequence number authorizes at most one transfer, in order and without a
\* gap, whatever duplicated or stale transactions reach the contract and
\* whichever of the two money paths consumed it.
SequenceConsumedOnce ==
    \A m \in DOMAIN mandate :
        /\ mandate[m].seq = Len(statement[m])
        /\ \A i \in DOMAIN statement[m] : statement[m][i].seq = i - 1

\* Money only ever reaches the merchant, in the asset, that the user signed:
\* clear_pool pays the pool's merchant, which registration tied to the mandate's.
PaysSignedPayee ==
    \A m \in DOMAIN mandate : \A i \in DOMAIN statement[m] :
        /\ statement[m][i].merchant = mandate[m].terms.merchant
        /\ statement[m][i].asset = mandate[m].terms.asset

\* A pool and its mandates agree on who is committed: the live count and the
\* member list are the Committed mandates of an open pool, and no mandate is
\* left Committed to a pool that is closed, where nothing could release it.
MembershipAgrees ==
    /\ \A p \in DOMAIN pool :
          pool[p].status = "Open" =>
              /\ pool[p].members = {m \in DOMAIN mandate :
                                       /\ PoolOf(m) = p
                                       /\ mandate[m].pool_state = "Committed"}
              /\ pool[p].member_count = Cardinality(pool[p].members)
              /\ pool[p].member_count <= MaxPoolMembers
    /\ \A m \in DOMAIN mandate :
          mandate[m].pool_state = "Committed" =>
              PoolOf(m) \in DOMAIN pool /\ pool[PoolOf(m)].status = "Open"

\* A committed member is active, unspent as far as its worst case goes, and
\* outlives the capture window; its user has no second member in the pool, so
\* that one allowance is never counted twice.
CommittedIsSound ==
    \A p \in DOMAIN pool : pool[p].status = "Open" => \A m \in Committed(p) :
        /\ mandate[m].status = "Active"
        /\ mandate[m].terms.max_amount - mandate[m].spent >= WorstCase(Schedule(m))
        /\ mandate[m].terms.expiry > WindowEnd(p)
        /\ \A x \in Committed(p) :
              mandate[x].terms.user = mandate[m].terms.user => x = m

\* If the pool fires now then every leg goes through: within its mandate's
\* budget (the branch pool.rs calls unreachable) and accepted by the token, as
\* long as the merchant's own trustline is good.  No member can veto a capture.
NoMemberVeto ==
    \A p \in DOMAIN pool :
        LET outcome == SimulateClear(p)
            t       == PoolTerms[p]
            leg     == [m \in DOMAIN outcome.allocations |->
                           outcome.clearing_price * outcome.allocations[m]]
        IN  /\ pool[p].status = "Open"
            /\ now >= Deadline(p)
            /\ outcome.fires
            /\ Authorized(t.asset, t.merchant)
            => /\ \A m \in DOMAIN leg :
                     /\ mandate[m].spent + leg[m] <= mandate[m].terms.max_amount
                     /\ leg[m] <= WorstCase(Schedule(m))
               /\ CanTransferAll(t.asset, [m \in DOMAIN leg |-> mandate[m].terms.user],
                                 t.merchant, leg)

CapturedBy(p) == {m \in DOMAIN mandate : /\ PoolOf(m) = p
                                         /\ mandate[m].pool_state = "Captured"}

LastAmount(m) == statement[m][Len(statement[m])].amount

\* Every captured member of a pool paid one uniform price times its own
\* demand at that price, the order met the vendor's two floors, and only a
\* cleared pool captures: the fired set settles all or nothing.
UniformPriceCapture ==
    \A p \in DOMAIN pool :
        /\ CapturedBy(p) # {} => pool[p].status = "Cleared"
        /\ pool[p].status = "Cleared" =>
              /\ \E price \in 1 .. MaxUnitPrice :
                    /\ \A m \in CapturedBy(p) :
                          LastAmount(m) = price * Demand(Schedule(m), price)
                    /\ MapThenSumSet(LAMBDA m : Demand(Schedule(m), price), CapturedBy(p))
                          >= PoolTerms[p].threshold_qty
              /\ MapThenSumSet(LastAmount, CapturedBy(p)) >= PoolTerms[p].threshold_value

-----------------------------------------------------------------------------
(* What a step may never do                                                *)

\* Clearing leaves nothing to choose: in the ledger where a pool closes, the
\* members charged, at what price, are those simulate_clear reported.
ClosingStep ==
    \A p \in DOMAIN pool : pool[p].status = "Open" /\ pool'[p].status # "Open" =>
        LET outcome == SimulateClear(p) IN
        /\ outcome.fires <=> pool'[p].status = "Cleared"
        /\ \A m \in pool[p].members :
              statement'[m] # statement[m] <=> m \in DOMAIN outcome.allocations
        /\ \A m \in DOMAIN outcome.allocations :
              Len(statement'[m]) = Len(statement[m]) + 1 /\
              statement'[m][Len(statement'[m])].amount =
                  outcome.clearing_price * outcome.allocations[m]

SimulateIsCapture == [][ClosingStep]_vars

\* A commitment is kept until its pool closes at or after the deadline: before
\* that a member leaves only by its user's revocation or because it could no
\* longer pay.  While committed it cannot be spent solo, and once released or
\* captured it never joins again.
CommitmentStep ==
    \A m \in DOMAIN mandate :
        /\ mandate[m].pool_state = "Committed" =>
              /\ mandate'[m].pool_state = "Committed" => statement'[m] = statement[m]
              /\ mandate'[m].pool_state # "Committed" =>
                    \/ mandate'[m].status = "Revoked"
                    \/ now >= Deadline(PoolOf(m))
                    \/ ~ Eligible(PoolOf(m), m)
        /\ mandate[m].pool_state \in {"Released", "Captured"} =>
              mandate'[m].pool_state = mandate[m].pool_state

CommitmentKept == [][CommitmentStep]_vars

-----------------------------------------------------------------------------
(* Liveness                                                                *)

Locked(m) == m \in DOMAIN mandate /\ mandate[m].pool_state = "Committed"

\* No mandate stays locked in a pool for ever, whatever wallets and issuers do
\* to the transfers: past the window the pool can only abort.
MembersAreFreed == \A m \in Mandates : Locked(m) ~> ~ Locked(m)

-----------------------------------------------------------------------------
(* The abstract specification this contract implements                     *)

Authority == INSTANCE SpendingAuthority WITH
    Mandates  <- Mandates,
    Limits    <- {t.max_amount : t \in UNION {Offers[m] : m \in Mandates}},
    Instants  <- {t.expiry : t \in UNION {Offers[m] : m \in Mandates}},
    clock     <- now,
    grant     <- [m \in DOMAIN mandate |-> [limit  |-> mandate[m].terms.max_amount,
                                            expiry |-> mandate[m].terms.expiry]],
    paid      <- [m \in DOMAIN mandate |-> Paid(m)],
    withdrawn <- {m \in DOMAIN mandate : mandate[m].status = "Revoked"}

\* The money the token moves for a mandate, on either path, obeys the user's
\* signature: within the limit, before the expiry, never after withdrawal.
ImplementsAuthority == Authority!Spec
=============================================================================
