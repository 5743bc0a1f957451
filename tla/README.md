# A verification project for the REAPP protocol

REAPP lets an AI agent pay a merchant out of a budget its user signed. Four
programs share the work: a Soroban contract that holds the rules
(`contracts/mandate-registry`), the merchant's HTTP side that delivers work for
a payment once (`packages/express-middleware`, `apps/fulfillment-agent`), the
client that pays (`packages/sdk`, `packages/cli`) and the consumer agent that
buys with it (`apps/consumer-agent`). This directory holds TLA+ models of their
state machines, the TLC runs that check them on small instances, and theorems
about every one of them that TLAPS checks for all instances.

`PROJECT.json` lists the components, the runs, the hazards with the properties
that cover them, the definition-by-definition map to the source, and for every
property a mutant: a plausible bug of the code under which the property fails.

## 1. The system

### Components, their state and operations

| Component | State | Operations | Talks to |
|---|---|---|---|
| Contract, mandates (`registry.rs`, `payment.rs`) | mandates: terms, spent, seq, status, pool_state | register, revoke, validate, execute_payment | token (transfer_from), pool |
| Contract, pools (`pool.rs`) | pools: terms, status, member list, member_count | register_pool, commit_child, evict_child, clear_pool, simulate_clear | mandates, token |
| Clearing (`clearing.rs`) | none; an algorithm over member schedules | clear | called by clear_pool and simulate_clear |
| Token (SEP-41, external) | balances, allowances, trustline flags | approve, transfer_from, authorized | users, issuer, contract |
| Paid route (`bound.ts`, `bound-route.ts`) | the local state of each HTTP handler | challenge, verify a proof, fulfil, replay | redemption store, chain RPC |
| Payment verification (`verification.ts`) | none; it reads the chain through an RPC | verify | both gates, chain RPC |
| Legacy gate (`middleware.ts`, `proof-store.ts`) | a set of redeemed keys | challenge, verify, consume once | verification |
| Redemption store (`redemption-store.ts`, `server.ts`) | one JSON file: transaction -> proof, answer | lookup, claim, complete, listExecuting, sweep | the paid route |
| CLI journal (`settlement-store.ts`, `pay.ts`, `demo.ts`, `reconcile.ts`) | one directory and its state.json | pay, demo, reconcile, acknowledge | SDK, chain RPC |
| SDK agent (`sdk/src/index.ts`) | pending settlement, claim map, receipt store | pay, fetch, retryDelivery, reconcile, acknowledge | contract, merchant |
| Consumer agent (`research-agent.ts`, `outcome-store.ts`, `receipt-store.ts`) | purchase outcomes, pending receipts | buyResearch, resume, acknowledge | SDK agent |
| AP2 (`packages/ap2`) | a consume-once set supplied by the caller | bind, sign, validate and consume credentials | SDK |

Contract calls are transactions: all of one happens or none of it. Everything
else interleaves between awaits and system calls and may die in between.

### What is hard, and what makes each component correct

- **Contract.** Two money paths (a solo payment and a pool's capture) consume one
  budget and one sequence; the pool's view of its members is spread over three
  records; allowances, balances and trustlines change under a committed member;
  anybody may close, evict or commit at any time. Correct means that what is
  spent is what moved, each sequence number pays once, payees are the signed
  ones, membership records agree, a member neither loses its slot nor vetoes the
  capture, a capture happens only in its window and is what `simulate_clear`
  shows, and members are freed in the end.
- **Clearing.** A search for the least price at which the vendor's floors hold:
  sorting, merging, scanning, bisecting, with fees floored per leg. Correct means
  the least price, whatever the commit order.
- **Paid route.** Concurrent presentations of one proof or of two proofs of one
  transaction; store errors after the rename; crashes during paid work; a clock
  read several awaits before it is used. Correct means work at most once, one
  answer for ever, shown only to its payer, and somebody answers in the end.
- **The two sides of a 402.** Agent and route compute challenge, price and proof in
  different code, and each compares what the other built; the verifier infers a
  payment from events that other contracts emit too, through an RPC that lags.
  Correct means that work is done only for money that arrived for it, and that
  what an agent agreed to pay for is never answered "pay first".
- **Legacy gate and AP2 validator.** Each checks, awaits, and consumes a key;
  nothing else stands between two requests with one payment, at one route or two.
  Correct means one admission per payment and per mandate, only for what was paid
  or signed, and nobody honest turned away for good.
- **SDK agent.** Its calls run from await to await beside each other; two agents
  of one mandate share a claim in memory and a receipt store on disk, each of
  which protects where the other does not: the claim before the receipt is
  written, the receipt after a crash. Correct means that nothing is sent without
  a receipt, no possible payment is forgotten, none is made twice, and the
  mandate can be paid from again in the end.
- **Consumer agent.** Every call makes an agent of its own, whose claim of the
  mandate outlives it; the outcome file and the receipt file are written one after
  the other, and either write may fail after its rename. Correct means that no
  source is bought twice, what was paid for can be recovered, a stored outcome is
  what happened, and no receipt stays pending for ever.
- **CLI journal.** Processes race a directory, are killed between any two system
  calls, and cannot tell a slow transaction from a dead one. Correct means at
  most one payment unresolved, none forgotten, and the lock freed in the end.

## 2. Modules

| Module | Role |
|---|---|
| `Clearing` | price schedules, worst case, fee, and what `clear` computes, in one expression |
| `ClearingScan`, `MCClearingScan` | `clear` as its loops run, against `Clearing` |
| `Token` | the external token: ledger, allowances, trustlines |
| `MandateRegistry`, `MCMandateRegistry` | the contract over `Token` and `Clearing` |
| `SpendingAuthority` | abstract: what a user is promised |
| `ClearingProofs` | theorems about sums, `Clear`, and that the loops compute it |
| `MandateRegistryProofs` | theorems about the contract's money paths and pools, and that it implements `SpendingAuthority` |
| `Crypto` | hash, MAC and signature as what they are computed from |
| `Amounts` | decimal texts and stroops: `toStroops`, `formatStroops` |
| `X402` | challenge, checks before payment, proof, checks of the proof |
| `Verification` | what a transaction does, what its events show, the verifier's verdict |
| `VerificationProofs` | what the events of a transaction prove |
| `BoundDelivery`, `MCBoundDelivery` | the merchant: middleware, route, store, restart |
| `PaidDelivery` | abstract: at-most-once delivery for a payment |
| `BoundDeliveryProofs` | the route's safety, and that it implements `PaidDelivery` |
| `Ap2` | the AP2 profile: binding, credential, validation |
| `Admission`, `MCAdmission` | the legacy payment gate and the AP2 gate |
| `AdmissionProofs` | theorems about both gates and what a credential proves |
| `PaymentAgent`, `MCPaymentAgent` | the SDK's agents: fetch, retry, acknowledge, reconcile |
| `PaymentAgentProofs` | theorems about the agents' payments |
| `ConsumerPurchase`, `MCConsumerPurchase` | the consumer agent: buyResearch and its recovery |
| `ConsumerPurchaseProofs` | theorems about purchases and the two files |
| `CliSettlement`, `MCCliSettlement` | the CLI's commands over the settlement journal |
| `CliSettlementProofs` | theorems about the journal |

`MandateRegistry` EXTENDS `Token` and `Clearing` and instantiates
`SpendingAuthority` with a refinement mapping; `BoundDelivery` EXTENDS `X402` and
`Verification`, which compute on values, and instantiates `PaidDelivery`;
`Admission` EXTENDS these two and `Ap2`. `MandateRegistryProofs` EXTENDS
`ClearingProofs` for what it says of `Clear`, and with it `ClearingScan`, whose
variables occur in nothing the registry's theorems state. A definition marked "Faulty:" is the
mutated form of the one
after it and is used by nothing.

### How models and code correspond

**MandateRegistry.** One action per contract function, with its checks as
conjuncts in the code's order; a call that returns an error changes nothing and
is the action being disabled. `mandate`, `pool` are the persistent storage;
`statement[m]` is a history of the transfers made for `m`, what the events
`payment` and `pool_clr` publish. Registered terms do not change, so a mandate is
its terms plus what does. `Tick` is the ledger's clock, `Wallet` whatever users
and the issuer do to allowances, balances and trustlines between transactions.
The member list is a set: every operation on it but the sort of `clear` treats
it as one (the sort is `ClearingScan`'s business), and `member_count` is kept
beside it because the code does. The hash in the pool id makes it commit to the
terms, so that a pool's id determines `PoolTerms[p]`. Amounts are integers
within the caps the code enforces; with them no sum reaches 2^127
(`max_pool_value`), so no width is modelled. The capture window, the member limit
and the caps are constants given small values.

**ClearingScan.** One action per turn of a loop: a member inserted into the sorted
list, a price point merged into the breakpoints, a breakpoint tried, the search
interval narrowed, a member allotted its quantity; and one for the end of each
loop. Mandate ids are numbers, which are ordered as the ids' bytes are. `i128`
arithmetic as above.

**BoundDelivery.** A handler runs from one `await` to the next in one step. The
store's operations are serialized per path in the process and each is a step
that may fail before or after its rename, `Written`. A proof is a record of
`X402`, built by its operators as an agent builds it, and the route's checks are
`X402`'s and `Verification`'s, applied to it; which proofs and transactions there
are is a constant of the instance, genuine ones and forged. The
execution id of a claim is not a field: a transaction is claimed once, so the id
stands for the claim. `Crash` keeps the file and loses the handlers; `Start`,
`ResolveOne` and `Listen` are the standalone server's start-up. The verifier takes
the chain's last ledger from its RPC, which may be behind by `RpcLag`: a payment is
refused as too old that many ledgers late at most, and `FreshWhenBound` says so.

**Crypto, X402, Verification, Ap2.** Operators on values, one per function of the
code. A hash, MAC or signature is a record of what it was computed from: it can be
built only by who has the key and compared only as a whole. Base64, JSON, XDR and
the formats of addresses are left out; the canonical order of fields is that of a
record. An amount is the number a decimal text shows and the digits it shows it
with, and `ToStroops` is what both sides make of it. `Chain[t]` is what
transaction `t` did, `Events(t)` what it emitted, and the verifier reads only the
latter.

**Admission.** A handler of the legacy middleware, or a call of the AP2 validator,
runs from one await to the next: `Arrive` (all checks up to the first await),
`Verify`, `Consume`. `consumed` is the redemption store and the replay store
together, their keys being distinct. A store operation may fail with or without
having consumed. `admitted` counts what was let through.

**ConsumerPurchase.** `call[c]` is a pending call of the application: a walk of
`buyResearch` over its sources, a resumption, an acknowledgment or a
reconciliation, each with an agent of its own, so `claim` names the call that has
the mandate's entry in the process-wide map, or is `Lost` once that call has
returned without releasing it. `outcomes` and `receipts` are the two files, whose
operations queue and may fail before or after the rename. `Accept` is the
application: it completes the purchase with the executionId it looks up.
`PaymentAgent` is about agents that live on and overlap; this module is about
what is left behind by agents that do not.

**PaymentAgent.** `call[c]` is a pending call of a method of `Agent`; its `pc`
names the await it is at, or for `fetch` the phase: `fetch`/`fetchHydrate` (the
store is listed, the answer acted on), `request` (the 402), `pay`/`payHydrate`,
`read`, `sign`, `save`, `send`, `await`, `deliver`, and `forget` or `resave` where
the code cleans up or repairs. An agent's `paymentClaimKey` is set exactly while
the map names that agent, so both are `claim`. Listing and acting on the list are
two steps, because the list may be stale by then; a write to the store and the
resumption of its caller are one. A call that throws before changing anything is
an action that is not enabled. `delivered` and `committed` are the application:
which response it holds, and which result it made durable before acknowledging.
`reconcilePendingSettlement(record)` is `Restore`, which sets the settlement even
when the claim is then refused. `Overlaps` says which applications are considered,
and the variable `overlap`, which never changes, whether this one makes a call on
an agent before the previous one on it has returned.

**CliSettlement.** A command is a process; a step is one system call or one
exchange with the chain. `dir`, `state`, `tmps` are the journal's directory,
its `state.json` and the temporary files in it. `OpenTmp`, `RenameTmp` and
`SyncState` are `writeState`, which may fail at each. `rm -r` and the load of
the journal are one step each. `Land` applies the contract's sequence check;
`Reject` is any other rule of it. A demo pays source after source for a mandate it
has registered itself and acknowledges each success itself (`Accept`); how it
finds that the budget is exhausted is any other end of a payment. `Overlap` says
which commands may be alive together, `Intended` which the lock is made for.

## 3. Runs

| Run | Instance | Question |
|---|---|---|
| `registry_pool` | 3 pooled mandates, 2 users, pool of 2, time 0..3 | do membership, price and settlement hold while funds move under the pool? |
| `registry_mixed` | 2 mandates, each paying solo, pooled, or one after the other; 2 users or 1 shared allowance; time 0..3 | do budgets and sequences hold under stale, repeated, failing payments? does the contract implement `SpendingAuthority`? are members freed although a frozen merchant makes every capture revert? |
| `clearing_scan` | 3 members in all orders, 3 sets of curves, 2 fees | do the loops compute `Clear`, the least price? |
| `delivery_safe` | 2 handlers, 5 proofs of 2 transactions, store errors for one of them, RPC behind by one, 2 crashes, time 1..3 | is work done once, for money that arrived, and one answer shown? is a buyer the agent's checks let pay ever told to pay first? does it implement `PaidDelivery`? |
| `delivery_live` | 2 handlers, 2 transactions, 2 crashes, store errors for one of them | is every claim answered, if not by its owner then after a restart? |
| `admission` | 2 requests, 8 payments at 2 routes, 5 mandates, RPC behind by one, store errors | is each payment and mandate admitted once, only if paid or signed, and nobody honest refused? |
| `agent_safe` | 2 agents, 2 calls, 2 transactions, calls overlapping at will or awaited | is one payment unresolved at most, none forgotten, one payer at work? and however calls overlap, is nothing sent without its receipt? |
| `agent_live` | 2 agents, 1 call, 1 transaction | does the mandate get free again? |
| `purchase` | 2 calls, 2 sources, 2 transactions, restarts at any time | is nothing bought twice, forgotten or misreported? is every receipt resolved? |
| `purchase_resume` | 1 call | violation, see section 5 |
| `cli_safe` | 3 processes, 3 transactions | is one payment unresolved at most, and none forgotten? |
| `cli_live` | 1 process, 2 transactions | is every lock freed? |

**Bounds.** `MaxTime` covers registration, the deadline, the last instant of the
window and the first after it; expiries fall before, in and after the window
(registration must refuse the former). Two users with three mandates are the
least with a double commitment of one user and a full pool that turns one away.
Offers include terms registration must refuse. Curves are chosen so that the
price falls strictly inside an interval, a member is priced out, and one firing
needs both. Two handlers and two valid proofs of one transaction are every race
between lookup and claim; beside them there are a proof signed by somebody else,
one made of a challenge for another resource, and a payment out of a mandate in
another asset, each of which fails exactly one of the route's checks. For
liveness both transactions are good, since a sweep resolves the records one by
one and stops at the first that fails. Two crashes include one during the sweep
that follows another. The proof's window is 2 ledgers; the payment's is the one it settled in,
and one more for a reader that is one behind, so that each runs out first in some
behaviour and the payment is bound in the last ledger it can be. For the gates, every way of paying wrongly that
the selection distinguishes has its transaction (another registry, a failed one,
two payments in one, another asset, a pool's capture), and every way of altering
a credential its item; one payment is presented at two routes, one mandate for
two purchases. Of the
transactions only the good one settles during the run, the others have at its
start. Two agents are the least with a claim held by the wrong one, two calls every race
between two awaits, two transactions a payment and the one that must not follow;
for liveness one will do, since no second is sent before the first is resolved.
Two sources are the least with one after a pending delivery, and two calls a
recovery beside a walk.
Three processes and transactions are a live payment, another
that fails to take the lock, and one that follows.

**Deadlock** is checked everywhere except in `clearing_scan`, an algorithm that
ends. **Symmetry** is used in safety runs only.

**Fairness.** Contract: time passes, and somebody calls the permissionless
`clear_pool` once its window is past; nobody is obliged to close it earlier, nor
to unfreeze anything. Merchant: awaited calls return (every one has a result or
an error), a supervisor restarts the server, and a sweep retried for ever does
not fail for ever (strong fairness on a successful `ResolveOne`); clients, chain
and crashes owe nothing. SDK: pending calls go
on, and the application reconciles, retries delivery and acknowledges again and
again, on an agent that has or may have the claim, while the store, the RPC, the
merchant and the process do not fail every single time (strong fairness on the
successful steps); nobody is obliged to fetch. Consumer: pending calls go on, the
application resumes, accepts, acknowledges and reconciles pending receipts again
and again, and not for ever in vain (strong fairness on the steps that succeed);
and somebody restarts the process when the claim is lost, without which, section
5, nothing would be resolved. CLI: processes run, somebody keeps reconciling and
acknowledging within the RPC's history, and not every such attempt is killed or
meets an error (strong fairness per step of these commands); a sent transaction
is closed into a ledger or passes its validity.

## 4. Proofs

Every theorem holds for all values of the constants that satisfy the modules'
assumptions, which TLC evaluates in the runs: any number of mandates, users,
pools, handlers, agents, calls, processes, transactions, crashes and store errors.
Of the 40 properties of the runs, 34 are theorems. Each rests on an inductive
invariant that TLC checked on the instances of the runs first.

**Operators.** The library's sums and flattenings are recursive functions under a
CHOOSE. `ClearingProofs` begins by showing that such a function exists and
is unique (`SumsExist`, `SumsUnique`), by a least subset for which it would fail,
and derives from that how a sum splits, adds and grows. On this rest four theorems
on `Clear`, for every schedule that registration accepts: `LegWithinWorstCase` (what
a member is charged is within the worst case it was accepted with, so that the check
`clear_pool` calls unreachable is), `ClearOutcome`, `ClearMeetsFloors` (both floors hold at the price charged, not only
at the breakpoint tested) and `ClearIsMinimal` (no price below it would do, of all
prices). The last supposes that not both floors are zero, as `register_pool`
demands; its lemma `OrderBetween` is what the binary search relies on: between two
breakpoints the net value never falls with the price although every leg's fee is rounded.
`VerificationProofs` does the same for `FlattenSeq`: `ShownIsPaid` and
`PaymentIsShown` say that a payment inferred from events was made, and that one
made is inferred.

**Clearing's loops** (`ClearingProofs`). A loop over a list needs no induction over
data when each of its turns is a step: what it has done so far is an invariant.
`ScanInv` has one part per loop. The sorted list consists of the eligible views
passed so far, in the order of their ids (`Gathered`); the breakpoints ascend and are
the prices met so far (`Collected`); no breakpoint scanned so far fires (`Passed`);
no price of the interval under search that was excluded so far meets the value floor,
and its upper end does (`Searched`); the outcome sums what the members served so far
owe (`Shared`). Two facts carry it. A sum over the
list is the sum over the set of members, whatever their order (`TotalMoves`,
`SameOrder`). And within an interval no member's demand changes, so that a search
which tests the value only, as the code's does, finds the least price that meets both
floors (`OrderBetween`; the header of `clearing.rs` argues from every leg's net
rising "by 0 or 1 per unit price step", of which only that it does not fall is true
for a quantity above one, and only that is needed).
`LoopsComputeClear` is that the result is `Clear`'s, allocations in the order of ids
and totals included; with `ClearIsMinimal`, `LoopsFindLeastPrice` that it is the least
of all prices. `LoopsRunOut` is the part of `Terminates` that is safety: every step
leaves a loop for a later one or has fewer turns left than the one before, the search
at most half as many.

**Contract** (`MandateRegistryProofs`). `IInv` adds to
the types that spent, seq and statement of a mandate agree (`Account`) and that a
pooled mandate's merchant, asset and schedule fit its pool (`PoolLinked`): a
capture pays the pool's merchant out of mandates found in the member list, so that
paying the signed payee rests on what registration compared long before.
`TypeCorrect`, `BudgetIsTransferred`, `SequenceOnce` and `SignedPayee` follow.
`PoolInv` adds `MembershipAgrees`, `CommittedIsSound` and that a pooled mandate
outlives the window even before it commits, which makes joining sound; from it
`PoolsAgree`, `CommitmentsAreSound`, `CommitmentsAreKept`, `SimulationIsExact`,
`NobodyVetoes` and, step by step under the mapping, `RegistryIsAuthority`.
`MoneyInv` says what each merchant holds as a sum (`SpentReachesMerchants`),
`SettledInv` that the last entry of a captured mandate is the capture's and stays so
(`CaptureIsUniform`, by `ClearMeetsFloors`).

**Paid route** (`BoundDeliveryProofs`). `HandlerOK` says, for each await, what the
handler read before it and still relies on: that its proof passed the checks at the
time it captured, what it verified, what it found stored, whether it owns the
record. With `Books` (a record is open or answered for a settled payment; work is
begun only with a record) it carries `WorkIsDoneOnce`, `WorkIsForMoney`,
`AnswersAreStored`, `OwnersExclude`, `PayersAreHonoured` and `BindingIsFresh` (for
every `RpcLag`: the code does not bound how far its RPC is behind, and the theorem
says by how much the freshness window then stretches); and
`RouteIsDelivery`, that every step maps to one of `PaidDelivery` or a stutter.
`ClaimsAreAnswerable` is the part of `ClaimIsAnswered` that is safety: an execution
left open has its handler, the sweep under way or the one every server makes before
it listens, unless the server that runs met a store error for it. Two theorems have
no steps: `ValidIsGenuine` (what the route's checks pass, the payer's
agent made for this request) and `BoughtIsValid` (what an agent's checks let it pay
for, the route's checks accept).

**Gates** (`AdmissionProofs`). `RequestOK` says what the checks behind a request
have established, `Books` that the consumed keys are those of what was admitted or
of what a failing store consumed: `OneAdmission`, `PaymentsArePaid`,
`HonestAreAdmitted`, `AdmittedWereSigned`. `AcceptedIsSigned` and
`SignedIsAccepted` are about the checks themselves.

**SDK agent** (`PaymentAgentProofs`). Two layers. What a call knows of its own
transaction (`CallOK`) and that a transaction being sent, saved or forgotten is one
call's (`Owners`) hold however calls overlap, and give `ReceiptsPrecede`. `Strict`
holds for applications that await each call on an agent: the payer has the claim
from before it looks for a pending receipt and finds nothing unresolved until it
sends. It gives `PaymentsAreKept`, `OnePayment` and `OnePayer`, whose properties are
conditional on `overlap`, which section 5 shows necessary.

**Consumer** (`ConsumerPurchaseProofs`). The SDK's claim takes no part. A call that
may still pay for a source is the one its open record names, and nothing was signed
for that source before (`CallOK`); one transaction per source (`Purchases`); and the
files say what became of the payments (`Files`): `NothingBoughtTwice`,
`PaymentsAreRecoverable`, `OutcomesAreTrue`.

**CLI** (`CliSettlementProofs`). Nothing in the journal says whose it is, so
`ProcessOK` says what the journal holds at each point of each command: a payment's
from `mkdir` to `rm`; what a reconciliation read, or gone; the success that an
acknowledgment removes. `PaymentsAreRemembered` and `PaymentsTakeTurns` are stated
under `Overlap \subseteq Intended`; section 5 says what happens beyond it. So is
`LocksAreResolvable`, the safety part of `LockIsFreed`: whatever journal a killed or
failed command leaves is an empty claim that stands for no payment, the record of a
transaction that was signed, or that of a success to acknowledge, and no other payment
is unresolved; `reconcile` or `acknowledge` accepts each.

**Assumptions.** Besides ranges and distinctness of constants: an instance's chain
consists of calls (`ChainAssumption`); its proofs, challenges and credentials are
what parsing lets through (`ProofAssumption`, `SignatureAssumption`); a signature
that verifies for a user was made by that user of terms it did sign
(`SignatureAssumption`), as signatures and hashes are values that only their inputs
yield (`Crypto`); amounts paid on the chain are positive (`PaymentAssumption`), as
`execute_payment` demands.

**Only model-checked.** Liveness: `MembersAreFreed`, `ClaimIsAnswered`, `Unblocked`,
`ReceiptsResolve`, `LockIsFreed`, `Terminates`; fairness and ENABLED are beyond the
prover. Of three of them the part that is safety is proved, as said above.
`Resumable` is the property that fails (section 5).

## 5. Where documentation and code disagree

- `purchase_resume` / `Resumable`: the consumer agent's README says of a delivery
  that is pending to "reconcile the captured hash when needed, and use
  `resumePendingDelivery` or `agent.retryDelivery(receipt)`". The agent that
  `buyResearch` made keeps the process-wide claim of the mandate while settlement
  or delivery is pending, and is gone when `buyResearch` returns;
  `resumePendingDelivery` and a reconciliation make agents of their own, which
  find the claim taken and throw. No call of the application can release it. The
  recovery works after a restart of the process, which `ReceiptsResolve` assumes.

Two more that the models reach when an application goes beyond what `agent_safe`
and `cli_safe` allow; no run keeps them.

- With `overlap` dropped from `ExclusivePayer` or `NoneForgotten`, `agent_safe`
  violates them. The SDK's README says that concurrent
  same-mandate operations of one process are rejected by the claim before the
  first chain read. `reconcilePendingSettlement` on the agent that is paying is
  not rejected, and as long as the payment has not signed it finds nothing
  pending and releases the claim under it; another payment enters. And a
  reconciliation begun while the receipt is being saved does not know it has one
  and clears the settlement when it hears of the success; if the payment's own
  wait then fails, reporting so needs the missing settlement (`index.ts:417`),
  throws a `TypeError`, and `fetch` clears the receipt of a payment that was made.
  `SentDurably` holds even then.
- With `<<"reconcile", "pay">>` in `Intended`, `cli_safe` violates `OneAtATime`. The
  CLI's README says that of concurrent processes "only one can submit". A
  `reconcile` that runs between a payment's `mkdir` and its record takes the
  journal for an interrupted claim and removes it without a hash; the second load
  inside `clearPendingSettlement` finds the live payment's record by then and
  removes that too. A second payment is submitted while the first is unresolved
  and no longer remembered. With `<<"acknowledge", "demo">>`, a human who
  acknowledges what the demo is acknowledging itself removes the journal of the
  demo's next payment: the load and the removal are two steps. `cli_safe` shows
  that nothing of the kind happens among payments, demos and one acknowledgment.

That a completion which cannot be stored leaves a claim executing is documented
by the middleware and is not counted as a disagreement; `ClaimIsAnswered` is
therefore stated in two parts, for a transaction whose store operations succeed
and, after a restart, for all. `bound-route.ts:64-66` lets an interrupted execution be
resolved only "after confirming the original execution owner is dead"; the
server resolves all of them as its first act (`server.ts:161`), before binding the
port could tell it that another server is alive. The model has one server at a
time, so this is a condition of its results and not one of them.

## 6. Not modelled

Storage TTL and archival (the host restores an entry unchanged); authorization
and reentrancy (the Soroban host's); the formats of XDR, JSON, base64 and
addresses (a value of another format is one that does not parse); HTTP headers
and their limits; the AP2 validator's error codes (any of them is one refusal);
a file system that loses a rename whose directory was not synced; files that
somebody else has damaged (every store refuses to read them); several processes
on one redemption, outcome or receipt file (each declares itself single-process
or asks for a linearizable store); setup, configuration, deployment and drill
scripts; the generated client. The contract's source has no pause, upgrade or
administrator, although the error table reserves a code.

A legacy proof is a transaction hash and nothing else: it is not bound to a
request, a resource or an agent, and whoever presents it first is admitted. Bound
proofs exist for this reason, and `AdmittedIsPaid` says no more than that.
`HonestIsAdmitted` speaks of a client whose mandate has the shop's decimals: the
agent compares decimals only for a bound challenge, so for a legacy one it pays
what the text means in its own.

## 7. Plan

1. Done: the contract with its token and clearing, first theorems; the paid
   route over the wire format and the verifier; the legacy and AP2 gates; the
   SDK's agent; the consumer agent; the CLI journal with its demo.
2. Done: every safety invariant and action property of the runs proved, both
   refinements, and that the loops of `clear` compute `Clear`.
3. Proofs left: the safety part of the other liveness properties, as `LoopsRunOut`,
   `ClaimsAreAnswerable` and `LocksAreResolvable` are of theirs: that an agent which
   has the claim has, or finds in the store, the settlement that releases it.
4. An abstract `OnePaymentAtATime` (a payment is made, resolved, and only then
   another) that `PaymentAgent`, `ConsumerPurchase` and `CliSettlement` are all shown
   to implement.
5. A composition of consumer and merchant: one payment yields one delivery end to
   end, in place of `Deliver`'s choice in `ConsumerPurchase`.
