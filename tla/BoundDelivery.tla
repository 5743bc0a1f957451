--------------------------- MODULE BoundDelivery ----------------------------
(***************************************************************************)
(* The merchant's bound-v2 paid route: the middleware of bound.ts, the     *)
(* JSON route of bound-route.ts and the durable redemption store of the    *)
(* fulfillment agent, with the sweep of interrupted executions its server  *)
(* makes before it listens.                                                *)
(*                                                                         *)
(* A handler runs from one await to the next in a step; requests           *)
(* interleave in between.  The store's operations run one after another    *)
(* (its per-path queue), so each is one step.  Its write may fail before   *)
(* the rename, changing nothing, or after it, in chmod or the directory    *)
(* sync: the record is then in the file although the caller gets an error. *)
(* A crash loses every request in flight and keeps the file.               *)
(*                                                                         *)
(* A proof is a value of X402, a transaction is what Verification says it  *)
(* does on the chain, and the route checks both with their operators.      *)
(* `now' measures the merchant's clock and the ledger alike; the RPC that  *)
(* the merchant reads the chain through may be behind it by RpcLag.        *)
(* A definition marked "Faulty:" is a plausible bug in the one after it;   *)
(* nothing uses it but the check that a property would notice the bug.     *)
(***************************************************************************)
EXTENDS X402, Verification

CONSTANTS
    Requests,     \* HTTP requests that may be in flight together
    Txs,          \* settlement transactions
    Site,         \* the route's configuration
    Net,          \* the registry and passphrase clients are configured for
    Target,       \* the request clients make of it
    Proofs,       \* proofs a client may present
    Proof,        \* Proof[p]: a BoundPaymentProofV2
    Results,      \* bodies the fulfillment callback may produce
    Terminal,     \* terminalFailure()
    StoreFaults,  \* transactions whose store operations may fail
    MaxTime,      \* bound on the clock
    MaxCrashes    \* bound on crashes

VARIABLES
    now,
    settled,   \* settled[t]: when t settled on-chain, or Nothing
    records,   \* the redemption file; its domain is the redemption keys stored
    up,        \* whether the server is listening
    sweeping,  \* whether a process is resolving interrupted executions
    sweep,     \* transactions it still has to resolve
    request,   \* request[r]: a handler's local state
    begun,     \* history: how often fulfillment was begun per transaction
    shown,     \* history: <<proof, answer>> pairs sent with status 2xx
    crashes    \* number of crashes so far

serverVars  == <<up, sweeping, sweep, crashes>>
historyVars == <<begun, shown>>
vars == <<now, settled, records, serverVars, request, historyVars>>

\* A response without a body to keep: 402, pay (again); 409, this payment bought
\* something else; 503, come again with the same proof.
PayFirst    == "402"
Conflict    == "409"
Unavailable == "503"
Refusals    == {PayFirst, Conflict, Unavailable}

ASSUME DeliveryAssumption ==
    /\ Terminal \notin Results
    /\ Nothing \notin Proofs \cup Results \cup {Terminal}
    /\ Refusals \cap (Results \cup {Terminal, Nothing}) = {}
    /\ \A p \in Proofs : Proof[p].tx \in Txs
    /\ Target.method = "GET" /\ Target.origin = Site.audience
    /\ Configured(Site)
    /\ Skew \in Nat /\ MaxProofAge \in Nat /\ RpcLag \in Nat
    /\ MaxTime \in Nat /\ MaxCrashes \in Nat
    /\ StoreFaults \subseteq Txs

Answers == Results \cup {Terminal}
Idle    == [pc |-> "idle", proof |-> Nothing, captured |-> 0, value |-> Nothing]

ProofOf(r) == Proof[request[r].proof]
TxOf(r)    == ProofOf(r).tx
At(r, pc)  == up /\ request[r].pc = pc

\* requirementFor: what the transaction has to pay.
Need == [merchant |-> Site.merchant, asset |-> Site.asset, registry |-> Site.registry,
         stroops |-> ToStroops(Site.amount, Site.decimals), decimals |-> Site.decimals]

\* The transactions that show a payment, and the proofs that claim just that.
Paying   == {t \in Txs : Shown(t, Need) # Nothing}
Matching == {p \in Proofs : /\ Proof[p].tx \in Paying
                            /\ PaymentMatches(Site, Proof[p], Shown(Proof[p].tx, Need))}
\* The proofs that pass the checks made before the store is asked.
Exact    == {p \in Proofs : Decodable(Proof[p]) /\ ExactChallenge(Site, Target, Proof[p])}

\* The handler of r moves on to its next await, or to its answer.
Goto(r, pc)         == request' = [request EXCEPT ![r].pc = pc]
GotoWith(r, pc, v)  == request' = [request EXCEPT ![r].pc = pc, ![r].value = v]
Refuse(r, status)   == GotoWith(r, "send", status)

\* Proofs are what was decoded, transactions are on the chain, and a payment that
\* was verified is not nothing.
ASSUME ProofAssumption ==
    /\ \A p \in Proofs : IsProof(Proof[p])
    /\ Site.ttl \in Nat /\ Need.stroops \in Nat
    /\ Txs \subseteq DOMAIN Chain
    /\ \A t \in Txs : \A k \in DOMAIN Chain[t].calls : Chain[t].calls[k].op = "pay" =>
          VerifiedPayment(t, PaymentEvent(Chain[t].calls[k]), Need) # Nothing

-----------------------------------------------------------------------------
(* The redemption store (redemption-store.ts, bound-store.ts)               *)

Executing(t) == t \in DOMAIN records /\ records[t].answer = Nothing
Completed(t) == t \in DOMAIN records /\ records[t].answer # Nothing

\* Faulty: the proof is not compared once the transaction is in the file.
FindLoosely(t, p) == IF t \notin DOMAIN records THEN "missing"
                     ELSE IF Executing(t) THEN "executing" ELSE "completed"
\* Faulty: a claim nobody has completed may be taken over.
FindLease(t, p) == IF t \notin DOMAIN records \/ Executing(t) THEN "missing"
                   ELSE IF records[t].proof # p THEN "conflict" ELSE "completed"
Find(t, p) == IF t \notin DOMAIN records THEN "missing"
              ELSE IF records[t].proof # p THEN "conflict"
              ELSE IF Executing(t) THEN "executing" ELSE "completed"

Put(t, record) == records' = [x \in DOMAIN records \cup {t} |->
                                 IF x = t THEN record ELSE records[x]]

\* The file is replaced and the caller told so; or an error is reported, with
\* the file replaced all the same or left as it was.
Written(t, record, Ok, Err) ==
    \/ Put(t, record) /\ Ok
    \/ t \in StoreFaults /\ Put(t, record) /\ Err
    \/ t \in StoreFaults /\ UNCHANGED records /\ Err

\* complete() accepts answer a: the claim is still open, or a is what it holds.
MayAnswer(t, p, a) == /\ t \in DOMAIN records
                      /\ records[t].proof = p
                      /\ records[t].answer \in {Nothing, a}

\* complete(): Ok if a is now the stored answer, Err if it fails or conflicts.
Complete(t, p, a, Ok, Err) ==
    \/ ~ MayAnswer(t, p, a) /\ UNCHANGED records /\ Err
    \/ /\ MayAnswer(t, p, a)
       /\ Written(t, [proof |-> p, answer |-> a], Ok, Err)

-----------------------------------------------------------------------------
(* bound.ts: authorization                                                 *)

\* Everything up to the first await; a proof not made for this request of this
\* route is refused.
Arrive(r, p) ==
    /\ At(r, "idle")
    /\ request' = [request EXCEPT ![r] =
                      [pc |-> IF p \in Exact THEN "lookup" ELSE "send",
                       proof |-> p, captured |-> now,
                       value |-> IF p \in Exact THEN Nothing ELSE PayFirst]]
    /\ UNCHANGED <<now, settled, records, serverVars, historyVars>>

\* Faulty: the challenge's age is not looked at.
AnyAge(r)   == TRUE
InWindow(r) == /\ ProofOf(r).challenge.issued <= request[r].captured + Skew
               /\ ProofOf(r).challenge.expires > request[r].captured

\* A stored answer is replayed only to the agent whose payment it answers.  The
\* record's payment is what the verifier read off the transaction.
Replay(r) == IF request[r].proof \in Matching
             THEN GotoWith(r, "send", records[TxOf(r)].answer)
             ELSE Refuse(r, Unavailable)

Lookup(r) ==
    /\ At(r, "lookup")
    /\ LET found == Find(TxOf(r), request[r].proof) IN
          \/ found = "completed" /\ Replay(r)
          \/ found = "missing" /\ InWindow(r) /\ Goto(r, "verify")
          \/ found = "missing" /\ ~ InWindow(r) /\ Refuse(r, PayFirst)
          \/ found = "conflict" /\ Refuse(r, Conflict)
          \/ found = "executing" /\ Refuse(r, Unavailable)
          \/ TxOf(r) \in StoreFaults /\ Refuse(r, Unavailable)
    /\ UNCHANGED <<now, settled, records, serverVars, historyVars>>

\* The verifier reads the chain from an RPC that takes `latest' for its last ledger.
VerdictOn(r, latest) == Verdict(TxOf(r), TxOf(r) \in Paying, settled[TxOf(r)], latest)

\* Faulty: what could not be read is refused like what is wrong.
Hasty(r, latest)      == VerdictOn(r, latest) # "ok"
\* The verdict is about the payment, and will not change.
Conclusive(r, latest) == \/ VerdictOn(r, latest) = "invalid"
                         \/ VerdictOn(r, latest) = "ok" /\ request[r].proof \notin Matching

\* The RPC may be behind the ledger, and unavailable at any time.
Verify(r) ==
    /\ At(r, "verify")
    /\ \/ \E latest \in now - RpcLag .. now :
             \/ Conclusive(r, latest) /\ Refuse(r, PayFirst)
             \/ ~ Conclusive(r, latest) /\ VerdictOn(r, latest) = "ok" /\ Goto(r, "claim")
       \/ Refuse(r, Unavailable)
    /\ UNCHANGED <<now, settled, records, serverVars, historyVars>>

\* Faulty: trusts the lookup made before the verification.
FindNone(t, p)  == "missing"
FindAgain(t, p) == Find(t, p)

Claim(r) ==
    /\ At(r, "claim")
    /\ LET p     == request[r].proof
           found == FindAgain(TxOf(r), p)
       IN  \/ /\ found = "missing"
              /\ Written(TxOf(r), [proof |-> p, answer |-> Nothing],
                         Goto(r, "fulfill"), Refuse(r, Unavailable))
           \/ found = "completed" /\ Replay(r) /\ UNCHANGED records
           \/ found = "conflict" /\ Refuse(r, Conflict) /\ UNCHANGED records
           \/ found = "executing" /\ Refuse(r, Unavailable) /\ UNCHANGED records
           \/ TxOf(r) \in StoreFaults /\ Refuse(r, Unavailable) /\ UNCHANGED records
    /\ UNCHANGED <<now, settled, serverVars, historyVars>>

-----------------------------------------------------------------------------
(* bound-route.ts: fulfillment                                             *)

Begin(r) ==
    /\ At(r, "fulfill")
    /\ begun' = [begun EXCEPT ![TxOf(r)] = @ + 1]
    /\ Goto(r, "working")
    /\ UNCHANGED <<now, settled, records, serverVars, shown>>

\* storedResponse() of what the callback returns; the terminal one if it throws.
Bodies == Answers

Finish(r) ==
    /\ At(r, "working")
    /\ \E a \in Bodies : GotoWith(r, "complete", a)
    /\ UNCHANGED <<now, settled, records, serverVars, historyVars>>

\* The answer is stored before it is sent; if that fails the client is told to
\* retry, and the work is not run again.
Commit(r) ==
    /\ At(r, "complete")
    /\ Complete(TxOf(r), request[r].proof, request[r].value,
                Goto(r, "send"), Refuse(r, Unavailable))
    /\ UNCHANGED <<now, settled, serverVars, historyVars>>

Send(r) ==
    /\ At(r, "send")
    /\ shown' = IF request[r].value \in Refusals THEN shown
                ELSE shown \cup {<<request[r].proof, request[r].value>>}
    /\ request' = [request EXCEPT ![r] = Idle]
    /\ UNCHANGED <<now, settled, records, serverVars, begun>>

-----------------------------------------------------------------------------
(* server.ts: start-up                                                     *)

\* Faulty: only what this process began is looked for, which is nothing yet.
OwnInterrupted == {}
\* listExecuting()
Interrupted == {t \in DOMAIN records : Executing(t)}

Start ==
    /\ ~ up /\ ~ sweeping
    /\ sweeping' = TRUE
    /\ sweep' = Interrupted
    /\ UNCHANGED <<now, settled, records, up, crashes, request, historyVars>>

\* resolveBoundReappInterruptedDelivery of one record: an error ends the process.
ResolveOne ==
    /\ sweeping
    /\ \E t \in sweep :
          Complete(t, records[t].proof, Terminal,
                   sweep' = sweep \ {t} /\ UNCHANGED sweeping,
                   sweep' = {} /\ sweeping' = FALSE)
    /\ UNCHANGED <<now, settled, up, crashes, request, historyVars>>

Swept   == sweeping /\ sweep = {}

Listen ==
    /\ Swept
    /\ sweeping' = FALSE
    /\ sweep' = {}
    /\ up' = TRUE
    /\ UNCHANGED <<now, settled, records, crashes, request, historyVars>>

\* At any moment of serving or sweeping.
Crash ==
    /\ up \/ sweeping
    /\ crashes < MaxCrashes
    /\ crashes' = crashes + 1
    /\ up' = FALSE /\ sweeping' = FALSE /\ sweep' = {}
    /\ request' = [r \in Requests |-> Idle]
    /\ UNCHANGED <<now, settled, records, historyVars>>

-----------------------------------------------------------------------------
(* The environment                                                         *)

Tick == /\ now < MaxTime
        /\ now' = now + 1
        /\ UNCHANGED <<settled, records, serverVars, request, historyVars>>

Settle(t) == /\ settled[t] = Nothing
             /\ settled' = [settled EXCEPT ![t] = now]
             /\ UNCHANGED <<now, records, serverVars, request, historyVars>>

Init ==
    /\ now = 1
    /\ settled = [t \in Txs |-> Nothing]
    /\ records = [t \in {} |-> Nothing]
    /\ up = FALSE /\ sweeping = FALSE /\ sweep = {} /\ crashes = 0
    /\ request = [r \in Requests |-> Idle]
    /\ begun = [t \in Txs |-> 0]
    /\ shown = {}

Handle(r) == \/ Lookup(r) \/ Verify(r) \/ Claim(r)
             \/ Begin(r) \/ Finish(r) \/ Commit(r) \/ Send(r)

Next ==
    \/ \E r \in Requests : (\E p \in Proofs : Arrive(r, p)) \/ Handle(r)
    \/ Start \/ ResolveOne \/ Listen \/ Crash
    \/ Tick \/ \E t \in Txs : Settle(t)

Spec == Init /\ [][Next]_vars

\* Awaited calls return and a supervisor restarts the server; clients,
\* settlements and crashes owe nothing.  The file system is not for ever
\* failing: a sweep that is retried again and again gets through in the end.
Fairness ==
    /\ \A r \in Requests : WF_vars(Handle(r))
    /\ WF_vars(Start)
    /\ SF_vars(ResolveOne /\ sweeping')
    /\ WF_vars(ResolveOne)
    /\ WF_vars(Listen)

FairSpec == Spec /\ Fairness

-----------------------------------------------------------------------------
(* What the route promises                                                 *)

\* "Fulfillment executes once after an atomic claim" (bound-route.ts): however
\* often a proof is presented, by however many requests at once, across store
\* errors and crashes, paid work is begun at most once per transaction.
WorkAtMostOnce == \A t \in Txs : begun[t] <= 1

\* Work is done only for money that arrived: for a transaction that did have the
\* registry move the price, out of the mandate that the proof names, to this
\* merchant, presented by a proof that this mandate's agent made of a challenge
\* that this route issued for this very request.
Offer(p)   == ChallengeFor(Site, Target, Proof[p].challenge.id, Proof[p].challenge.issued)
Genuine    == {p \in Proofs : Proof[p] = CreateProof(Offer(p).challenge, Proof[p].tx, Proof[p].mandate,
                                     Mandate[Proof[p].mandate].agent)}
Pays(t, m) == \E i \in DOMAIN Chain[t].calls :
                 /\ Chain[t].calls[i] = Pay(Site.registry, m, Need.stroops)
                 /\ Mandate[m].merchant = Site.merchant /\ Mandate[m].asset = Site.asset
WorkIsPaid ==
    /\ \A t \in Txs : begun[t] > 0 => t \in DOMAIN records
    /\ \A t \in DOMAIN records :
          LET p == records[t].proof
          IN  /\ settled[t] # Nothing /\ Chain[t].status = "SUCCESS"
              /\ Proof[p].tx = t /\ Pays(t, Proof[p].mandate)
              /\ p \in Genuine

\* What an agent buys here it gets here: if fetch accepted this route's challenge
\* and the payment it then made succeeded, the proof is never answered "pay
\* first", which would have the agent pay again, while it can still be redeemed
\* (neither the challenge nor the payment had run out), however the chain's
\* reader lags; and "bought something else" is said of it only if that is so.  Nor is
\* it retryDelivery that refuses to present it.
Bought == {p \in Genuine :
    /\ Chain[Proof[p].tx] = [status |-> "SUCCESS",
                            calls |-> <<Pay(Site.registry, Proof[p].mandate, Need.stroops)>>]
    /\ \E at \in 1 .. MaxTime :
          Payable(Offer(p), Mandate[Proof[p].mandate], Net, Target, at, FALSE)}
PaidIsHonoured ==
    \A r \in Requests : request[r].pc = "send" /\ request[r].proof \in Bought =>
        LET t == TxOf(r) IN
        /\ Deliverable(ProofOf(r), Target)
        /\ request[r].value = PayFirst =>
              \/ ~ InWindow(r)
              \/ settled[t] # Nothing /\ now - settled[t] > MaxProofAge
        /\ request[r].value = Conflict =>
              t \in DOMAIN records /\ records[t].proof # request[r].proof

\* Whatever left the server is what the store holds: all clients that present
\* the proof, then or after any restart, are shown the same bytes, and a second
\* proof of the same transaction is shown none.
ShownIsStored ==
    \A s \in shown : LET t == Proof[s[1]].tx
                     IN  t \in DOMAIN records /\ records[t] = [proof |-> s[1], answer |-> s[2]]

\* At most one handler owns a transaction's execution, and as long as one does
\* the record is its own and open: no request or sweep answers in its place.
OwnerPcs == {"fulfill", "working", "complete"}
ExclusiveOwner ==
    \A r \in Requests : request[r].pc \in OwnerPcs =>
        /\ Executing(TxOf(r))
        /\ records[TxOf(r)].proof = request[r].proof
        /\ \A q \in Requests : request[q].pc \in OwnerPcs /\ TxOf(q) = TxOf(r) => q = r

\* An unredeemed proof dies with its challenge and its payment with the
\* freshness window, although verification and claim come several awaits after
\* the clock was read: a transaction is bound only by a request that arrived
\* before the challenge expired, and when the payment was at most MaxProofAge
\* old.  The age is what the RPC makes it (transaction.latestLedger), so that the
\* window is longer by the ledgers the RPC is behind, and by no more.
FreshStep ==
    \A t \in DOMAIN records' \ DOMAIN records :
        \E r \in Requests :
            /\ request[r].proof = records'[t].proof
            /\ Proof[request[r].proof].challenge.expires > request[r].captured
            /\ settled[t] # Nothing
            /\ settled[t] + MaxProofAge + RpcLag >= request[r].captured
FreshWhenBound == [][FreshStep]_vars

\* "Recovery either waits for that claim or replays its completed result"
\* (bound-store.ts): a claimed transaction is answered in the end, by its owner or
\* the next start-up, if the store does not fail for it.  If it does, the server that
\* runs keeps the claim executing, as bound-route.ts documents; but whatever failed,
\* what is in the file when the server is down is answered in the end, and no buyer
\* waits for an execution whose owner is dead (server.ts sweep).
ClaimIsAnswered ==
    /\ \A t \in Txs \ StoreFaults : Executing(t) ~> Completed(t)
    /\ \A t \in Txs : (~ up /\ Executing(t)) ~> Completed(t)

Delivery == INSTANCE PaidDelivery WITH
    bound  <- [t \in Txs |-> IF t \in DOMAIN records THEN records[t].proof ELSE Nothing],
    begun  <- {t \in Txs : begun[t] > 0},
    answer <- [t \in Txs |-> IF t \in DOMAIN records THEN records[t].answer ELSE Nothing]

\* The route, its store and its restarts implement at-most-once delivery.
ImplementsDelivery == Delivery!Spec
=============================================================================
