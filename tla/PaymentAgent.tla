---------------------------- MODULE PaymentAgent ----------------------------
(***************************************************************************)
(* The SDK's Agent: `fetch' with the payment inside it, `retryDelivery',   *)
(* `acknowledgeDelivery' and `reconcilePendingSettlement', for the agents  *)
(* that one process binds to one mandate over one durable receipt store.   *)
(*                                                                         *)
(* JavaScript runs a call from one await to the next in one step, so a     *)
(* step here ends at an await: of the store, the chain, or the merchant.   *)
(* Every awaited operation may fail, a write to the store before or after  *)
(* it took effect; the process may die anywhere.  Payments made without a  *)
(* receipt, through the journal of the CLI, are those of CliSettlement.    *)
(*                                                                         *)
(* A definition marked "Faulty:" is a plausible bug in the one after it;   *)
(* nothing uses it but the check that a property would notice the bug.     *)
(***************************************************************************)
EXTENDS Naturals, FiniteSets

CONSTANTS
    Agents,   \* Agent objects of the process, all bound to the mandate
    Calls,    \* calls of their methods that may be pending together
    Txs,      \* transactions that may be signed; bounds the payments made
    Nothing,  \* no transaction, no agent
    Overlaps  \* which applications there are: ones that await a call on an agent
              \* before they make the next one on it (FALSE), and ones that may not

ASSUME AgentAssumption == /\ Nothing \notin Txs \cup Agents
                          /\ Overlaps \subseteq BOOLEAN
                          /\ IsFiniteSet(Txs)

VARIABLES
    claim,      \* the agent in activeMandatePaymentClaims, or Nothing
    pending,    \* pending[a]: pendingSettlement of a, or None
    call,       \* call[c]: [agent, pc, on, n]
    store,      \* transactions whose receipt is pending in the receipt store
    chain,      \* chain[t]: what has become of transaction t
    seqOf,      \* expected_seq t was signed with
    seq,        \* the mandate's seq in the contract
    delivered,  \* transactions whose response the application holds
    committed,  \* transactions whose result the application made durable
    overlap     \* whether the application overlaps calls of one agent; never changes

memory == <<claim, pending>>
ledger == <<chain, seqOf, seq>>
app    == <<delivered, committed>>
work   == <<memory, call, store, ledger, app>>
vars   == <<work, overlap>>

\* pendingSettlement: its hash, and whether it has a receiptId.
None       == [tx |-> Nothing, receipt |-> FALSE]
Signed(t)  == [tx |-> t, receipt |-> FALSE]
Receipt(t) == [tx |-> t, receipt |-> TRUE]

\* The settlement a call is about, and the sequence number it read.
Idle == [agent |-> Nothing, pc |-> "idle", on |-> None, n |-> 0]

At(c, pc)      == call[c].pc = pc
AgentOf(c)     == call[c].agent
TxOf(c)        == call[c].on.tx
Found(c)       == call[c].on # None
HasPending(c)  == pending[AgentOf(c)] # None
End(c)         == call' = [call EXCEPT ![c] = Idle]
Goto(c, pc)    == call' = [call EXCEPT ![c].pc = pc]
GotoOn(c, pc, s) == call' = [call EXCEPT ![c].pc = pc, ![c].on = s]
Begin(c, a, pc, s) == call' = [call EXCEPT ![c] = [agent |-> a, pc |-> pc, on |-> s, n |-> 0]]

-----------------------------------------------------------------------------
(* The claim on the mandate and the pending settlement                     *)

\* A call is made while its agent has none pending, or whenever the application
\* likes.
Ready(c, a) == /\ At(c, "idle")
               /\ overlap \/ \A d \in Calls : AgentOf(d) # a

\* Faulty: an agent looks at its own claim only.
OwnClaimFree(a) == claim # a
\* claimPaymentOperation does not throw: neither this agent nor another has it.
ClaimFree(a) == claim = Nothing
\* Or it need not be called, the agent having the claim.
CanClaim(a) == claim = a \/ ClaimFree(a)

\* releasePaymentOperation: an agent gives up its own claim, if it has it.
Release(a) == claim' = IF claim = a THEN Nothing ELSE claim

SetPending(a, s) == pending' = [pending EXCEPT ![a] = s]

\* The receipt that was listed becomes the pending settlement, under the claim.
Hydrate(c) == /\ Found(c) /\ CanClaim(AgentOf(c))
              /\ SetPending(AgentOf(c), call[c].on)
              /\ claim' = AgentOf(c)

\* listPending, of which the receipt with the least id is kept: any, for a model
\* that leaves hashes out.
ListPending(c, next) ==
    \/ store = {} /\ GotoOn(c, next, None)
    \/ \E t \in store : GotoOn(c, next, Receipt(t))

\* A write to the store fails, before or after it took effect.
SaveFails(t)  == store' \in {store, store \cup {t}}
ClearFails(t) == store' \in {store, store \ {t}}

-----------------------------------------------------------------------------
(* fetch, up to the payment                                                *)

\* It throws at once on an agent with a pending settlement.
Fetch(c, a) ==
    /\ Ready(c, a) /\ pending[a] = None
    /\ Begin(c, a, "fetch", None)
    /\ UNCHANGED <<memory, store, ledger, app>>

FetchList(c) ==
    /\ At(c, "fetch")
    /\ ListPending(c, "fetchHydrate") \/ End(c)
    /\ UNCHANGED <<memory, store, ledger, app>>

\* A receipt found is to be recovered first: the call ends either way.
FetchHydrate(c) ==
    /\ At(c, "fetchHydrate")
    /\ \/ Hydrate(c) /\ End(c)
       \/ Found(c) /\ ~ CanClaim(AgentOf(c)) /\ End(c) /\ UNCHANGED memory
       \/ ~ Found(c) /\ HasPending(c) /\ End(c) /\ UNCHANGED memory
       \/ ~ Found(c) /\ ~ HasPending(c) /\ Goto(c, "request") /\ UNCHANGED memory
    /\ UNCHANGED <<store, ledger, app>>

\* A 402 that fits the mandate enters pay, which claims the mandate before its
\* first await; any other answer, or a claim held already, ends the call.
Request(c) ==
    /\ At(c, "request")
    /\ \/ /\ ClaimFree(AgentOf(c))
          /\ claim' = AgentOf(c)
          /\ IF HasPending(c) THEN End(c) ELSE Goto(c, "pay")
          /\ UNCHANGED pending
       \/ End(c) /\ UNCHANGED memory
    /\ UNCHANGED <<store, ledger, app>>

-----------------------------------------------------------------------------
(* pay                                                                     *)

\* The call fails and gives up the claim.
Throw(c) == End(c) /\ Release(AgentOf(c)) /\ UNCHANGED pending

PayList(c) ==
    /\ At(c, "pay")
    /\ \/ ListPending(c, "payHydrate") /\ UNCHANGED memory
       \/ Throw(c)
    /\ UNCHANGED <<store, ledger, app>>

\* An unresolved payment ends the call and retains the claim.
PayHydrate(c) ==
    /\ At(c, "payHydrate")
    /\ \/ Hydrate(c) /\ End(c)
       \/ Found(c) /\ ~ CanClaim(AgentOf(c)) /\ Throw(c)
       \/ ~ Found(c) /\ HasPending(c) /\ End(c) /\ UNCHANGED memory
       \/ ~ Found(c) /\ ~ HasPending(c) /\ Goto(c, "read") /\ UNCHANGED memory
    /\ UNCHANGED <<store, ledger, app>>

\* get_mandate
ReadSeq(c) ==
    /\ At(c, "read")
    /\ \/ call' = [call EXCEPT ![c].pc = "sign", ![c].n = seq] /\ UNCHANGED memory
       \/ Throw(c)
    /\ UNCHANGED <<store, ledger, app>>

\* Build and sign; onPrepared is called with the settlement in the same step.
Sign(c) ==
    /\ At(c, "sign")
    /\ \/ \E t \in Txs :
             /\ chain[t] = "new"
             /\ chain' = [chain EXCEPT ![t] = "signed"]
             /\ seqOf' = [seqOf EXCEPT ![t] = call[c].n]
             /\ SetPending(AgentOf(c), Signed(t))
             /\ GotoOn(c, "save", Signed(t))
             /\ UNCHANGED claim
       \/ Throw(c) /\ UNCHANGED <<chain, seqOf>>
    /\ UNCHANGED <<store, seq, app>>

\* The receipt is written: the settlement is recorded as having one.
Saved(c) ==
    /\ store' = store \cup {TxOf(c)}
    /\ pending' = [pending EXCEPT ![AgentOf(c)].receipt = TRUE]
    /\ Goto(c, "send")
    /\ UNCHANGED claim

\* The settlement is forgotten, the claim released; fetch will clear the receipt.
Abandon(c) == /\ SetPending(AgentOf(c), None)
              /\ Release(AgentOf(c))
              /\ Goto(c, "forget")

\* Faulty: the payment goes on when the receipt could not be written.
SaveIgnored(c) ==
    /\ At(c, "save")
    /\ Saved(c) \/ (SaveFails(TxOf(c)) /\ Goto(c, "send") /\ UNCHANGED memory)
    /\ UNCHANGED <<ledger, app>>
\* onPrepared: savePending.
Save(c) ==
    /\ At(c, "save")
    /\ Saved(c) \/ (SaveFails(TxOf(c)) /\ Abandon(c))
    /\ UNCHANGED <<ledger, app>>

\* Faulty: an uncertain payment is cleaned up like a failed one.
UncertainFails(c) == Abandon(c)
\* SettlementUncertainError: claim, settlement and receipt are kept.  Without a
\* settlement to name its construction throws, and fetch clears the receipt.
Uncertain(c) == /\ IF HasPending(c) THEN End(c) ELSE Goto(c, "forget")
                /\ UNCHANGED memory

\* The network takes the transaction, unless it is too late or the call fails.
Send(c) ==
    /\ At(c, "send")
    /\ \/ /\ chain[TxOf(c)] = "signed"
          /\ chain' = [chain EXCEPT ![TxOf(c)] = "sent"]
          /\ Goto(c, "await")
          /\ UNCHANGED memory
       \/ Uncertain(c) /\ UNCHANGED chain
    /\ UNCHANGED <<store, seqOf, seq, app>>

\* retryDelivery, up to its request: it needs the claim.
Deliver(c) == /\ UNCHANGED pending
              /\ IF CanClaim(AgentOf(c))
                 THEN claim' = AgentOf(c) /\ Goto(c, "deliver")
                 ELSE UNCHANGED claim /\ End(c)

\* Success is delivered, after the settlement was put back if it is gone; a
\* final rejection abandons the payment; anything else is uncertain.
Await(c) ==
    /\ At(c, "await")
    /\ \/ chain[TxOf(c)] = "success" /\ HasPending(c) /\ Deliver(c)
       \/ /\ chain[TxOf(c)] = "success" /\ ~ HasPending(c)
          /\ SetPending(AgentOf(c), Receipt(TxOf(c)))
          /\ Goto(c, "resave")
          /\ UNCHANGED claim
       \/ chain[TxOf(c)] = "failed" /\ Abandon(c)
       \/ Uncertain(c)
    /\ UNCHANGED <<store, ledger, app>>

Resave(c) ==
    /\ At(c, "resave")
    /\ \/ store' = store \cup {TxOf(c)} /\ Deliver(c)
       \/ SaveFails(TxOf(c)) /\ End(c) /\ UNCHANGED memory
    /\ UNCHANGED <<ledger, app>>

\* fetch clears the receipt of a payment that was not made, whatever the store
\* answers.
Forget(c) ==
    /\ At(c, "forget")
    /\ ClearFails(TxOf(c))
    /\ End(c)
    /\ UNCHANGED <<memory, ledger, app>>

-----------------------------------------------------------------------------
(* retryDelivery and acknowledgeDelivery                                   *)

\* The application passes a receipt it has: one of the store, or one of a
\* response it holds.
Retry(c, a, t) ==
    /\ Ready(c, a) /\ t \in store \cup delivered
    /\ CanClaim(a)
    /\ claim' = a
    /\ Begin(c, a, "deliver", Receipt(t))
    /\ UNCHANGED <<pending, store, ledger, app>>

\* The merchant delivers for a payment that settled, if the answer arrives whole.
Delivery(c) ==
    /\ At(c, "deliver")
    /\ \/ chain[TxOf(c)] = "success" /\ delivered' = delivered \cup {TxOf(c)}
       \/ UNCHANGED delivered
    /\ End(c)
    /\ UNCHANGED <<memory, store, ledger, committed>>

\* Acknowledged only once the result is durable, as the README demands, and
\* maybe again, of the same agent or of another.
Acknowledge(c, a, t) ==
    /\ Ready(c, a) /\ t \in delivered
    /\ committed' = committed \cup {t}
    /\ Begin(c, a, "acknowledge", Receipt(t))
    /\ UNCHANGED <<memory, store, ledger, delivered>>

\* clearPending, then the settlement if it is this one, then the claim if held.
AckClear(c) ==
    /\ At(c, "acknowledge")
    /\ \/ /\ store' = store \ {TxOf(c)}
          /\ Release(AgentOf(c))
          /\ IF pending[AgentOf(c)].tx = TxOf(c) THEN SetPending(AgentOf(c), None)
             ELSE UNCHANGED pending
       \/ ClearFails(TxOf(c)) /\ UNCHANGED memory
    /\ End(c)
    /\ UNCHANGED <<ledger, app>>

-----------------------------------------------------------------------------
(* reconcilePendingSettlement                                              *)

Reconcile(c, a) ==
    /\ Ready(c, a) /\ CanClaim(a)
    /\ claim' = a
    /\ IF pending[a] = None THEN Begin(c, a, "find", None)
       ELSE Begin(c, a, "query", pending[a])
    /\ UNCHANGED <<pending, store, ledger, app>>

\* With a record the application kept: it becomes the pending settlement before
\* the claim is tried, and remains it if the claim is refused.
Restore(c, a, t) ==
    /\ Ready(c, a) /\ t \in store
    /\ pending[a] = None \/ pending[a].tx = t
    /\ SetPending(a, Receipt(t))
    /\ IF CanClaim(a) THEN claim' = a /\ Begin(c, a, "query", Receipt(t))
       ELSE UNCHANGED <<claim, call>>
    /\ UNCHANGED <<store, ledger, app>>

Find(c) ==
    /\ At(c, "find")
    /\ \/ ListPending(c, "findHydrate") /\ UNCHANGED memory
       \/ HasPending(c) /\ End(c) /\ UNCHANGED memory
       \/ ~ HasPending(c) /\ Throw(c)
    /\ UNCHANGED <<store, ledger, app>>

\* Nothing pending, in memory or in the store: the claim is released.
FindHydrate(c) ==
    /\ At(c, "findHydrate")
    /\ \/ Hydrate(c) /\ Goto(c, "query")
       \/ Found(c) /\ ~ CanClaim(AgentOf(c)) /\ End(c) /\ UNCHANGED memory
       \/ ~ Found(c) /\ HasPending(c) /\ GotoOn(c, "query", pending[AgentOf(c)]) /\ UNCHANGED memory
       \/ ~ Found(c) /\ ~ HasPending(c) /\ Throw(c)
    /\ UNCHANGED <<store, ledger, app>>

\* Faulty: a transaction the RPC does not find is taken to be dead.
Missing(t) == chain[t] \in {"signed", "sent", "expired"}
\* NOT_FOUND in a ledger closed past its validity, with the history since it
\* was submitted.
Expired(t) == chain[t] = "expired"

\* Faulty: its receipt stays in the store.
GiveUpInMemory(c) == SetPending(AgentOf(c), None) /\ End(c) /\ Release(AgentOf(c))
\* The settlement is over without a payment: forgotten first, cleared after.
GiveUp(c) == /\ SetPending(AgentOf(c), None)
             /\ IF call[c].on.receipt THEN Goto(c, "clear") /\ UNCHANGED claim
                ELSE End(c) /\ Release(AgentOf(c))

\* Overlapping calls can leave a settlement with a receipt and no hash.
Hashed(c) == TxOf(c) # Nothing

\* getTransaction.  The RPC may fail, or not know, at any time.  A success with a
\* receipt stays locked until it is delivered and acknowledged.
Query(c) ==
    /\ At(c, "query")
    /\ \/ Hashed(c) /\ (chain[TxOf(c)] = "failed" \/ Expired(TxOf(c))) /\ GiveUp(c)
       \/ /\ Hashed(c) /\ chain[TxOf(c)] = "success" /\ ~ call[c].on.receipt
          /\ SetPending(AgentOf(c), None)
          /\ Release(AgentOf(c))
          /\ End(c)
       \/ End(c) /\ UNCHANGED memory
    /\ UNCHANGED <<store, ledger, app>>

\* A store error leaves the claim held without a settlement.
Clear(c) ==
    /\ At(c, "clear")
    /\ \/ store' = store \ {TxOf(c)} /\ Release(AgentOf(c))
       \/ ClearFails(TxOf(c)) /\ UNCHANGED claim
    /\ End(c)
    /\ UNCHANGED <<pending, ledger, app>>

-----------------------------------------------------------------------------
(* The environment                                                         *)

\* The process dies.  What the application has not made durable it has to fetch
\* again with the receipt.
Crash ==
    /\ claim' = Nothing
    /\ pending' = [a \in Agents |-> None]
    /\ call' = [c \in Calls |-> Idle]
    /\ delivered' = delivered \cap committed
    /\ UNCHANGED <<store, ledger, committed>>

\* The contract executes the payment if its sequence number is the next one.
Land(t) ==
    /\ chain[t] = "sent"
    /\ IF seqOf[t] = seq
       THEN seq' = seq + 1 /\ chain' = [chain EXCEPT ![t] = "success"]
       ELSE UNCHANGED seq /\ chain' = [chain EXCEPT ![t] = "failed"]
    /\ UNCHANGED <<memory, call, store, seqOf, app>>

\* Another rule of the contract, or of the token, refuses it.
Reject(t) ==
    /\ chain[t] = "sent"
    /\ chain' = [chain EXCEPT ![t] = "failed"]
    /\ UNCHANGED <<memory, call, store, seqOf, seq, app>>

\* A ledger closes past validUntil: the transaction can never land any more.
Expire(t) ==
    /\ chain[t] \in {"signed", "sent"}
    /\ chain' = [chain EXCEPT ![t] = "expired"]
    /\ UNCHANGED <<memory, call, store, seqOf, seq, app>>

Init ==
    /\ claim = Nothing
    /\ pending = [a \in Agents |-> None]
    /\ call = [c \in Calls |-> Idle]
    /\ store = {}
    /\ chain = [t \in Txs |-> "new"]
    /\ seqOf = [t \in Txs |-> 0]
    /\ seq = 0
    /\ delivered = {} /\ committed = {}
    /\ overlap \in Overlaps

Make(c, a) ==
    \/ Fetch(c, a) \/ Reconcile(c, a)
    \/ \E t \in Txs : Retry(c, a, t) \/ Acknowledge(c, a, t) \/ Restore(c, a, t)

Run(c) ==
    \/ FetchList(c) \/ FetchHydrate(c) \/ Request(c)
    \/ PayList(c) \/ PayHydrate(c) \/ ReadSeq(c) \/ Sign(c) \/ Save(c) \/ Send(c)
    \/ Await(c) \/ Resave(c) \/ Forget(c)
    \/ Delivery(c) \/ AckClear(c)
    \/ Find(c) \/ FindHydrate(c) \/ Query(c) \/ Clear(c)

Next ==
    /\ \/ \E c \in Calls : Run(c) \/ \E a \in Agents : Make(c, a)
       \/ \E t \in Txs : Land(t) \/ Reject(t) \/ Expire(t)
       \/ Crash
    /\ UNCHANGED overlap

Spec == Init /\ [][Next]_vars

-----------------------------------------------------------------------------
(* Fairness, for liveness                                                  *)

\* The steps of a recovery, when no awaited operation fails.
Finds(c)           == Find(c) /\ (At(c, "findHydrate"))'
Concludes(c, t)    == TxOf(c) = t /\ Query(c) /\ pending' # pending
Clears(c, t)       == TxOf(c) = t /\ Clear(c) /\ claim' = Nothing
Delivers(c, t)     == TxOf(c) = t /\ Delivery(c) /\ t \in delivered'
Acknowledges(c, t) == TxOf(c) = t /\ AckClear(c) /\ t \notin store' /\ claim' = Nothing

\* Pending calls go on.  The application keeps reconciling, retrying delivery and
\* acknowledging what it got, of an agent that has or may have the claim, not
\* always in vain and soon enough for the RPC to have the history.  A transaction
\* is closed into a ledger or expires.
Fairness ==
    /\ \A c \in Calls :
          /\ WF_work(Run(c))
          /\ SF_work(\E a \in Agents : Reconcile(c, a))
          /\ SF_work(Finds(c)) /\ SF_work(FindHydrate(c))
          /\ \A t \in Txs :
                /\ SF_work(Concludes(c, t)) /\ SF_work(Clears(c, t))
                /\ SF_work(Delivers(c, t)) /\ SF_work(Acknowledges(c, t))
                /\ SF_work(\E a \in Agents : Retry(c, a, t))
                /\ SF_work(\E a \in Agents : CanClaim(a) /\ Acknowledge(c, a, t))
    /\ \A t \in Txs : WF_work(Land(t) \/ Expire(t))

FairSpec == Spec /\ Fairness

-----------------------------------------------------------------------------
(* Properties                                                              *)

Unresolved == {t \in Txs : chain[t] = "sent" \/ (chain[t] = "success" /\ t \notin committed)}

\* A transaction that may still land, or that paid for something the application
\* has not made durable, has its receipt in the store: whatever fails or dies, and
\* whatever the agents do beside each other, no step forgets a payment that may
\* have been made.  (An application that overlaps calls of one agent can do so.)
NoneForgotten == overlap \/ Unresolved \subseteq store

\* While one payment is unresolved no agent of the process, or of the process
\* restarted after a crash, submits another: the promise of DeliveryPendingError.
NoSecondPayment == overlap \/ Cardinality(Unresolved) =< 1

\* Operations of one mandate exclude each other from before the first chain read
\* (README of the SDK, on the synchronous claim), of two agents at any rate.
Paying == {c \in Calls : call[c].pc \in {"read", "sign", "save", "send", "await"}}
ExclusivePayer == overlap \/ Cardinality(Paying) =< 1

\* However calls overlap, a transaction is only ever sent when its receipt is in
\* the store: the process may die in the instant after.
SentDurably == [][\A t \in Txs : chain'[t] = "sent" /\ chain[t] # "sent" => t \in store]_vars

\* No failure or crash blocks the mandate for ever: again and again the claim is
\* free and no receipt is pending.
Unblocked == []<>(claim = Nothing /\ store = {})
=============================================================================
