-------------------------- MODULE ConsumerPurchase --------------------------
(***************************************************************************)
(* The consumer agent: buyResearch over its two files, the purchase        *)
(* outcomes and the settlement receipts, and what an application does with *)
(* resumePendingDelivery, acknowledgePendingDelivery and a reconciliation, *)
(* in one process that dies and is restarted.                              *)
(*                                                                         *)
(* Each call makes an Agent of its own (PaymentAgent is about agents that  *)
(* live on): `claim' is the entry of the mandate in the process-wide map,  *)
(* a call that holds it, or Lost when the agent that held it is gone.      *)
(*                                                                         *)
(* A step runs from one await to the next.  A file's operations queue up,  *)
(* so nothing touches the file between an operation and its continuation.  *)
(* An operation may fail, a write before or after the rename.  Delivered   *)
(* and terminal outcomes are kept alike and are one kind here, "accepted". *)
(*                                                                         *)
(* A definition marked "Faulty:" is a plausible bug in the one after it;   *)
(* nothing uses it but the check that a property would notice the bug.     *)
(***************************************************************************)
EXTENDS Naturals, Sequences, FiniteSets

CONSTANTS
    Calls,      \* calls that may be pending together
    SourceIds,  \* sourceIds: the sources a walk buys, in order
    Txs,        \* transactions that may be signed; bounds the payments made
    Nothing,    \* no transaction, no call, no source
    Lost        \* the claim of an agent nobody has any more

ASSUME PurchaseAssumption == /\ Nothing \notin Txs \cup Calls
                             /\ Lost \notin Calls \cup {Nothing}
                             /\ SourceIds \in Seq({SourceIds[i] : i \in DOMAIN SourceIds})
                             /\ Len(SourceIds) > 0
                             /\ \A i \in DOMAIN SourceIds : SourceIds[i] # Nothing

VARIABLES
    claim,     \* activeMandatePaymentClaims of the mandate
    call,      \* call[c]: [pc, at, tx, held]
    outcomes,  \* outcomes[s]: the record of s in the outcome file
    receipts,  \* transactions whose receipt is pending in the receipt file
    chain,     \* chain[t]: what has become of transaction t
    paidFor    \* the source t was signed for

files  == <<outcomes, receipts>>
ledger == <<chain, paidFor>>
vars   == <<claim, call, files, ledger>>

Sources == {SourceIds[i] : i \in DOMAIN SourceIds}

\* The records of the outcome file; an execution is named by its call.
Missing      == [kind |-> "missing",   by |-> Nothing, tx |-> Nothing]
Executing(c) == [kind |-> "executing", by |-> c,       tx |-> Nothing]
Accepted(t)  == [kind |-> "accepted",  by |-> Nothing, tx |-> t]
Rejected     == [kind |-> "rejected",  by |-> Nothing, tx |-> Nothing]

\* at: the position in sourceIds.  tx: the receipt the call is about.  held: the
\* pendingSettlement of its agent.
Idle == [pc |-> "idle", at |-> 0, tx |-> Nothing, held |-> Nothing]

At(c, pc)     == call[c].pc = pc
TxOf(c)       == call[c].tx
SourceOf(c)   == SourceIds[call[c].at]
Put(c, r)     == call' = [call EXCEPT ![c] = r]
Goto(c, pc)   == Put(c, [call[c] EXCEPT !.pc = pc])
Record(s, r)  == outcomes' = [outcomes EXCEPT ![s] = r]

\* The agent of c gives up the claim.
Released(c)  == IF claim = c THEN Nothing ELSE claim
\* It is discarded, having the claim or not.
Discarded(c) == IF claim = c THEN Lost ELSE claim

\* The call returns or throws: its agent is gone with all it held.
End(c) == Put(c, Idle) /\ claim' = Discarded(c)

\* The walk goes on to its next source, or returns, its agent holding settlement
\* `held' and the claim being `cl'.
GoOn(c, held, cl) ==
    IF call[c].at < Len(SourceIds)
    THEN Put(c, [pc |-> "claim", at |-> call[c].at + 1, tx |-> Nothing, held |-> held]) /\ claim' = cl
    ELSE Put(c, Idle) /\ claim' = IF cl = c THEN Lost ELSE cl

\* The agent keeps what it has; or it has given up the payment.
Report(c)  == GoOn(c, call[c].held, claim)
GiveUp(c)  == GoOn(c, Nothing, Released(c))

-----------------------------------------------------------------------------
(* The two files                                                           *)

\* A write of record r for s, or of the receipts, that reports an error.
RecordFails(s, r)  == Record(s, r) \/ UNCHANGED outcomes
SaveFails(t)       == receipts' \in {receipts, receipts \cup {t}}
ClearFails(t)      == receipts' \in {receipts, receipts \ {t}}

\* complete(): Ok if r is now the record of s; Err if the write fails or the
\* execution is not open any more, or not the caller's.
CompleteAs(s, c, r, Ok, Err) ==
    IF outcomes[s] = Executing(c) THEN (Record(s, r) /\ Ok) \/ (RecordFails(s, r) /\ Err)
                                  ELSE UNCHANGED outcomes /\ Err

-----------------------------------------------------------------------------
(* buyResearch: the durable claim of a source                              *)

Buy(c) ==
    /\ At(c, "idle")
    /\ Put(c, [Idle EXCEPT !.pc = "claim", !.at = 1])
    /\ UNCHANGED <<claim, files, ledger>>

\* Faulty: an execution that was interrupted is leased again.
Leased(s)    == outcomes[s].kind \in {"missing", "executing"}
Claimable(s) == outcomes[s] = Missing

\* An error of the claim ends the walk.
ClaimSource(c) ==
    /\ At(c, "claim")
    /\ LET s == SourceOf(c) IN
          \/ Claimable(s) /\ Record(s, Executing(c)) /\ Goto(c, "fetch") /\ UNCHANGED claim
          \/ Claimable(s) /\ RecordFails(s, Executing(c)) /\ End(c)
          \/ /\ ~ Claimable(s)
             /\ \/ outcomes[s].kind = "executing" /\ Goto(c, "listOpen") /\ UNCHANGED claim
                \/ outcomes[s].kind # "executing" /\ Goto(c, "listDone") /\ UNCHANGED claim
                \/ End(c)
             /\ UNCHANGED outcomes
    /\ UNCHANGED <<receipts, ledger>>

\* An open execution is reported with its receipt, if it has one; two receipts
\* are for somebody to look at.
ListOpen(c) ==
    /\ At(c, "listOpen")
    /\ \/ Cardinality(receipts) =< 1 /\ Report(c)
       \/ End(c)
    /\ UNCHANGED <<files, ledger>>

\* The pending receipt is that of the accepted outcome.
Matches(s) == outcomes[s].kind = "accepted" /\ outcomes[s].tx \in receipts
              /\ paidFor[outcomes[s].tx] = s

\* A completed source is answered from the file; its own receipt is acknowledged
\* first, and one that is not its own ends the walk.
ListDone(c) ==
    /\ At(c, "listDone")
    /\ LET s == SourceOf(c) IN
          \/ /\ Matches(s)
             /\ Put(c, [call[c] EXCEPT !.pc = "ackDone", !.tx = outcomes[s].tx])
             /\ UNCHANGED claim
          \/ receipts = {} /\ Report(c)
          \/ ~ (receipts = {}) /\ ~ Matches(s) /\ End(c)
          \/ End(c)
    /\ UNCHANGED <<files, ledger>>

\* acknowledgeDelivery: the receipt, then the settlement if it is this one, then
\* whatever claim the agent has.
AckDone(c) ==
    /\ At(c, "ackDone")
    /\ \/ /\ receipts' = receipts \ {TxOf(c)}
          /\ GoOn(c, IF call[c].held = TxOf(c) THEN Nothing ELSE call[c].held, Released(c))
       \/ ClearFails(TxOf(c)) /\ End(c)
    /\ UNCHANGED <<outcomes, ledger>>

-----------------------------------------------------------------------------
(* agent.fetch, for a source that has been claimed                          *)

\* A receipt of the file becomes the pending settlement under the claim, or the
\* claim is refused: the source is reported with that receipt, or with none.
Hydrate(c) ==
    \E t \in receipts : IF claim \in {c, Nothing} THEN GoOn(c, t, c) ELSE Report(c)

\* fetch, up to its first request; an agent with a pending settlement refuses.
Fetch(c) ==
    /\ At(c, "fetch")
    /\ \/ call[c].held # Nothing /\ Report(c)
       \/ call[c].held = Nothing /\ receipts = {} /\ Goto(c, "request") /\ UNCHANGED claim
       \/ call[c].held = Nothing /\ Hydrate(c)
       \/ call[c].held = Nothing /\ Report(c)
    /\ UNCHANGED <<files, ledger>>

\* A 402 that fits is paid under the claim, if that is free; another status may be
\* a refusal of the merchant; anything else leaves the execution open.
Request(c) ==
    /\ At(c, "request")
    /\ \/ claim = Nothing /\ claim' = c /\ Goto(c, "pay")
       \/ Goto(c, "refused") /\ UNCHANGED claim
       \/ Report(c)
    /\ UNCHANGED <<files, ledger>>

\* pay looks for receipts once more, now under the claim.
PayList(c) ==
    /\ At(c, "pay")
    /\ \/ receipts = {} /\ Goto(c, "sign") /\ UNCHANGED claim
       \/ Hydrate(c)
       \/ GiveUp(c)
    /\ UNCHANGED <<files, ledger>>

\* Read, simulate and sign.  The contract may refuse in the simulation, for a
\* reason that ends the purchase (#4 to #7) or for another.
Sign(c) ==
    /\ At(c, "sign")
    /\ \/ \E t \in Txs :
             /\ chain[t] = "new"
             /\ chain' = [chain EXCEPT ![t] = "signed"]
             /\ paidFor' = [paidFor EXCEPT ![t] = SourceOf(c)]
             /\ Put(c, [call[c] EXCEPT !.pc = "save", !.tx = t, !.held = t])
             /\ UNCHANGED claim
       \/ /\ Goto(c, "rejected") /\ claim' = Released(c)
          /\ UNCHANGED ledger
       \/ GiveUp(c) /\ UNCHANGED ledger
    /\ UNCHANGED files

\* The payment is over before it began, or failed: settlement and claim are
\* given up, and the receipt is cleared next.
Abandon(c, pc) == /\ Put(c, [call[c] EXCEPT !.pc = pc, !.held = Nothing])
                  /\ claim' = Released(c)

Save(c) ==
    /\ At(c, "save")
    /\ \/ receipts' = receipts \cup {TxOf(c)} /\ Goto(c, "send") /\ UNCHANGED claim
       \/ SaveFails(TxOf(c)) /\ Abandon(c, "forget")
    /\ UNCHANGED <<outcomes, ledger>>

\* DeliveryPendingError keeps claim and settlement.
Send(c) ==
    /\ At(c, "send")
    /\ \/ /\ chain[TxOf(c)] = "signed"
          /\ chain' = [chain EXCEPT ![TxOf(c)] = "sent"]
          /\ Goto(c, "await")
          /\ UNCHANGED claim
       \/ Report(c) /\ UNCHANGED chain
    /\ UNCHANGED <<files, paidFor>>

\* Faulty: no success is taken for a rejection.
NoSuccess(t)    == chain[t] # "success"
FinalFailure(t) == chain[t] = "failed"

\* A final rejection of the contract ends the purchase if its reason is one of #4
\* to #7.
Await(c) ==
    /\ At(c, "await")
    /\ \/ chain[TxOf(c)] = "success" /\ Goto(c, "deliver") /\ UNCHANGED claim
       \/ FinalFailure(TxOf(c)) /\ (Abandon(c, "forget") \/ Abandon(c, "forgetRejected"))
       \/ Report(c)
    /\ UNCHANGED <<files, ledger>>

\* Whatever the file answers, the receipt of a payment not made is left at that.
Forget(c) ==
    /\ \/ At(c, "forget") /\ GoOn(c, call[c].held, claim)
       \/ At(c, "forgetRejected") /\ Goto(c, "rejected") /\ UNCHANGED claim
    /\ ClearFails(TxOf(c))
    /\ UNCHANGED <<outcomes, ledger>>

\* retryDelivery: the merchant answers with a result that is valid, or not, or the
\* answer does not arrive whole.
Deliver(c) ==
    /\ At(c, "deliver")
    /\ \/ Goto(c, "complete") /\ UNCHANGED claim
       \/ Report(c)
    /\ UNCHANGED <<files, ledger>>

-----------------------------------------------------------------------------
(* buyResearch: the outcome, then the acknowledgment                       *)

\* Faulty: the receipt is acknowledged first.
AckFirst(c) ==
    /\ At(c, "complete")
    /\ \/ receipts' = receipts \ {TxOf(c)} /\ GiveUp(c)
       \/ ClearFails(TxOf(c)) /\ Report(c)
    /\ UNCHANGED <<outcomes, ledger>>
Complete(c) ==
    /\ At(c, "complete")
    /\ CompleteAs(SourceOf(c), c, Accepted(TxOf(c)),
                  Goto(c, "ack") /\ UNCHANGED claim, Report(c))
    /\ UNCHANGED <<receipts, ledger>>

Ack(c) ==
    /\ At(c, "ack")
    /\ \/ receipts' = receipts \ {TxOf(c)} /\ GiveUp(c)
       \/ ClearFails(TxOf(c)) /\ Report(c)
    /\ UNCHANGED <<outcomes, ledger>>

\* A rejection that cannot be stored leaves the execution open; if it is one of the
\* contract, the error ends the walk.
Reject(c) ==
    /\ call[c].pc \in {"refused", "rejected"}
    /\ CompleteAs(SourceOf(c), c, Rejected,
                  Report(c), IF At(c, "refused") THEN Report(c) ELSE End(c))
    /\ UNCHANGED <<receipts, ledger>>

-----------------------------------------------------------------------------
(* Recovery by the application, as the README has it                       *)

\* resumePendingDelivery: refused if any agent has the claim.
Resume(c, t) ==
    /\ At(c, "idle") /\ t \in receipts
    /\ claim = Nothing
    /\ claim' = c
    /\ Put(c, [Idle EXCEPT !.pc = "resume", !.tx = t])
    /\ UNCHANGED <<files, ledger>>

\* The response arrives and the agent is gone, with the claim.
Resumed(c) ==
    /\ At(c, "resume")
    /\ \/ chain[TxOf(c)] = "success" /\ Goto(c, "accept") /\ claim' = Discarded(c)
       \/ End(c)
    /\ UNCHANGED <<files, ledger>>

\* The application looks the purchase up and completes it with the executionId it
\* finds, unless it is complete.
Accept(c) ==
    /\ At(c, "accept")
    /\ LET s == paidFor[TxOf(c)]
           r == Accepted(TxOf(c))
       IN  \/ /\ outcomes[s].kind = "executing"
              /\ CompleteAs(s, outcomes[s].by, r, Goto(c, "ackPending"), Put(c, Idle))
           \/ outcomes[s] = r /\ UNCHANGED outcomes /\ Goto(c, "ackPending")
           \/ UNCHANGED outcomes /\ Put(c, Idle)
    /\ UNCHANGED <<claim, receipts, ledger>>

\* acknowledgePendingDelivery, at once if the outcome is durable already.
AckAccepted(c, t) ==
    /\ At(c, "idle") /\ t \in receipts
    /\ outcomes[paidFor[t]] = Accepted(t)
    /\ Put(c, [Idle EXCEPT !.pc = "ackPending", !.tx = t])
    /\ UNCHANGED <<claim, files, ledger>>

AckPending(c) ==
    /\ At(c, "ackPending")
    /\ receipts' = receipts \ {TxOf(c)} \/ ClearFails(TxOf(c))
    /\ Put(c, Idle)
    /\ UNCHANGED <<claim, outcomes, ledger>>

\* reconcilePendingSettlement of an agent made for it.
Reconcile(c) ==
    /\ At(c, "idle") /\ claim = Nothing
    /\ claim' = c
    /\ Put(c, [Idle EXCEPT !.pc = "find"])
    /\ UNCHANGED <<files, ledger>>

Find(c) ==
    /\ At(c, "find")
    /\ \/ \E t \in receipts : /\ Put(c, [call[c] EXCEPT !.pc = "query", !.tx = t, !.held = t])
                              /\ UNCHANGED claim
       \/ Put(c, Idle) /\ claim' = Released(c)
    /\ UNCHANGED <<files, ledger>>

\* Faulty: a transaction is only given up if the ledger says it failed.
FailedOnly(t) == chain[t] = "failed"
\* FAILED, or NOT_FOUND in a ledger past its validity.
NoPayment(t) == chain[t] \in {"failed", "expired"}

Query(c) ==
    /\ At(c, "query")
    /\ \/ /\ NoPayment(TxOf(c))
          /\ Put(c, [call[c] EXCEPT !.pc = "clear", !.held = Nothing])
          /\ UNCHANGED claim
       \/ End(c)
    /\ UNCHANGED <<files, ledger>>

Clear(c) ==
    /\ At(c, "clear")
    /\ \/ receipts' = receipts \ {TxOf(c)} /\ Put(c, Idle) /\ claim' = Released(c)
       \/ ClearFails(TxOf(c)) /\ End(c)
    /\ UNCHANGED <<outcomes, ledger>>

-----------------------------------------------------------------------------
(* The environment                                                         *)

\* The process dies and is started again.
Restart ==
    /\ claim' = Nothing
    /\ call' = [c \in Calls |-> Idle]
    /\ UNCHANGED <<files, ledger>>

Land(t) ==
    /\ chain[t] = "sent"
    /\ \E fate \in {"success", "failed"} : chain' = [chain EXCEPT ![t] = fate]
    /\ UNCHANGED <<claim, call, files, paidFor>>

Expire(t) ==
    /\ chain[t] \in {"signed", "sent"}
    /\ chain' = [chain EXCEPT ![t] = "expired"]
    /\ UNCHANGED <<claim, call, files, paidFor>>

Init ==
    /\ claim = Nothing
    /\ call = [c \in Calls |-> Idle]
    /\ outcomes = [s \in Sources |-> Missing]
    /\ receipts = {}
    /\ chain = [t \in Txs |-> "new"]
    /\ paidFor = [t \in Txs |-> Nothing]

Walk(c) ==
    \/ ClaimSource(c) \/ ListOpen(c) \/ ListDone(c) \/ AckDone(c)
    \/ Fetch(c) \/ Request(c) \/ PayList(c) \/ Sign(c) \/ Save(c) \/ Send(c)
    \/ Await(c) \/ Forget(c) \/ Deliver(c) \/ Complete(c) \/ Ack(c) \/ Reject(c)

Recover(c) == \/ Resumed(c) \/ Accept(c) \/ AckPending(c)
              \/ Find(c) \/ Query(c) \/ Clear(c)

Next ==
    \/ \E c \in Calls :
          \/ Buy(c) \/ Reconcile(c) \/ Walk(c) \/ Recover(c)
          \/ \E t \in Txs : Resume(c, t) \/ AckAccepted(c, t)
    \/ Restart
    \/ \E t \in Txs : Land(t) \/ Expire(t)

Spec == Init /\ [][Next]_vars

\* The steps of a recovery that succeed.
Resumes(c)   == Resumed(c) /\ (At(c, "accept"))'
Accepts(c)   == Accept(c) /\ (At(c, "ackPending"))'
Finds(c)     == Find(c) /\ (At(c, "query"))' /\ NoPayment(call'[c].tx)
Concludes(c) == Query(c) /\ (At(c, "clear"))'
Removes(c)   == (AckPending(c) \/ Clear(c)) /\ receipts' # receipts

\* Awaited calls return; the application keeps resuming, reconciling and
\* acknowledging receipts, and the process is restarted when the claim is lost,
\* so that none of this is for ever in vain.  Transactions land or expire.
Fairness ==
    /\ \A c \in Calls : WF_vars(Walk(c) \/ Recover(c))
    /\ SF_vars(claim = Lost /\ Restart)
    /\ SF_vars(\E c \in Calls, t \in Txs : chain[t] = "success" /\ Resume(c, t))
    /\ SF_vars(\E c \in Calls : Resumes(c))
    /\ SF_vars(\E c \in Calls : Accepts(c))
    /\ SF_vars(\E c \in Calls : Reconcile(c))
    /\ SF_vars(\E c \in Calls : Finds(c))
    /\ SF_vars(\E c \in Calls : Concludes(c))
    /\ SF_vars(\E c \in Calls : Removes(c))
    /\ WF_vars(\E t \in Txs : Land(t) \/ Expire(t))

FairSpec == Spec /\ Fairness

-----------------------------------------------------------------------------
(* Properties                                                              *)

\* "Concurrent consumers cannot start the same purchase twice" (README of the
\* consumer): however walks overlap, fail, are repeated and restarted, no source
\* has two transactions signed for it.
BoughtOnce == \A s \in Sources : Cardinality({t \in Txs : paidFor[t] = s}) =< 1

\* A transaction that may have paid is not forgotten: its receipt is in the file,
\* or its result is.
PaidIsRecoverable ==
    \A t \in Txs : chain[t] \in {"sent", "success"} =>
        t \in receipts \/ outcomes[paidFor[t]] = Accepted(t)

\* What the outcome file says happened: an accepted source was paid by that
\* transaction, a rejected one by none and never will be.
OutcomeIsTruth ==
    \A s \in Sources :
        /\ outcomes[s].kind = "accepted" => /\ chain[outcomes[s].tx] = "success"
                                            /\ paidFor[outcomes[s].tx] = s
        /\ outcomes[s] = Rejected => \A t \in Txs : paidFor[t] = s => chain[t] \in {"failed", "expired"}

\* No receipt stands in the way of the mandate for ever: again and again none is
\* pending, and by PaidIsRecoverable every payment's result is then in the
\* outcome file.
ReceiptsResolve == []<>(receipts = {})

\* "Use resumePendingDelivery": when every call has returned and a receipt is
\* pending, a resumption is not refused.
Resumable == (receipts # {} /\ \A c \in Calls : At(c, "idle")) => claim = Nothing
=============================================================================
