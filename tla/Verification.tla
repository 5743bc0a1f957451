---------------------------- MODULE Verification ----------------------------
(***************************************************************************)
(* createStellarPaymentVerifier: what a merchant concludes about a         *)
(* transaction from the events it emitted, and what the transaction did.   *)
(*                                                                         *)
(* Chain[t] is what t does: the contract calls it makes.  The verifier     *)
(* sees only their events, decoded; that the two agree is what the         *)
(* properties of the gates that use it are about.  An event is a record of *)
(* the fields the selection compares; one of another name or shape is one  *)
(* the selection passes over.                                              *)
(***************************************************************************)
EXTENDS Amounts, FiniteSets, Sequences, SequencesExt

CONSTANTS
    Mandate,      \* Mandate[m]: [user, agent, merchant, asset], as stored on-chain
    Chain,        \* Chain[t]: [status, calls]
    MaxProofAge,  \* maxProofAgeLedgers
    RpcLag,       \* ledgers the RPC may be behind
    Nothing       \* no value

-----------------------------------------------------------------------------
(* What transactions do, and the events it emits                           *)

\* execute_payment of a registry, one leg of clear_pool, a plain transfer.
Pay(registry, m, amount)     == [op |-> "pay", on |-> registry, mandate |-> m,
                                 from |-> Mandate[m].user, to |-> Mandate[m].merchant,
                                 amount |-> amount]
Capture(registry, m, amount) == [Pay(registry, m, amount) EXCEPT !.op = "capture"]
Transfer(asset, from, to, amount) ==
    [op |-> "transfer", on |-> asset, mandate |-> Nothing,
     from |-> from, to |-> to, amount |-> amount]

\* What is on the chain is sequences of these calls; their events are not nothing.
IsCall(call) == IF call.op = "transfer"
                THEN call = Transfer(call.on, call.from, call.to, call.amount)
                ELSE /\ call.op \in {"pay", "capture"}
                     /\ call = [Pay(call.on, call.mandate, call.amount) EXCEPT !.op = call.op]

TransferEvent(asset, call) == [call EXCEPT !.op = "transfer", !.on = asset, !.mandate = Nothing]
PaymentEvent(call)         == [call EXCEPT !.op = "payment", !.from = Nothing]
CaptureEvent(call)         == [call EXCEPT !.op = "pool_clr", !.from = Nothing]

EventsOf(call) ==
    IF call.op = "transfer" THEN <<call>>
    ELSE <<TransferEvent(Mandate[call.mandate].asset, call),
           IF call.op = "pay" THEN PaymentEvent(call) ELSE CaptureEvent(call)>>

ASSUME ChainAssumption ==
    \A t \in DOMAIN Chain :
        LET calls == Chain[t].calls
        IN  /\ calls \in Seq({calls[k] : k \in DOMAIN calls})
            /\ \A k \in DOMAIN calls : IsCall(calls[k]) /\ PaymentEvent(calls[k]) # Nothing

\* interpretEvents(extractContractEvents(..)): the events of all operations, in order.
Events(t) == FlattenSeq([i \in DOMAIN Chain[t].calls |-> EventsOf(Chain[t].calls[i])])

-----------------------------------------------------------------------------
(* The selection                                                           *)

\* A merchant's requirement is [merchant, asset, registry, stroops, decimals].

\* Faulty: the registry that emitted it is not looked at.
AnyRegistry(e, need) == /\ e.op = "payment" /\ e.to = need.merchant
                        /\ e.amount > 0 /\ e.amount >= need.stroops
Eligible(e, need) == /\ e.op = "payment" /\ e.on = need.registry
                     /\ e.to = need.merchant
                     /\ e.amount > 0 /\ e.amount >= need.stroops

\* selectPayment: the one eligible payment, or Nothing if there is none or several.
SelectPayment(events, need) ==
    LET eligible == {i \in DOMAIN events : Eligible(events[i], need)}
    IN  IF Cardinality(eligible) = 1 THEN events[CHOOSE i \in eligible : TRUE] ELSE Nothing

\* selectTransfer: exactly one transfer of that amount from that user.
SelectTransfer(events, asset, user, merchant, amount) ==
    Cardinality({i \in DOMAIN events :
                    /\ events[i].op = "transfer" /\ events[i].on = asset
                    /\ events[i].from = user /\ events[i].to = merchant
                    /\ events[i].amount = amount}) = 1

\* The VerifiedPayment, all of it read from the chain.
VerifiedPayment(t, event, need) ==
    LET mandate == Mandate[event.mandate]
    IN  [tx |-> t, mandate |-> event.mandate,
         user |-> mandate.user, agent |-> mandate.agent,
         text |-> FormatStroops(event.amount, need.decimals),
         amount |-> event.amount,
         merchant |-> mandate.merchant, asset |-> mandate.asset,
         registry |-> need.registry]

\* The payment the transaction's events show, or Nothing if they do not show one.
Shown(t, need) ==
    LET events == Events(t)
        event  == SelectPayment(events, need)
    IN  IF event = Nothing THEN Nothing
        ELSE LET mandate == Mandate[event.mandate]
             IN  IF /\ mandate.merchant = need.merchant
                    /\ mandate.asset = need.asset
                    /\ SelectTransfer(events, mandate.asset, mandate.user,
                                      need.merchant, event.amount)
                 THEN VerifiedPayment(t, event, need)
                 ELSE Nothing

-----------------------------------------------------------------------------
(* verify()                                                                *)

\* Faulty: counts the ledgers between the two.
FreshBetween(closed, latest) == latest - closed - 1 <= MaxProofAge
Fresh(closed, latest) == latest - closed <= MaxProofAge

\* Faulty: an RPC behind the one that closed the ledger is believed.
VerdictOfLaggard(t, shows, closed, latest) ==
    IF closed = Nothing THEN "unavailable"
    ELSE IF Chain[t].status = "SUCCESS" /\ closed <= latest /\ Fresh(closed, latest) /\ shows
         THEN "ok" ELSE "invalid"
\* The verdict on transaction t, that shows a payment or does not, closed in ledger
\* `closed' (Nothing: the polls did not find it), by an RPC at ledger `latest':
\* "unavailable" for what may change, "invalid" for what may not.
Verdict(t, shows, closed, latest) ==
    IF closed = Nothing \/ (Chain[t].status = "SUCCESS" /\ closed > latest) THEN "unavailable"
    ELSE IF Chain[t].status = "SUCCESS" /\ Fresh(closed, latest) /\ shows THEN "ok"
    ELSE "invalid"
=============================================================================
