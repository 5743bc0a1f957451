----------------------- MODULE ConsumerPurchaseProofs -----------------------
(***************************************************************************)
(* What the consumer promises, for every number of calls, of sources and   *)
(* of transactions.                                                        *)
(*                                                                         *)
(* The claim of the SDK takes no part in this: the outcome file does it.   *)
(* A call that may still pay for a source is the one its open record       *)
(* names, and nothing has been signed for that source yet; what it signs   *)
(* is its own to send and to forget; and a record is only ever written     *)
(* over an open one, by what was true when it was written and stays so.    *)
(***************************************************************************)
EXTENDS ConsumerPurchase, FiniteSetTheorems, SequenceTheorems, TLAPS

-----------------------------------------------------------------------------
(* The inductive invariant                                                 *)

Pcs == {"idle", "claim", "listOpen", "listDone", "ackDone", "fetch", "request", "pay", "sign",
        "save", "send", "await", "forget", "forgetRejected", "deliver", "complete", "ack",
        "refused", "rejected", "resume", "accept", "ackPending", "find", "query", "clear"}
CallStates == [pc : Pcs, at : Nat, tx : Txs \cup {Nothing}, held : Txs \cup {Nothing}]
Records    == {Missing, Rejected} \cup {Executing(c) : c \in Calls} \cup {Accepted(t) : t \in Txs}
Fates      == {"new", "signed", "sent", "success", "failed", "expired"}

TypeInv ==
    /\ call \in [Calls -> CallStates]
    /\ outcomes \in [Sources -> Records]
    /\ receipts \in SUBSET Txs
    /\ chain \in [Txs -> Fates]
    /\ paidFor \in [Txs -> Sources \cup {Nothing}]

\* Before a source is paid for, and after it was refused.
Unpaid   == {"fetch", "request", "pay", "sign", "refused"}
Declined == {"rejected", "forgetRejected"}
\* The points at which a call has a transaction of its own.
Owning   == {"save", "send", "await", "forget", "forgetRejected"}
\* Those at which a call is about the transaction paid for the source it is at.
About    == Owning \cup {"deliver", "complete", "ack", "ackDone"}
\* Those of the walk over the sources, and those of a recovery that need a transaction.
Walking  == Unpaid \cup Declined \cup About \cup {"claim", "listOpen", "listDone"}
Named    == About \cup {"resume", "accept", "ackPending", "query", "clear"}

\* What is known of a call at each point of it.
CallOK(c, q) ==
    LET s == SourceIds[q.at] IN
    /\ q.pc \in Walking => q.at \in DOMAIN SourceIds
    /\ q.pc \in Named => q.tx \in Txs /\ chain[q.tx] # "new"
    /\ q.pc \in Unpaid => outcomes[s] = Executing(c) /\ \A t \in Txs : paidFor[t] # s
    /\ q.pc \in Declined => outcomes[s] = Executing(c)
                            /\ \A t \in Txs : paidFor[t] = s => chain[t] = "failed"
    /\ q.pc \in About => paidFor[q.tx] = s
    /\ q.pc \in {"save", "send", "await"} => outcomes[s] = Executing(c) \/ chain[q.tx] = "success"
    /\ q.pc \in {"save", "send"} => chain[q.tx] \in {"signed", "expired"}
    /\ q.pc = "send" => chain[q.tx] = "expired" \/ q.tx \in receipts
    /\ q.pc = "forget" => chain[q.tx] \in {"signed", "failed", "expired"}
    /\ q.pc \in {"deliver", "complete", "accept"} => chain[q.tx] = "success"
    /\ q.pc \in {"ack", "ackDone", "ackPending"} => outcomes[paidFor[q.tx]] = Accepted(q.tx)
    /\ q.pc = "clear" => chain[q.tx] \in {"failed", "expired"}

\* A transaction is one call's to send and to forget.
Owners == \A c, d \in Calls :
    call[c].pc \in Owning /\ call[d].pc \in Owning /\ TxOf(c) = TxOf(d) => c = d

\* What was signed was signed for a source, one for each.
Purchases ==
    /\ \A t \in Txs : chain[t] = "new" <=> paidFor[t] = Nothing
    /\ \A t, u \in Txs : paidFor[t] # Nothing /\ paidFor[t] = paidFor[u] => t = u

\* The files tell what became of the payments.
Files ==
    /\ \A t \in receipts : chain[t] # "new"
    /\ \A s \in Sources : outcomes[s] = Missing => \A t \in Txs : paidFor[t] # s
    /\ \A s \in Sources, t \in Txs : outcomes[s] = Accepted(t) => chain[t] = "success" /\ paidFor[t] = s
    /\ \A s \in Sources : outcomes[s] = Rejected =>
          \A t \in Txs : paidFor[t] = s => chain[t] \in {"failed", "expired"}
    /\ \A t \in Txs : chain[t] \in {"sent", "success"} =>
          t \in receipts \/ outcomes[paidFor[t]] = Accepted(t)

IInv == TypeInv /\ (\A c \in Calls : CallOK(c, call[c])) /\ Owners /\ Purchases /\ Files

-----------------------------------------------------------------------------
(* Steps of one call                                                       *)

\* The records change only where a record is open, to what is true; the caller's own.
OutcomesMove(c) ==
    /\ outcomes' \in [Sources -> Records]
    /\ \A s \in Sources :
          \/ outcomes'[s] = outcomes[s]
          \/ outcomes[s] = Missing /\ outcomes'[s] = Executing(c)
          \/ /\ outcomes[s].kind = "executing"
             /\ \E t \in Txs : outcomes'[s] = Accepted(t) /\ paidFor[t] = s /\ chain[t] = "success"
          \/ /\ outcomes[s] = Executing(c) /\ outcomes'[s] = Rejected
             /\ \A t \in Txs : paidFor[t] = s => chain[t] \in {"failed", "expired"}

\* A receipt is kept until it is of no use any more, or its transaction is the
\* caller's own and never sent.
ReceiptsMove(c) ==
    /\ receipts' \in SUBSET Txs
    /\ \A t \in receipts' : t \in receipts \/ chain[t] # "new"
    /\ \A t \in receipts :
          \/ t \in receipts'
          \/ chain[t] \in {"failed", "expired"}
          \/ outcomes[paidFor[t]] = Accepted(t)
          \/ call[c].pc \in Owning /\ TxOf(c) = t /\ chain[t] = "signed"

\* The records of the outcome file are told apart.
LEMMA RecordsDiffer ==
    /\ \A c, d : Executing(c) = Executing(d) => c = d
    /\ \A t, u : Accepted(t) = Accepted(u) => t = u
    /\ \A c, t : /\ Executing(c) # Accepted(t) /\ Executing(c) # Missing /\ Executing(c) # Rejected
                 /\ Accepted(t) # Missing /\ Accepted(t) # Rejected
                 /\ Executing(c).kind = "executing" /\ Accepted(t).kind = "accepted"
                 /\ Executing(c).by = c /\ Accepted(t).tx = t
    /\ Missing # Rejected /\ Missing.kind = "missing" /\ Rejected.kind = "rejected"
BY DEF Executing, Accepted, Missing, Rejected

\* A record says what it is.
LEMMA RecordIs ==
    ASSUME NEW r \in Records
    PROVE  /\ r.kind = "missing" <=> r = Missing
           /\ r.kind = "rejected" <=> r = Rejected
           /\ r.kind = "executing" => r.by \in Calls /\ r = Executing(r.by)
           /\ r.kind = "accepted" => r.tx \in Txs /\ r = Accepted(r.tx)
           /\ r.kind \in {"missing", "rejected", "executing", "accepted"}
BY DEF Records, Executing, Accepted, Missing, Rejected

\* A step of one call that leaves the ledger alone keeps the invariant if it moves the
\* files as it may, takes no transaction over, and what it says of itself is so.
LEMMA CallKeeps ==
    ASSUME IInv, NEW c \in Calls, NEW q \in CallStates,
           call' = [call EXCEPT ![c] = q], UNCHANGED ledger,
           OutcomesMove(c), ReceiptsMove(c),
           q.pc \in Owning => call[c].pc \in Owning /\ q.tx = TxOf(c),
           CallOK(c, q)'
    PROVE  IInv'
<1>0. TypeInv /\ (\A d \in Calls : CallOK(d, call[d])) /\ Owners /\ Purchases /\ Files
      BY DEF IInv
<1>a. chain' = chain /\ paidFor' = paidFor
      BY DEF ledger
<1>b. \A d \in Calls : call'[d] = IF d = c THEN q ELSE call[d]
      BY <1>0 DEF TypeInv
<1>1. TypeInv'
      BY <1>0, <1>a DEF TypeInv, OutcomesMove, ReceiptsMove
<1>c. \A s \in Sources, t \in Txs : outcomes[s] = Accepted(t) => outcomes'[s] = Accepted(t)
      BY <1>0, RecordsDiffer DEF OutcomesMove
<1>d. \A t \in Txs : chain[t] # "new" => paidFor[t] \in Sources
      BY <1>0 DEF TypeInv, Purchases
<1>2. ASSUME NEW d \in Calls
      PROVE  CallOK(d, call[d])'
  <2>1. CASE d = c
        BY <2>1, <1>b DEF CallOK
  <2>2. CASE d # c
    <3> DEFINE r == call[d]
               s == SourceIds[r.at]
    <3>1. call'[d] = call[d] /\ CallOK(d, r)
          BY <2>2, <1>0, <1>b
    <3>2. r.pc \in Walking => s \in Sources
          BY <3>1 DEF CallOK, Sources
    <3>3. r.pc \in Unpaid => outcomes'[s] = Executing(d)
      <4> SUFFICES ASSUME r.pc \in Unpaid PROVE outcomes'[s] = Executing(d)
          OBVIOUS
      <4>1. s \in Sources /\ outcomes[s] = Executing(d) /\ \A t \in Txs : paidFor[t] # s
            BY <3>1, <3>2 DEF CallOK, Walking
      <4> QED BY <4>1, <2>2, RecordsDiffer DEF OutcomesMove
    <3>4. r.pc \in Declined => outcomes'[s] = Executing(d)
      <4> SUFFICES ASSUME r.pc \in Declined PROVE outcomes'[s] = Executing(d)
          OBVIOUS
      <4>1. s \in Sources /\ outcomes[s] = Executing(d)
            /\ \A t \in Txs : paidFor[t] = s => chain[t] = "failed"
            BY <3>1, <3>2 DEF CallOK, Walking
      <4> QED BY <4>1, <2>2, RecordsDiffer DEF OutcomesMove
    <3>5. r.pc = "send" => chain[r.tx] = "expired" \/ r.tx \in receipts'
      <4> SUFFICES ASSUME r.pc = "send", chain[r.tx] # "expired" PROVE r.tx \in receipts'
          OBVIOUS
      <4>1. r.tx \in Txs /\ r.tx \in receipts /\ chain[r.tx] = "signed"
            BY <3>1 DEF CallOK, Named, About, Owning
      <4>2. outcomes[paidFor[r.tx]] # Accepted(r.tx)
            BY <4>1, <1>0, <1>d DEF Files
      <4>3. ~ (call[c].pc \in Owning /\ TxOf(c) = r.tx)
            BY <1>0, <2>2 DEF Owners, TxOf, Owning
      <4> QED BY <4>1, <4>2, <4>3 DEF ReceiptsMove
    <3>6. r.pc \in {"ack", "ackDone", "ackPending"} => outcomes'[paidFor[r.tx]] = Accepted(r.tx)
      <4> SUFFICES ASSUME r.pc \in {"ack", "ackDone", "ackPending"}
                   PROVE  outcomes'[paidFor[r.tx]] = Accepted(r.tx)
          OBVIOUS
      <4>1. r.tx \in Txs /\ outcomes[paidFor[r.tx]] = Accepted(r.tx)
            BY <3>1 DEF CallOK, Named, About
      <4>2. paidFor[r.tx] \in Sources
            BY <3>1, <1>d DEF CallOK, Named, About
      <4> QED BY <4>1, <4>2, <1>c
    <3>7. r.pc \in {"save", "send", "await"} => outcomes'[s] = Executing(d) \/ chain[r.tx] = "success"
      <4> SUFFICES ASSUME r.pc \in {"save", "send", "await"}, chain[r.tx] # "success"
                   PROVE  outcomes'[s] = Executing(d)
          OBVIOUS
      <4>1. /\ r.tx \in Txs /\ s \in Sources /\ paidFor[r.tx] = s
            /\ chain[r.tx] # "new" /\ outcomes[s] = Executing(d)
            BY <3>1, <3>2 DEF CallOK, Walking, Named, About, Owning
      <4>2. ASSUME NEW t \in Txs, paidFor[t] = s PROVE t = r.tx
            BY <4>1, <4>2, <1>0, <1>d DEF Purchases
      <4> QED BY <4>1, <4>2, <2>2, RecordsDiffer DEF OutcomesMove
    <3> QED BY <3>1, <3>3, <3>4, <3>5, <3>6, <3>7, <1>a DEF CallOK
  <2> QED BY <2>1, <2>2
<1>3. Owners'
      BY <1>0, <1>b DEF Owners, TxOf
<1>4. Purchases'
      BY <1>0, <1>a DEF Purchases
<1>5. Files'
  <2>1. \A t \in receipts' : chain[t] # "new"
        BY <1>0 DEF Files, ReceiptsMove
  <2>2. ASSUME NEW s \in Sources, NEW t \in Txs, outcomes'[s] = Accepted(t)
        PROVE  chain[t] = "success" /\ paidFor[t] = s
        BY <2>2, <1>0, RecordsDiffer DEF Files, OutcomesMove
  <2>3. ASSUME NEW s \in Sources, outcomes'[s] = Rejected, NEW t \in Txs, paidFor[t] = s
        PROVE  chain[t] \in {"failed", "expired"}
        BY <2>3, <1>0, RecordsDiffer DEF Files, OutcomesMove
  <2>4. ASSUME NEW t \in Txs, chain[t] \in {"sent", "success"}
        PROVE  t \in receipts' \/ outcomes'[paidFor[t]] = Accepted(t)
        BY <2>4, <1>0, <1>c, <1>d DEF Files, ReceiptsMove
  <2>5. ASSUME NEW s \in Sources, outcomes'[s] = Missing, NEW t \in Txs
        PROVE  paidFor[t] # s
        BY <2>5, <1>0, RecordsDiffer DEF Files, OutcomesMove
  <2> QED BY <2>1, <2>2, <2>3, <2>4, <2>5, <1>a DEF Files
<1> QED BY <1>1, <1>2, <1>3, <1>4, <1>5 DEF IInv

\* The call has returned, or is about to claim its next source.
Rests(c) ==
    \E q \in CallStates : /\ call' = [call EXCEPT ![c] = q]
                          /\ q.pc \in {"idle", "claim"}
                          /\ q.pc = "claim" => q.at \in DOMAIN SourceIds

\* What the invariant says of the call that takes a step.
LEMMA CallIs ==
    ASSUME IInv, NEW c \in Calls
    PROVE  /\ call[c] \in CallStates /\ CallOK(c, call[c])
           /\ \A q : Put(c, q) <=> call' = [call EXCEPT ![c] = q]
           /\ Idle \in CallStates /\ Idle.pc = "idle"
           /\ call[c].pc \in Walking => call[c].at \in DOMAIN SourceIds /\ SourceOf(c) \in Sources
           /\ call[c].pc \in Named => TxOf(c) \in Txs /\ chain[TxOf(c)] # "new"
           /\ TypeInv
<1>1. TypeInv /\ CallOK(c, call[c])
      BY DEF IInv
<1>2. call[c] \in CallStates
      BY <1>1 DEF TypeInv
<1>3. Idle \in CallStates /\ Idle.pc = "idle"
      BY DEF Idle, CallStates, Pcs
<1> QED BY <1>1, <1>2, <1>3 DEF CallOK, SourceOf, TxOf, Sources, Put

\* A call that ends rests.
LEMMA EndRests ==
    ASSUME IInv, NEW c \in Calls, Put(c, Idle)
    PROVE  Rests(c)
BY CallIs, Zenon DEF Rests

\* And one that goes on with its walk.
LEMMA GoOnRests ==
    ASSUME IInv, NEW c \in Calls, call[c].pc \in Walking,
           NEW held \in Txs \cup {Nothing}, NEW cl, GoOn(c, held, cl)
    PROVE  Rests(c)
<1>1. CASE call[c].at < Len(SourceIds)
  <2> DEFINE q == [pc |-> "claim", at |-> call[c].at + 1, tx |-> Nothing, held |-> held]
  <2>1. call[c].at \in DOMAIN SourceIds
        BY CallIs
  <2>2. DOMAIN SourceIds = 1..Len(SourceIds) /\ Len(SourceIds) \in Nat
        BY PurchaseAssumption
  <2>3. q.at \in DOMAIN SourceIds /\ q.pc = "claim"
        BY <1>1, <2>1, <2>2
  <2>4. q \in CallStates
        BY <2>3, <2>2 DEF CallStates, Pcs
  <2>5. call' = [call EXCEPT ![c] = q]
        BY <1>1 DEF GoOn, Put
  <2> HIDE DEF q
  <2> QED BY <2>3, <2>4, <2>5 DEF Rests
<1>2. CASE ~ (call[c].at < Len(SourceIds))
  <2>1. Put(c, Idle)
        BY <1>2 DEF GoOn
  <2> QED BY <2>1, EndRests
<1> QED BY <1>1, <1>2

\* Going on with what the agent has, or without it.
LEMMA ReportRests ==
    ASSUME IInv, NEW c \in Calls, call[c].pc \in Walking, Report(c) \/ GiveUp(c)
    PROVE  Rests(c)
<1>1. call[c].held \in Txs \cup {Nothing} /\ Nothing \in Txs \cup {Nothing}
      BY CallIs DEF CallStates
<1>2. GoOn(c, call[c].held, claim) \/ GoOn(c, Nothing, Released(c))
      BY DEF Report, GiveUp
<1>3. PICK held \in Txs \cup {Nothing}, cl \in {claim, Released(c)} : GoOn(c, held, cl)
      BY <1>1, <1>2
<1> QED BY <1>3, GoOnRests

\* A call at rest knows nothing.
LEMMA RestsKeep ==
    ASSUME IInv, NEW c \in Calls, Rests(c), UNCHANGED ledger, OutcomesMove(c), ReceiptsMove(c)
    PROVE  IInv'
<1>1. PICK q \in CallStates : /\ call' = [call EXCEPT ![c] = q]
                              /\ q.pc \in {"idle", "claim"}
                              /\ q.pc = "claim" => q.at \in DOMAIN SourceIds
      BY DEF Rests
<1>2. CallOK(c, q)' /\ q.pc \notin Owning
      BY <1>1 DEF CallOK, Walking, Unpaid, Declined, About, Owning, Named
<1> QED BY <1>1, <1>2, CallKeeps

\* Moving on to another point, about the same transaction.
LEMMA GotoIs ==
    ASSUME IInv, NEW c \in Calls, NEW pc \in Pcs, Goto(c, pc)
    PROVE  \E q \in CallStates : /\ call' = [call EXCEPT ![c] = q]
                                 /\ q.pc = pc /\ q.at = call[c].at /\ q.tx = TxOf(c)
<1> DEFINE q == [call[c] EXCEPT !.pc = pc]
<1>1. call[c] \in CallStates
      BY CallIs
<1>2. q \in CallStates /\ q.pc = pc /\ q.at = call[c].at /\ q.tx = TxOf(c)
      BY <1>1 DEF CallStates, TxOf
<1>3. call' = [call EXCEPT ![c] = q]
      BY DEF Goto, Put
<1> HIDE DEF q
<1> QED BY <1>2, <1>3

\* Files that do not move, move as they may.
LEMMA FilesStay ==
    ASSUME IInv, NEW c \in Calls
    PROVE  /\ UNCHANGED outcomes => OutcomesMove(c)
           /\ UNCHANGED receipts => ReceiptsMove(c)
BY DEF IInv, TypeInv, OutcomesMove, ReceiptsMove

-----------------------------------------------------------------------------
(* The walk                                                                *)

\* A call that moves on keeps the invariant if what is said of it there is so.
LEMMA GotoKeeps ==
    ASSUME IInv, NEW c \in Calls, NEW pc \in Pcs, Goto(c, pc), UNCHANGED ledger,
           OutcomesMove(c), ReceiptsMove(c),
           pc \in Owning => call[c].pc \in Owning,
           \A q \in CallStates : q.pc = pc /\ q.at = call[c].at /\ q.tx = TxOf(c) => CallOK(c, q)'
    PROVE  IInv'
<1>1. PICK q \in CallStates : /\ call' = [call EXCEPT ![c] = q]
                              /\ q.pc = pc /\ q.at = call[c].at /\ q.tx = TxOf(c)
      BY GotoIs
<1> QED BY <1>1, CallKeeps

\* Only its open record is asked of a call that may pay.
LEMMA UnpaidKeeps ==
    ASSUME IInv, NEW c \in Calls, call[c].pc \in Unpaid,
           NEW pc \in Unpaid, Goto(c, pc), UNCHANGED <<files, ledger>>
    PROVE  IInv'
<1>1. CallOK(c, call[c]) /\ pc \in Pcs /\ pc \notin Owning
      BY CallIs DEF Unpaid, Pcs, Owning
<1>2. ASSUME NEW q \in CallStates, q.pc = pc, q.at = call[c].at, q.tx = TxOf(c)
      PROVE  CallOK(c, q)'
      BY <1>1, <1>2 DEF CallOK, Walking, Unpaid, Declined, About, Owning, Named, files, ledger
<1> QED BY <1>1, <1>2, GotoKeeps, FilesStay DEF files

\* Buying starts a walk at its first source.
LEMMA BuyKeeps ==
    ASSUME IInv, NEW c \in Calls, Buy(c)
    PROVE  IInv'
<1> DEFINE q == [Idle EXCEPT !.pc = "claim", !.at = 1]
<1>1. q \in CallStates /\ q.pc = "claim" /\ q.at = 1
      BY DEF Idle, CallStates, Pcs
<1>2. 1 \in DOMAIN SourceIds
      BY PurchaseAssumption
<1>3. call' = [call EXCEPT ![c] = q]
      BY DEF Buy, Put
<1> HIDE DEF q
<1>4. Rests(c)
      BY <1>1, <1>2, <1>3 DEF Rests
<1> QED BY <1>4, RestsKeep, FilesStay DEF Buy, files

\* Claiming a source.
LEMMA ClaimSourceKeeps ==
    ASSUME IInv, NEW c \in Calls, ClaimSource(c)
    PROVE  IInv'
<1> DEFINE s == SourceOf(c)
<1>1. /\ call[c].pc = "claim" /\ s \in Sources /\ CallOK(c, call[c])
      /\ s = SourceIds[call[c].at] /\ call[c].at \in DOMAIN SourceIds
      BY CallIs DEF ClaimSource, At, Walking, SourceOf
<1>2. UNCHANGED ledger /\ ReceiptsMove(c)
      BY FilesStay DEF ClaimSource
<1>3. TypeInv /\ Files /\ Purchases
      BY DEF IInv
<1>4. Claimable(s) /\ Record(s, Executing(c)) => OutcomesMove(c) /\ outcomes'[s] = Executing(c)
      BY <1>1, <1>3 DEF Claimable, Record, OutcomesMove, TypeInv, Records
<1>5. Claimable(s) => \A t \in Txs : paidFor[t] # s
      BY <1>1, <1>3 DEF Claimable, Files
<1>6. CASE Claimable(s) /\ Record(s, Executing(c)) /\ Goto(c, "fetch")
  <2>1. ASSUME NEW q \in CallStates, q.pc = "fetch", q.at = call[c].at, q.tx = TxOf(c)
        PROVE  CallOK(c, q)'
        BY <2>1, <1>1, <1>2, <1>4, <1>5, <1>6
           DEF CallOK, Walking, Unpaid, Declined, About, Owning, Named, ledger
  <2>2. "fetch" \in Pcs /\ "fetch" \notin Owning
        BY DEF Pcs, Owning
  <2> QED BY <2>1, <2>2, <1>2, <1>4, <1>6, GotoKeeps
<1>7. CASE Claimable(s) /\ RecordFails(s, Executing(c)) /\ End(c)
  <2>1. OutcomesMove(c)
        BY <1>4, <1>7, FilesStay DEF RecordFails
  <2> QED BY <2>1, <1>2, <1>7, EndRests, RestsKeep DEF End
<1>8. CASE End(c) /\ UNCHANGED outcomes
      BY <1>8, <1>2, FilesStay, EndRests, RestsKeep DEF End
<1>9. CASE (Goto(c, "listOpen") \/ Goto(c, "listDone")) /\ UNCHANGED outcomes
  <2>1. PICK pc \in {"listOpen", "listDone"} : Goto(c, pc)
        BY <1>9
  <2>2. ASSUME NEW q \in CallStates, q.pc = pc, q.at = call[c].at, q.tx = TxOf(c)
        PROVE  CallOK(c, q)'
        BY <2>2, <1>1 DEF CallOK, Walking, Unpaid, Declined, About, Owning, Named
  <2>3. pc \in Pcs /\ pc \notin Owning
        BY DEF Pcs, Owning
  <2> QED BY <2>1, <2>2, <2>3, <1>2, <1>9, FilesStay, GotoKeeps
<1> QED BY <1>6, <1>7, <1>8, <1>9 DEF ClaimSource

\* What the walk meets of a source that was claimed before.
LEMMA ListOpenKeeps ==
    ASSUME IInv, NEW c \in Calls, ListOpen(c)
    PROVE  IInv'
<1>1. call[c].pc \in Walking
      BY DEF ListOpen, At, Walking
<1>2. Rests(c)
      BY <1>1, EndRests, ReportRests DEF ListOpen, End
<1> QED BY <1>2, RestsKeep, FilesStay DEF ListOpen, files

\* A source that is complete: its own receipt is acknowledged, and no other.
LEMMA ListDoneKeeps ==
    ASSUME IInv, NEW c \in Calls, ListDone(c)
    PROVE  IInv'
<1> DEFINE s == SourceOf(c)
<1>1. /\ call[c].pc = "listDone" /\ call[c].pc \in Walking /\ s \in Sources /\ CallOK(c, call[c])
      /\ s = SourceIds[call[c].at] /\ call[c] \in CallStates /\ TypeInv
      BY CallIs DEF ListDone, At, Walking, SourceOf
<1>2. /\ UNCHANGED ledger /\ chain' = chain /\ paidFor' = paidFor /\ outcomes' = outcomes
      /\ OutcomesMove(c) /\ ReceiptsMove(c)
      BY FilesStay DEF ListDone, files, ledger
<1>3. CASE Report(c) \/ End(c)
  <2>1. Rests(c)
        BY <1>1, <1>3, EndRests, ReportRests DEF End
  <2> QED BY <2>1, <1>2, RestsKeep
<1>4. CASE Matches(s) /\ Put(c, [call[c] EXCEPT !.pc = "ackDone", !.tx = outcomes[s].tx])
  <2>1. PICK t \in Txs : /\ outcomes[s] = Accepted(t) /\ paidFor[t] = s /\ t \in receipts
                         /\ Put(c, [call[c] EXCEPT !.pc = "ackDone", !.tx = t])
    <3>1. outcomes[s].tx \in Txs /\ outcomes[s] = Accepted(outcomes[s].tx)
          BY <1>1, <1>4, RecordIs DEF Matches, TypeInv
    <3> QED BY <3>1, <1>4 DEF Matches
  <2>2. PICK q \in CallStates : /\ call' = [call EXCEPT ![c] = q]
                                /\ q.pc = "ackDone" /\ q.at = call[c].at /\ q.tx = t
    <3> DEFINE r == [call[c] EXCEPT !.pc = "ackDone", !.tx = t]
    <3>1. r \in CallStates /\ r.pc = "ackDone" /\ r.at = call[c].at /\ r.tx = t
          BY <1>1 DEF CallStates, Pcs
    <3>2. call' = [call EXCEPT ![c] = r]
          BY <2>1 DEF Put
    <3> HIDE DEF r
    <3> QED BY <3>1, <3>2
  <2>4. chain[t] # "new"
        BY <2>1 DEF IInv, Files
  <2>5. CallOK(c, q)' /\ q.pc \notin Owning
        BY <1>1, <1>2, <2>1, <2>2, <2>4
           DEF CallOK, Walking, Unpaid, Declined, About, Owning, Named
  <2> QED BY <2>2, <2>5, <1>2, CallKeeps
<1> QED BY <1>3, <1>4 DEF ListDone

\* The receipt of an accepted result may go, and so may the write fail.
LEMMA ReceiptGoes ==
    ASSUME IInv, NEW c \in Calls, NEW t \in Txs,
           receipts' = receipts \ {t} \/ ClearFails(t),
           \/ chain[t] \in {"failed", "expired"}
           \/ outcomes[paidFor[t]] = Accepted(t)
           \/ call[c].pc \in Owning /\ TxOf(c) = t /\ chain[t] = "signed"
    PROVE  ReceiptsMove(c)
BY DEF IInv, TypeInv, ClearFails, ReceiptsMove

\* The receipt of an earlier result is acknowledged on the way.
LEMMA AckDoneKeeps ==
    ASSUME IInv, NEW c \in Calls, AckDone(c)
    PROVE  IInv'
<1>1. /\ call[c].pc = "ackDone" /\ call[c].pc \in Walking /\ TxOf(c) \in Txs
      /\ CallOK(c, call[c]) /\ call[c] \in CallStates
      BY CallIs DEF AckDone, At, Walking, About, Named
<1>2. UNCHANGED ledger /\ OutcomesMove(c)
      BY FilesStay DEF AckDone
<1>3. ReceiptsMove(c)
  <2>1. outcomes[paidFor[TxOf(c)]] = Accepted(TxOf(c))
        BY <1>1 DEF CallOK, TxOf
  <2>2. receipts' = receipts \ {TxOf(c)} \/ ClearFails(TxOf(c))
        BY DEF AckDone
  <2> QED BY <1>1, <2>1, <2>2, ReceiptGoes
<1>4. CASE End(c)
      BY <1>4, <1>2, <1>3, EndRests, RestsKeep DEF End
<1>5. CASE GoOn(c, IF call[c].held = TxOf(c) THEN Nothing ELSE call[c].held, Released(c))
  <2>1. PICK held \in Txs \cup {Nothing}, cl \in {Released(c)} : GoOn(c, held, cl)
        BY <1>1, <1>5 DEF CallStates
  <2>2. Rests(c)
        BY <1>1, <2>1, GoOnRests
  <2> QED BY <2>2, <1>2, <1>3, RestsKeep
<1> QED BY <1>4, <1>5 DEF AckDone

\* A call that may still pay, and one that does not any more.
LEMMA HydrateRests ==
    ASSUME IInv, NEW c \in Calls, call[c].pc \in Walking, Hydrate(c)
    PROVE  Rests(c)
<1>1. PICK t \in receipts : GoOn(c, t, c) \/ Report(c)
      BY DEF Hydrate
<1>2. t \in Txs \cup {Nothing}
      BY DEF IInv, TypeInv
<1> QED BY <1>1, <1>2, GoOnRests, ReportRests

\* Fetching claims nothing and signs nothing.
LEMMA FetchKeeps ==
    ASSUME IInv, NEW c \in Calls, Fetch(c)
    PROVE  IInv'
<1>1. call[c].pc \in Unpaid /\ call[c].pc \in Walking /\ "request" \in Unpaid
      BY DEF Fetch, At, Unpaid, Walking
<1>2. UNCHANGED <<files, ledger>>
      BY DEF Fetch
<1>3. CASE Goto(c, "request")
      BY <1>1, <1>2, <1>3, UnpaidKeeps
<1>4. CASE Report(c) \/ Hydrate(c)
      BY <1>1, <1>2, <1>4, ReportRests, HydrateRests, RestsKeep, FilesStay DEF files
<1> QED BY <1>3, <1>4 DEF Fetch

\* A request ends in a payment, a refusal, or neither.
LEMMA RequestKeeps ==
    ASSUME IInv, NEW c \in Calls, Request(c)
    PROVE  IInv'
<1>1. call[c].pc \in Unpaid /\ call[c].pc \in Walking /\ "pay" \in Unpaid /\ "refused" \in Unpaid
      BY DEF Request, At, Unpaid, Walking
<1>2. UNCHANGED <<files, ledger>>
      BY DEF Request
<1>3. CASE Goto(c, "pay") \/ Goto(c, "refused")
      BY <1>1, <1>2, <1>3, UnpaidKeeps
<1>4. CASE Report(c)
      BY <1>1, <1>2, <1>4, ReportRests, RestsKeep, FilesStay DEF files
<1> QED BY <1>3, <1>4 DEF Request

\* Nor does looking for receipts once more.
LEMMA PayListKeeps ==
    ASSUME IInv, NEW c \in Calls, PayList(c)
    PROVE  IInv'
<1>1. call[c].pc \in Unpaid /\ call[c].pc \in Walking /\ "sign" \in Unpaid
      BY DEF PayList, At, Unpaid, Walking
<1>2. UNCHANGED <<files, ledger>>
      BY DEF PayList
<1>3. CASE Goto(c, "sign")
      BY <1>1, <1>2, <1>3, UnpaidKeeps
<1>4. CASE GiveUp(c) \/ Hydrate(c)
      BY <1>1, <1>2, <1>4, ReportRests, HydrateRests, RestsKeep, FilesStay DEF files
<1> QED BY <1>3, <1>4 DEF PayList

\* Giving a payment up is going on without settlement and claim.
LEMMA AbandonIs ==
    ASSUME IInv, NEW c \in Calls, NEW pc \in Pcs, Abandon(c, pc)
    PROVE  \E q \in CallStates : /\ call' = [call EXCEPT ![c] = q]
                                 /\ q.pc = pc /\ q.at = call[c].at /\ q.tx = TxOf(c)
<1> DEFINE q == [call[c] EXCEPT !.pc = pc, !.held = Nothing]
<1>1. call[c] \in CallStates
      BY CallIs
<1>2. q \in CallStates /\ q.pc = pc /\ q.at = call[c].at /\ q.tx = TxOf(c)
      BY <1>1 DEF CallStates, TxOf
<1>3. call' = [call EXCEPT ![c] = q]
      BY DEF Abandon, Put
<1> HIDE DEF q
<1> QED BY <1>2, <1>3

\* The receipt is stored before the payment is sent, or the payment is given up.
LEMMA SaveKeeps ==
    ASSUME IInv, NEW c \in Calls, Save(c)
    PROVE  IInv'
<1>1. /\ call[c].pc = "save" /\ TxOf(c) \in Txs /\ TxOf(c) = call[c].tx /\ CallOK(c, call[c])
      /\ chain[TxOf(c)] # "new" /\ TypeInv
      BY CallIs DEF Save, At, About, Named, Owning, TxOf
<1>2. /\ UNCHANGED ledger /\ chain' = chain /\ paidFor' = paidFor /\ outcomes' = outcomes
      /\ OutcomesMove(c)
      BY FilesStay DEF Save, ledger
<1>3. CASE receipts' = receipts \cup {TxOf(c)} /\ Goto(c, "send")
  <2>1. ReceiptsMove(c)
        BY <1>1, <1>3 DEF ReceiptsMove, TypeInv
  <2>2. ASSUME NEW q \in CallStates, q.pc = "send", q.at = call[c].at, q.tx = TxOf(c)
        PROVE  CallOK(c, q)'
        BY <2>2, <1>1, <1>2, <1>3 DEF CallOK, Walking, Unpaid, Declined, About, Owning, Named
  <2>3. "send" \in Pcs /\ call[c].pc \in Owning
        BY <1>1 DEF Pcs, Owning
  <2> QED BY <2>1, <2>2, <2>3, <1>2, <1>3, GotoKeeps
<1>4. CASE SaveFails(TxOf(c)) /\ Abandon(c, "forget")
  <2>1. ReceiptsMove(c)
        BY <1>1, <1>4 DEF ReceiptsMove, TypeInv, SaveFails
  <2>2. "forget" \in Pcs /\ call[c].pc \in Owning
        BY <1>1 DEF Pcs, Owning
  <2>3. PICK q \in CallStates : /\ call' = [call EXCEPT ![c] = q]
                                /\ q.pc = "forget" /\ q.at = call[c].at /\ q.tx = TxOf(c)
        BY <1>4, <2>2, AbandonIs
  <2>4. CallOK(c, q)'
        BY <2>3, <1>1, <1>2 DEF CallOK, Walking, Unpaid, Declined, About, Owning, Named
  <2> QED BY <2>1, <2>2, <2>3, <2>4, <1>2, CallKeeps
<1> QED BY <1>3, <1>4 DEF Save

\* The answer of the ledger, or none.
LEMMA AwaitKeeps ==
    ASSUME IInv, NEW c \in Calls, Await(c)
    PROVE  IInv'
<1>1. /\ call[c].pc = "await" /\ TxOf(c) \in Txs /\ TxOf(c) = call[c].tx /\ CallOK(c, call[c])
      /\ TypeInv /\ call[c].pc \in Owning /\ call[c].pc \in Walking /\ Purchases /\ Owners
      BY CallIs DEF Await, At, About, Named, Owning, TxOf, Walking, IInv
<1>2. /\ UNCHANGED ledger /\ chain' = chain /\ paidFor' = paidFor /\ outcomes' = outcomes
      /\ OutcomesMove(c) /\ ReceiptsMove(c)
      BY FilesStay DEF Await, ledger, files
<1>3. CASE chain[TxOf(c)] = "success" /\ Goto(c, "deliver")
  <2>1. ASSUME NEW q \in CallStates, q.pc = "deliver", q.at = call[c].at, q.tx = TxOf(c)
        PROVE  CallOK(c, q)'
        BY <2>1, <1>1, <1>2, <1>3 DEF CallOK, Walking, Unpaid, Declined, About, Owning, Named
  <2>2. "deliver" \in Pcs /\ "deliver" \notin Owning
        BY <1>1 DEF Pcs, Owning
  <2> QED BY <2>1, <2>2, <1>2, <1>3, GotoKeeps
<1>4. CASE FinalFailure(TxOf(c)) /\ (Abandon(c, "forget") \/ Abandon(c, "forgetRejected"))
  <2>1. PICK pc \in {"forget", "forgetRejected"} : Abandon(c, pc)
        BY <1>4
  <2>2. pc \in Pcs
        BY DEF Pcs
  <2>3. PICK q \in CallStates : /\ call' = [call EXCEPT ![c] = q]
                                /\ q.pc = pc /\ q.at = call[c].at /\ q.tx = TxOf(c)
        BY <2>1, <2>2, AbandonIs
  <2>4. CallOK(c, q)'
        BY <2>3, <1>1, <1>2, <1>4
           DEF CallOK, Walking, Unpaid, Declined, About, Owning, Named, FinalFailure, Purchases
  <2> QED BY <2>3, <2>4, <1>1, <1>2, CallKeeps
<1>5. CASE Report(c)
      BY <1>1, <1>2, <1>5, ReportRests, RestsKeep
<1> QED BY <1>3, <1>4, <1>5 DEF Await

\* A payment not made is forgotten.
LEMMA ForgetKeeps ==
    ASSUME IInv, NEW c \in Calls, Forget(c)
    PROVE  IInv'
<1>1. /\ call[c].pc \in {"forget", "forgetRejected"} /\ TxOf(c) \in Txs /\ TxOf(c) = call[c].tx
      /\ CallOK(c, call[c]) /\ call[c].pc \in Owning /\ call[c].pc \in Walking
      BY CallIs DEF Forget, At, About, Named, Owning, TxOf, Walking
<1>2. UNCHANGED ledger /\ chain' = chain /\ paidFor' = paidFor /\ outcomes' = outcomes /\ OutcomesMove(c)
      BY FilesStay DEF Forget, ledger
<1>3. chain[TxOf(c)] \in {"signed", "failed", "expired"}
      BY <1>1 DEF CallOK, Declined, About, Owning
<1>4. ReceiptsMove(c)
      BY <1>1, <1>3, ReceiptGoes DEF Forget
<1>5. CASE GoOn(c, call[c].held, claim)
      BY <1>1, <1>2, <1>4, <1>5, ReportRests, RestsKeep DEF Report
<1>6. CASE call[c].pc = "forgetRejected" /\ Goto(c, "rejected")
  <2>1. ASSUME NEW q \in CallStates, q.pc = "rejected", q.at = call[c].at, q.tx = TxOf(c)
        PROVE  CallOK(c, q)'
        BY <2>1, <1>1, <1>2, <1>6 DEF CallOK, Walking, Unpaid, Declined, About, Owning, Named
  <2>2. "rejected" \in Pcs /\ "rejected" \notin Owning
        BY DEF Pcs, Owning
  <2> QED BY <2>1, <2>2, <1>2, <1>4, <1>6, GotoKeeps
<1> QED BY <1>5, <1>6 DEF Forget, At

\* The delivery, or none.
LEMMA DeliverKeeps ==
    ASSUME IInv, NEW c \in Calls, Deliver(c)
    PROVE  IInv'
<1>1. /\ call[c].pc = "deliver" /\ TxOf(c) \in Txs /\ TxOf(c) = call[c].tx
      /\ CallOK(c, call[c]) /\ call[c].pc \in Walking /\ chain[TxOf(c)] # "new"
      BY CallIs DEF Deliver, At, About, Named, TxOf, Walking
<1>2. /\ UNCHANGED ledger /\ chain' = chain /\ paidFor' = paidFor /\ outcomes' = outcomes
      /\ OutcomesMove(c) /\ ReceiptsMove(c)
      BY FilesStay DEF Deliver, ledger, files
<1>3. CASE Goto(c, "complete")
  <2>1. ASSUME NEW q \in CallStates, q.pc = "complete", q.at = call[c].at, q.tx = TxOf(c)
        PROVE  CallOK(c, q)'
        BY <2>1, <1>1, <1>2, <1>3 DEF CallOK, Walking, Unpaid, Declined, About, Owning, Named
  <2>2. "complete" \in Pcs /\ "complete" \notin Owning
        BY DEF Pcs, Owning
  <2> QED BY <2>1, <2>2, <1>2, <1>3, GotoKeeps
<1>4. CASE Report(c)
      BY <1>1, <1>2, <1>4, ReportRests, RestsKeep
<1> QED BY <1>3, <1>4 DEF Deliver

\* The result is stored over an open record, and only over that.
LEMMA CompleteKeeps ==
    ASSUME IInv, NEW c \in Calls, Complete(c)
    PROVE  IInv'
<1> DEFINE s == SourceOf(c)
           t == TxOf(c)
<1>1. /\ call[c].pc = "complete" /\ t \in Txs /\ t = call[c].tx /\ s \in Sources
      /\ s = SourceIds[call[c].at] /\ CallOK(c, call[c]) /\ call[c].pc \in Walking /\ chain[t] # "new"
      /\ TypeInv
      BY CallIs DEF Complete, At, About, Named, TxOf, Walking, SourceOf
<1>2. chain[t] = "success" /\ paidFor[t] = s
      BY <1>1 DEF CallOK, About, SourceOf
<1>3. UNCHANGED ledger /\ chain' = chain /\ paidFor' = paidFor /\ ReceiptsMove(c)
      BY FilesStay DEF Complete, ledger
<1>4. ASSUME outcomes[s] = Executing(c), Record(s, Accepted(t))
      PROVE  OutcomesMove(c) /\ outcomes'[s] = Accepted(t)
      BY <1>1, <1>2, <1>4, RecordsDiffer DEF Record, OutcomesMove, TypeInv, Records
<1>5. CASE Goto(c, "ack") /\ outcomes[s] = Executing(c) /\ Record(s, Accepted(t))
  <2>1. ASSUME NEW q \in CallStates, q.pc = "ack", q.at = call[c].at, q.tx = TxOf(c)
        PROVE  CallOK(c, q)'
        BY <2>1, <1>1, <1>2, <1>3, <1>4, <1>5 DEF CallOK, Walking, Unpaid, Declined, About, Owning, Named
  <2>2. "ack" \in Pcs /\ "ack" \notin Owning
        BY DEF Pcs, Owning
  <2> QED BY <2>1, <2>2, <1>3, <1>4, <1>5, GotoKeeps
<1>6. CASE Report(c) /\ OutcomesMove(c)
      BY <1>1, <1>3, <1>6, ReportRests, RestsKeep
<1>7. \/ Goto(c, "ack") /\ outcomes[s] = Executing(c) /\ Record(s, Accepted(t))
      \/ Report(c) /\ outcomes[s] = Executing(c) /\ Record(s, Accepted(t))
      \/ Report(c) /\ UNCHANGED outcomes
      BY DEF Complete, CompleteAs, RecordFails
<1> QED BY <1>4, <1>5, <1>6, <1>7, FilesStay

\* The acknowledgment, of a result that is stored.
LEMMA AckKeeps ==
    ASSUME IInv, NEW c \in Calls, Ack(c)
    PROVE  IInv'
<1>1. /\ call[c].pc = "ack" /\ call[c].pc \in Walking /\ TxOf(c) \in Txs /\ TxOf(c) = call[c].tx
      /\ CallOK(c, call[c])
      BY CallIs DEF Ack, At, Walking, About, Named, TxOf
<1>2. UNCHANGED ledger /\ OutcomesMove(c)
      BY FilesStay DEF Ack
<1>3. ReceiptsMove(c)
  <2>1. outcomes[paidFor[TxOf(c)]] = Accepted(TxOf(c))
        BY <1>1 DEF CallOK
  <2> QED BY <1>1, <2>1, ReceiptGoes DEF Ack
<1>4. Rests(c)
      BY <1>1, ReportRests DEF Ack
<1> QED BY <1>2, <1>3, <1>4, RestsKeep

\* A rejection is stored where nothing was paid.
LEMMA RejectKeeps ==
    ASSUME IInv, NEW c \in Calls, Reject(c)
    PROVE  IInv'
<1> DEFINE s == SourceOf(c)
<1>1. /\ call[c].pc \in {"refused", "rejected"} /\ call[c].pc \in Walking /\ s \in Sources
      /\ s = SourceIds[call[c].at] /\ CallOK(c, call[c]) /\ TypeInv
      BY CallIs DEF Reject, Walking, Unpaid, Declined, SourceOf
<1>2. UNCHANGED ledger /\ ReceiptsMove(c)
      BY FilesStay DEF Reject
<1>3. \A t \in Txs : paidFor[t] = s => chain[t] \in {"failed", "expired"}
      BY <1>1 DEF CallOK, Unpaid, Declined
<1>4. Record(s, Rejected) /\ outcomes[s] = Executing(c) => OutcomesMove(c)
      BY <1>1, <1>3, RecordsDiffer DEF Record, OutcomesMove, TypeInv, Records
<1>5. OutcomesMove(c)
      BY <1>4, FilesStay DEF Reject, CompleteAs, RecordFails
<1>6. Report(c) \/ End(c)
      BY DEF Reject, CompleteAs
<1>7. Rests(c)
      BY <1>1, <1>6, ReportRests, EndRests DEF End
<1> QED BY <1>2, <1>5, <1>7, RestsKeep

-----------------------------------------------------------------------------
(* Recovery                                                                *)

\* A call that was idle takes up a transaction that was signed.
LEMMA TakenUpKeeps ==
    ASSUME IInv, NEW c \in Calls, NEW t \in Txs, chain[t] # "new", UNCHANGED <<files, ledger>>,
           \/ Put(c, [Idle EXCEPT !.pc = "resume", !.tx = t])
           \/ outcomes[paidFor[t]] = Accepted(t) /\ Put(c, [Idle EXCEPT !.pc = "ackPending", !.tx = t])
    PROVE  IInv'
<1>1. PICK pc \in {"resume", "ackPending"} :
         /\ call' = [call EXCEPT ![c] = [Idle EXCEPT !.pc = pc, !.tx = t]]
         /\ pc = "ackPending" => outcomes[paidFor[t]] = Accepted(t)
      BY DEF Put
<1>2. PICK q \in CallStates : q.pc = pc /\ q.tx = t /\ call' = [call EXCEPT ![c] = q]
  <2> DEFINE q == [Idle EXCEPT !.pc = pc, !.tx = t]
  <2>1. q \in CallStates /\ q.pc = pc /\ q.tx = t
        BY DEF CallStates, Idle, Pcs
  <2>2. call' = [call EXCEPT ![c] = q]
        BY <1>1
  <2> HIDE DEF q
  <2> QED BY <2>1, <2>2
<1>3. chain' = chain /\ paidFor' = paidFor /\ outcomes' = outcomes /\ OutcomesMove(c) /\ ReceiptsMove(c)
      BY FilesStay DEF ledger, files
<1>4. CallOK(c, q)' /\ q.pc \notin Owning
      BY <1>1, <1>2, <1>3 DEF CallOK, Walking, Unpaid, Declined, About, Owning, Named
<1> QED BY <1>2, <1>3, <1>4, CallKeeps DEF ledger

\* The application resumes a receipt, or acknowledges one whose result is stored.
LEMMA ResumeKeeps ==
    ASSUME IInv, NEW c \in Calls, NEW t \in Txs, Resume(c, t) \/ AckAccepted(c, t)
    PROVE  IInv'
<1>1. chain[t] # "new"
      BY DEF Resume, AckAccepted, IInv, Files
<1>2. UNCHANGED <<files, ledger>>
      BY DEF Resume, AckAccepted
<1>3. \/ Put(c, [Idle EXCEPT !.pc = "resume", !.tx = t])
      \/ outcomes[paidFor[t]] = Accepted(t) /\ Put(c, [Idle EXCEPT !.pc = "ackPending", !.tx = t])
      BY DEF Resume, AckAccepted
<1> QED BY <1>1, <1>2, <1>3, TakenUpKeeps

\* A delivery is accepted for a payment that succeeded.
LEMMA ResumedKeeps ==
    ASSUME IInv, NEW c \in Calls, Resumed(c)
    PROVE  IInv'
<1>1. call[c].pc = "resume" /\ TxOf(c) \in Txs /\ chain[TxOf(c)] # "new"
      BY CallIs DEF Resumed, At, Named
<1>2. /\ UNCHANGED ledger /\ chain' = chain /\ OutcomesMove(c) /\ ReceiptsMove(c)
      BY FilesStay DEF Resumed, ledger, files
<1>3. CASE chain[TxOf(c)] = "success" /\ Goto(c, "accept")
  <2>1. ASSUME NEW q \in CallStates, q.pc = "accept", q.at = call[c].at, q.tx = TxOf(c)
        PROVE  CallOK(c, q)'
        BY <2>1, <1>1, <1>2, <1>3 DEF CallOK, Walking, Unpaid, Declined, About, Owning, Named
  <2>2. "accept" \in Pcs /\ "accept" \notin Owning
        BY DEF Pcs, Owning
  <2> QED BY <2>1, <2>2, <1>2, <1>3, GotoKeeps
<1>4. CASE End(c)
      BY <1>2, <1>4, EndRests, RestsKeep DEF End
<1> QED BY <1>3, <1>4 DEF Resumed

\* The application stores the result of a payment, unless it is stored.
LEMMA AcceptKeeps ==
    ASSUME IInv, NEW c \in Calls, Accept(c)
    PROVE  IInv'
<1> DEFINE t == TxOf(c)
           s == paidFor[t]
<1>1. /\ call[c].pc = "accept" /\ t \in Txs /\ chain[t] # "new" /\ t = call[c].tx
      /\ CallOK(c, call[c]) /\ TypeInv
      BY CallIs DEF Accept, At, Named, TxOf
<1>2. chain[t] = "success" /\ s \in Sources
      BY <1>1 DEF CallOK, IInv, TypeInv, Purchases
<1>3. UNCHANGED ledger /\ chain' = chain /\ paidFor' = paidFor /\ ReceiptsMove(c)
      BY FilesStay DEF Accept, ledger
<1>4. outcomes[s].kind = "executing" /\ Record(s, Accepted(t)) => OutcomesMove(c) /\ outcomes'[s] = Accepted(t)
      BY <1>1, <1>2 DEF Record, OutcomesMove, TypeInv, Records
<1>5. \/ outcomes[s].kind = "executing" /\ Record(s, Accepted(t)) /\ (Goto(c, "ackPending") \/ Put(c, Idle))
      \/ UNCHANGED outcomes /\ outcomes[s] = Accepted(t) /\ Goto(c, "ackPending")
      \/ UNCHANGED outcomes /\ Put(c, Idle)
      BY <1>1 DEF Accept, CompleteAs, RecordFails
<1>6. OutcomesMove(c)
      BY <1>4, <1>5, FilesStay
<1>7. CASE Goto(c, "ackPending") /\ outcomes'[s] = Accepted(t)
  <2>1. ASSUME NEW q \in CallStates, q.pc = "ackPending", q.at = call[c].at, q.tx = t
        PROVE  CallOK(c, q)'
        BY <2>1, <1>1, <1>2, <1>3, <1>7 DEF CallOK, Walking, Unpaid, Declined, About, Owning, Named
  <2>2. "ackPending" \in Pcs /\ "ackPending" \notin Owning
        BY DEF Pcs, Owning
  <2> QED BY <2>1, <2>2, <1>3, <1>6, <1>7, GotoKeeps
<1>8. CASE Put(c, Idle)
      BY <1>3, <1>6, <1>8, EndRests, RestsKeep
<1> QED BY <1>4, <1>5, <1>7, <1>8

\* A pending receipt goes once its result is stored.
LEMMA AckPendingKeeps ==
    ASSUME IInv, NEW c \in Calls, AckPending(c)
    PROVE  IInv'
<1>1. call[c].pc = "ackPending" /\ TxOf(c) \in Txs /\ TxOf(c) = call[c].tx /\ CallOK(c, call[c])
      BY CallIs DEF AckPending, At, Named, TxOf
<1>2. UNCHANGED ledger /\ OutcomesMove(c)
      BY FilesStay DEF AckPending
<1>3. ReceiptsMove(c)
  <2>1. outcomes[paidFor[TxOf(c)]] = Accepted(TxOf(c))
        BY <1>1 DEF CallOK
  <2> QED BY <1>1, <2>1, ReceiptGoes DEF AckPending
<1>4. Rests(c)
      BY EndRests DEF AckPending
<1> QED BY <1>2, <1>3, <1>4, RestsKeep

\* A reconciliation forgets what cannot be paid any more.
LEMMA ReconcileKeeps ==
    ASSUME IInv, NEW c \in Calls, Reconcile(c)
    PROVE  IInv'
<1> DEFINE r == [Idle EXCEPT !.pc = "find"]
<1>1. r \in CallStates /\ r.pc = "find"
      BY DEF CallStates, Idle, Pcs
<1>2. call' = [call EXCEPT ![c] = r]
      BY DEF Reconcile, Put
<1> HIDE DEF r
<1>3. PICK q \in CallStates : q.pc = "find" /\ call' = [call EXCEPT ![c] = q]
      BY <1>1, <1>2
<1>4. CallOK(c, q)' /\ q.pc \notin Owning
      BY <1>3 DEF CallOK, Walking, Unpaid, Declined, About, Owning, Named
<1> QED BY <1>3, <1>4, CallKeeps, FilesStay DEF Reconcile, files

\* A reconciliation takes up some receipt.
LEMMA FindKeeps ==
    ASSUME IInv, NEW c \in Calls, Find(c)
    PROVE  IInv'
<1>1. call[c] \in CallStates /\ TypeInv
      BY CallIs
<1>2. /\ UNCHANGED ledger /\ chain' = chain /\ OutcomesMove(c) /\ ReceiptsMove(c)
      BY FilesStay DEF Find, ledger, files
<1>3. CASE Put(c, Idle)
      BY <1>2, <1>3, EndRests, RestsKeep
<1>4. ASSUME NEW t \in receipts, Put(c, [call[c] EXCEPT !.pc = "query", !.tx = t, !.held = t])
      PROVE  IInv'
  <2> DEFINE r == [call[c] EXCEPT !.pc = "query", !.tx = t, !.held = t]
  <2>1. t \in Txs /\ chain[t] # "new"
        BY <1>1 DEF TypeInv, IInv, Files
  <2>2. r \in CallStates /\ r.pc = "query" /\ r.tx = t
        BY <1>1, <2>1 DEF CallStates, Pcs
  <2>3. call' = [call EXCEPT ![c] = r]
        BY <1>4 DEF Put
  <2> HIDE DEF r
  <2>4. PICK q \in CallStates : q.pc = "query" /\ q.tx = t /\ call' = [call EXCEPT ![c] = q]
        BY <2>2, <2>3
  <2>5. CallOK(c, q)' /\ q.pc \notin Owning
        BY <2>1, <2>4, <1>2 DEF CallOK, Walking, Unpaid, Declined, About, Owning, Named
  <2> QED BY <2>4, <2>5, <1>2, CallKeeps
<1> QED BY <1>3, <1>4 DEF Find

\* It gives up what the ledger says was not paid and will not be.
LEMMA QueryKeeps ==
    ASSUME IInv, NEW c \in Calls, Query(c)
    PROVE  IInv'
<1>1. call[c].pc = "query" /\ TxOf(c) \in Txs /\ chain[TxOf(c)] # "new" /\ call[c] \in CallStates
      BY CallIs DEF Query, At, Named
<1>2. /\ UNCHANGED ledger /\ chain' = chain /\ OutcomesMove(c) /\ ReceiptsMove(c)
      BY FilesStay DEF Query, ledger, files
<1>3. CASE End(c)
      BY <1>2, <1>3, EndRests, RestsKeep DEF End
<1>4. CASE NoPayment(TxOf(c)) /\ Put(c, [call[c] EXCEPT !.pc = "clear", !.held = Nothing])
  <2> DEFINE r == [call[c] EXCEPT !.pc = "clear", !.held = Nothing]
  <2>1. r \in CallStates /\ r.pc = "clear" /\ r.tx = TxOf(c)
        BY <1>1 DEF CallStates, Pcs, TxOf
  <2>2. call' = [call EXCEPT ![c] = r]
        BY <1>4 DEF Put
  <2> HIDE DEF r
  <2>3. PICK q \in CallStates : q.pc = "clear" /\ q.tx = TxOf(c) /\ call' = [call EXCEPT ![c] = q]
        BY <2>1, <2>2
  <2>4. CallOK(c, q)' /\ q.pc \notin Owning
        BY <1>1, <1>4, <2>3, <1>2 DEF CallOK, Walking, Unpaid, Declined, About, Owning, Named, NoPayment
  <2> QED BY <2>3, <2>4, <1>2, CallKeeps
<1> QED BY <1>3, <1>4 DEF Query

\* And clears the receipt of that.
LEMMA ClearKeeps ==
    ASSUME IInv, NEW c \in Calls, Clear(c)
    PROVE  IInv'
<1>1. call[c].pc = "clear" /\ TxOf(c) \in Txs /\ TxOf(c) = call[c].tx /\ CallOK(c, call[c])
      BY CallIs DEF Clear, At, Named, TxOf
<1>2. UNCHANGED ledger /\ OutcomesMove(c)
      BY FilesStay DEF Clear
<1>3. ReceiptsMove(c)
  <2>1. chain[TxOf(c)] \in {"failed", "expired"}
        BY <1>1 DEF CallOK
  <2> QED BY <1>1, <2>1, ReceiptGoes DEF Clear
<1>4. Rests(c)
      BY EndRests DEF Clear, End
<1> QED BY <1>2, <1>3, <1>4, RestsKeep

-----------------------------------------------------------------------------
(* The ledger                                                              *)

\* A restart leaves the files and the ledger, and no call.
LEMMA RestartKeeps ==
    ASSUME IInv, Restart
    PROVE  IInv'
<1>1. chain' = chain /\ paidFor' = paidFor /\ outcomes' = outcomes /\ receipts' = receipts
      /\ \A c \in Calls : call'[c] = Idle
      BY DEF Restart, ledger, files
<1>2. Idle \in CallStates
      BY DEF Idle, CallStates, Pcs
<1>3. TypeInv'
      BY <1>1, <1>2 DEF IInv, TypeInv, Restart
<1>4. (\A c \in Calls : CallOK(c, call[c]))'
      BY <1>1 DEF CallOK, Idle, Walking, Unpaid, Declined, About, Owning, Named
<1>5. Owners' /\ Purchases' /\ Files'
      BY <1>1 DEF IInv, Owners, Purchases, Files, Idle, Owning
<1> QED BY <1>3, <1>4, <1>5 DEF IInv

\* The invariant holds at the start.
LEMMA InitIInv ==
    ASSUME Init
    PROVE  IInv
<1>1. Idle \in CallStates /\ Missing \in Records
      BY DEF Idle, CallStates, Pcs, Records
<1>2. TypeInv
      BY <1>1 DEF Init, TypeInv, Fates
<1>3. \A c \in Calls : CallOK(c, call[c])
      BY DEF Init, CallOK, Idle, Walking, Unpaid, Declined, About, Owning, Named
<1>4. Owners
      BY DEF Init, Owners, Idle, Owning
<1>5. Nothing \notin Sources
      BY PurchaseAssumption DEF Sources
<1>6. Purchases /\ Files
      BY <1>5, RecordsDiffer DEF Init, Purchases, Files
<1> QED BY <1>2, <1>3, <1>4, <1>6 DEF IInv

\* A transaction is signed for a source nothing was signed for.
LEMMA SigningKeeps ==
    ASSUME IInv, NEW c \in Calls, call[c].pc = "sign", NEW t \in Txs, chain[t] = "new",
           chain' = [chain EXCEPT ![t] = "signed"],
           paidFor' = [paidFor EXCEPT ![t] = SourceOf(c)],
           Put(c, [call[c] EXCEPT !.pc = "save", !.tx = t, !.held = t]),
           UNCHANGED files
    PROVE  IInv'
<1>1. /\ call[c] \in CallStates /\ CallOK(c, call[c]) /\ TypeInv /\ SourceOf(c) \in Sources
      /\ SourceOf(c) = SourceIds[call[c].at] /\ call[c].at \in DOMAIN SourceIds
      BY CallIs DEF Walking, Unpaid, SourceOf
<1>2. PICK s \in Sources : /\ s = SourceIds[call[c].at] /\ outcomes[s] = Executing(c) /\ s # Nothing
                           /\ paidFor' = [paidFor EXCEPT ![t] = s]
                           /\ \A u \in Txs : paidFor[u] # s
      BY <1>1, PurchaseAssumption DEF CallOK, Unpaid
<1>3. PICK q \in CallStates : /\ call' = [call EXCEPT ![c] = q]
                              /\ q.pc = "save" /\ q.at = call[c].at /\ q.tx = t
  <2> DEFINE r == [call[c] EXCEPT !.pc = "save", !.tx = t, !.held = t]
  <2>1. r \in CallStates /\ r.pc = "save" /\ r.at = call[c].at /\ r.tx = t
        BY <1>1 DEF CallStates, Pcs
  <2>2. call' = [call EXCEPT ![c] = r]
        BY DEF Put
  <2> HIDE DEF r
  <2> QED BY <2>1, <2>2
<1>4. outcomes' = outcomes /\ receipts' = receipts
      BY DEF files
<1>5. /\ \A d \in Calls : call'[d] = IF d = c THEN q ELSE call[d]
      /\ \A u \in Txs : chain'[u] = IF u = t THEN "signed" ELSE chain[u]
      /\ \A u \in Txs : paidFor'[u] = IF u = t THEN s ELSE paidFor[u]
      BY <1>1, <1>2, <1>3 DEF TypeInv
<1>6. TypeInv'
      BY <1>1, <1>2, <1>3, <1>4 DEF TypeInv, Fates
<1>7. (\A d \in Calls : CallOK(d, call[d])) /\ Owners /\ Purchases /\ Files
      BY DEF IInv
<1>8. ASSUME NEW d \in Calls
      PROVE  CallOK(d, call[d])'
  <2>1. CASE d = c
    <3>1. call'[d] = q
          BY <1>5, <2>1
    <3> QED BY <2>1, <3>1, <1>1, <1>2, <1>3, <1>4, <1>5
            DEF CallOK, Walking, Unpaid, Declined, About, Owning, Named
  <2>2. CASE d # c
    <3>1. call'[d] = call[d] /\ CallOK(d, call[d])
          BY <1>5, <1>7, <2>2
    <3>2. call[d].pc \in Named => call[d].tx \in Txs /\ call[d].tx # t
          BY <3>1 DEF CallOK
    <3>3. call[d].pc \in Unpaid \cup Declined => SourceIds[call[d].at] # s
          BY <3>1, <1>2, <2>2, RecordsDiffer DEF CallOK
    <3> QED BY <3>1, <3>2, <3>3, <1>4, <1>5 DEF CallOK, Named, About, Owning
  <2> QED BY <2>1, <2>2
<1>9. Owners'
  <2>1. ASSUME NEW d \in Calls, d # c, call[d].pc \in Owning
        PROVE  TxOf(d) # t
        BY <2>1, <1>7 DEF CallOK, Named, About, TxOf
  <2> QED BY <2>1, <1>3, <1>5, <1>7 DEF Owners, TxOf
<1>10. Purchases'
      BY <1>2, <1>5, <1>7 DEF Purchases
<1>11. Files'
  <2>1. \A u \in receipts : chain'[u] # "new"
        BY <1>1, <1>5, <1>7 DEF Files, TypeInv
  <2>2. ASSUME NEW r \in Sources, outcomes[r] = Missing \/ outcomes[r] = Rejected
        PROVE  r # s
        BY <2>2, <1>2, RecordsDiffer
  <2>3. ASSUME NEW r \in Sources, NEW u \in Txs, outcomes[r] = Accepted(u)
        PROVE  u # t
        BY <2>3, <1>7 DEF Files
  <2> QED BY <2>1, <2>2, <2>3, <1>4, <1>5, <1>7 DEF Files
<1> QED BY <1>6, <1>8, <1>9, <1>10, <1>11 DEF IInv

\* Signing, or being refused by the contract, or failing.
LEMMA SignKeeps ==
    ASSUME IInv, NEW c \in Calls, Sign(c)
    PROVE  IInv'
<1>1. /\ call[c].pc = "sign" /\ call[c].pc \in Walking /\ CallOK(c, call[c])
      /\ OutcomesMove(c) /\ ReceiptsMove(c)
      BY CallIs, FilesStay DEF Sign, At, Walking, Unpaid, files
<1>2. ASSUME NEW t \in Txs, chain[t] = "new", chain' = [chain EXCEPT ![t] = "signed"],
             paidFor' = [paidFor EXCEPT ![t] = SourceOf(c)],
             Put(c, [call[c] EXCEPT !.pc = "save", !.tx = t, !.held = t])
      PROVE  IInv'
      BY <1>1, <1>2, SigningKeeps DEF Sign
<1>3. CASE Goto(c, "rejected") /\ UNCHANGED ledger
  <2>1. ASSUME NEW q \in CallStates, q.pc = "rejected", q.at = call[c].at, q.tx = TxOf(c)
        PROVE  CallOK(c, q)'
        BY <2>1, <1>1, <1>3
           DEF CallOK, Walking, Unpaid, Declined, About, Owning, Named, ledger, files, Sign
  <2>2. "rejected" \in Pcs /\ "rejected" \notin Owning
        BY DEF Pcs, Owning
  <2> QED BY <2>1, <2>2, <1>1, <1>3, GotoKeeps
<1>4. CASE GiveUp(c) /\ UNCHANGED ledger
      BY <1>1, <1>4, ReportRests, RestsKeep
<1> QED BY <1>2, <1>3, <1>4 DEF Sign

\* What may become of a transaction that is signed: it is sent, its receipt being
\* stored; it succeeds or fails once it is sent; or it expires.
Fated(t, f) ==
    /\ chain[t] \in {"signed", "sent"}
    /\ \/ chain[t] = "signed" /\ f = "sent" /\ t \in receipts
       \/ chain[t] = "sent" /\ f \in {"success", "failed"}
       \/ f = "expired"
    /\ chain' = [chain EXCEPT ![t] = f]
    /\ UNCHANGED <<files, paidFor>>

\* A call that is not about to send or to forget that transaction notices nothing.
LEMMA FateUnnoticed ==
    ASSUME IInv, NEW t \in Txs, NEW f, Fated(t, f), NEW d \in Calls, NEW q \in CallStates, CallOK(d, q),
           q.pc \in {"save", "send", "forget"} /\ q.tx = t => f = "expired"
    PROVE  CallOK(d, q)'
<1>1. /\ \A u \in Txs : chain'[u] = IF u = t THEN f ELSE chain[u]
      /\ outcomes' = outcomes /\ receipts' = receipts /\ paidFor' = paidFor
      BY DEF IInv, TypeInv, Fated, files
<1>2. /\ chain[t] \in {"signed", "sent"}
      /\ \/ chain[t] = "signed" /\ f = "sent"
         \/ chain[t] = "sent" /\ f \in {"success", "failed"}
         \/ f = "expired"
      BY DEF Fated
<1>3. q.pc \in Named => q.tx \in Txs
      BY DEF CallOK
<1> QED BY <1>1, <1>2, <1>3 DEF CallOK, Named, About, Owning

\* And the rest of the invariant is about what was and is so.
LEMMA FateKeeps ==
    ASSUME IInv, NEW t \in Txs, NEW f, Fated(t, f)
    PROVE  /\ chain' \in [Txs -> Fates]
           /\ Purchases' /\ Files'
<1>1. /\ \A u \in Txs : chain'[u] = IF u = t THEN f ELSE chain[u]
      /\ outcomes' = outcomes /\ receipts' = receipts /\ paidFor' = paidFor
      BY DEF IInv, TypeInv, Fated, files
<1>2. /\ chain[t] \in {"signed", "sent"}
      /\ \/ f = "sent" /\ t \in receipts
         \/ chain[t] = "sent" /\ f \in {"success", "failed"}
         \/ f = "expired"
      /\ chain' = [chain EXCEPT ![t] = f]
      BY DEF Fated
<1>3. TypeInv /\ Purchases /\ Files
      BY DEF IInv
<1>4. chain' \in [Txs -> Fates]
      BY <1>2, <1>3 DEF TypeInv, Fates
<1>5. Purchases'
      BY <1>1, <1>2, <1>3 DEF Purchases
<1>6. Files'
  <2>1. \A u \in receipts : chain'[u] # "new"
        BY <1>1, <1>2, <1>3 DEF Files, TypeInv
  <2>2. ASSUME NEW s \in Sources, NEW u \in Txs, outcomes[s] = Accepted(u)
        PROVE  u # t
        BY <2>2, <1>2, <1>3 DEF Files
  <2>3. ASSUME NEW s \in Sources, outcomes[s] = Rejected
        PROVE  paidFor[t] # s
        BY <2>3, <1>2, <1>3 DEF Files
  <2>4. ASSUME NEW u \in Txs, chain'[u] \in {"sent", "success"}
        PROVE  u \in receipts \/ outcomes[paidFor[u]] = Accepted(u)
        BY <2>4, <1>1, <1>2, <1>3 DEF Files
  <2> QED BY <2>1, <2>2, <2>3, <2>4, <1>1, <1>3 DEF Files
<1> QED BY <1>4, <1>5, <1>6

\* The network decides on what was sent, and time on the rest.
LEMMA LedgerKeeps ==
    ASSUME IInv, NEW t \in Txs, Land(t) \/ Expire(t)
    PROVE  IInv'
<1>1. PICK f \in {"success", "failed", "expired"} : Fated(t, f) /\ call' = call
      BY DEF Land, Expire, Fated
<1>2. ASSUME NEW d \in Calls
      PROVE  CallOK(d, call[d])'
  <2>1. PICK q \in CallStates : call[d] = q /\ call'[d] = q /\ CallOK(d, q)
        BY <1>1, CallIs
  <2>2. q.pc \in {"save", "send", "forget"} /\ q.tx = t => f = "expired"
        BY <1>1, <2>1 DEF CallOK, Fated
  <2>3. CallOK(d, q)'
        BY <1>1, <2>1, <2>2, FateUnnoticed
  <2> QED BY <2>1, <2>3 DEF CallOK
<1>3. chain' \in [Txs -> Fates] /\ Purchases' /\ Files'
      BY <1>1, FateKeeps
<1>4. TypeInv'
      BY <1>1, <1>3 DEF IInv, TypeInv, Fated, files
<1>5. Owners'
      BY <1>1 DEF IInv, Owners, TxOf
<1> QED BY <1>2, <1>3, <1>4, <1>5 DEF IInv

\* A payment is sent by the call that has signed it, or not at all.
LEMMA SendKeeps ==
    ASSUME IInv, NEW c \in Calls, Send(c)
    PROVE  IInv'
<1>1. /\ call[c].pc = "send" /\ call[c].pc \in Walking /\ TxOf(c) \in Txs /\ TxOf(c) = call[c].tx
      /\ CallOK(c, call[c]) /\ call[c].pc \in Owning /\ TypeInv /\ Owners
      BY CallIs DEF Send, At, Walking, Named, About, Owning, TxOf, IInv
<1>2. CASE Report(c) /\ UNCHANGED chain
      BY <1>1, <1>2, ReportRests, RestsKeep, FilesStay DEF Send, ledger, files
<1>3. CASE chain[TxOf(c)] = "signed" /\ chain' = [chain EXCEPT ![TxOf(c)] = "sent"] /\ Goto(c, "await")
  <2>1. PICK t \in Txs : /\ t = TxOf(c) /\ chain[t] = "signed" /\ t \in receipts
                         /\ chain' = [chain EXCEPT ![t] = "sent"]
        BY <1>1, <1>3 DEF CallOK
  <2>2. PICK q \in CallStates : /\ call' = [call EXCEPT ![c] = q]
                                /\ q.pc = "await" /\ q.at = call[c].at /\ q.tx = t
        BY <1>3, <2>1, GotoIs DEF Pcs
  <2>3. Fated(t, "sent")
        BY <2>1 DEF Fated, Send
  <2>4. \A d \in Calls : call'[d] = IF d = c THEN q ELSE call[d]
        BY <1>1, <2>2 DEF TypeInv
  <2>5. CallOK(c, q)
        BY <1>1, <2>1, <2>2 DEF CallOK, Walking, Unpaid, Declined, About, Owning, Named
  <2>6. ASSUME NEW d \in Calls
        PROVE  CallOK(d, call[d])'
    <3>1. CASE d = c
      <4>1. CallOK(c, q)'
            BY <2>2, <2>3, <2>5, FateUnnoticed
      <4> QED BY <3>1, <4>1, <2>4 DEF CallOK
    <3>2. CASE d # c
      <4>1. PICK r \in CallStates : call[d] = r /\ call'[d] = r /\ CallOK(d, r)
            BY <2>4, <3>2, CallIs
      <4>2. r.pc \in {"save", "send", "forget"} => r.tx # t
            BY <1>1, <2>1, <3>2, <4>1 DEF Owners, Owning, TxOf
      <4>3. CallOK(d, r)'
            BY <2>3, <4>1, <4>2, FateUnnoticed
      <4> QED BY <4>1, <4>3 DEF CallOK
    <3> QED BY <3>1, <3>2
  <2>7. chain' \in [Txs -> Fates] /\ Purchases' /\ Files'
        BY <2>3, FateKeeps
  <2>8. TypeInv'
        BY <1>1, <2>2, <2>3, <2>7 DEF TypeInv, Fated, files
  <2>9. Owners'
        BY <1>1, <2>1, <2>2, <2>4 DEF Owners, TxOf, Owning
  <2> QED BY <2>6, <2>7, <2>8, <2>9 DEF IInv
<1> QED BY <1>2, <1>3 DEF Send

-----------------------------------------------------------------------------
(* The theorems                                                            *)

\* Every step of a call, of the ledger and of the process keeps the invariant.
LEMMA WalkKeeps ==
    ASSUME IInv, NEW c \in Calls, Walk(c)
    PROVE  IInv'
BY ClaimSourceKeeps, ListOpenKeeps, ListDoneKeeps, AckDoneKeeps, FetchKeeps, RequestKeeps, PayListKeeps,
   SignKeeps, SaveKeeps, SendKeeps, AwaitKeeps, ForgetKeeps, DeliverKeeps, CompleteKeeps, AckKeeps,
   RejectKeeps
   DEF Walk

\* And every step of a recovery.
LEMMA RecoverKeeps ==
    ASSUME IInv, NEW c \in Calls, Recover(c)
    PROVE  IInv'
BY ResumedKeeps, AcceptKeeps, AckPendingKeeps, FindKeeps, QueryKeeps, ClearKeeps DEF Recover

\* Every step keeps the invariant.
LEMMA NextKeeps ==
    ASSUME IInv, [Next]_vars
    PROVE  IInv'
<1>1. CASE UNCHANGED vars
  <2>1. call' = call /\ outcomes' = outcomes /\ receipts' = receipts /\ chain' = chain /\ paidFor' = paidFor
        BY <1>1 DEF vars, files, ledger
  <2>2. (\A c \in Calls : CallOK(c, call[c]))'
        BY <2>1 DEF IInv, CallOK
  <2>3. TypeInv' /\ Owners' /\ Purchases' /\ Files'
        BY <2>1 DEF IInv, TypeInv, Owners, TxOf, Purchases, Files
  <2> QED BY <2>2, <2>3 DEF IInv
<1>2. CASE Next
      BY <1>2, BuyKeeps, ReconcileKeeps, WalkKeeps, RecoverKeeps, ResumeKeeps, RestartKeeps, LedgerKeeps
         DEF Next
<1> QED BY <1>1, <1>2

\* The invariant is one.
LEMMA Invariance == Spec => []IInv
<1>1. Init => IInv
      BY InitIInv
<1>2. IInv /\ [Next]_vars => IInv'
      BY NextKeeps
<1> QED BY <1>1, <1>2, PTL DEF Spec

\* A set whose elements are all the same has at most one.
LEMMA AtMostOne ==
    ASSUME NEW S, \A x, y \in S : x = y
    PROVE  Cardinality(S) =< 1
<1>1. CASE S = {}
      BY <1>1, FS_EmptySet
<1>2. CASE S # {}
  <2>1. PICK x \in S : TRUE
        BY <1>2
  <2>2. S = {x}
        BY <2>1
  <2> QED BY <2>2, FS_Singleton
<1> QED BY <1>1, <1>2

\* BoughtOnce of buyResearch: no source has two transactions signed for it, in
\* however many walks, interrupted and restarted, by however many calls.
THEOREM NothingBoughtTwice == Spec => []BoughtOnce
<1>1. IInv => BoughtOnce
  <2> SUFFICES ASSUME IInv, NEW s \in Sources
               PROVE  Cardinality({t \in Txs : paidFor[t] = s}) =< 1
      BY DEF BoughtOnce
  <2>1. s # Nothing
        BY PurchaseAssumption DEF Sources
  <2>2. \A t, u \in {t \in Txs : paidFor[t] = s} : t = u
        BY <2>1 DEF IInv, Purchases
  <2> QED BY <2>2, AtMostOne
<1> QED BY <1>1, Invariance, PTL

\* PaidIsRecoverable of the two files: while a payment may have been made, its
\* receipt is pending or its result is stored.
THEOREM PaymentsAreRecoverable == Spec => []PaidIsRecoverable
<1>1. IInv => PaidIsRecoverable
      BY DEF IInv, Files, PaidIsRecoverable
<1> QED BY <1>1, Invariance, PTL

\* OutcomeIsTruth of the outcome file: an accepted source was paid for by that
\* transaction, and for a rejected one nothing was paid nor ever will be.
THEOREM OutcomesAreTrue == Spec => []OutcomeIsTruth
<1>1. IInv => OutcomeIsTruth
  <2> SUFFICES ASSUME IInv, NEW s \in Sources
               PROVE  /\ outcomes[s].kind = "accepted" => /\ chain[outcomes[s].tx] = "success"
                                                          /\ paidFor[outcomes[s].tx] = s
                      /\ outcomes[s] = Rejected =>
                            \A t \in Txs : paidFor[t] = s => chain[t] \in {"failed", "expired"}
      BY DEF OutcomeIsTruth
  <2>1. outcomes[s] \in Records
        BY DEF IInv, TypeInv
  <2>2. outcomes[s].kind = "accepted" => /\ outcomes[s].tx \in Txs
                                         /\ outcomes[s] = Accepted(outcomes[s].tx)
        BY <2>1, RecordIs
  <2> QED BY <2>2 DEF IInv, Files
<1> QED BY <1>1, Invariance, PTL
=============================================================================
