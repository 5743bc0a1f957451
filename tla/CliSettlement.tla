--------------------------- MODULE CliSettlement ----------------------------
(***************************************************************************)
(* The CLI's settlement journal: `reapp pay', `reapp demo', `reapp         *)
(* settlement reconcile' and `reapp settlement acknowledge' as operating   *)
(* system processes that share one directory, whose creation is the lock   *)
(* of settlement-store.ts.                                                 *)
(*                                                                         *)
(* A step is one system call, or one exchange with the chain, so that the  *)
(* commands interleave where they really may: between the load of the      *)
(* journal and what is done about it, between the creation of the lock     *)
(* and the record written into it.  Loading the journal and removing it    *)
(* recursively are one step each.  A process may be killed at any point    *)
(* and an I/O call of a write may fail.                                    *)
(*                                                                         *)
(* A definition marked "Faulty:" is a plausible bug in the one after it;   *)
(* nothing uses it but the check that a property would notice the bug.     *)
(***************************************************************************)
EXTENDS Naturals, FiniteSets

CONSTANTS
    Processes,  \* commands that may be alive together
    Txs,        \* transactions that may be signed; bounds the payments made
    Nothing,    \* no transaction, no record
    Overlap     \* pairs <<c, d>>: command c may be started while a d is alive

Commands == {"pay", "demo", "reconcile", "acknowledge"}

\* What the journal's lock is made for: payments and demos race each other, and the
\* result of a payment is acknowledged while other payments are tried; a demo
\* acknowledges its own.  Commands that resolve the journal overlap one another, never
\* a payment.
Intended == ({"pay", "demo"} \X {"pay", "demo"})
            \cup {<<"pay", "acknowledge">>, <<"acknowledge", "pay">>}
            \cup {"reconcile", "acknowledge"} \X {"reconcile"}
            \cup {<<"reconcile", "acknowledge">>}

ASSUME SettlementAssumption == /\ Nothing \notin Txs
                               /\ \A t \in Txs, kind \in {"pending", "completed"} :
                                     Nothing # [tx |-> t, kind |-> kind]
                               /\ Overlap \subseteq Commands \X Commands
                               /\ IsFiniteSet(Txs)

VARIABLES
    process,  \* process[p]: [command, pc, tx]
    dir,      \* whether the journal's directory exists
    state,    \* the record in its state.json, or Nothing
    tmps,     \* processes whose temporary file is in it
    chain,    \* chain[t]: what has become of transaction t
    seqOf,    \* expected_seq t was signed with; Nothing for a mandate of its own
    seq,      \* the mandate's seq in the contract
    acked     \* transactions a human acknowledged

journal == <<dir, state, tmps>>
ledger  == <<chain, seqOf, seq>>
vars    == <<process, journal, ledger, acked>>

Idle == [command |-> "none", pc |-> "idle", tx |-> Nothing]

At(p, pc)         == process[p].pc = pc
TxOf(p)           == process[p].tx
Exit(p)           == process' = [process EXCEPT ![p] = Idle]
GotoFor(p, pc, t) == process' = [process EXCEPT ![p].pc = pc, ![p].tx = t]
Goto(p, pc)       == IF pc = "idle" THEN Exit(p) ELSE GotoFor(p, pc, TxOf(p))

-----------------------------------------------------------------------------
(* The file system under the journal                                       *)

\* What loadPendingSettlement finds.
Kind == IF ~ dir THEN "none" ELSE IF state = Nothing THEN "empty" ELSE state.kind

\* rm -r of the directory.
RemoveAll == dir' = FALSE /\ state' = Nothing /\ tmps' = {}

\* writeState: open a temporary file, rename it into place, then chmod and sync.
\* A call fails if the directory or the file is gone, or for reasons of its own.
OpenTmp(p, ok, err) ==
    /\ UNCHANGED <<dir, state>>
    /\ \/ dir /\ tmps' = tmps \cup {p} /\ Goto(p, ok)
       \/ UNCHANGED tmps /\ Goto(p, err)

RenameTmp(p, kind, ok, err) ==
    \/ /\ p \in tmps
       /\ state' = [tx |-> TxOf(p), kind |-> kind]
       /\ tmps' = tmps \ {p}
       /\ UNCHANGED dir
       /\ Goto(p, ok)
    \/ /\ tmps' = tmps \ {p}
       /\ UNCHANGED <<dir, state>>
       /\ Goto(p, err)

SyncState(p, ok, err) ==
    /\ UNCHANGED journal
    /\ \/ state # Nothing /\ Goto(p, ok)
       \/ Goto(p, err)

-----------------------------------------------------------------------------
(* reapp pay and reapp demo: runPay and attemptPurchase, with the SDK's pay *)
(* and claimPendingSettlement                                              *)

Demo(p) == process[p].command = "demo"

\* A payment is over: runPay ends; the demo goes on, to its next source or, after a
\* stale sequence number, to the same again, or ends.
PaymentOver(p) == Exit(p) \/ (Demo(p) /\ GotoFor(p, "sign", Nothing))

\* Somebody types a command.  Only a success that was reported is acknowledged.
Start(p, c) ==
    /\ At(p, "idle")
    /\ c = "acknowledge" => \E t \in Txs : chain[t] = "success"
    /\ \A q \in Processes : ~ At(q, "idle") => <<c, process[q].command>> \in Overlap
    /\ process' = [process EXCEPT ![p] = [command |-> c, pc |-> c, tx |-> Nothing]]
    /\ UNCHANGED <<journal, ledger, acked>>

\* assertNoPendingSettlement
PayCheck(p) ==
    /\ At(p, "pay") \/ At(p, "demo")
    /\ IF dir THEN Exit(p) ELSE Goto(p, "sign")
    /\ UNCHANGED <<journal, ledger, acked>>

\* The agent reads the mandate's sequence number and signs for it, or cannot.  A demo
\* has registered a mandate for itself, of which no other command knows.
Sign(p) ==
    /\ At(p, "sign")
    /\ \/ \E t \in Txs :
             /\ chain[t] = "new"
             /\ chain' = [chain EXCEPT ![t] = "signed"]
             /\ seqOf' = [seqOf EXCEPT ![t] = IF Demo(p) THEN Nothing ELSE seq]
             /\ GotoFor(p, "lock", t)
       \/ UNCHANGED <<chain, seqOf>> /\ Exit(p)
    /\ UNCHANGED <<journal, seq, acked>>

\* Faulty: mkdir with `recursive', which does not mind an existing directory.
NoLock == TRUE
\* mkdir fails with EEXIST if another payment holds the lock.
LockFree == ~ dir

Lock(p) ==
    /\ At(p, "lock")
    /\ IF LockFree
       THEN dir' = TRUE /\ Goto(p, "open") /\ UNCHANGED <<state, tmps>>
       ELSE Exit(p) /\ UNCHANGED journal
    /\ UNCHANGED <<ledger, acked>>

ClaimRename(p) == /\ At(p, "rename") /\ RenameTmp(p, "pending", "sync", "undo")
                  /\ UNCHANGED <<ledger, acked>>

ClaimOpen(p) == /\ At(p, "open") /\ OpenTmp(p, "rename", "undo")
                /\ UNCHANGED <<ledger, acked>>

ClaimSync(p) == /\ At(p, "sync") /\ SyncState(p, "send", "undo")
                /\ UNCHANGED <<ledger, acked>>

\* The claim could not be written: the lock is given up.
Undo(p) ==
    /\ At(p, "undo")
    /\ RemoveAll
    /\ Exit(p)
    /\ UNCHANGED <<ledger, acked>>

\* The network takes the transaction, unless it is too late or the call fails.
Send(p) ==
    /\ At(p, "send")
    /\ \/ /\ chain[TxOf(p)] = "signed"
          /\ chain' = [chain EXCEPT ![TxOf(p)] = "sent"]
          /\ Goto(p, "await")
       \/ UNCHANGED chain /\ Exit(p)
    /\ UNCHANGED <<journal, seqOf, seq, acked>>

\* Success is marked, a final rejection clears the journal, and anything else
\* is uncertain: the journal is kept and the command ends.
Await(p) ==
    /\ At(p, "await")
    /\ \/ chain[TxOf(p)] = "success" /\ Goto(p, "mark")
       \/ chain[TxOf(p)] = "failed" /\ Goto(p, "clear")
       \/ Exit(p)
    /\ UNCHANGED <<journal, ledger, acked>>

-----------------------------------------------------------------------------
(* settlement-store.ts: mark completed, clear, acknowledge                  *)

\* Where a command goes on that has marked its success: the demo accepts it itself.
Marked(p) == IF Demo(p) THEN "accept" ELSE "idle"

MarkLoad(p) ==
    /\ At(p, "mark")
    /\ Goto(p, IF Kind \notin {"pending", "completed"} \/ state.tx # TxOf(p) THEN "idle"
               ELSE IF Kind = "pending" THEN "markOpen" ELSE Marked(p))
    /\ UNCHANGED <<journal, ledger, acked>>

MarkOpen(p) == /\ At(p, "markOpen") /\ OpenTmp(p, "markRename", "idle")
               /\ UNCHANGED <<ledger, acked>>

MarkRename(p) == /\ At(p, "markRename") /\ RenameTmp(p, "completed", "markSync", "idle")
                 /\ UNCHANGED <<ledger, acked>>

MarkSync(p) == /\ At(p, "markSync") /\ SyncState(p, Marked(p), "idle")
               /\ UNCHANGED <<ledger, acked>>

\* Faulty: an interrupted claim, which has no hash, is never cleared.
ClearsKnown(t) == Kind = "pending" /\ t = state.tx
\* clearPendingSettlement(t); t is Nothing when reconcile clears an empty claim.
Clears(t) == \/ Kind = "pending" /\ t \in {state.tx, Nothing}
             \/ Kind = "empty" /\ t = Nothing

ClearLoad(p) ==
    /\ At(p, "clear")
    /\ IF Clears(TxOf(p)) THEN Goto(p, "remove") ELSE Exit(p)
    /\ UNCHANGED <<journal, ledger, acked>>

Remove(p) ==
    /\ At(p, "remove")
    /\ RemoveAll
    /\ PaymentOver(p)
    /\ UNCHANGED <<ledger, acked>>

\* The human names a transaction whose success was reported.
AckLoad(p) ==
    /\ At(p, "acknowledge")
    /\ \E t \in Txs :
          /\ chain[t] = "success"
          /\ IF Kind = "completed" /\ state.tx = t THEN GotoFor(p, "ackRemove", t) ELSE Exit(p)
    /\ UNCHANGED <<journal, ledger, acked>>

\* The demo has seen the mandate's seq advance, or gives up, and acknowledges what it
\* has shown.
Accept(p) ==
    /\ At(p, "accept")
    /\ \/ Kind = "completed" /\ state.tx = TxOf(p) /\ Goto(p, "ackRemove")
       \/ Exit(p)
    /\ UNCHANGED <<journal, ledger, acked>>

AckRemove(p) ==
    /\ At(p, "ackRemove")
    /\ RemoveAll
    /\ acked' = acked \cup {TxOf(p)}
    /\ PaymentOver(p)
    /\ UNCHANGED ledger

-----------------------------------------------------------------------------
(* reapp settlement reconcile                                              *)

ReconcileLoad(p) ==
    /\ At(p, "reconcile")
    /\ \/ Kind \in {"none", "completed"} /\ Exit(p)
       \/ Kind = "empty" /\ Goto(p, "clear")
       \/ Kind = "pending" /\ GotoFor(p, "query", state.tx)
    /\ UNCHANGED <<journal, ledger, acked>>

\* Faulty: a transaction the chain does not know is taken to be dead.
Unknown(t) == chain[t] \in {"signed", "sent", "expired"}
\* classifyMissingSettlement: unknown, and the ledger closed past its validity.
Expired(t) == chain[t] = "expired"
Succeeded(t) == chain[t] = "success"

\* getTransaction for the journal's hash.  The RPC may fail, or no longer have
\* the history, at any time; then the journal is kept.
Query(p) ==
    /\ At(p, "query")
    /\ \/ Succeeded(TxOf(p)) /\ Goto(p, "mark")
       \/ (chain[TxOf(p)] = "failed" \/ Expired(TxOf(p))) /\ Goto(p, "clear")
       \/ Exit(p)
    /\ UNCHANGED <<journal, ledger, acked>>

-----------------------------------------------------------------------------
(* The environment                                                         *)

Kill(p) ==
    /\ ~ At(p, "idle")
    /\ Exit(p)
    /\ tmps' = tmps \ {p}
    /\ UNCHANGED <<dir, state, ledger, acked>>

\* The contract executes the payment if its sequence number is the next one.
Land(t) ==
    /\ chain[t] = "sent"
    /\ IF seqOf[t] \in {seq, Nothing}
       THEN /\ seq' = IF seqOf[t] = seq THEN seq + 1 ELSE seq
            /\ chain' = [chain EXCEPT ![t] = "success"]
       ELSE /\ UNCHANGED seq
            /\ chain' = [chain EXCEPT ![t] = "failed"]
    /\ UNCHANGED <<process, journal, seqOf, acked>>

\* Another rule of the contract, or of the token, refuses it.
Reject(t) ==
    /\ chain[t] = "sent"
    /\ chain' = [chain EXCEPT ![t] = "failed"]
    /\ UNCHANGED <<process, journal, seqOf, seq, acked>>

\* A ledger closes past validUntil: the transaction can never land any more.
Expire(t) ==
    /\ chain[t] \in {"signed", "sent"}
    /\ chain' = [chain EXCEPT ![t] = "expired"]
    /\ UNCHANGED <<process, journal, seqOf, seq, acked>>

Init ==
    /\ process = [p \in Processes |-> Idle]
    /\ dir = FALSE /\ state = Nothing /\ tmps = {}
    /\ chain = [t \in Txs |-> "new"]
    /\ seqOf = [t \in Txs |-> 0]
    /\ seq = 0
    /\ acked = {}

Run(p) ==
    \/ PayCheck(p) \/ Sign(p) \/ Lock(p) \/ ClaimOpen(p) \/ ClaimRename(p)
    \/ ClaimSync(p) \/ Undo(p) \/ Send(p) \/ Await(p)
    \/ MarkLoad(p) \/ MarkOpen(p) \/ MarkRename(p) \/ MarkSync(p)
    \/ ClearLoad(p) \/ Remove(p) \/ AckLoad(p) \/ Accept(p) \/ AckRemove(p)
    \/ ReconcileLoad(p) \/ Query(p)

Next ==
    \/ \E p \in Processes : (\E c \in Commands : Start(p, c)) \/ Run(p) \/ Kill(p)
    \/ \E t \in Txs : Land(t) \/ Reject(t) \/ Expire(t)

Spec == Init /\ [][Next]_vars

-----------------------------------------------------------------------------
(* Fairness, for liveness                                                  *)

\* A step that goes on with the command, or frees the lock.
GoesOn(p) == Run(p) /\ (dir' => ~ At(p, "idle")')

\* Where a command that frees the lock passes.
RecoveryPoints == {"reconcile", "query", "clear", "remove", "mark", "markOpen",
                   "markRename", "acknowledge", "ackRemove"}

\* Somebody keeps reconciling and acknowledging, soon enough for the RPC to have
\* the history, and not every attempt is killed or meets an error.  A sent
\* transaction is closed into a ledger or its validity ends.
Fairness ==
    /\ \A p \in Processes :
          /\ WF_vars(Run(p))
          /\ \A c \in {"reconcile", "acknowledge"} : SF_vars(Start(p, c))
          /\ \A pc \in RecoveryPoints : SF_vars(At(p, pc) /\ GoesOn(p))
    /\ \A t \in Txs : WF_vars(Land(t) \/ Expire(t))

FairSpec == Spec /\ Fairness

-----------------------------------------------------------------------------
(* Properties                                                              *)

Unresolved == {t \in Txs : chain[t] = "sent" \/ (chain[t] = "success" /\ t \notin acked)}

\* A transaction that may still land, or that succeeded and was not acknowledged,
\* is the one in the journal: no crash, error or concurrent payment between the
\* claim and the acknowledgment makes the CLI forget money it may have spent.
Remembered == \A t \in Unresolved : state # Nothing /\ state.tx = t

\* Of the payments that race for the directory only one is submitted, and no
\* other before it is resolved and acknowledged (README of the CLI).
OneAtATime == Cardinality(Unresolved) =< 1

\* Wherever a command is killed, the lock it leaves is freed by reconciling and
\* acknowledging: no journal blocks payments for ever.
LockIsFreed == dir ~> ~ dir
=============================================================================
