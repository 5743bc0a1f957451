------------------------ MODULE CliSettlementProofs ------------------------
(***************************************************************************)
(* What the settlement journal promises, for every number of processes and *)
(* of transactions, as long as the commands overlap only as the journal's  *)
(* lock allows for (Intended).                                             *)
(*                                                                         *)
(* Nothing in the directory says whose it is: a command that has read the  *)
(* journal acts on what it has read.  So the invariant says of every       *)
(* command what the journal holds at each point of it: of a payment, that  *)
(* the journal is its own from the creation of the directory to its        *)
(* removal; of a reconciliation, that the journal is still what it was     *)
(* when it was read, or is gone; of an acknowledgment, that its success is *)
(* the one in the journal.                                                 *)
(***************************************************************************)
EXTENDS CliSettlement, FiniteSetTheorems, TLAPS

-----------------------------------------------------------------------------
(* The inductive invariant                                                 *)

\* A payment before it has the lock; while the directory is its own; and the point
\* of `pay' at which an acknowledgment may already have taken it away.
Early   == {"pay", "demo", "sign", "lock"}
Holding == {"open", "rename", "sync", "undo", "send", "await", "mark", "markOpen", "markRename",
            "clear", "remove", "accept", "ackRemove"}
Pcs     == Early \cup Holding \cup {"idle", "markSync", "reconcile", "query", "acknowledge"}
\* The points at which a transaction is a payment's own, and not sent.
Owning  == {"lock", "open", "rename", "sync", "undo", "send"}
\* Those at which a success has been seen.
Paid    == {"mark", "markOpen", "markRename", "markSync", "accept", "ackRemove"}

ProcessStates == [command : Commands \cup {"none"}, pc : Pcs, tx : Txs \cup {Nothing}]
Fates         == {"new", "signed", "sent", "success", "failed", "expired"}
Pending(t)    == [tx |-> t, kind |-> "pending"]
Completed(t)  == [tx |-> t, kind |-> "completed"]
Records       == {Pending(t) : t \in Txs} \cup {Completed(t) : t \in Txs}

TypeInv ==
    /\ process \in [Processes -> ProcessStates]
    /\ dir \in BOOLEAN
    /\ state \in Records \cup {Nothing}
    /\ tmps \in SUBSET Processes
    /\ ~ dir => state = Nothing /\ tmps = {}
    /\ chain \in [Txs -> Fates]
    /\ acked \in SUBSET Txs

\* The journal is that of t, unless it is gone.
StillOf(t) == dir => state \in {Pending(t), Completed(t)}

Paying(r) ==
    /\ r.pc \in Early \cup Holding \cup {"markSync"}
    /\ r.pc \in Owning => chain[r.tx] \in {"signed", "expired"}
    /\ r.pc \in Holding => dir
    /\ r.pc \in {"open", "rename"} => state = Nothing
    /\ r.pc = "undo" => state \in {Nothing, Pending(r.tx)}
    /\ r.pc \in {"sync", "send", "await", "mark", "markOpen", "markRename", "clear", "remove"} =>
          state = Pending(r.tx)
    /\ r.pc \in {"clear", "remove"} => chain[r.tx] = "failed"
    /\ r.pc \in {"accept", "ackRemove"} => r.command = "demo"
    /\ r.command = "demo" /\ r.pc \in {"markSync", "accept", "ackRemove"} => state = Completed(r.tx)

Reconciling(r) ==
    /\ r.pc \in {"reconcile", "query", "mark", "markOpen", "markRename", "markSync", "clear", "remove"}
    /\ r.pc = "reconcile" => r.tx = Nothing
    /\ r.pc \in {"query", "mark", "markOpen", "markRename", "markSync"} => StillOf(r.tx)
    /\ r.pc \in {"clear", "remove"} =>
          \/ r.tx = Nothing /\ state = Nothing
          \/ r.tx \in Txs /\ chain[r.tx] \in {"failed", "expired"} /\ StillOf(r.tx)

Acknowledging(r) ==
    /\ r.pc \in {"acknowledge", "ackRemove"}
    /\ r.pc = "ackRemove" => state = Completed(r.tx)

\* What is known of a command at each point of it.
ProcessOK(r) ==
    /\ r.pc = "idle" <=> r.command = "none"
    /\ r.pc \in {"query"} \cup Owning \cup Paid \cup (Holding \ {"clear", "remove"}) => r.tx \in Txs
    /\ r.pc \in Paid => chain[r.tx] = "success"
    /\ r.command \in {"pay", "demo"} => r.tx \in Txs \/ r.pc \notin Holding
    /\ r.command \in {"pay", "demo"} => Paying(r)
    /\ r.command = "reconcile" => Reconciling(r)
    /\ r.command = "acknowledge" => Acknowledging(r)

Alive(p) == process[p].command # "none"
Pays(p)  == process[p].command \in {"pay", "demo"}
Holds(p) == Pays(p) /\ (process[p].pc \in Holding \/ (Demo(p) /\ At(p, "markSync")))

\* Only commands that may overlap are alive together; one payment has the directory;
\* and a transaction that is not sent is one payment's.
Together(c, d) == <<c, d>> \in Intended \/ <<d, c>> \in Intended
Company  == \A p, q \in Processes : p # q /\ Alive(p) /\ Alive(q) =>
                Together(process[p].command, process[q].command)
OneHolds == \A p, q \in Processes : Holds(p) /\ Holds(q) => p = q
Owners   == \A p, q \in Processes :
                Pays(p) /\ Pays(q) /\ process[p].pc \in Owning /\ process[q].pc \in Owning
                /\ TxOf(p) = TxOf(q) => p = q

IInv == /\ TypeInv
        /\ \A p \in Processes : ProcessOK(process[p])
        /\ Company /\ OneHolds /\ Owners
        /\ Remembered

-----------------------------------------------------------------------------
(* One command's step, seen by the others                                  *)

\* The records of the journal are told apart.
LEMMA RecordsDiffer ==
    /\ \A t, u : /\ Pending(t) # Completed(u)
                 /\ Pending(t) = Pending(u) => t = u
                 /\ Completed(t) = Completed(u) => t = u
                 /\ Pending(t).tx = t /\ Completed(t).tx = t
                 /\ Pending(t).kind = "pending" /\ Completed(t).kind = "completed"
    /\ \A t \in Txs : Pending(t) # Nothing /\ Completed(t) # Nothing
BY SettlementAssumption DEF Pending, Completed

\* What the journal holds, as its loading tells.
LEMMA KindIs ==
    ASSUME IInv
    PROVE  /\ Kind = "none" <=> ~ dir
           /\ Kind = "empty" <=> dir /\ state = Nothing
           /\ Kind = "pending" <=> dir /\ state # Nothing /\ state = Pending(state.tx) /\ state.tx \in Txs
           /\ Kind = "completed" <=> dir /\ state # Nothing /\ state = Completed(state.tx) /\ state.tx \in Txs
           /\ state # Nothing => dir /\ state \in Records
<1>1. /\ state \in Records \cup {Nothing}
      /\ ~ dir => state = Nothing
      BY DEF IInv, TypeInv
<1>2. CASE state = Nothing
      BY <1>2 DEF Kind
<1>3. CASE state \in Records /\ state # Nothing
  <2>1. state.kind \in {"pending", "completed"} /\ state.tx \in Txs
        /\ (state.kind = "pending" <=> state = Pending(state.tx))
        /\ (state.kind = "completed" <=> state = Completed(state.tx))
        BY <1>3 DEF Records, Pending, Completed
  <2> QED BY <1>1, <1>3, <2>1 DEF Kind
<1> QED BY <1>1, <1>2, <1>3

\* What the invariant says of the process that takes a step.
LEMMA ProcessIs ==
    ASSUME IInv, NEW p \in Processes
    PROVE  /\ process[p] \in ProcessStates /\ ProcessOK(process[p])
           /\ process[p].command \in Commands \cup {"none"}
           /\ process[p].pc = "idle" <=> process[p].command = "none"
           /\ Idle \in ProcessStates /\ Idle.pc = "idle" /\ Idle.command = "none"
           /\ TypeInv
<1>1. TypeInv /\ ProcessOK(process[p])
      BY DEF IInv
<1>2. process[p] \in ProcessStates
      BY <1>1 DEF TypeInv
<1>3. Idle \in ProcessStates /\ Idle.pc = "idle" /\ Idle.command = "none"
      BY DEF Idle, ProcessStates, Pcs
<1> QED BY <1>1, <1>2, <1>3 DEF ProcessStates, ProcessOK

\* Which commands are found alive beside another.
LEMMA Companions ==
    ASSUME IInv, NEW p \in Processes, NEW q \in Processes, p # q, Alive(p), Alive(q)
    PROVE  /\ process[p].command \in {"pay", "demo"} => process[q].command \in {"pay", "demo", "acknowledge"}
           /\ process[p].command = "demo" => process[q].command \in {"pay", "demo"}
           /\ process[p].command = "reconcile" => process[q].command \in {"reconcile", "acknowledge"}
           /\ process[p].command = "acknowledge" => process[q].command \in {"pay", "reconcile"}
<1>1. Together(process[p].command, process[q].command)
      BY DEF IInv, Company
<1> QED BY <1>1 DEF Together, Intended

\* Beside one that has the directory nobody else has it, and nobody reconciles; an
\* acknowledgment is about to remove it only if it holds a success, and not a demo's.
LEMMA BesideHolder ==
    ASSUME IInv, NEW p \in Processes, Holds(p), NEW q \in Processes, q # p,
           NEW r, r = process[q]
    PROVE  /\ r.command # "reconcile"
           /\ r.command \in {"pay", "demo"} => r.pc \notin Holding
           /\ r.command = "demo" => r.pc # "markSync"
           /\ Demo(p) => r.command # "acknowledge"
           /\ r.command = "acknowledge" /\ r.pc = "ackRemove" => state = Completed(r.tx)
           /\ ProcessOK(r)
<1>1. process[p].command \in {"pay", "demo"} /\ Alive(p)
      BY DEF Holds, Pays, Alive
<1>2. ProcessOK(r) /\ ~ Holds(q)
      BY DEF IInv, OneHolds
<1>3. r.command # "reconcile" /\ (Demo(p) => r.command # "acknowledge")
      BY <1>1, Companions DEF Alive, Demo
<1> QED BY <1>2, <1>3 DEF Holds, Pays, Demo, At, ProcessOK, Acknowledging

\* One that has the directory, has one.
LEMMA HolderHasIt ==
    ASSUME IInv, NEW p \in Processes, Holds(p)
    PROVE  dir
<1>1. ProcessOK(process[p]) /\ process[p].command \in {"pay", "demo"}
      BY ProcessIs DEF Holds, Pays
<1>2. CASE process[p].pc \in Holding
      BY <1>1, <1>2 DEF ProcessOK, Paying
<1>3. CASE Demo(p) /\ At(p, "markSync")
  <2>1. state = Completed(process[p].tx) /\ process[p].tx \in Txs
        BY <1>1, <1>3 DEF ProcessOK, Paying, Demo, At, Paid
  <2> QED BY <2>1, KindIs, RecordsDiffer
<1> QED BY <1>2, <1>3 DEF Holds

\* The commands of the others are still where they may be.
OthersOK(p) == \A q \in Processes \ {p} : \A s \in ProcessStates : s = process[q] => ProcessOK(s)'

JournalType ==
    /\ dir \in BOOLEAN
    /\ state \in Records \cup {Nothing}
    /\ tmps \in SUBSET Processes
    /\ ~ dir => state = Nothing /\ tmps = {}
    /\ acked \in SUBSET Txs

\* A step of one process that leaves the chain alone keeps the invariant if the others
\* do not mind it, it takes nothing from anybody, and what it says of itself is so.
LEMMA StepKeeps ==
    ASSUME IInv, NEW p \in Processes, NEW r \in ProcessStates,
           process' = [process EXCEPT ![p] = r], chain' = chain, JournalType',
           r.command \in {process[p].command, "none"},
           /\ r.command \in {"pay", "demo"}
           /\ r.pc \in Holding \/ (r.command = "demo" /\ r.pc = "markSync")
           => Holds(p) \/ ~ dir,
           r.command \in {"pay", "demo"} /\ r.pc \in Owning => process[p].pc \in Owning /\ TxOf(p) = r.tx,
           OthersOK(p), ProcessOK(r)', Remembered'
    PROVE  IInv'
<1>1. /\ \A q \in Processes : process'[q] = IF q = p THEN r ELSE process[q]
      /\ \A q \in Processes : process[q] \in ProcessStates
      BY DEF IInv, TypeInv
<1>2. TypeInv'
      BY DEF IInv, TypeInv, JournalType
<1>3. ASSUME NEW q \in Processes
      PROVE  ProcessOK(process[q])'
  <2>1. CASE q = p
        BY <2>1, <1>1 DEF ProcessOK, Paying, Reconciling, Acknowledging
  <2>2. CASE q # p
    <3>1. PICK s \in ProcessStates : s = process[q] /\ process'[q] = s
          BY <2>2, <1>1
    <3>2. ProcessOK(s)'
          BY <2>2, <3>1 DEF OthersOK
    <3> QED BY <3>1, <3>2 DEF ProcessOK, Paying, Reconciling, Acknowledging
  <2> QED BY <2>1, <2>2
<1>4. Company'
      BY <1>1 DEF IInv, Company, Alive
<1>5. OneHolds'
  <2>1. \A q \in Processes : Holds(q)' => IF q = p THEN Holds(p) \/ ~ dir ELSE Holds(q)
        BY <1>1 DEF Holds, Pays, Demo, At
  <2>2. \A q \in Processes : Holds(q) => dir
        BY HolderHasIt
  <2> QED BY <2>1, <2>2 DEF IInv, OneHolds
<1>6. Owners'
      BY <1>1 DEF IInv, Owners, Pays, TxOf
<1> QED BY <1>2, <1>3, <1>4, <1>5, <1>6 DEF IInv

\* Nobody minds a step that leaves the journal's directory and record alone.
LEMMA QuietOthers ==
    ASSUME IInv, NEW p \in Processes, dir' = dir, state' = state, chain' = chain
    PROVE  OthersOK(p)
<1> SUFFICES ASSUME NEW q \in Processes \ {p}, NEW s \in ProcessStates, s = process[q]
             PROVE  ProcessOK(s)'
    BY DEF OthersOK
<1>1. ProcessOK(s)
      BY ProcessIs
<1> QED BY <1>1 DEF ProcessOK, Paying, Reconciling, Acknowledging, StillOf

\* The one that has the directory may do what it likes with it, but that an
\* acknowledgment may be about to remove a success.
LEMMA HolderOthers ==
    ASSUME IInv, NEW p \in Processes, Holds(p), chain' = chain,
           Demo(p) \/ \A t \in Txs : state # Completed(t)
    PROVE  OthersOK(p)
<1> SUFFICES ASSUME NEW q \in Processes \ {p}, NEW s \in ProcessStates, s = process[q]
             PROVE  ProcessOK(s)'
    BY DEF OthersOK
<1>1. /\ s.command # "reconcile"
      /\ s.command \in {"pay", "demo"} => s.pc \notin Holding
      /\ s.command = "demo" => s.pc # "markSync"
      /\ Demo(p) => s.command # "acknowledge"
      /\ s.command = "acknowledge" /\ s.pc = "ackRemove" => state = Completed(s.tx)
      /\ ProcessOK(s)
      BY BesideHolder
<1>2. s.command = "acknowledge" => s.pc # "ackRemove"
      BY <1>1 DEF ProcessOK, Paid
<1>3. s.command \in {"pay", "demo"} => Paying(s)'
      BY <1>1 DEF ProcessOK, Paying, Owning, Holding
<1> QED BY <1>1, <1>2, <1>3 DEF ProcessOK, Reconciling, Acknowledging

\* Nobody minds that a payment takes a lock that is free.
LEMMA LockOthers ==
    ASSUME IInv, NEW p \in Processes, Pays(p), ~ dir, state' = state, chain' = chain
    PROVE  OthersOK(p)
<1> SUFFICES ASSUME NEW q \in Processes \ {p}, NEW s \in ProcessStates, s = process[q]
             PROVE  ProcessOK(s)'
    BY DEF OthersOK
<1>1. ProcessOK(s) /\ ~ Holds(q) /\ state = Nothing
      BY ProcessIs, HolderHasIt DEF TypeInv
<1>2. s.command # "reconcile"
      BY Companions DEF Alive, Pays
<1>3. s.command \in {"pay", "demo"} => s.pc \notin Holding /\ (s.command = "demo" => s.pc # "markSync")
      BY <1>1 DEF Holds, Pays, Demo, At
<1>4. s.command \in {"pay", "demo"} => Paying(s)'
      BY <1>1, <1>3 DEF ProcessOK, Paying, Owning, Holding
<1>5. s.command = "acknowledge" => Acknowledging(s)'
      BY <1>1 DEF ProcessOK, Acknowledging
<1> QED BY <1>1, <1>2, <1>4, <1>5 DEF ProcessOK

\* Beside a reconciliation there are only commands that resolve the journal.
LEMMA BesideReconciliation ==
    ASSUME IInv, NEW p \in Processes, process[p].command = "reconcile",
           NEW q \in Processes \ {p}, NEW s, s = process[q]
    PROVE  s.command \in {"reconcile", "acknowledge", "none"} /\ ProcessOK(s)
BY Companions, ProcessIs DEF Alive

\* A reconciliation may say again what the record is, or remove it once its
\* transaction has failed, or the claim was empty.
LEMMA ReconciliationOthers ==
    ASSUME IInv, NEW p \in Processes, process[p].command = "reconcile", chain' = chain,
           NEW t \in Txs \cup {Nothing},
           \/ /\ t \in Txs /\ dir /\ dir' = dir
              /\ state \in {Pending(t), Completed(t)} /\ state' = Completed(t)
           \/ /\ dir' = FALSE /\ state' = Nothing
              /\ \/ t = Nothing /\ state = Nothing
                 \/ t \in Txs /\ chain[t] \in {"failed", "expired"} /\ StillOf(t)
    PROVE  OthersOK(p)
<1> SUFFICES ASSUME NEW q \in Processes \ {p}, NEW s \in ProcessStates, s = process[q]
             PROVE  ProcessOK(s)'
    BY DEF OthersOK
<1>1. s.command \in {"reconcile", "acknowledge", "none"} /\ ProcessOK(s)
      BY BesideReconciliation
<1>2. CASE t \in Txs /\ dir /\ dir' = dir /\ state \in {Pending(t), Completed(t)} /\ state' = Completed(t)
  <2>1. s.command = "reconcile" => Reconciling(s)'
        BY <1>1, <1>2, RecordsDiffer DEF ProcessOK, Reconciling, StillOf
  <2>2. s.command = "acknowledge" => Acknowledging(s)'
        BY <1>1, <1>2, RecordsDiffer DEF ProcessOK, Acknowledging
  <2> QED BY <1>1, <2>1, <2>2 DEF ProcessOK
<1>3. CASE /\ dir' = FALSE /\ state' = Nothing
           /\ \/ t = Nothing /\ state = Nothing
              \/ t \in Txs /\ chain[t] \in {"failed", "expired"} /\ StillOf(t)
  <2>1. s.command = "reconcile" => Reconciling(s)'
        BY <1>1, <1>3 DEF ProcessOK, Reconciling, StillOf
  <2>2. s.command = "acknowledge" => s.pc # "ackRemove"
    <3> SUFFICES ASSUME s.command = "acknowledge", s.pc = "ackRemove" PROVE FALSE
        OBVIOUS
    <3>1. state = Completed(s.tx) /\ s.tx \in Txs /\ chain[s.tx] = "success"
          BY <1>1 DEF ProcessOK, Acknowledging, Paid
    <3>2. state # Nothing /\ dir
          BY <3>1, KindIs, RecordsDiffer
    <3> QED BY <1>3, <3>1, <3>2, RecordsDiffer DEF StillOf
  <2>3. s.command = "acknowledge" => Acknowledging(s)'
        BY <1>1, <2>2 DEF ProcessOK, Acknowledging
  <2> QED BY <1>1, <2>1, <2>3 DEF ProcessOK
<1> QED BY <1>2, <1>3

\* An acknowledgment may remove the success it was made for.
LEMMA AcknowledgmentOthers ==
    ASSUME IInv, NEW p \in Processes, process[p].command = "acknowledge", chain' = chain,
           NEW t \in Txs, state = Completed(t), dir' = FALSE, state' = Nothing
    PROVE  OthersOK(p)
<1> SUFFICES ASSUME NEW q \in Processes \ {p}, NEW s \in ProcessStates, s = process[q]
             PROVE  ProcessOK(s)'
    BY DEF OthersOK
<1>1. s.command \in {"pay", "reconcile", "none"} /\ ProcessOK(s)
      BY Companions, ProcessIs DEF Alive
<1>2. s.command = "pay" => s.pc \notin Holding
      BY <1>1, RecordsDiffer DEF ProcessOK, Paying, Holding
<1>3. s.command = "pay" => Paying(s)'
      BY <1>1, <1>2 DEF ProcessOK, Paying, Owning, Holding
<1>4. s.command = "reconcile" => Reconciling(s)'
      BY <1>1 DEF ProcessOK, Reconciling, StillOf
<1> QED BY <1>1, <1>3, <1>4 DEF ProcessOK

-----------------------------------------------------------------------------
(* The ways of stepping                                                    *)

\* Going on at another point, about some transaction.
LEMMA GotoForIs ==
    ASSUME IInv, NEW p \in Processes, NEW pc \in Pcs, NEW t \in Txs \cup {Nothing}, GotoFor(p, pc, t)
    PROVE  \E r \in ProcessStates : /\ process' = [process EXCEPT ![p] = r]
                                    /\ r.command = process[p].command /\ r.pc = pc /\ r.tx = t
<1>1. process \in [Processes -> ProcessStates] /\ process[p] \in ProcessStates
      BY ProcessIs DEF TypeInv
<1> DEFINE r == [process[p] EXCEPT !.pc = pc, !.tx = t]
<1>2. r \in ProcessStates /\ r.command = process[p].command /\ r.pc = pc /\ r.tx = t
      BY <1>1 DEF ProcessStates
<1>3. process' = [process EXCEPT ![p] = r]
      BY <1>1 DEF GotoFor, ProcessStates
<1> HIDE DEF r
<1> QED BY <1>2, <1>3

\* A command that ends knows nothing.
LEMMA ExitKeeps ==
    ASSUME IInv, NEW p \in Processes, Exit(p), chain' = chain, JournalType', OthersOK(p), Remembered'
    PROVE  IInv'
<1>1. PICK r \in ProcessStates : process' = [process EXCEPT ![p] = r] /\ r.pc = "idle" /\ r.command = "none"
      BY ProcessIs DEF Exit
<1>2. ProcessOK(r)'
      BY <1>1 DEF ProcessOK, Paying, Owning, Holding, Paid
<1> QED BY <1>1, <1>2, StepKeeps

\* One that goes on keeps what it had.
LEMMA GotoForKeeps ==
    ASSUME IInv, NEW p \in Processes, NEW pc \in Pcs, NEW t \in Txs \cup {Nothing}, GotoFor(p, pc, t),
           chain' = chain, JournalType', OthersOK(p), Remembered',
           Pays(p) /\ (pc \in Holding \/ (Demo(p) /\ pc = "markSync")) => Holds(p) \/ ~ dir,
           Pays(p) /\ pc \in Owning => process[p].pc \in Owning /\ TxOf(p) = t,
           \A r \in ProcessStates :
              r.command = process[p].command /\ r.pc = pc /\ r.tx = t => ProcessOK(r)'
    PROVE  IInv'
<1>1. PICK r \in ProcessStates : /\ process' = [process EXCEPT ![p] = r]
                                 /\ r.command = process[p].command /\ r.pc = pc /\ r.tx = t
      BY GotoForIs
<1>2. ProcessOK(r)'
      BY <1>1
<1> QED BY <1>1, <1>2, StepKeeps DEF Pays, Demo

\* Steps that leave the directory and the record alone.
Quiet == /\ dir' = dir /\ state' = state /\ chain' = chain /\ acked' = acked
         /\ tmps' \in SUBSET Processes /\ (~ dir => tmps' = {})

\* A quiet step disturbs nothing.
LEMMA QuietIs ==
    ASSUME IInv, NEW p \in Processes, Quiet
    PROVE  chain' = chain /\ JournalType' /\ OthersOK(p) /\ Remembered'
<1>1. OthersOK(p)
      BY QuietOthers DEF Quiet
<1>2. JournalType' /\ Remembered'
      BY DEF Quiet, IInv, TypeInv, JournalType, Remembered, Unresolved
<1> QED BY <1>1, <1>2 DEF Quiet

\* So a command may end quietly at any point.
LEMMA QuietExit ==
    ASSUME IInv, NEW p \in Processes, Quiet, Exit(p)
    PROVE  IInv'
BY QuietIs, ExitKeeps

\* A step that leaves the whole journal alone is quiet.
LEMMA Untouched ==
    ASSUME IInv, UNCHANGED <<journal, ledger, acked>>
    PROVE  Quiet
BY DEF IInv, TypeInv, Quiet, journal, ledger

\* Going on about the same transaction, unless it is the end.
LEMMA GotoKeeps ==
    ASSUME IInv, NEW p \in Processes, NEW pc \in Pcs, Goto(p, pc),
           chain' = chain, JournalType', OthersOK(p), Remembered',
           Pays(p) /\ (pc \in Holding \/ (Demo(p) /\ pc = "markSync")) => Holds(p) \/ ~ dir,
           Pays(p) /\ pc \in Owning => process[p].pc \in Owning,
           \A r \in ProcessStates :
              pc # "idle" /\ r.command = process[p].command /\ r.pc = pc /\ r.tx = TxOf(p) => ProcessOK(r)'
    PROVE  IInv'
<1>1. CASE pc = "idle"
      BY <1>1, ExitKeeps DEF Goto
<1>2. CASE pc # "idle"
  <2>1. GotoFor(p, pc, TxOf(p)) /\ TxOf(p) \in Txs \cup {Nothing}
        BY <1>2, ProcessIs DEF Goto, TxOf, ProcessStates
  <2> QED BY <1>2, <2>1, GotoForKeeps
<1> QED BY <1>1, <1>2

-----------------------------------------------------------------------------
(* The payment                                                             *)

\* A command is started beside those it may overlap with.
LEMMA StartKeeps ==
    ASSUME Overlap \subseteq Intended, IInv, NEW p \in Processes, NEW c \in Commands, Start(p, c)
    PROVE  IInv'
<1>1. /\ dir' = dir /\ state' = state /\ tmps' = tmps /\ chain' = chain /\ acked' = acked
      /\ ~ Alive(p) /\ TypeInv
      /\ \A q \in Processes : Alive(q) => Together(c, process[q].command)
      BY ProcessIs DEF Start, journal, ledger, At, Alive, Together
<1>2. PICK r \in ProcessStates : /\ process' = [process EXCEPT ![p] = r]
                                 /\ r.command = c /\ r.pc = c /\ r.tx = Nothing
  <2> DEFINE r == [command |-> c, pc |-> c, tx |-> Nothing]
  <2>1. r \in ProcessStates /\ r.command = c /\ r.pc = c /\ r.tx = Nothing
        BY DEF ProcessStates, Commands, Pcs, Early
  <2>2. process' = [process EXCEPT ![p] = r]
        BY DEF Start
  <2> HIDE DEF r
  <2> QED BY <2>1, <2>2
<1>3. \A q \in Processes : process'[q] = IF q = p THEN r ELSE process[q]
      BY <1>1, <1>2 DEF TypeInv
<1>4. TypeInv'
      BY <1>1, <1>2 DEF TypeInv
<1>5. ASSUME NEW q \in Processes
      PROVE  ProcessOK(process[q])'
  <2>1. CASE q = p
    <3>1. ProcessOK(r)'
          BY <1>2 DEF ProcessOK, Paying, Reconciling, Acknowledging, Commands, Early, Holding, Owning, Paid
    <3> QED BY <2>1, <3>1, <1>3 DEF ProcessOK, Paying, Reconciling, Acknowledging, StillOf
  <2>2. CASE q # p
    <3>1. ProcessOK(process[q]) /\ process'[q] = process[q]
          BY <1>3, <2>2, ProcessIs
    <3> QED BY <3>1, <1>1 DEF ProcessOK, Paying, Reconciling, Acknowledging, StillOf
  <2> QED BY <2>1, <2>2
<1>6. Company'
      BY <1>1, <1>2, <1>3 DEF IInv, Company, Alive, Together
<1>7. OneHolds' /\ Owners'
      BY <1>1, <1>2, <1>3 DEF IInv, OneHolds, Holds, Pays, Demo, At, Owners, TxOf, Commands, Holding, Owning
<1>8. Remembered'
      BY <1>1 DEF IInv, Remembered, Unresolved
<1> QED BY <1>4, <1>5, <1>6, <1>7, <1>8 DEF IInv

\* What is asked of a payment at a point where nothing has been claimed.
LEMMA PayCheckKeeps ==
    ASSUME IInv, NEW p \in Processes, PayCheck(p)
    PROVE  IInv'
<1>1. Quiet /\ process[p].pc \in {"pay", "demo"} /\ ProcessOK(process[p])
      BY Untouched, ProcessIs DEF PayCheck, At
<1>2. process[p].command \in {"pay", "demo"}
      BY <1>1, ProcessIs DEF ProcessOK, Reconciling, Acknowledging, Commands
<1>3. CASE Exit(p)
      BY <1>1, <1>3, QuietExit
<1>4. CASE Goto(p, "sign")
  <2>1. "sign" \in Pcs /\ "sign" \notin Holding /\ "sign" \notin Owning
        BY DEF Pcs, Early, Holding, Owning
  <2>2. ASSUME NEW r \in ProcessStates, r.command = process[p].command, r.pc = "sign"
        PROVE  ProcessOK(r)'
        BY <2>2, <1>2 DEF ProcessOK, Paying, Early, Holding, Owning, Paid
  <2> QED BY <1>1, <1>4, <2>1, <2>2, QuietIs, GotoKeeps
<1> QED BY <1>3, <1>4 DEF PayCheck

\* The lock is taken by a payment if nobody has it.
LEMMA LockKeeps ==
    ASSUME IInv, NEW p \in Processes, Lock(p)
    PROVE  IInv'
<1>1. process[p].pc = "lock" /\ ProcessOK(process[p]) /\ TypeInv
      BY ProcessIs DEF Lock, At
<1>2. process[p].command \in {"pay", "demo"} /\ TxOf(p) \in Txs /\ TxOf(p) = process[p].tx
      /\ chain[TxOf(p)] \in {"signed", "expired"}
      BY <1>1, ProcessIs DEF ProcessOK, Reconciling, Acknowledging, Commands, Owning, TxOf, Paying
<1>3. CASE Exit(p) /\ UNCHANGED journal
      BY <1>3, Untouched, QuietExit DEF Lock
<1>4. CASE ~ dir /\ dir' = TRUE /\ Goto(p, "open") /\ UNCHANGED <<state, tmps>>
  <2>1. state = Nothing /\ state' = state /\ tmps' = tmps /\ chain' = chain /\ acked' = acked
        BY <1>1, <1>4 DEF TypeInv, Lock, ledger
  <2>2. JournalType' /\ Remembered'
        BY <2>1, <1>1, <1>4 DEF IInv, TypeInv, JournalType, Remembered, Unresolved
  <2>3. OthersOK(p)
        BY <1>2, <1>4, <2>1, LockOthers DEF Pays
  <2>4. ASSUME NEW r \in ProcessStates, r.command = process[p].command, r.pc = "open", r.tx = TxOf(p)
        PROVE  ProcessOK(r)'
        BY <2>1, <2>4, <1>2, <1>4 DEF ProcessOK, Paying, Early, Holding, Owning, Paid
  <2>5. "open" \in Pcs /\ process[p].pc \in Owning
        BY <1>1 DEF Pcs, Holding, Owning
  <2> QED BY <1>4, <2>1, <2>2, <2>3, <2>4, <2>5, GotoKeeps
<1> QED BY <1>3, <1>4 DEF Lock, LockFree

\* A payment that claims the journal has it for itself.
LEMMA ClaimantIs ==
    ASSUME IInv, NEW p \in Processes, process[p].pc \in {"open", "rename", "sync", "undo", "send", "await"}
    PROVE  /\ process[p].command \in {"pay", "demo"} /\ Holds(p) /\ dir
           /\ TxOf(p) \in Txs /\ TxOf(p) = process[p].tx
           /\ \A t \in Txs : state # Completed(t)
           /\ ProcessOK(process[p]) /\ Paying(process[p]) /\ TypeInv
<1>1. ProcessOK(process[p]) /\ process[p].pc \in Holding /\ TypeInv
      BY ProcessIs DEF Holding
<1>2. process[p].command \in {"pay", "demo"}
      BY <1>1, ProcessIs DEF ProcessOK, Reconciling, Acknowledging, Commands
<1>3. Paying(process[p]) /\ TxOf(p) \in Txs /\ TxOf(p) = process[p].tx
      BY <1>1, <1>2 DEF ProcessOK, TxOf
<1>4. Holds(p) /\ dir
      BY <1>1, <1>2, <1>3 DEF Holds, Pays, Paying
<1>5. \A t \in Txs : state # Completed(t)
      BY <1>3, RecordsDiffer DEF Paying
<1> QED BY <1>1, <1>2, <1>3, <1>4, <1>5

\* Opening a temporary file is quiet.
LEMMA OpenTmpIs ==
    ASSUME IInv, NEW p \in Processes, NEW ok, NEW err, OpenTmp(p, ok, err), chain' = chain, acked' = acked
    PROVE  Quiet /\ ((dir /\ Goto(p, ok)) \/ Goto(p, err))
BY DEF OpenTmp, Quiet, IInv, TypeInv

\* The journal is empty while its temporary file is opened.
LEMMA ClaimOpenKeeps ==
    ASSUME IInv, NEW p \in Processes, ClaimOpen(p)
    PROVE  IInv'
<1>1. process[p].pc = "open"
      BY DEF ClaimOpen, At
<1>2. /\ process[p].command \in {"pay", "demo"} /\ Holds(p) /\ dir
      /\ TxOf(p) \in Txs /\ Paying(process[p]) /\ TxOf(p) = process[p].tx
      BY <1>1, ClaimantIs
<1>3. state = Nothing /\ chain[TxOf(p)] \in {"signed", "expired"}
      BY <1>1, <1>2 DEF Paying, Owning
<1>4. Quiet /\ (Goto(p, "rename") \/ Goto(p, "undo"))
      BY OpenTmpIs DEF ClaimOpen, ledger
<1>5. PICK pc \in {"rename", "undo"} : Goto(p, pc)
      BY <1>4
<1>6. ASSUME NEW r \in ProcessStates, r.command = process[p].command, r.pc = pc, r.tx = TxOf(p)
      PROVE  ProcessOK(r)'
      BY <1>2, <1>3, <1>4, <1>6 DEF ProcessOK, Paying, Early, Holding, Owning, Paid, Quiet
<1>7. pc \in Pcs /\ process[p].pc \in Owning
      BY <1>1 DEF Pcs, Holding, Owning
<1> QED BY <1>2, <1>4, <1>5, <1>6, <1>7, QuietIs, GotoKeeps

\* Nothing can be unresolved while the record is not written.
LEMMA ClaimRenameKeeps ==
    ASSUME IInv, NEW p \in Processes, ClaimRename(p)
    PROVE  IInv'
<1>1. process[p].pc = "rename"
      BY DEF ClaimRename, At
<1>2. /\ process[p].command \in {"pay", "demo"} /\ Holds(p) /\ dir /\ TypeInv
      /\ TxOf(p) \in Txs /\ Paying(process[p]) /\ TxOf(p) = process[p].tx
      /\ \A t \in Txs : state # Completed(t)
      BY <1>1, ClaimantIs
<1>3. state = Nothing /\ chain[TxOf(p)] \in {"signed", "expired"}
      BY <1>1, <1>2 DEF Paying, Owning
<1>4. chain' = chain /\ acked' = acked /\ dir' = dir
      BY DEF ClaimRename, RenameTmp, ledger
<1>5. OthersOK(p)
      BY <1>2, <1>4, HolderOthers
<1>6. process[p].pc \in Owning /\ "sync" \in Pcs /\ "undo" \in Pcs
      BY <1>1 DEF Pcs, Holding, Owning
<1>7. CASE state' = Pending(TxOf(p)) /\ tmps' = tmps \ {p} /\ Goto(p, "sync")
  <2>1. JournalType' /\ Remembered'
    <3>1. JournalType'
          BY <1>2, <1>4, <1>7 DEF TypeInv, JournalType, Records
    <3>2. Unresolved = {}
          BY <1>3 DEF IInv, Remembered, Unresolved
    <3> QED BY <3>1, <3>2, <1>4 DEF Remembered, Unresolved
  <2>2. ASSUME NEW r \in ProcessStates, r.command = process[p].command, r.pc = "sync", r.tx = TxOf(p)
        PROVE  ProcessOK(r)'
        BY <1>2, <1>3, <1>4, <1>7, <2>2 DEF ProcessOK, Paying, Early, Holding, Owning, Paid
  <2> QED BY <1>2, <1>4, <1>5, <1>6, <1>7, <2>1, <2>2, GotoKeeps
<1>8. CASE UNCHANGED <<dir, state>> /\ tmps' = tmps \ {p} /\ Goto(p, "undo")
  <2>1. Quiet
        BY <1>2, <1>4, <1>8 DEF Quiet, TypeInv
  <2>2. ASSUME NEW r \in ProcessStates, r.command = process[p].command, r.pc = "undo", r.tx = TxOf(p)
        PROVE  ProcessOK(r)'
        BY <1>2, <1>3, <2>1, <2>2 DEF ProcessOK, Paying, Early, Holding, Owning, Paid, Quiet
  <2> QED BY <1>2, <1>6, <1>8, <2>1, <2>2, QuietIs, GotoKeeps
<1> QED BY <1>7, <1>8 DEF ClaimRename, RenameTmp, Pending

\* The record is written before the payment may be sent.
LEMMA ClaimSyncKeeps ==
    ASSUME IInv, NEW p \in Processes, ClaimSync(p)
    PROVE  IInv'
<1>1. process[p].pc = "sync"
      BY DEF ClaimSync, At
<1>2. /\ process[p].command \in {"pay", "demo"} /\ Holds(p) /\ dir
      /\ TxOf(p) \in Txs /\ Paying(process[p]) /\ TxOf(p) = process[p].tx
      BY <1>1, ClaimantIs
<1>3. state = Pending(TxOf(p)) /\ chain[TxOf(p)] \in {"signed", "expired"}
      BY <1>1, <1>2 DEF Paying, Owning
<1>4. Quiet
      BY Untouched DEF ClaimSync, SyncState
<1>5. PICK pc \in {"send", "undo"} : Goto(p, pc)
      BY DEF ClaimSync, SyncState
<1>6. ASSUME NEW r \in ProcessStates, r.command = process[p].command, r.pc = pc, r.tx = TxOf(p)
      PROVE  ProcessOK(r)'
      BY <1>2, <1>3, <1>4, <1>6 DEF ProcessOK, Paying, Early, Holding, Owning, Paid, Quiet
<1>7. pc \in Pcs /\ process[p].pc \in Owning
      BY <1>1 DEF Pcs, Holding, Owning
<1> QED BY <1>2, <1>4, <1>5, <1>6, <1>7, QuietIs, GotoKeeps

\* A journal of nothing that is unresolved may go.
LEMMA RemovalIs ==
    ASSUME IInv, RemoveAll, chain' = chain, acked' \in SUBSET Txs, acked \subseteq acked',
           \A t \in Txs : state \in {Pending(t), Completed(t)} =>
              chain[t] \notin {"sent", "success"} \/ (chain[t] = "success" /\ t \in acked')
    PROVE  JournalType' /\ Remembered'
<1>1. JournalType'
      BY DEF RemoveAll, JournalType, IInv, TypeInv
<1>2. ASSUME NEW t \in Txs, t \in Unresolved
      PROVE  chain[t] = "success" /\ t \in acked'
  <2>1. state # Nothing /\ state.tx = t /\ state \in Records
        BY <1>2 DEF IInv, Remembered, TypeInv
  <2>2. state \in {Pending(t), Completed(t)}
        BY <2>1, RecordsDiffer DEF Records
  <2> QED BY <1>2, <2>2 DEF Unresolved
<1>3. Unresolved' = {}
      BY <1>2 DEF Unresolved
<1> QED BY <1>1, <1>3 DEF Remembered

\* A claim that was not written is given up, its payment never sent.
LEMMA UndoKeeps ==
    ASSUME IInv, NEW p \in Processes, Undo(p)
    PROVE  IInv'
<1>1. process[p].pc = "undo"
      BY DEF Undo, At
<1>2. /\ Holds(p) /\ TxOf(p) \in Txs /\ Paying(process[p]) /\ TxOf(p) = process[p].tx
      /\ \A t \in Txs : state # Completed(t)
      BY <1>1, ClaimantIs
<1>3. state \in {Nothing, Pending(TxOf(p))} /\ chain[TxOf(p)] \in {"signed", "expired"}
      BY <1>1, <1>2 DEF Paying, Owning
<1>4. chain' = chain /\ acked' = acked /\ RemoveAll /\ Exit(p)
      BY DEF Undo, ledger
<1>5. JournalType' /\ Remembered'
  <2>1. \A t \in Txs : state \in {Pending(t), Completed(t)} => chain[t] \notin {"sent", "success"}
        BY <1>2, <1>3, RecordsDiffer
  <2>2. acked' \in SUBSET Txs /\ acked \subseteq acked'
        BY <1>4 DEF IInv, TypeInv
  <2> QED BY <1>4, <2>1, <2>2, RemovalIs
<1>6. OthersOK(p)
      BY <1>2, <1>4, HolderOthers
<1> QED BY <1>4, <1>5, <1>6, ExitKeeps

\* The answer of the network, or none.
LEMMA AwaitKeeps ==
    ASSUME IInv, NEW p \in Processes, Await(p)
    PROVE  IInv'
<1>1. process[p].pc = "await"
      BY DEF Await, At
<1>2. /\ process[p].command \in {"pay", "demo"} /\ Holds(p) /\ dir
      /\ TxOf(p) \in Txs /\ Paying(process[p]) /\ TxOf(p) = process[p].tx
      BY <1>1, ClaimantIs
<1>3. state = Pending(TxOf(p)) /\ Quiet
      BY <1>1, <1>2, Untouched DEF Paying, Await
<1>4. CASE Exit(p)
      BY <1>3, <1>4, QuietExit
<1>5. CASE \/ chain[TxOf(p)] = "success" /\ Goto(p, "mark")
           \/ chain[TxOf(p)] = "failed" /\ Goto(p, "clear")
  <2>1. PICK pc \in {"mark", "clear"} : /\ Goto(p, pc)
                                        /\ pc = "mark" => chain[TxOf(p)] = "success"
                                        /\ pc = "clear" => chain[TxOf(p)] = "failed"
        BY <1>5
  <2>2. ASSUME NEW r \in ProcessStates, r.command = process[p].command, r.pc = pc, r.tx = TxOf(p)
        PROVE  ProcessOK(r)'
        BY <1>2, <1>3, <2>1, <2>2 DEF ProcessOK, Paying, Early, Holding, Owning, Paid, Quiet
  <2>3. pc \in Pcs /\ pc \notin Owning
        BY DEF Pcs, Holding, Owning
  <2> QED BY <1>2, <1>3, <2>1, <2>2, <2>3, QuietIs, GotoKeeps
<1> QED BY <1>4, <1>5 DEF Await

-----------------------------------------------------------------------------
(* Marking a success                                                       *)

\* A success is marked by the payment whose it is, or by a reconciliation.
LEMMA MarkerIs ==
    ASSUME IInv, NEW p \in Processes, process[p].pc \in {"mark", "markOpen", "markRename", "markSync"}
    PROVE  /\ process[p].command \in {"pay", "demo", "reconcile"}
           /\ TxOf(p) \in Txs /\ TxOf(p) = process[p].tx /\ chain[TxOf(p)] = "success"
           /\ process[p].command \in {"pay", "demo"} => Paying(process[p])
           /\ process[p].command = "reconcile" => Reconciling(process[p]) /\ StillOf(TxOf(p))
           /\ Pays(p) /\ process[p].pc # "markSync" => Holds(p) /\ state = Pending(TxOf(p))
           /\ Demo(p) => Holds(p)
           /\ Pays(p) <=> process[p].command \in {"pay", "demo"}
           /\ Demo(p) <=> process[p].command = "demo"
           /\ TypeInv
<1>1. ProcessOK(process[p]) /\ TypeInv /\ process[p].command \in Commands \cup {"none"}
      BY ProcessIs
<1>2. process[p].command \in {"pay", "demo", "reconcile"} /\ process[p].tx \in Txs
      /\ chain[process[p].tx] = "success"
      BY <1>1 DEF ProcessOK, Acknowledging, Commands, Paid
<1>3. /\ process[p].command \in {"pay", "demo"} => Paying(process[p])
      /\ process[p].command = "reconcile" => Reconciling(process[p])
      BY <1>1 DEF ProcessOK
<1>4. process[p].pc \in Holding \/ process[p].pc = "markSync"
      BY DEF Holding
<1> QED BY <1>1, <1>2, <1>3, <1>4 DEF Paying, Reconciling, TxOf, Holds, Pays, Demo, At

\* What is asked of a marker at its next point.
LEMMA MarkerGoes ==
    ASSUME IInv, NEW p \in Processes, process[p].pc \in {"mark", "markOpen", "markRename"}, Quiet,
           NEW pc \in {"markOpen", "markRename", "idle"}, Goto(p, pc)
    PROVE  IInv'
<1>1. /\ process[p].command \in {"pay", "demo", "reconcile"}
      /\ TxOf(p) \in Txs /\ chain[TxOf(p)] = "success"
      /\ process[p].command = "reconcile" => StillOf(TxOf(p))
      /\ Pays(p) => Holds(p) /\ state = Pending(TxOf(p))
      /\ Pays(p) <=> process[p].command \in {"pay", "demo"}
      /\ TypeInv
      BY MarkerIs
<1>2. Pays(p) => dir
      BY <1>1, HolderHasIt
<1>3. ASSUME NEW r \in ProcessStates, pc # "idle", r.command = process[p].command, r.pc = pc, r.tx = TxOf(p)
      PROVE  ProcessOK(r)'
      BY <1>1, <1>2, <1>3
         DEF ProcessOK, Paying, Reconciling, StillOf, Early, Holding, Owning, Paid, Quiet
<1>4. pc \in Pcs /\ pc \notin Owning
      BY DEF Pcs, Holding, Owning
<1> QED BY <1>1, <1>3, <1>4, QuietIs, GotoKeeps

\* Loading the journal decides whether there is anything to mark.
LEMMA MarkLoadKeeps ==
    ASSUME IInv, NEW p \in Processes, MarkLoad(p)
    PROVE  IInv'
<1>1. process[p].pc = "mark" /\ Quiet
      BY Untouched DEF MarkLoad, At
<1>2. Demo(p) => state = Pending(TxOf(p)) /\ TxOf(p) \in Txs
      BY <1>1, MarkerIs
<1>3. Demo(p) => Kind # "completed"
      BY <1>2, KindIs, RecordsDiffer
<1>4. PICK pc \in {"markOpen", "idle"} : Goto(p, pc)
      BY <1>3 DEF MarkLoad, Marked
<1> QED BY <1>1, <1>4, MarkerGoes

\* Opening the temporary file of a mark changes no record.
LEMMA MarkOpenKeeps ==
    ASSUME IInv, NEW p \in Processes, MarkOpen(p)
    PROVE  IInv'
<1>1. process[p].pc = "markOpen"
      BY DEF MarkOpen, At
<1>2. Quiet /\ (Goto(p, "markRename") \/ Goto(p, "idle"))
      BY OpenTmpIs DEF MarkOpen, ledger
<1>3. PICK pc \in {"markRename", "idle"} : Goto(p, pc)
      BY <1>2
<1> QED BY <1>1, <1>2, <1>3, MarkerGoes

\* The success of the transaction is written over what the journal says of it.
LEMMA MarkRenameKeeps ==
    ASSUME IInv, NEW p \in Processes, MarkRename(p)
    PROVE  IInv'
<1> DEFINE t == TxOf(p)
<1>1. process[p].pc = "markRename"
      BY DEF MarkRename, At
<1>2. /\ process[p].command \in {"pay", "demo", "reconcile"}
      /\ t \in Txs /\ chain[t] = "success" /\ TypeInv
      /\ process[p].command = "reconcile" => StillOf(t)
      /\ Pays(p) => Holds(p) /\ state = Pending(t)
      /\ Pays(p) <=> process[p].command \in {"pay", "demo"}
      BY <1>1, MarkerIs
<1>3. chain' = chain /\ acked' = acked /\ dir' = dir /\ tmps' = tmps \ {p}
      BY DEF MarkRename, RenameTmp, ledger
<1>4. CASE Goto(p, "idle") /\ UNCHANGED state
  <2>1. Quiet
        BY <1>2, <1>3, <1>4 DEF Quiet, TypeInv
  <2> QED BY <1>1, <1>4, <2>1, MarkerGoes
<1>5. CASE p \in tmps /\ state' = Completed(t) /\ Goto(p, "markSync")
  <2>1. dir /\ state \in {Pending(t), Completed(t)}
    <3>1. dir
          BY <1>2, <1>5 DEF TypeInv
    <3> QED BY <1>2, <3>1 DEF StillOf
  <2>2. OthersOK(p)
    <3>1. CASE Pays(p)
          BY <1>2, <1>3, <3>1, HolderOthers, RecordsDiffer
    <3>2. CASE process[p].command = "reconcile"
          BY <1>2, <1>3, <1>5, <2>1, <3>2, ReconciliationOthers
    <3> QED BY <1>2, <3>1, <3>2
  <2>3. JournalType' /\ Remembered'
    <3>1. JournalType'
          BY <1>2, <1>3, <1>5, <2>1 DEF TypeInv, JournalType, Records
    <3>2. \A u \in Unresolved : u = t
          BY <1>2, <2>1, RecordsDiffer DEF IInv, Remembered
    <3>3. Unresolved' = Unresolved
          BY <1>3 DEF Unresolved
    <3> QED BY <1>2, <1>5, <3>1, <3>2, <3>3, RecordsDiffer DEF Remembered
  <2>4. ASSUME NEW r \in ProcessStates, r.command = process[p].command, r.pc = "markSync", r.tx = t
        PROVE  ProcessOK(r)'
        BY <1>2, <1>3, <1>5, <2>1, <2>4
           DEF ProcessOK, Paying, Reconciling, StillOf, Early, Holding, Owning, Paid
  <2>5. "markSync" \in Pcs /\ "markSync" \notin Owning
        BY DEF Pcs, Owning
  <2> QED BY <1>2, <1>3, <1>5, <2>2, <2>3, <2>4, <2>5, GotoKeeps
<1> QED BY <1>3, <1>4, <1>5 DEF MarkRename, RenameTmp, Completed

\* A demo that has marked its success goes on to accept it.
LEMMA MarkSyncKeeps ==
    ASSUME IInv, NEW p \in Processes, MarkSync(p)
    PROVE  IInv'
<1>1. process[p].pc = "markSync" /\ Quiet
      BY Untouched DEF MarkSync, SyncState, At
<1>2. /\ TxOf(p) \in Txs /\ chain[TxOf(p)] = "success" /\ TxOf(p) = process[p].tx
      /\ Demo(p) => Holds(p) /\ Paying(process[p]) /\ process[p].command = "demo"
      BY <1>1, MarkerIs
<1>3. CASE Goto(p, "idle")
      BY <1>1, <1>3, QuietExit DEF Goto
<1>4. CASE Demo(p) /\ Goto(p, "accept")
  <2>1. dir /\ state = Completed(TxOf(p))
        BY <1>1, <1>2, <1>4, HolderHasIt DEF Paying
  <2>2. ASSUME NEW r \in ProcessStates, r.command = process[p].command, r.pc = "accept", r.tx = TxOf(p)
        PROVE  ProcessOK(r)'
        BY <1>1, <1>2, <1>4, <2>1, <2>2 DEF ProcessOK, Paying, Early, Holding, Owning, Paid, Quiet
  <2>3. "accept" \in Pcs /\ "accept" \notin Owning
        BY DEF Pcs, Holding, Owning
  <2> QED BY <1>1, <1>2, <1>4, <2>2, <2>3, QuietIs, GotoKeeps
<1> QED BY <1>3, <1>4 DEF MarkSync, SyncState, Marked

-----------------------------------------------------------------------------
(* Resolving the journal                                                   *)

\* The journal is cleared by the payment whose it is, or by a reconciliation.
LEMMA ClearerIs ==
    ASSUME IInv, NEW p \in Processes, process[p].pc \in {"clear", "remove"}
    PROVE  /\ process[p].command \in {"pay", "demo", "reconcile"}
           /\ TxOf(p) \in Txs \cup {Nothing} /\ TxOf(p) = process[p].tx
           /\ Pays(p) <=> process[p].command \in {"pay", "demo"}
           /\ Pays(p) => /\ Holds(p) /\ dir /\ TxOf(p) \in Txs
                         /\ state = Pending(TxOf(p)) /\ chain[TxOf(p)] = "failed"
           /\ process[p].command = "reconcile" =>
                 \/ TxOf(p) = Nothing /\ state = Nothing
                 \/ TxOf(p) \in Txs /\ chain[TxOf(p)] \in {"failed", "expired"} /\ StillOf(TxOf(p))
<1>1. ProcessOK(process[p]) /\ process[p].command \in Commands \cup {"none"}
      /\ TxOf(p) \in Txs \cup {Nothing} /\ TxOf(p) = process[p].tx
      BY ProcessIs DEF ProcessStates, TxOf
<1>2. process[p].command \in {"pay", "demo", "reconcile"} /\ process[p].pc \in Holding
      BY <1>1 DEF ProcessOK, Acknowledging, Commands, Holding
<1>3. /\ process[p].command \in {"pay", "demo"} => Paying(process[p]) /\ TxOf(p) \in Txs
      /\ process[p].command = "reconcile" => Reconciling(process[p])
      BY <1>1, <1>2 DEF ProcessOK
<1> QED BY <1>1, <1>2, <1>3 DEF Paying, Reconciling, Holds, Pays

\* What is to be cleared is compared with what the journal holds.
LEMMA ClearLoadKeeps ==
    ASSUME IInv, NEW p \in Processes, ClearLoad(p)
    PROVE  IInv'
<1>1. process[p].pc = "clear" /\ Quiet
      BY Untouched DEF ClearLoad, At
<1>2. CASE Exit(p)
      BY <1>1, <1>2, QuietExit
<1>3. CASE Goto(p, "remove")
  <2>1. /\ process[p].command \in {"pay", "demo", "reconcile"}
        /\ Pays(p) <=> process[p].command \in {"pay", "demo"}
        /\ Pays(p) => /\ Holds(p) /\ dir /\ TxOf(p) \in Txs
                      /\ state = Pending(TxOf(p)) /\ chain[TxOf(p)] = "failed"
        /\ process[p].command = "reconcile" =>
              \/ TxOf(p) = Nothing /\ state = Nothing
              \/ TxOf(p) \in Txs /\ chain[TxOf(p)] \in {"failed", "expired"} /\ StillOf(TxOf(p))
        BY <1>1, ClearerIs
  <2>2. ASSUME NEW r \in ProcessStates, r.command = process[p].command, r.pc = "remove", r.tx = TxOf(p)
        PROVE  ProcessOK(r)'
        BY <1>1, <2>1, <2>2
           DEF ProcessOK, Paying, Reconciling, StillOf, Early, Holding, Owning, Paid, Quiet
  <2>3. "remove" \in Pcs /\ "remove" \notin Owning
        BY DEF Pcs, Holding, Owning
  <2> QED BY <1>1, <1>3, <2>1, <2>2, <2>3, QuietIs, GotoKeeps
<1> QED BY <1>2, <1>3 DEF ClearLoad

\* Once a payment is over, it has nothing; a demo may pay again.
LEMMA PaymentOverKeeps ==
    ASSUME IInv, NEW p \in Processes, PaymentOver(p), chain' = chain, JournalType', OthersOK(p), Remembered'
    PROVE  IInv'
<1>1. CASE Exit(p)
      BY <1>1, ExitKeeps
<1>2. CASE Demo(p) /\ GotoFor(p, "sign", Nothing)
  <2>1. ASSUME NEW r \in ProcessStates, r.command = process[p].command, r.pc = "sign"
        PROVE  ProcessOK(r)'
        BY <1>2, <2>1 DEF ProcessOK, Paying, Early, Holding, Owning, Paid, Demo
  <2>2. "sign" \in Pcs /\ "sign" \notin Holding /\ "sign" \notin Owning
        BY DEF Pcs, Early, Holding, Owning
  <2> QED BY <1>2, <2>1, <2>2, GotoForKeeps
<1> QED BY <1>1, <1>2 DEF PaymentOver

\* What is removed was never paid.
LEMMA RemoveKeeps ==
    ASSUME IInv, NEW p \in Processes, Remove(p)
    PROVE  IInv'
<1> DEFINE t == TxOf(p)
<1>1. chain' = chain /\ acked' = acked /\ RemoveAll /\ PaymentOver(p) /\ process[p].pc = "remove"
      BY DEF Remove, ledger, At
<1>2. /\ process[p].command \in {"pay", "demo", "reconcile"} /\ t \in Txs \cup {Nothing}
      /\ Pays(p) <=> process[p].command \in {"pay", "demo"}
      /\ Pays(p) => Holds(p) /\ dir /\ t \in Txs /\ state = Pending(t) /\ chain[t] = "failed"
      /\ process[p].command = "reconcile" =>
            \/ t = Nothing /\ state = Nothing
            \/ t \in Txs /\ chain[t] \in {"failed", "expired"} /\ StillOf(t)
      BY <1>1, ClearerIs
<1>3. OthersOK(p)
  <2>1. CASE Pays(p)
        BY <1>1, <1>2, <2>1, HolderOthers, RecordsDiffer
  <2>2. CASE process[p].command = "reconcile"
        BY <1>1, <1>2, <2>2, ReconciliationOthers DEF RemoveAll
  <2> QED BY <1>2, <2>1, <2>2
<1>4. JournalType' /\ Remembered'
  <2>1. ASSUME NEW u \in Txs, state \in {Pending(u), Completed(u)}
        PROVE  chain[u] \notin {"sent", "success"}
    <3>1. dir /\ state # Nothing
          BY <2>1, KindIs, RecordsDiffer
    <3> QED BY <1>2, <2>1, <3>1, RecordsDiffer DEF StillOf
  <2>2. acked' \in SUBSET Txs /\ acked \subseteq acked'
        BY <1>1 DEF IInv, TypeInv
  <2> QED BY <1>1, <2>1, <2>2, RemovalIs
<1> QED BY <1>1, <1>3, <1>4, PaymentOverKeeps

\* An acknowledgment names a success, and finds it in the journal.
LEMMA AckLoadKeeps ==
    ASSUME IInv, NEW p \in Processes, AckLoad(p)
    PROVE  IInv'
<1>1. process[p].pc = "acknowledge" /\ Quiet
      BY Untouched DEF AckLoad, At
<1>2. process[p].command = "acknowledge"
      BY <1>1, ProcessIs DEF ProcessOK, Paying, Reconciling, Early, Holding, Commands
<1>3. PICK t \in Txs : /\ chain[t] = "success"
                       /\ \/ Kind = "completed" /\ state.tx = t /\ GotoFor(p, "ackRemove", t)
                          \/ Exit(p)
      BY DEF AckLoad
<1>4. CASE Exit(p)
      BY <1>1, <1>4, QuietExit
<1>5. CASE Kind = "completed" /\ state.tx = t /\ GotoFor(p, "ackRemove", t)
  <2>1. dir /\ state = Completed(t)
        BY <1>5, KindIs
  <2>2. ASSUME NEW r \in ProcessStates, r.command = process[p].command, r.pc = "ackRemove", r.tx = t
        PROVE  ProcessOK(r)'
        BY <1>1, <1>2, <1>3, <2>1, <2>2 DEF ProcessOK, Acknowledging, Quiet
  <2>3. "ackRemove" \in Pcs /\ ~ Pays(p)
        BY <1>2 DEF Pcs, Holding, Pays
  <2> QED BY <1>1, <1>5, <2>2, <2>3, QuietIs, GotoForKeeps
<1> QED BY <1>3, <1>4, <1>5

\* A demo that has its success in the journal.
LEMMA AccepterIs ==
    ASSUME IInv, NEW p \in Processes, Demo(p), process[p].pc \in {"accept", "ackRemove"}
    PROVE  /\ Holds(p) /\ dir /\ TxOf(p) \in Txs /\ TxOf(p) = process[p].tx
           /\ state = Completed(TxOf(p)) /\ chain[TxOf(p)] = "success"
<1>1. ProcessOK(process[p]) /\ process[p].command = "demo" /\ process[p].pc \in Holding
      BY ProcessIs DEF Demo, Holding
<1>2. Paying(process[p]) /\ process[p].tx \in Txs /\ chain[process[p].tx] = "success"
      BY <1>1 DEF ProcessOK, Paid
<1> QED BY <1>1, <1>2 DEF Paying, Holds, Pays, TxOf

\* A demo acknowledges what it has marked itself.
LEMMA AcceptKeeps ==
    ASSUME IInv, NEW p \in Processes, Accept(p)
    PROVE  IInv'
<1>1. process[p].pc = "accept" /\ Quiet
      BY Untouched DEF Accept, At
<1>2. Demo(p)
      BY <1>1, ProcessIs DEF ProcessOK, Paying, Reconciling, Acknowledging, Commands, Demo
<1>3. CASE Exit(p)
      BY <1>1, <1>3, QuietExit
<1>4. CASE Goto(p, "ackRemove")
  <2>1. /\ Holds(p) /\ dir /\ TxOf(p) \in Txs
        /\ state = Completed(TxOf(p)) /\ chain[TxOf(p)] = "success"
        BY <1>1, <1>2, AccepterIs
  <2>2. ASSUME NEW r \in ProcessStates, r.command = process[p].command, r.pc = "ackRemove", r.tx = TxOf(p)
        PROVE  ProcessOK(r)'
        BY <1>1, <1>2, <2>1, <2>2 DEF ProcessOK, Paying, Early, Holding, Owning, Paid, Quiet, Demo
  <2>3. "ackRemove" \in Pcs /\ "ackRemove" \notin Owning
        BY DEF Pcs, Holding, Owning
  <2> QED BY <1>1, <1>4, <2>1, <2>2, <2>3, QuietIs, GotoKeeps
<1> QED BY <1>3, <1>4 DEF Accept

\* A success that is acknowledged need not be remembered.
LEMMA AckRemoveKeeps ==
    ASSUME IInv, NEW p \in Processes, AckRemove(p)
    PROVE  IInv'
<1> DEFINE t == TxOf(p)
<1>1. chain' = chain /\ acked' = acked \cup {t} /\ RemoveAll /\ PaymentOver(p) /\ process[p].pc = "ackRemove"
      BY DEF AckRemove, ledger, At
<1>2. process[p].command = "acknowledge" \/ Demo(p)
      BY <1>1, ProcessIs DEF ProcessOK, Paying, Reconciling, Commands, Demo
<1>3. t \in Txs /\ state = Completed(t) /\ chain[t] = "success" /\ (Demo(p) => Holds(p))
  <2>1. CASE Demo(p)
        BY <1>1, <2>1, AccepterIs
  <2>2. CASE process[p].command = "acknowledge"
        BY <1>1, <2>2, ProcessIs DEF ProcessOK, Acknowledging, Paid, TxOf, Demo
  <2> QED BY <1>2, <2>1, <2>2
<1>4. OthersOK(p)
  <2>1. CASE Demo(p)
        BY <1>1, <1>3, <2>1, HolderOthers
  <2>2. CASE process[p].command = "acknowledge"
        BY <1>1, <1>3, <2>2, AcknowledgmentOthers DEF RemoveAll
  <2> QED BY <1>2, <2>1, <2>2
<1>5. JournalType' /\ Remembered'
  <2>1. \A u \in Txs : state \in {Pending(u), Completed(u)} => chain[u] = "success" /\ u \in acked'
        BY <1>1, <1>3, RecordsDiffer
  <2>2. acked' \in SUBSET Txs /\ acked \subseteq acked'
        BY <1>1, <1>3 DEF IInv, TypeInv
  <2> QED BY <1>1, <2>1, <2>2, RemovalIs
<1> QED BY <1>1, <1>4, <1>5, PaymentOverKeeps

\* A reconciliation asks for the transaction of the journal, or clears a claim that
\* names none.
LEMMA ReconcileLoadKeeps ==
    ASSUME IInv, NEW p \in Processes, ReconcileLoad(p)
    PROVE  IInv'
<1>1. process[p].pc = "reconcile" /\ Quiet
      BY Untouched DEF ReconcileLoad, At
<1>2. process[p].command = "reconcile" /\ ~ Pays(p)
      BY <1>1, ProcessIs DEF ProcessOK, Paying, Acknowledging, Early, Holding, Commands, Pays
<1>3. CASE Exit(p)
      BY <1>1, <1>3, QuietExit
<1>4. CASE Kind = "empty" /\ Goto(p, "clear")
  <2>1. state = Nothing
        BY <1>4, KindIs
  <2>2. TxOf(p) = Nothing
        BY <1>1, <1>2, ProcessIs DEF ProcessOK, Reconciling, TxOf
  <2>3. ASSUME NEW r \in ProcessStates, r.command = process[p].command, r.pc = "clear", r.tx = TxOf(p)
        PROVE  ProcessOK(r)'
        BY <1>1, <1>2, <2>1, <2>2, <2>3 DEF ProcessOK, Reconciling, Quiet, Owning, Paid, Holding
  <2>4. "clear" \in Pcs
        BY DEF Pcs, Holding
  <2> QED BY <1>1, <1>2, <1>4, <2>3, <2>4, QuietIs, GotoKeeps
<1>5. CASE Kind = "pending" /\ GotoFor(p, "query", state.tx)
  <2>1. PICK t \in Txs : dir /\ state = Pending(t) /\ GotoFor(p, "query", t)
        BY <1>5, KindIs
  <2>2. ASSUME NEW r \in ProcessStates, r.command = process[p].command, r.pc = "query", r.tx = t
        PROVE  ProcessOK(r)'
        BY <1>1, <1>2, <2>1, <2>2 DEF ProcessOK, Reconciling, StillOf, Quiet, Owning, Paid
  <2>3. "query" \in Pcs
        BY DEF Pcs
  <2> QED BY <1>1, <1>2, <2>1, <2>2, <2>3, QuietIs, GotoForKeeps
<1> QED BY <1>3, <1>4, <1>5 DEF ReconcileLoad

\* And learns what has become of it.
LEMMA QueryKeeps ==
    ASSUME IInv, NEW p \in Processes, Query(p)
    PROVE  IInv'
<1>1. process[p].pc = "query" /\ Quiet
      BY Untouched DEF Query, At
<1>2. ProcessOK(process[p]) /\ process[p].command \in Commands \cup {"none"}
      BY ProcessIs
<1>3. process[p].command = "reconcile" /\ ~ Pays(p) /\ TxOf(p) \in Txs /\ StillOf(TxOf(p))
      BY <1>1, <1>2 DEF ProcessOK, Paying, Acknowledging, Reconciling, Early, Holding, Commands, Pays, TxOf
<1>4. CASE Exit(p)
      BY <1>1, <1>4, QuietExit
<1>5. CASE \/ Succeeded(TxOf(p)) /\ Goto(p, "mark")
           \/ (chain[TxOf(p)] = "failed" \/ Expired(TxOf(p))) /\ Goto(p, "clear")
  <2>1. PICK pc \in {"mark", "clear"} : /\ Goto(p, pc)
                                        /\ pc = "mark" => chain[TxOf(p)] = "success"
                                        /\ pc = "clear" => chain[TxOf(p)] \in {"failed", "expired"}
        BY <1>5 DEF Succeeded, Expired
  <2>2. ASSUME NEW r \in ProcessStates, r.command = process[p].command, r.pc = pc, r.tx = TxOf(p)
        PROVE  ProcessOK(r)'
        BY <1>1, <1>3, <2>1, <2>2 DEF ProcessOK, Reconciling, StillOf, Quiet, Owning, Paid, Holding
  <2>3. pc \in Pcs
        BY DEF Pcs, Holding
  <2> QED BY <1>1, <1>3, <2>1, <2>2, <2>3, QuietIs, GotoKeeps
<1> QED BY <1>4, <1>5 DEF Query

\* Killing a command leaves the journal as it is, but for its temporary file.
LEMMA KillKeeps ==
    ASSUME IInv, NEW p \in Processes, Kill(p)
    PROVE  IInv'
<1>1. Quiet /\ Exit(p)
      BY DEF Kill, ledger, Quiet, IInv, TypeInv
<1> QED BY <1>1, QuietExit

-----------------------------------------------------------------------------
(* The chain                                                               *)

\* What may become of a transaction, and who is sure not to mind.
Fated(t, f) ==
    /\ \/ chain[t] = "new" /\ f = "signed"
       \/ chain[t] = "signed" /\ f = "sent"
       \/ chain[t] = "sent" /\ f \in {"success", "failed"}
       \/ chain[t] \in {"signed", "sent"} /\ f = "expired"
    /\ chain' = [chain EXCEPT ![t] = f]
    /\ UNCHANGED <<dir, state, tmps, acked>>

\* What a command knows of the chain stays so, unless its own transaction is sent.
LEMMA FateUnnoticed ==
    ASSUME IInv, NEW t \in Txs, NEW f, Fated(t, f), NEW r \in ProcessStates, ProcessOK(r),
           f = "sent" /\ r.command \in {"pay", "demo"} /\ r.pc \in Owning => r.tx # t
    PROVE  ProcessOK(r)'
<1>1. /\ \A u \in Txs : chain'[u] = IF u = t THEN f ELSE chain[u]
      /\ dir' = dir /\ state' = state
      BY DEF IInv, TypeInv, Fated
<1>2. \/ chain[t] = "new" /\ f = "signed"
      \/ chain[t] = "signed" /\ f = "sent"
      \/ chain[t] = "sent" /\ f \in {"success", "failed"}
      \/ chain[t] \in {"signed", "sent"} /\ f = "expired"
      BY DEF Fated
<1>3. r.pc \in Paid => chain'[r.tx] = "success"
      BY <1>1, <1>2 DEF ProcessOK
<1>4. r.command \in {"pay", "demo"} => Paying(r)'
  <2>1. r.command \in {"pay", "demo"} => Paying(r) /\ (r.pc \in Owning \cup Holding => r.tx \in Txs)
        BY DEF ProcessOK
  <2> QED BY <1>1, <1>2, <2>1 DEF Paying, Holding
<1>5. r.command = "reconcile" => Reconciling(r)'
      BY <1>1, <1>2 DEF ProcessOK, Reconciling, StillOf
<1>6. r.command = "acknowledge" => Acknowledging(r)'
      BY <1>1 DEF ProcessOK, Acknowledging
<1> QED BY <1>1, <1>3, <1>4, <1>5, <1>6 DEF ProcessOK

\* A transaction that is sent is the one in the journal, so what is unresolved is named.
LEMMA FateKeeps ==
    ASSUME IInv, NEW t \in Txs, NEW f, Fated(t, f), f = "sent" => state = Pending(t)
    PROVE  JournalType' /\ chain' \in [Txs -> Fates] /\ Remembered'
<1>1. /\ \A u \in Txs : chain'[u] = IF u = t THEN f ELSE chain[u]
      /\ dir' = dir /\ state' = state /\ tmps' = tmps /\ acked' = acked
      BY DEF IInv, TypeInv, Fated
<1>2. JournalType' /\ chain' \in [Txs -> Fates]
      BY <1>1 DEF IInv, TypeInv, JournalType, Fated, Fates
<1>3. ASSUME NEW u \in Txs, (chain'[u] = "sent" \/ (chain'[u] = "success" /\ u \notin acked'))
      PROVE  state # Nothing /\ state.tx = u
  <2>1. CASE u # t
        BY <1>1, <1>3, <2>1 DEF IInv, Remembered, Unresolved
  <2>2. CASE u = t
    <3>1. CASE f = "sent"
          BY <2>2, <3>1, RecordsDiffer
    <3>2. CASE f # "sent"
      <4>1. f = "success" /\ chain[t] = "sent"
            BY <1>1, <1>3, <2>2, <3>2 DEF Fated
      <4> QED BY <2>2, <4>1 DEF IInv, Remembered, Unresolved
    <3> QED BY <3>1, <3>2
  <2> QED BY <2>1, <2>2
<1> QED BY <1>1, <1>2, <1>3 DEF Remembered, Unresolved

\* The network decides on what was sent, and time on the rest.
LEMMA LedgerKeeps ==
    ASSUME IInv, NEW t \in Txs, Land(t) \/ Reject(t) \/ Expire(t)
    PROVE  IInv'
<1>1. PICK f \in {"success", "failed", "expired"} : Fated(t, f) /\ process' = process
      BY DEF Land, Reject, Expire, Fated, journal
<1>2. ASSUME NEW p \in Processes
      PROVE  ProcessOK(process[p])'
  <2>1. PICK r \in ProcessStates : process[p] = r /\ process'[p] = r /\ ProcessOK(r)
        BY <1>1, ProcessIs
  <2>2. ProcessOK(r)'
        BY <1>1, <2>1, FateUnnoticed
  <2> QED BY <2>1, <2>2 DEF ProcessOK, Paying, Reconciling, Acknowledging
<1>3. JournalType' /\ chain' \in [Txs -> Fates] /\ Remembered'
      BY <1>1, FateKeeps
<1>4. TypeInv'
      BY <1>1, <1>3 DEF IInv, TypeInv, JournalType
<1>5. Company' /\ OneHolds' /\ Owners'
      BY <1>1 DEF IInv, Company, Alive, OneHolds, Holds, Pays, Demo, At, Owners, TxOf
<1> QED BY <1>2, <1>3, <1>4, <1>5 DEF IInv

\* A payment signs what nobody has signed.
LEMMA SignKeeps ==
    ASSUME IInv, NEW p \in Processes, Sign(p)
    PROVE  IInv'
<1>1. process[p].pc = "sign" /\ ProcessOK(process[p]) /\ TypeInv
      BY ProcessIs DEF Sign, At
<1>2. process[p].command \in {"pay", "demo"}
      BY <1>1, ProcessIs DEF ProcessOK, Reconciling, Acknowledging, Commands
<1>3. /\ dir' = dir /\ state' = state /\ tmps' = tmps /\ acked' = acked
      BY DEF Sign, journal
<1>4. CASE chain' = chain /\ Exit(p)
  <2>1. Quiet
        BY <1>1, <1>3, <1>4 DEF Quiet, TypeInv
  <2> QED BY <1>4, <2>1, QuietExit
<1>5. ASSUME NEW t \in Txs, chain[t] = "new", chain' = [chain EXCEPT ![t] = "signed"], GotoFor(p, "lock", t)
      PROVE  IInv'
  <2>1. Fated(t, "signed")
        BY <1>3, <1>5 DEF Fated
  <2>2. PICK r \in ProcessStates : /\ process' = [process EXCEPT ![p] = r]
                                   /\ r.command = process[p].command /\ r.pc = "lock" /\ r.tx = t
        BY <1>5, GotoForIs DEF Pcs, Early
  <2>3. /\ \A q \in Processes : process'[q] = IF q = p THEN r ELSE process[q]
        /\ chain'[t] = "signed"
        BY <1>1, <1>5, <2>2 DEF TypeInv
  <2>4. ASSUME NEW q \in Processes
        PROVE  ProcessOK(process[q])'
    <3>1. CASE q = p
      <4>1. ProcessOK(r)'
            BY <1>2, <2>2, <2>3 DEF ProcessOK, Paying, Early, Holding, Owning, Paid
      <4> QED BY <3>1, <4>1, <2>3 DEF ProcessOK, Paying, Reconciling, Acknowledging
    <3>2. CASE q # p
      <4>1. PICK s \in ProcessStates : process[q] = s /\ process'[q] = s /\ ProcessOK(s)
            BY <2>3, <3>2, ProcessIs
      <4>2. ProcessOK(s)'
            BY <2>1, <4>1, FateUnnoticed
      <4> QED BY <4>1, <4>2 DEF ProcessOK, Paying, Reconciling, Acknowledging
    <3> QED BY <3>1, <3>2
  <2>5. JournalType' /\ chain' \in [Txs -> Fates] /\ Remembered'
        BY <2>1, FateKeeps
  <2>6. TypeInv'
        BY <1>1, <2>2, <2>5 DEF TypeInv, JournalType
  <2>7. Company' /\ OneHolds'
        BY <1>1, <1>2, <2>2, <2>3 DEF IInv, Company, Alive, OneHolds, Holds, Pays, Demo, At, Holding
  <2>8. Owners'
    <3>1. ASSUME NEW q \in Processes, Pays(q), process[q].pc \in Owning
          PROVE  TxOf(q) # t
          BY <3>1, <1>5, ProcessIs DEF ProcessOK, Paying, Pays, TxOf
    <3> QED BY <2>2, <2>3, <3>1 DEF IInv, Owners, Pays, TxOf
  <2> QED BY <2>4, <2>5, <2>6, <2>7, <2>8 DEF IInv
<1> QED BY <1>4, <1>5 DEF Sign

\* It sends what the journal names, and what nobody else has to send.
LEMMA SendKeeps ==
    ASSUME IInv, NEW p \in Processes, Send(p)
    PROVE  IInv'
<1>1. process[p].pc = "send"
      BY DEF Send, At
<1>2. /\ process[p].command \in {"pay", "demo"} /\ Holds(p) /\ dir
      /\ TxOf(p) \in Txs /\ Paying(process[p]) /\ TxOf(p) = process[p].tx /\ TypeInv
      BY <1>1, ClaimantIs
<1>3. /\ dir' = dir /\ state' = state /\ tmps' = tmps /\ acked' = acked
      /\ state = Pending(TxOf(p))
      BY <1>1, <1>2 DEF Send, journal, Paying
<1>4. CASE chain' = chain /\ Exit(p)
  <2>1. Quiet
        BY <1>2, <1>3, <1>4 DEF Quiet, TypeInv
  <2> QED BY <1>4, <2>1, QuietExit
<1>5. CASE chain[TxOf(p)] = "signed" /\ chain' = [chain EXCEPT ![TxOf(p)] = "sent"] /\ Goto(p, "await")
  <2>1. PICK t \in Txs : /\ t = TxOf(p) /\ chain[t] = "signed" /\ state = Pending(t)
                         /\ chain' = [chain EXCEPT ![t] = "sent"] /\ GotoFor(p, "await", t)
        BY <1>2, <1>3, <1>5 DEF Goto
  <2>2. Fated(t, "sent")
        BY <1>3, <2>1 DEF Fated
  <2>3. PICK r \in ProcessStates : /\ process' = [process EXCEPT ![p] = r]
                                   /\ r.command = process[p].command /\ r.pc = "await" /\ r.tx = t
    <3>1. "await" \in Pcs
          BY DEF Pcs, Holding
    <3>2. GotoFor(p, "await", t)
          BY <2>1
    <3> QED BY <3>1, <3>2, GotoForIs
  <2>4. \A q \in Processes : process'[q] = IF q = p THEN r ELSE process[q]
        BY <1>2, <2>3 DEF TypeInv
  <2>5. ASSUME NEW q \in Processes
        PROVE  ProcessOK(process[q])'
    <3>1. CASE q = p
      <4>1. ProcessOK(r)'
            BY <1>2, <1>3, <2>1, <2>3 DEF ProcessOK, Paying, Early, Holding, Owning, Paid
      <4> QED BY <3>1, <4>1, <2>4 DEF ProcessOK, Paying, Reconciling, Acknowledging
    <3>2. CASE q # p
      <4>1. PICK s \in ProcessStates : process[q] = s /\ process'[q] = s /\ ProcessOK(s)
            BY <2>4, <3>2, ProcessIs
      <4>2. s.command \in {"pay", "demo"} /\ s.pc \in Owning => s.tx # t
        <5>1. Pays(p) /\ process[p].pc \in Owning /\ TxOf(p) = t
              BY <1>1, <1>2, <2>1 DEF Pays, Owning
        <5>2. Owners
              BY DEF IInv
        <5> QED BY <3>2, <4>1, <5>1, <5>2 DEF Owners, Pays, TxOf
      <4>3. ProcessOK(s)'
            BY <2>2, <4>1, <4>2, FateUnnoticed
      <4> QED BY <4>1, <4>3 DEF ProcessOK, Paying, Reconciling, Acknowledging
    <3> QED BY <3>1, <3>2
  <2>6. JournalType' /\ chain' \in [Txs -> Fates] /\ Remembered'
        BY <2>1, <2>2, FateKeeps
  <2>7. TypeInv'
        BY <1>2, <2>3, <2>6 DEF TypeInv, JournalType
  <2>8. Company' /\ Owners'
        BY <1>2, <2>3, <2>4 DEF IInv, Company, Alive, Owners, Pays, TxOf, Owning
  <2>9. OneHolds'
        BY <1>2, <2>3, <2>4 DEF IInv, OneHolds, Holds, Pays, Demo, At
  <2> QED BY <2>5, <2>6, <2>7, <2>8, <2>9 DEF IInv
<1> QED BY <1>4, <1>5 DEF Send

\* The journal is empty at the start, and nobody is there.
LEMMA InitIInv ==
    ASSUME Init
    PROVE  IInv
<1>1. Idle \in ProcessStates /\ Idle.command = "none" /\ Idle.pc = "idle"
      BY DEF Idle, ProcessStates, Pcs
<1>2. \A p \in Processes : process[p] = Idle
      BY DEF Init
<1>3. TypeInv
      BY <1>1 DEF Init, TypeInv, Fates
<1>4. \A p \in Processes : ProcessOK(process[p])
      BY <1>1, <1>2 DEF ProcessOK, Owning, Paid, Holding
<1>5. Company /\ OneHolds /\ Owners
      BY <1>1, <1>2 DEF Company, Alive, OneHolds, Holds, Pays, Owners
<1>6. Remembered
      BY DEF Init, Remembered, Unresolved
<1> QED BY <1>3, <1>4, <1>5, <1>6 DEF IInv

-----------------------------------------------------------------------------
(* The theorems                                                            *)

\* Every step of a command keeps the invariant.
LEMMA RunKeeps ==
    ASSUME IInv, NEW p \in Processes, Run(p)
    PROVE  IInv'
BY PayCheckKeeps, SignKeeps, LockKeeps, ClaimOpenKeeps, ClaimRenameKeeps, ClaimSyncKeeps, UndoKeeps,
   SendKeeps, AwaitKeeps, MarkLoadKeeps, MarkOpenKeeps, MarkRenameKeeps, MarkSyncKeeps, ClearLoadKeeps,
   RemoveKeeps, AckLoadKeeps, AcceptKeeps, AckRemoveKeeps, ReconcileLoadKeeps, QueryKeeps
   DEF Run

\* Every step keeps the invariant, of commands that overlap as they may.
LEMMA NextKeeps ==
    ASSUME Overlap \subseteq Intended, IInv, [Next]_vars
    PROVE  IInv'
<1>1. CASE UNCHANGED vars
  <2>1. /\ process' = process /\ dir' = dir /\ state' = state /\ tmps' = tmps
        /\ chain' = chain /\ acked' = acked
        BY <1>1 DEF vars, journal, ledger
  <2>2. (\A p \in Processes : ProcessOK(process[p]))'
        BY <2>1 DEF IInv, ProcessOK, Paying, Reconciling, Acknowledging, StillOf
  <2>3. TypeInv' /\ Company' /\ OneHolds' /\ Owners' /\ Remembered'
        BY <2>1 DEF IInv, TypeInv, Company, Alive, OneHolds, Holds, Pays, Demo, At, Owners, TxOf,
                    Remembered, Unresolved
  <2> QED BY <2>2, <2>3 DEF IInv
<1>2. CASE Next
      BY <1>2, StartKeeps, RunKeeps, KillKeeps, LedgerKeeps DEF Next
<1> QED BY <1>1, <1>2

\* The invariant is one.
LEMMA Invariance == ASSUME Overlap \subseteq Intended PROVE Spec => []IInv
<1>1. Init => IInv
      BY InitIInv
<1>2. IInv /\ [Next]_vars => IInv'
      BY NextKeeps
<1> QED BY <1>1, <1>2, PTL DEF Spec

\* A set whose elements are all the same has at most one.
LEMMA AtMostOne ==
    ASSUME NEW S, \A x, y \in S : x = y
    PROVE  Cardinality(S) =< 1
<1>1. CASE S = {}
      BY <1>1, FS_EmptySet
<1>2. CASE S # {}
  <2>1. PICK x \in S : TRUE
        BY <1>2
  <2>2. S = {x}
        BY <2>1
  <2> QED BY <2>2, FS_Singleton
<1> QED BY <1>1, <1>2

\* Remembered of settlement-store.ts, for commands that overlap as the lock is made
\* for: the journal names every payment that may have been made and that nobody has
\* acknowledged, wherever a command was killed or a write of the journal failed.
THEOREM PaymentsAreRemembered == ASSUME Overlap \subseteq Intended PROVE Spec => []Remembered
<1>1. IInv => Remembered
      BY DEF IInv
<1> QED BY <1>1, Invariance, PTL

\* OneAtATime of the CLI, for the same commands: no second payment is sent before the
\* first is resolved and acknowledged.
THEOREM PaymentsTakeTurns == ASSUME Overlap \subseteq Intended PROVE Spec => []OneAtATime
<1>1. IInv => OneAtATime
  <2> SUFFICES ASSUME IInv PROVE Cardinality(Unresolved) =< 1
      BY DEF OneAtATime
  <2>1. \A t, u \in Unresolved : t = u
        BY DEF IInv, Remembered
  <2> QED BY <2>1, AtMostOne
<1> QED BY <1>1, Invariance, PTL

-----------------------------------------------------------------------------
(* What liveness rests on                                                  *)

\* A record names a transaction that was signed; a completed one, a success.
RecordIsTrue ==
    state # Nothing => /\ chain[state.tx] # "new"
                       /\ state.kind = "completed" => chain[state.tx] = "success"

\* Whatever journal a command finds, and however it was left, one of the two recovery
\* commands accepts it without forgetting a payment: an empty claim stands for none, a
\* pending record for a transaction the chain knows or will, a completed one for the
\* success that is to be acknowledged; and no other payment awaits resolution.
Resolvable ==
    dir => \/ Kind = "empty" /\ Unresolved = {}
           \/ /\ Kind = "pending" /\ Unresolved \subseteq {state.tx}
              /\ state.tx \in Txs /\ chain[state.tx] # "new"
           \/ /\ Kind = "completed" /\ Unresolved \subseteq {state.tx}
              /\ state.tx \in Txs /\ chain[state.tx] = "success"

\* The chain forgets no signature and no success.
LEMMA FatesAreKept ==
    ASSUME IInv, [Next]_vars, NEW t \in Txs
    PROVE  /\ chain[t] # "new" => chain'[t] # "new"
           /\ chain[t] = "success" => chain'[t] = "success"
<1>1. chain \in [Txs -> Fates]
      BY DEF IInv, TypeInv
<1>2. \/ chain' = chain
      \/ \E u \in Txs, f \in Fates \ {"new"} :
            chain' = [chain EXCEPT ![u] = f] /\ chain[u] # "success"
  <2>1. ASSUME NEW p \in Processes, Sign(p)
        PROVE  \/ chain' = chain
               \/ \E u \in Txs : chain' = [chain EXCEPT ![u] = "signed"] /\ chain[u] = "new"
        BY <2>1 DEF Sign
  <2>2. ASSUME NEW p \in Processes, Send(p)
        PROVE  \/ chain' = chain
               \/ \E u \in Txs : chain' = [chain EXCEPT ![u] = "sent"] /\ chain[u] = "signed"
    <3>1. TxOf(p) \in Txs
          BY <2>2, ClaimantIs DEF Send, At
    <3> QED BY <2>2, <3>1 DEF Send
  <2>3. ASSUME NEW u \in Txs, Land(u) \/ Reject(u) \/ Expire(u)
        PROVE  \E f \in {"success", "failed", "expired"} :
                  chain' = [chain EXCEPT ![u] = f] /\ chain[u] # "success"
        BY <2>3 DEF Land, Reject, Expire
  <2>4. ASSUME NEW p \in Processes, Run(p), ~ Sign(p), ~ Send(p)
        PROVE  chain' = chain
        BY <2>4 DEF Run, PayCheck, Lock, ClaimOpen, ClaimRename, ClaimSync, Undo, Await, MarkLoad,
                    MarkOpen, MarkRename, MarkSync, ClearLoad, Remove, AckLoad, Accept, AckRemove,
                    ReconcileLoad, Query, ledger
  <2>5. ASSUME NEW p \in Processes, (\E c \in Commands : Start(p, c)) \/ Kill(p)
        PROVE  chain' = chain
        BY <2>5 DEF Start, Kill, ledger
  <2>6. CASE UNCHANGED vars
        BY <2>6 DEF vars, ledger
  <2> QED BY <2>1, <2>2, <2>3, <2>4, <2>5, <2>6 DEF Next, Fates
<1> QED BY <1>1, <1>2 DEF Fates

\* A record is written only for the transaction its writer has signed, or seen succeed.
LEMMA RecordStaysTrue ==
    ASSUME IInv, [Next]_vars, RecordIsTrue
    PROVE  RecordIsTrue'
<1> DEFINE Recorded(t) == \/ state' = Pending(t) /\ chain[t] # "new"
                          \/ state' = Completed(t) /\ chain[t] = "success"
<1>1. /\ state \in Records \cup {Nothing} /\ \A p \in Processes : ProcessOK(process[p])
      /\ \A r \in Records : r.tx \in Txs
      BY DEF IInv, TypeInv, Records, Pending, Completed
<1>2. ASSUME NEW p \in Processes, ClaimRename(p) \/ MarkRename(p)
      PROVE  \/ state' = state
             \/ state' = Pending(TxOf(p)) /\ TxOf(p) \in Txs /\ chain[TxOf(p)] # "new"
             \/ state' = Completed(TxOf(p)) /\ TxOf(p) \in Txs /\ chain[TxOf(p)] = "success"
  <2>1. CASE ClaimRename(p)
    <3>1. process[p].pc = "rename"
          BY <2>1 DEF ClaimRename, At
    <3>2. TxOf(p) \in Txs /\ chain[TxOf(p)] # "new"
          BY <3>1, ClaimantIs DEF Paying, Owning
    <3> QED BY <2>1, <3>2 DEF ClaimRename, RenameTmp, Pending
  <2>2. CASE MarkRename(p)
    <3>1. process[p].pc = "markRename"
          BY <2>2 DEF MarkRename, At
    <3>2. TxOf(p) \in Txs /\ chain[TxOf(p)] = "success"
          BY <3>1, MarkerIs
    <3> QED BY <2>2, <3>2 DEF MarkRename, RenameTmp, Completed
  <2> QED BY <1>2, <2>1, <2>2
<1>3. ASSUME NEW p \in Processes, Run(p), ~ ClaimRename(p), ~ MarkRename(p)
      PROVE  state' = state \/ state' = Nothing
      BY <1>3 DEF Run, PayCheck, Sign, Lock, ClaimOpen, ClaimSync, Undo, Send, Await, MarkLoad,
                  MarkOpen, MarkSync, ClearLoad, Remove, AckLoad, Accept, AckRemove,
                  ReconcileLoad, Query, journal, OpenTmp, SyncState, RemoveAll
<1>4. ASSUME NEW p \in Processes, (\E c \in Commands : Start(p, c)) \/ Kill(p)
      PROVE  state' = state
      BY <1>4 DEF Start, Kill, journal
<1>5. ASSUME NEW t \in Txs, Land(t) \/ Reject(t) \/ Expire(t)
      PROVE  state' = state
      BY <1>5 DEF Land, Reject, Expire, journal
<1>6. UNCHANGED vars => state' = state
      BY DEF vars, journal
<1>7. \/ state' = state \/ state' = Nothing
      \/ \E t \in Txs : Recorded(t)
  <2>1. ASSUME NEW p \in Processes, Run(p)
        PROVE  \/ state' = state \/ state' = Nothing
               \/ \E t \in Txs : Recorded(t)
    <3>1. CASE ClaimRename(p) \/ MarkRename(p)
          BY <1>2, <3>1
    <3>2. CASE ~ ClaimRename(p) /\ ~ MarkRename(p)
          BY <1>3, <2>1, <3>2
    <3> QED BY <3>1, <3>2
  <2>2. \/ UNCHANGED vars
        \/ \E p \in Processes : (\E c \in Commands : Start(p, c)) \/ Run(p) \/ Kill(p)
        \/ \E t \in Txs : Land(t) \/ Reject(t) \/ Expire(t)
        BY DEF Next
  <2> QED BY <1>4, <1>5, <1>6, <2>1, <2>2
<1>8. \A t \in Txs : /\ chain[t] # "new" => chain'[t] # "new"
                     /\ chain[t] = "success" => chain'[t] = "success"
      BY FatesAreKept
<1>9. CASE state' = state \/ state' = Nothing
      BY <1>1, <1>8, <1>9 DEF RecordIsTrue
<1>10. CASE \E t \in Txs : Recorded(t)
  <2>1. PICK t \in Txs : Recorded(t)
        BY <1>10
  <2>2. state'.tx = t /\ (state'.kind = "completed" => chain[t] = "success") /\ chain[t] # "new"
        BY <2>1 DEF Pending, Completed
  <2> QED BY <1>8, <2>2 DEF RecordIsTrue
<1> QED BY <1>7, <1>9, <1>10

\* "reconcile" and "acknowledge" between them resolve every lock a dead or failed
\* command can have left (settlement-store.ts), the safety half of LockIsFreed: what
\* that adds is that somebody calls them and not always in vain.
THEOREM LocksAreResolvable == ASSUME Overlap \subseteq Intended PROVE Spec => []Resolvable
<1>1. Init => RecordIsTrue
      BY DEF Init, RecordIsTrue
<1>2. ASSUME IInv, RecordIsTrue
      PROVE  Resolvable
  <2>1. /\ state = Nothing => Unresolved = {}
        /\ Unresolved \subseteq {state.tx}
        BY <1>2 DEF IInv, Remembered, Unresolved
  <2>2. dir => Kind \in {"empty", "pending", "completed"}
    <3>1. state # Nothing => state \in Records
          BY <1>2, KindIs
    <3> QED BY <3>1 DEF Kind, Records, Pending, Completed
  <2>3. state # Nothing => state.tx \in Txs
        BY <1>2, KindIs DEF Records, Pending, Completed
  <2>4. /\ Kind = "empty" => state = Nothing
        /\ Kind = "pending" => dir /\ state # Nothing
        /\ Kind = "completed" => dir /\ state # Nothing /\ state.kind = "completed"
        BY <1>2, KindIs DEF Kind
  <2> QED BY <1>2, <2>1, <2>2, <2>3, <2>4 DEF Resolvable, RecordIsTrue
<1> QED BY <1>1, <1>2, RecordStaysTrue, Invariance, PTL DEF Spec
=============================================================================
