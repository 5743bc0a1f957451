------------------------- MODULE PaymentAgentProofs -------------------------
(***************************************************************************)
(* What the SDK's agents promise, for every number of agents, of calls     *)
(* pending together and of transactions.                                   *)
(*                                                                         *)
(* The invariant is of two parts.  CallOK and Owners say what a call knows *)
(* at each of its awaits of the transaction it is about, and that no two   *)
(* calls may send, save or forget the same one: they hold however calls    *)
(* overlap.  Strict is for applications that await a call on an agent      *)
(* before the next one on it: a call that pays holds the claim from before *)
(* it looks for a pending receipt, and finds nothing unresolved there      *)
(* until it sends.                                                         *)
(***************************************************************************)
EXTENDS PaymentAgent, FiniteSetTheorems, TLAPS

-----------------------------------------------------------------------------
(* The inductive invariant                                                 *)

Pcs == {"idle", "fetch", "fetchHydrate", "request", "pay", "payHydrate", "read", "sign",
        "save", "send", "await", "resave", "forget", "deliver", "acknowledge",
        "find", "findHydrate", "query", "clear"}
Settlements == [tx : Txs \cup {Nothing}, receipt : BOOLEAN]
CallStates  == [agent : Agents \cup {Nothing}, pc : Pcs, on : Settlements, n : Nat]
Fates       == {"new", "signed", "sent", "success", "failed", "expired"}

TypeInv ==
    /\ claim \in Agents \cup {Nothing}
    /\ pending \in [Agents -> Settlements]
    /\ call \in [Calls -> CallStates]
    /\ store \in SUBSET Txs /\ delivered \in SUBSET Txs /\ committed \in SUBSET Txs
    /\ chain \in [Txs -> Fates] /\ seqOf \in [Txs -> Nat] /\ seq \in Nat
    /\ overlap \in BOOLEAN

\* The points of a payment, from its transaction being signed.
Owning  == {"save", "send", "await", "resave", "forget"}
\* Those at which the claim is held.
Holding == {"pay", "payHydrate", "read", "sign", "save", "send", "await"}
\* Those at which nothing is unresolved.
Clean(q) == q.pc \in {"read", "sign", "save", "send"} \/ (q.pc = "payHydrate" /\ q.on = None)

\* What is known of the transaction a call is about.
CallOK(q) ==
    /\ q.pc = "idle" <=> q.agent = Nothing
    /\ q.pc \in Owning \cup {"deliver", "acknowledge", "clear"} => q.on.tx \in Txs
    /\ q.pc \in Owning => chain[q.on.tx] # "new"
    /\ q.pc \in {"save", "send"} => chain[q.on.tx] \in {"signed", "expired"}
    /\ q.pc = "send" => chain[q.on.tx] = "expired" \/ q.on.tx \in store
    /\ q.pc = "clear" => chain[q.on.tx] \in {"failed", "expired"}
    /\ q.pc = "acknowledge" => q.on.tx \in committed

\* A transaction is one call's.
Owners == \A c, d \in Calls :
    call[c].pc \in Owning /\ call[d].pc \in Owning /\ TxOf(c) = TxOf(d) => c = d

\* The application holds what was delivered for.
Served == \A t \in delivered \cup committed : chain[t] = "success"

\* What is known of a call of an agent that has no other.
StrictOK(q) ==
    /\ q.pc \in Holding => claim = q.agent
    /\ q.pc \in {"save", "send", "await"} => pending[q.agent].tx = q.on.tx
    /\ Clean(q) => Unresolved = {}
    /\ q.pc = "forget" => chain[q.on.tx] \in {"signed", "failed", "expired"}
    /\ q.pc # "resave"

Strict ==
    /\ \A c, d \in Calls : AgentOf(c) = AgentOf(d) /\ AgentOf(c) # Nothing => c = d
    /\ \A c \in Calls : StrictOK(call[c])
    /\ Unresolved \subseteq store
    /\ \A t, u \in Unresolved : t = u

IInv == /\ TypeInv
        /\ \A c \in Calls : CallOK(call[c])
        /\ Owners /\ Served
        /\ overlap \/ Strict

-----------------------------------------------------------------------------
(* The steps of one call                                                   *)

\* A step of one call that sends and signs nothing keeps the invariant, if it touches
\* the claim and the settlement of its own agent only, clears no receipt but of what is
\* over, acknowledged or its own, and knows what its next point supposes.
LEMMA CallKeeps ==
    ASSUME IInv, NEW c \in Calls, NEW q \in CallStates, NEW a \in Agents,
           call' = [call EXCEPT ![c] = q],
           AgentOf(c) = a \/ (AgentOf(c) = Nothing /\ (overlap \/ \A d \in Calls : AgentOf(d) # a)),
           q.agent \in {a, Nothing},
           claim' \in Agents \cup {Nothing}, pending' \in [Agents -> Settlements],
           \A b \in Agents \ {a} : (claim = b => claim' = b) /\ pending'[b] = pending[b],
           store' \in SUBSET Txs,
           \A t \in store \ store' :
              \/ chain[t] \in {"failed", "expired"} \/ t \in committed
              \/ call[c].pc \in Owning /\ TxOf(c) = t /\ (overlap \/ t \notin Unresolved),
           UNCHANGED <<ledger, overlap>>,
           delivered' \in SUBSET Txs, committed' \in SUBSET Txs, committed \subseteq committed',
           Served',
           q.pc \in Owning => call[c].pc \in Owning /\ q.on.tx = TxOf(c),
           CallOK(q)', overlap \/ StrictOK(q)'
    PROVE  IInv'
<1>1. TypeInv /\ TypeInv' /\ UNCHANGED <<chain, seqOf, seq, overlap>>
  BY DEF IInv, TypeInv, ledger
<1>2. call'[c] = q /\ \A d \in Calls : d # c => call'[d] = call[d]
  BY <1>1 DEF TypeInv
<1>3. ASSUME NEW d \in Calls, d # c, call[d].pc \in Owning, call[c].pc \in Owning
      PROVE  TxOf(d) # TxOf(c)
  BY <1>3 DEF IInv, Owners
<1>4. ASSUME NEW d \in Calls PROVE CallOK(call[d])'
  <2>1. CASE d = c
    BY <1>2, <2>1
  <2>2. CASE d # c
    <3>1. CallOK(call[d]) /\ call'[d] = call[d] /\ Served
      BY <1>2, <2>2 DEF IInv
    <3>2. call[d].pc = "send" => chain[TxOf(d)] = "expired" \/ TxOf(d) \in store'
      <4> SUFFICES ASSUME call[d].pc = "send", chain[TxOf(d)] # "expired", TxOf(d) \notin store'
                   PROVE  FALSE
        OBVIOUS
      <4>1. TxOf(d) \in store /\ chain[TxOf(d)] = "signed" /\ TxOf(d) \notin committed
        BY <3>1 DEF CallOK, Served, TxOf
      <4>2. call[c].pc \in Owning /\ TxOf(c) = TxOf(d)
        BY <4>1
      <4> QED  BY <1>3, <2>2, <4>2 DEF Owning
    <3> QED  BY <1>1, <3>1, <3>2 DEF CallOK, TxOf
  <2> QED  BY <2>1, <2>2
<1>5. Owners'
  <2> SUFFICES ASSUME NEW d \in Calls, NEW e \in Calls, d # e,
                      call'[d].pc \in Owning, call'[e].pc \in Owning,
                      call'[d].on.tx = call'[e].on.tx
               PROVE  FALSE
    BY DEF Owners, TxOf
  <2>1. \A f \in Calls : call'[f].pc \in Owning =>
           call[f].pc \in Owning /\ call'[f].on.tx = call[f].on.tx
    BY <1>2 DEF TxOf
  <2> QED  BY <2>1 DEF IInv, Owners, TxOf
<1>6. ASSUME ~ overlap PROVE Strict'
  <2>1. Strict /\ Served /\ StrictOK(q)'
    BY <1>6 DEF IInv
  <2>2. Unresolved' \subseteq Unresolved
    BY <1>1 DEF Unresolved
  <2>3. ASSUME NEW d \in Calls, d # c, AgentOf(d) # Nothing PROVE AgentOf(d) \in Agents \ {a}
    BY <1>1, <1>6, <2>1, <2>3 DEF Strict, TypeInv, CallStates, AgentOf
  <2>4. \A d, e \in Calls : AgentOf(d)' = AgentOf(e)' /\ AgentOf(d)' # Nothing => d = e
    <3>1. \A d \in Calls : d # c => AgentOf(d)' = AgentOf(d)
      BY <1>2 DEF AgentOf
    <3>2. AgentOf(c)' \in {a, Nothing}
      BY <1>2 DEF AgentOf
    <3> QED  BY <2>1, <2>3, <3>1, <3>2 DEF Strict
  <2>5. ASSUME NEW d \in Calls PROVE StrictOK(call[d])'
    <3>1. CASE d = c
      BY <1>2, <2>1, <3>1
    <3>2. CASE d # c
      <4>1. StrictOK(call[d]) /\ call'[d] = call[d] /\ CallOK(call[d])
        BY <1>2, <2>1, <3>2 DEF Strict, IInv
      <4>2. call[d].pc = "idle" \/ (call[d].agent \in Agents \ {a})
        BY <2>3, <3>2, <4>1 DEF CallOK, AgentOf
      <4>3. call[d].pc \in Holding => claim' = call[d].agent
        BY <4>1, <4>2 DEF StrictOK, Holding
      <4>4. call[d].pc \in {"save", "send", "await"} => pending'[call[d].agent].tx = call[d].on.tx
        BY <4>1, <4>2 DEF StrictOK
      <4>5. Clean(call[d]) => Unresolved' = {}
        BY <2>2, <4>1 DEF StrictOK
      <4> QED  BY <1>1, <4>1, <4>3, <4>4, <4>5 DEF StrictOK, Clean
    <3> QED  BY <3>1, <3>2
  <2>6. Unresolved' \subseteq store'
    <3> SUFFICES ASSUME NEW t \in Unresolved', t \notin store' PROVE FALSE
      OBVIOUS
    <3>1. t \in Unresolved /\ t \in store /\ t \in Txs
      BY <2>1, <2>2 DEF Strict, Unresolved
    <3>2. t \in committed
      BY <1>6, <3>1 DEF Unresolved
    <3>3. chain[t] = "success" /\ t \in committed'
      BY <2>1, <3>2 DEF Served
    <3> QED  BY <1>1, <3>3 DEF Unresolved
  <2>7. \A t, u \in Unresolved' : t = u
    BY <2>1, <2>2 DEF Strict
  <2> QED  BY <2>4, <2>5, <2>6, <2>7 DEF Strict
<1> QED  BY <1>1, <1>4, <1>5, <1>6 DEF IInv

\* What a step does to the claim and the settlements is its own agent's business.
OwnMemory(a) ==
    /\ claim' \in Agents \cup {Nothing} /\ pending' \in [Agents -> Settlements]
    /\ \A b \in Agents \ {a} : (claim = b => claim' = b) /\ pending'[b] = pending[b]

\* An agent claims what is free, releases what it has, and sets its own settlement.
LEMMA MemoryIsOwn ==
    ASSUME TypeInv, NEW a \in Agents,
           claim' = claim \/ Release(a) \/ (CanClaim(a) /\ claim' = a),
           pending' = pending \/ \E s \in Settlements : SetPending(a, s)
    PROVE  OwnMemory(a)
<1>1. claim' \in Agents \cup {Nothing} /\ \A b \in Agents \ {a} : claim = b => claim' = b
  BY AgentAssumption DEF TypeInv, Release, CanClaim, ClaimFree
<1>2. pending' \in [Agents -> Settlements] /\ \A b \in Agents \ {a} : pending'[b] = pending[b]
  <2>1. CASE pending' = pending
    BY <2>1 DEF TypeInv
  <2>2. ASSUME NEW s \in Settlements, SetPending(a, s)
        PROVE  pending' \in [Agents -> Settlements] /\ \A b \in Agents \ {a} : pending'[b] = pending[b]
    BY <2>2 DEF TypeInv, SetPending
  <2> QED  BY <2>1, <2>2
<1> QED  BY <1>1, <1>2 DEF OwnMemory

\* The settlements there are.
LEMMA SettlementsAre ==
    /\ None \in Settlements
    /\ \A t \in Txs : /\ Signed(t) \in Settlements /\ Receipt(t) \in Settlements
                      /\ Signed(t) # None /\ Receipt(t) # None
                      /\ Signed(t).tx = t /\ Receipt(t).tx = t
                      /\ Signed(t).receipt = FALSE /\ Receipt(t).receipt = TRUE
    /\ None.tx = Nothing
BY AgentAssumption DEF Settlements, None, Signed, Receipt

\* The ways in which a call goes on.
LEMMA EndGives ==
    ASSUME NEW c \in Calls, End(c)
    PROVE  Idle \in CallStates /\ call' = [call EXCEPT ![c] = Idle]
           /\ Idle.pc = "idle" /\ Idle.agent = Nothing
BY SettlementsAre DEF End, Idle, CallStates, Pcs

\* It goes on about the same settlement,
LEMMA GotoGives ==
    ASSUME TypeInv, NEW c \in Calls, NEW pc \in Pcs, Goto(c, pc)
    PROVE  \E q \in CallStates : /\ call' = [call EXCEPT ![c] = q]
                                 /\ q.agent = AgentOf(c) /\ q.pc = pc /\ q.on = call[c].on
<1> DEFINE q == [call[c] EXCEPT !.pc = pc]
<1>1. q \in CallStates /\ q.agent = AgentOf(c) /\ q.pc = pc /\ q.on = call[c].on
  BY DEF TypeInv, CallStates, AgentOf
<1>2. call' = [call EXCEPT ![c] = q]
  BY DEF Goto, TypeInv
<1> QED  BY <1>1, <1>2

\* about another,
LEMMA GotoOnGives ==
    ASSUME TypeInv, NEW c \in Calls, NEW pc \in Pcs, NEW s \in Settlements, GotoOn(c, pc, s)
    PROVE  \E q \in CallStates : /\ call' = [call EXCEPT ![c] = q]
                                 /\ q.agent = AgentOf(c) /\ q.pc = pc /\ q.on = s
<1> DEFINE q == [call[c] EXCEPT !.pc = pc, !.on = s]
<1>1. q \in CallStates /\ q.agent = AgentOf(c) /\ q.pc = pc /\ q.on = s
  BY DEF TypeInv, CallStates, AgentOf
<1>2. call' = [call EXCEPT ![c] = q]
  BY DEF GotoOn, TypeInv
<1> QED  BY <1>1, <1>2

\* or begins.
LEMMA BeginGives ==
    ASSUME NEW c \in Calls, NEW a \in Agents, NEW pc \in Pcs, NEW s \in Settlements, Begin(c, a, pc, s)
    PROVE  \E q \in CallStates : /\ call' = [call EXCEPT ![c] = q]
                                 /\ q.agent = a /\ q.pc = pc /\ q.on = s
<1> DEFINE q == [agent |-> a, pc |-> pc, on |-> s, n |-> 0]
<1>1. q \in CallStates /\ q.agent = a /\ q.pc = pc /\ q.on = s
  BY DEF CallStates
<1>2. call' = [call EXCEPT ![c] = q]
  BY DEF Begin
<1> QED  BY <1>1, <1>2

\* Whose call it is.
OwnCall(c, a) ==
    AgentOf(c) = a \/ (AgentOf(c) = Nothing /\ (overlap \/ \A d \in Calls : AgentOf(d) # a))

\* A step that changes neither store, chain nor application.
LEMMA QuietKeeps ==
    ASSUME IInv, NEW c \in Calls, NEW q \in CallStates, NEW a \in Agents,
           call' = [call EXCEPT ![c] = q], OwnCall(c, a), q.agent \in {a, Nothing}, OwnMemory(a),
           UNCHANGED <<store, ledger, app, overlap>>,
           q.pc \in Owning => call[c].pc \in Owning /\ q.on.tx = TxOf(c),
           CallOK(q)', overlap \/ StrictOK(q)'
    PROVE  IInv'
<1>1. /\ claim' \in Agents \cup {Nothing} /\ pending' \in [Agents -> Settlements]
      /\ \A b \in Agents \ {a} : (claim = b => claim' = b) /\ pending'[b] = pending[b]
  BY DEF OwnMemory
<1>2. AgentOf(c) = a \/ (AgentOf(c) = Nothing /\ (overlap \/ \A d \in Calls : AgentOf(d) # a))
  BY DEF OwnCall
<1>3. /\ UNCHANGED <<ledger, overlap>> /\ store' = store
      /\ delivered' = delivered /\ committed' = committed
      /\ store \in SUBSET Txs /\ delivered \in SUBSET Txs /\ committed \in SUBSET Txs
  BY DEF IInv, TypeInv, app
<1>4. Served'
  BY DEF IInv, Served, app, ledger
<1>5. store' \in SUBSET Txs /\ delivered' \in SUBSET Txs /\ committed' \in SUBSET Txs
      /\ committed \subseteq committed' /\ store \ store' = {}
  BY <1>3
<1>6. \A t \in store \ store' :
              \/ chain[t] \in {"failed", "expired"} \/ t \in committed
              \/ call[c].pc \in Owning /\ TxOf(c) = t /\ (overlap \/ t \notin Unresolved)
  BY <1>5
<1> QED  BY <1>1, <1>2, <1>3, <1>4, <1>5, <1>6, CallKeeps

\* Nothing is known at these points.
Simple == {"idle", "fetch", "fetchHydrate", "request", "find", "findHydrate", "query"}

\* Steps to such a point, or to the end of the call, keep the invariant.
LEMMA SimpleKeeps ==
    ASSUME IInv, NEW c \in Calls, NEW q \in CallStates, NEW a \in Agents,
           call' = [call EXCEPT ![c] = q], OwnCall(c, a), OwnMemory(a),
           UNCHANGED <<store, ledger, app, overlap>>,
           q.pc \in Simple, IF q.pc = "idle" THEN q.agent = Nothing ELSE q.agent = a
    PROVE  IInv'
<1>1. q.agent \in {a, Nothing} /\ q.pc \notin Owning /\ CallOK(q)' /\ StrictOK(q)'
  BY AgentAssumption DEF Simple, Owning, Holding, Clean, CallOK, StrictOK
<1> QED  BY <1>1, QuietKeeps

\* A call that is made, or goes on, has its agent to itself.
LEMMA ReadyIsOwn ==
    ASSUME IInv, NEW c \in Calls
    PROVE  /\ \A a \in Agents : Ready(c, a) => OwnCall(c, a)
           /\ call[c].pc # "idle" => AgentOf(c) \in Agents /\ OwnCall(c, AgentOf(c))
<1>1. CallOK(call[c]) /\ AgentOf(c) \in Agents \cup {Nothing}
  BY DEF IInv, TypeInv, CallStates, AgentOf
<1> QED  BY <1>1 DEF CallOK, Ready, At, OwnCall, AgentOf

\* A call that ends, whatever it does to the claim and settlement of its agent.
LEMMA EndKeeps ==
    ASSUME IInv, NEW c \in Calls, call[c].pc # "idle", End(c),
           \/ claim' = claim \/ Release(AgentOf(c))
           \/ CanClaim(AgentOf(c)) /\ claim' = AgentOf(c),
           pending' = pending \/ \E s \in Settlements : SetPending(AgentOf(c), s),
           UNCHANGED <<store, ledger, app, overlap>>
    PROVE  IInv'
<1>1. PICK a \in Agents : a = AgentOf(c) /\ OwnCall(c, a)
  BY ReadyIsOwn
<1>2. OwnMemory(a)
  BY <1>1, MemoryIsOwn DEF IInv
<1>3. Idle \in CallStates /\ call' = [call EXCEPT ![c] = Idle] /\ Idle.pc = "idle" /\ Idle.agent = Nothing
  BY EndGives
<1> HIDE DEF IInv
<1> QED  BY <1>1, <1>2, <1>3, SimpleKeeps DEF Simple

\* A call that goes on to a point at which nothing is known.
LEMMA GoesOnKeeps ==
    ASSUME IInv, NEW c \in Calls, call[c].pc # "idle", NEW pc \in Simple \ {"idle"},
           Goto(c, pc) \/ \E s \in Settlements : GotoOn(c, pc, s),
           \/ claim' = claim \/ Release(AgentOf(c))
           \/ CanClaim(AgentOf(c)) /\ claim' = AgentOf(c),
           pending' = pending \/ \E s \in Settlements : SetPending(AgentOf(c), s),
           UNCHANGED <<store, ledger, app, overlap>>
    PROVE  IInv'
<1>1. PICK a \in Agents : a = AgentOf(c) /\ OwnCall(c, a)
  BY ReadyIsOwn
<1>2. OwnMemory(a)
  BY <1>1, MemoryIsOwn DEF IInv
<1>3. pc \in Pcs /\ TypeInv
  BY DEF Pcs, Simple, IInv
<1>4. PICK q \in CallStates : call' = [call EXCEPT ![c] = q] /\ q.agent = a /\ q.pc = pc
  BY <1>1, <1>3, GotoGives, GotoOnGives
<1> QED  BY <1>1, <1>2, <1>4, SimpleKeeps

\* What a list of the receipts gives is a settlement.
LEMMA ListGives ==
    ASSUME IInv, NEW c \in Calls, NEW next, ListPending(c, next)
    PROVE  \/ store = {} /\ GotoOn(c, next, None)
           \/ \E t \in Txs : Receipt(t) \in Settlements /\ Receipt(t) # None /\ GotoOn(c, next, Receipt(t))
BY SettlementsAre DEF ListPending, IInv, TypeInv

\* Hydrate sets the settlement of the call's agent, under its claim.
LEMMA HydrateGives ==
    ASSUME IInv, NEW c \in Calls, Hydrate(c)
    PROVE  /\ CanClaim(AgentOf(c)) /\ claim' = AgentOf(c)
           /\ \E s \in Settlements : SetPending(AgentOf(c), s)
BY DEF Hydrate, IInv, TypeInv, CallStates

\* fetch, up to pay, knows nothing.
LEMMA FetchKeeps ==
    ASSUME IInv, UNCHANGED overlap, NEW c \in Calls,
           (\E a \in Agents : Fetch(c, a)) \/ FetchList(c) \/ FetchHydrate(c)
    PROVE  IInv'
<1>1. ASSUME NEW a \in Agents, Fetch(c, a) PROVE IInv'
  <2>1. Begin(c, a, "fetch", None) /\ OwnCall(c, a) /\ UNCHANGED <<memory, store, ledger, app>>
    BY <1>1, ReadyIsOwn DEF Fetch
  <2>2. PICK q \in CallStates : call' = [call EXCEPT ![c] = q] /\ q.agent = a /\ q.pc = "fetch"
    BY <2>1, BeginGives, SettlementsAre DEF Pcs
  <2>3. OwnMemory(a)
    BY <2>1, MemoryIsOwn DEF memory, IInv
  <2> QED  BY <2>1, <2>2, <2>3, SimpleKeeps DEF Simple
<1>2. CASE FetchList(c)
  <2>1. call[c].pc # "idle" /\ claim' = claim /\ pending' = pending /\ UNCHANGED <<store, ledger, app, overlap>>
    BY <1>2 DEF FetchList, At, memory
  <2>2. CASE End(c)
    BY <2>1, <2>2, EndKeeps
  <2>3. CASE ListPending(c, "fetchHydrate")
    <3>1. \E s \in Settlements : GotoOn(c, "fetchHydrate", s)
      BY <2>3, ListGives, SettlementsAre
    <3> QED  BY <2>1, <3>1, GoesOnKeeps DEF Simple
  <2> QED  BY <1>2, <2>2, <2>3 DEF FetchList
<1>3. CASE FetchHydrate(c)
  <2>1. call[c].pc # "idle" /\ UNCHANGED <<store, ledger, app, overlap>>
    BY <1>3 DEF FetchHydrate, At
  <2>2. CASE Hydrate(c) /\ End(c)
    BY <2>1, <2>2, HydrateGives, EndKeeps
  <2>3. CASE End(c) /\ UNCHANGED memory
    BY <2>1, <2>3, EndKeeps DEF memory
  <2>4. CASE Goto(c, "request") /\ UNCHANGED memory
    BY <2>1, <2>4, GoesOnKeeps DEF memory, Simple
  <2> QED  BY <1>3, <2>2, <2>3, <2>4 DEF FetchHydrate
<1> QED  BY <1>1, <1>2, <1>3

\* reconcilePendingSettlement, up to its query, knows nothing.
LEMMA FindsKeeps ==
    ASSUME IInv, UNCHANGED overlap, NEW c \in Calls,
           \/ \E a \in Agents : Reconcile(c, a) \/ \E t \in Txs : Restore(c, a, t)
           \/ Find(c) \/ FindHydrate(c)
    PROVE  IInv'
<1>1. ASSUME NEW a \in Agents, Reconcile(c, a) PROVE IInv'
  <2>1. OwnCall(c, a) /\ CanClaim(a) /\ claim' = a /\ UNCHANGED <<pending, store, ledger, app>>
    BY <1>1, ReadyIsOwn DEF Reconcile
  <2>2. PICK q \in CallStates : call' = [call EXCEPT ![c] = q] /\ q.agent = a /\ q.pc \in {"find", "query"}
    <3>1. pending[a] \in Settlements
      BY DEF IInv, TypeInv
    <3> QED  BY <1>1, <3>1, BeginGives, SettlementsAre DEF Reconcile, Pcs
  <2>3. OwnMemory(a)
    BY <2>1, MemoryIsOwn DEF IInv
  <2> QED  BY <2>1, <2>2, <2>3, SimpleKeeps DEF Simple
<1>2. ASSUME NEW a \in Agents, NEW t \in Txs, Restore(c, a, t) PROVE IInv'
  <2>1. OwnCall(c, a) /\ UNCHANGED <<store, ledger, app, overlap>> /\ At(c, "idle")
    BY <1>2, ReadyIsOwn DEF Restore, Ready
  <2>2. Receipt(t) \in Settlements /\ SetPending(a, Receipt(t))
    BY <1>2, SettlementsAre DEF Restore
  <2>3. OwnMemory(a)
    BY <1>2, <2>2, MemoryIsOwn DEF IInv, Restore
  <2>4. CASE Begin(c, a, "query", Receipt(t))
    <3>1. PICK q \in CallStates : call' = [call EXCEPT ![c] = q] /\ q.agent = a /\ q.pc = "query"
      BY <2>2, <2>4, BeginGives DEF Pcs
    <3> QED  BY <2>1, <2>3, <3>1, SimpleKeeps DEF Simple
  <2>5. CASE UNCHANGED call
    <3>1. PICK q \in CallStates : q = call[c]
      BY DEF IInv, TypeInv
    <3>2. call' = [call EXCEPT ![c] = q]
      BY <2>5, <3>1 DEF IInv, TypeInv
    <3>3. CallOK(call[c])
      BY DEF IInv
    <3>4. q.pc = "idle" /\ q.agent = Nothing
      BY <2>1, <3>1, <3>3 DEF CallOK, At
    <3> QED  BY <2>1, <2>3, <3>2, <3>4, SimpleKeeps DEF Simple
  <2> QED  BY <1>2, <2>4, <2>5 DEF Restore
<1>3. CASE Find(c)
  <2>1. call[c].pc # "idle" /\ UNCHANGED <<store, ledger, app, overlap>>
    BY <1>3 DEF Find, At
  <2>2. CASE End(c) /\ UNCHANGED memory
    BY <2>1, <2>2, EndKeeps DEF memory
  <2>3. CASE Throw(c)
    BY <2>1, <2>3, EndKeeps DEF Throw
  <2>4. CASE ListPending(c, "findHydrate") /\ UNCHANGED memory
    <3>1. \E s \in Settlements : GotoOn(c, "findHydrate", s)
      BY <2>4, ListGives, SettlementsAre
    <3> QED  BY <2>1, <2>4, <3>1, GoesOnKeeps DEF Simple, memory
  <2> QED  BY <1>3, <2>2, <2>3, <2>4 DEF Find
<1>4. CASE FindHydrate(c)
  <2>1. call[c].pc # "idle" /\ UNCHANGED <<store, ledger, app, overlap>>
    BY <1>4 DEF FindHydrate, At
  <2>2. CASE Hydrate(c) /\ Goto(c, "query")
    BY <2>1, <2>2, HydrateGives, GoesOnKeeps DEF Simple
  <2>3. CASE End(c) /\ UNCHANGED memory
    BY <2>1, <2>3, EndKeeps DEF memory
  <2>4. CASE GotoOn(c, "query", pending[AgentOf(c)]) /\ UNCHANGED memory
    <3>1. pending[AgentOf(c)] \in Settlements
      BY <2>1, ReadyIsOwn DEF IInv, TypeInv
    <3> QED  BY <2>1, <2>4, <3>1, GoesOnKeeps DEF Simple, memory
  <2>5. CASE Throw(c)
    BY <2>1, <2>5, EndKeeps DEF Throw
  <2> QED  BY <1>4, <2>2, <2>3, <2>4, <2>5 DEF FindHydrate
<1> QED  BY <1>1, <1>2, <1>3, <1>4
-----------------------------------------------------------------------------
(* pay                                                                     *)

\* What is known of a call that runs.
LEMMA CallHas ==
    ASSUME IInv, NEW c \in Calls, call[c].pc # "idle"
    PROVE  /\ AgentOf(c) \in Agents /\ OwnCall(c, AgentOf(c))
           /\ CallOK(call[c]) /\ (overlap \/ (Strict /\ StrictOK(call[c])))
BY ReadyIsOwn DEF IInv, Strict

\* The claim is taken, and the receipts and the mandate looked at, before anything is
\* signed.
LEMMA PaysKeeps ==
    ASSUME IInv, UNCHANGED overlap, NEW c \in Calls,
           Request(c) \/ PayList(c) \/ PayHydrate(c) \/ ReadSeq(c)
    PROVE  IInv'
<1>1. call[c].pc # "idle" /\ UNCHANGED <<store, ledger, app, overlap>>
  BY DEF Request, PayList, PayHydrate, ReadSeq, At
<1>2. PICK a \in Agents : a = AgentOf(c)
  BY <1>1, CallHas
<1>3. OwnCall(c, a) /\ CallOK(call[c]) /\ (overlap \/ (Strict /\ StrictOK(call[c])))
  BY <1>1, <1>2, CallHas
<1>4. TypeInv
  BY DEF IInv
<1>5. CASE Request(c)
  <2>1. CASE End(c) /\ UNCHANGED memory
    BY <1>1, <2>1, EndKeeps DEF memory
  <2>2. CASE ClaimFree(a) /\ claim' = a /\ UNCHANGED pending /\ End(c)
    BY <1>1, <1>2, <2>2, EndKeeps DEF CanClaim
  <2>3. CASE ClaimFree(a) /\ claim' = a /\ UNCHANGED pending /\ Goto(c, "pay")
    <3>1. PICK q \in CallStates : call' = [call EXCEPT ![c] = q] /\ q.agent = a /\ q.pc = "pay"
      BY <1>2, <1>4, <2>3, GotoGives DEF Pcs
    <3>2. OwnMemory(a)
      BY <1>4, <2>3, MemoryIsOwn DEF CanClaim
    <3>3. CallOK(q)' /\ StrictOK(q)' /\ q.pc \notin Owning
      BY <2>3, <3>1, AgentAssumption DEF CallOK, StrictOK, Owning, Clean
    <3> QED  BY <1>1, <1>3, <3>1, <3>2, <3>3, QuietKeeps
  <2> QED  BY <1>2, <1>5, <2>1, <2>2, <2>3 DEF Request
<1>6. CASE PayList(c)
  <2>1. CASE Throw(c)
    BY <1>1, <2>1, EndKeeps DEF Throw
  <2>2. CASE ListPending(c, "payHydrate") /\ UNCHANGED memory
    <3>1. PICK q \in CallStates : /\ call' = [call EXCEPT ![c] = q] /\ q.agent = a /\ q.pc = "payHydrate"
                                  /\ (q.on = None => store = {})
      BY <1>2, <1>4, <2>2, ListGives, GotoOnGives, SettlementsAre DEF Pcs
    <3>2. OwnMemory(a)
      BY <1>4, <2>2, MemoryIsOwn DEF memory
    <3>3. CallOK(q)' /\ q.pc \notin Owning
      BY <3>1, AgentAssumption DEF CallOK, Owning
    <3>4. overlap \/ StrictOK(q)'
      <4> SUFFICES ASSUME ~ overlap PROVE StrictOK(q)'
        OBVIOUS
      <4>1. claim' = a /\ Unresolved' \subseteq store
        BY <1>1, <1>2, <1>3, <1>6, <2>2 DEF PayList, At, StrictOK, Holding, AgentOf, memory,
           Strict, Unresolved, ledger, app
      <4> QED  BY <3>1, <4>1 DEF StrictOK, Clean
    <3> QED  BY <1>1, <1>3, <3>1, <3>2, <3>3, <3>4, QuietKeeps
  <2> QED  BY <1>6, <2>1, <2>2 DEF PayList
<1>7. ASSUME Clean(call[c]), call[c].pc \in Holding, UNCHANGED memory, NEW q \in CallStates,
             call' = [call EXCEPT ![c] = q], q.agent = a, q.pc \in {"read", "sign"}
      PROVE  IInv'
  <2>1. OwnMemory(a)
    BY <1>4, <1>7, MemoryIsOwn DEF memory
  <2>2. CallOK(q)' /\ q.pc \notin Owning
    BY <1>7, AgentAssumption DEF CallOK, Owning
  <2>3. overlap \/ StrictOK(q)'
    <3> SUFFICES ASSUME ~ overlap PROVE StrictOK(q)'
      OBVIOUS
    <3>1. claim' = a /\ Unresolved' = {}
      BY <1>1, <1>2, <1>3, <1>7 DEF StrictOK, AgentOf, memory, Unresolved, ledger, app
    <3> QED  BY <1>7, <3>1 DEF StrictOK
  <2> QED  BY <1>1, <1>3, <1>7, <2>1, <2>2, <2>3, QuietKeeps
<1>8. CASE PayHydrate(c)
  <2>1. CASE Hydrate(c) /\ End(c)
    BY <1>1, <2>1, HydrateGives, EndKeeps
  <2>2. CASE Throw(c)
    BY <1>1, <2>2, EndKeeps DEF Throw
  <2>3. CASE End(c) /\ UNCHANGED memory
    BY <1>1, <2>3, EndKeeps DEF memory
  <2>4. CASE ~ Found(c) /\ Goto(c, "read") /\ UNCHANGED memory
    <3>1. PICK q \in CallStates : call' = [call EXCEPT ![c] = q] /\ q.agent = a /\ q.pc = "read"
      BY <1>2, <1>4, <2>4, GotoGives DEF Pcs
    <3>2. Clean(call[c]) /\ call[c].pc \in Holding
      BY <1>8, <2>4 DEF PayHydrate, At, Clean, Found, Holding
    <3> QED  BY <1>7, <2>4, <3>1, <3>2
  <2> QED  BY <1>8, <2>1, <2>2, <2>3, <2>4 DEF PayHydrate
<1>9. CASE ReadSeq(c)
  <2>1. CASE Throw(c)
    BY <1>1, <2>1, EndKeeps DEF Throw
  <2>2. CASE call' = [call EXCEPT ![c].pc = "sign", ![c].n = seq] /\ UNCHANGED memory
    <3> DEFINE q == [call[c] EXCEPT !.pc = "sign", !.n = seq]
    <3>1. q \in CallStates /\ call' = [call EXCEPT ![c] = q] /\ q.agent = a /\ q.pc = "sign"
      BY <1>2, <1>4, <2>2 DEF TypeInv, CallStates, Pcs, AgentOf
    <3>2. Clean(call[c]) /\ call[c].pc \in Holding
      BY <1>9 DEF ReadSeq, At, Clean, Holding
    <3> HIDE DEF q
    <3> QED  BY <1>7, <2>2, <3>1, <3>2
  <2> QED  BY <1>9, <2>1, <2>2 DEF ReadSeq
<1> QED  BY <1>5, <1>6, <1>8, <1>9

\* The receipt is in the store before the transaction is sent, or the payment is given
\* up and its receipt, if any, may go.
LEMMA SaveKeeps ==
    ASSUME IInv, UNCHANGED overlap, NEW c \in Calls, Save(c)
    PROVE  IInv'
<1>1. call[c].pc = "save" /\ UNCHANGED <<ledger, app, overlap>> /\ TypeInv /\ Served
  BY DEF Save, At, IInv
<1>2. PICK a \in Agents : a = AgentOf(c)
  BY <1>1, CallHas
<1>3. OwnCall(c, a) /\ CallOK(call[c]) /\ (overlap \/ (Strict /\ StrictOK(call[c])))
  BY <1>1, <1>2, CallHas
<1>4. PICK t \in Txs : t = TxOf(c)
  BY <1>1, <1>3 DEF CallOK, Owning, TxOf
<1>5. chain[t] \in {"signed", "expired"} /\ chain[t] # "new"
  BY <1>1, <1>3, <1>4 DEF CallOK, TxOf
<1>6. /\ AgentOf(c) = a \/ (AgentOf(c) = Nothing /\ (overlap \/ \A d \in Calls : AgentOf(d) # a))
      /\ UNCHANGED <<chain, ledger, overlap>> /\ delivered' = delivered /\ committed' = committed
      /\ delivered' \in SUBSET Txs /\ committed' \in SUBSET Txs /\ committed \subseteq committed'
      /\ Served'
  BY <1>1, <1>2 DEF app, ledger, TypeInv, Served
<1>7. CASE Saved(c)
  <2>1. PICK q \in CallStates : /\ call' = [call EXCEPT ![c] = q] /\ q.agent = a /\ q.pc = "send"
                                /\ q.on = call[c].on
    BY <1>1, <1>2, <1>7, GotoGives DEF Pcs, Saved
  <2>2. claim' = claim /\ store' = store \cup {t} /\ store' \in SUBSET Txs /\ store \ store' = {}
    BY <1>1, <1>4, <1>7 DEF Saved, TypeInv
  <2>3. PICK s \in Settlements : s = [pending[a] EXCEPT !.receipt = TRUE] /\ s.tx = pending[a].tx
    <3> DEFINE x == [pending[a] EXCEPT !.receipt = TRUE]
    <3>1. pending[a] \in Settlements
      BY <1>1 DEF TypeInv
    <3>2. x \in Settlements /\ x.tx = pending[a].tx
      BY <3>1 DEF Settlements
    <3> QED  BY <3>2
  <2>4. pending' = [pending EXCEPT ![a] = s] /\ pending'[a] = s
    BY <1>1, <1>2, <1>7, <2>3 DEF Saved, TypeInv
  <2>5. /\ claim' \in Agents \cup {Nothing} /\ pending' \in [Agents -> Settlements]
        /\ \A b \in Agents \ {a} : (claim = b => claim' = b) /\ pending'[b] = pending[b]
    BY <1>1, <2>2, <2>4 DEF TypeInv
  <2>6. q.on.tx = t
    BY <1>4, <2>1 DEF TxOf
  <2>7. CallOK(q)'
    BY <1>5, <1>6, <2>1, <2>2, <2>6, AgentAssumption DEF CallOK, Owning
  <2>8. overlap \/ StrictOK(q)'
    <3> SUFFICES ASSUME ~ overlap PROVE StrictOK(q)'
      OBVIOUS
    <3>1. claim = a /\ pending[a].tx = t /\ Unresolved = {}
      BY <1>1, <1>2, <1>3, <1>4 DEF StrictOK, Holding, Clean, AgentOf, TxOf
    <3>2. Unresolved' = {}
      BY <1>6, <3>1 DEF Unresolved
    <3> QED  BY <2>1, <2>2, <2>3, <2>4, <2>6, <3>1, <3>2 DEF StrictOK
  <2>9. q.agent \in {a, Nothing} /\ (q.pc \in Owning => call[c].pc \in Owning /\ q.on.tx = TxOf(c))
    BY <1>1, <1>4, <2>1, <2>6 DEF Owning
  <2>10. \A u \in store \ store' :
              \/ chain[u] \in {"failed", "expired"} \/ u \in committed
              \/ call[c].pc \in Owning /\ TxOf(c) = u /\ (overlap \/ u \notin Unresolved)
    BY <2>2
  <2> QED  BY <1>6, <2>1, <2>2, <2>5, <2>7, <2>8, <2>9, <2>10, CallKeeps
<1>8. CASE SaveFails(TxOf(c)) /\ Abandon(c)
  <2>1. PICK q \in CallStates : /\ call' = [call EXCEPT ![c] = q] /\ q.agent = a /\ q.pc = "forget"
                                /\ q.on = call[c].on
    BY <1>1, <1>2, <1>8, GotoGives DEF Pcs, Abandon
  <2>2. store' \in SUBSET Txs /\ store \ store' = {}
    BY <1>1, <1>4, <1>8 DEF SaveFails, TypeInv
  <2>3. OwnMemory(a)
    BY <1>1, <1>2, <1>8, SettlementsAre, MemoryIsOwn DEF Abandon
  <2>4. /\ claim' \in Agents \cup {Nothing} /\ pending' \in [Agents -> Settlements]
        /\ \A b \in Agents \ {a} : (claim = b => claim' = b) /\ pending'[b] = pending[b]
    BY <2>3 DEF OwnMemory
  <2>5. q.on.tx = t
    BY <1>4, <2>1 DEF TxOf
  <2>6. CallOK(q)' /\ StrictOK(q)'
    BY <1>5, <1>6, <2>1, <2>5, AgentAssumption DEF CallOK, StrictOK, Clean, Holding
  <2>7. q.agent \in {a, Nothing} /\ (q.pc \in Owning => call[c].pc \in Owning /\ q.on.tx = TxOf(c))
    BY <1>1, <1>4, <2>1, <2>5 DEF Owning
  <2>8. \A u \in store \ store' :
              \/ chain[u] \in {"failed", "expired"} \/ u \in committed
              \/ call[c].pc \in Owning /\ TxOf(c) = u /\ (overlap \/ u \notin Unresolved)
    BY <2>2
  <2> QED  BY <1>6, <2>1, <2>2, <2>4, <2>6, <2>7, <2>8, CallKeeps
<1> QED  BY <1>7, <1>8 DEF Save

\* A payment that is over, or uncertain.
LEMMA OverKeeps ==
    ASSUME IInv, NEW c \in Calls, call[c].pc \in {"send", "await"},
           UNCHANGED <<store, ledger, app, overlap>>,
           \/ Uncertain(c) \/ (chain[TxOf(c)] = "failed" /\ Abandon(c))
           \/ chain[TxOf(c)] = "success" /\ Deliver(c)
           \/ /\ chain[TxOf(c)] = "success" /\ ~ HasPending(c)
              /\ SetPending(AgentOf(c), Receipt(TxOf(c))) /\ Goto(c, "resave") /\ UNCHANGED claim
    PROVE  IInv'
<1>1. call[c].pc # "idle" /\ TypeInv
  BY DEF IInv
<1>2. PICK a \in Agents : a = AgentOf(c)
  BY <1>1, CallHas
<1>3. OwnCall(c, a) /\ CallOK(call[c]) /\ (overlap \/ (Strict /\ StrictOK(call[c])))
  BY <1>1, <1>2, CallHas
<1>4. PICK t \in Txs : t = TxOf(c)
  BY <1>3 DEF CallOK, Owning, TxOf
<1>5. call[c].pc \in Owning /\ chain[t] # "new" /\ chain' = chain
  BY <1>3, <1>4 DEF CallOK, Owning, TxOf, ledger
<1>6. ~ overlap => HasPending(c)
  BY <1>2, <1>3, <1>4, AgentAssumption, SettlementsAre DEF StrictOK, HasPending, AgentOf, TxOf
<1>7. ASSUME NEW q \in CallStates, call' = [call EXCEPT ![c] = q], q.agent = a, q.on = call[c].on,
             \/ q.pc = "forget" /\ (overlap \/ chain[t] = "failed")
             \/ (q.pc = "resave" /\ overlap) \/ q.pc = "deliver",
             claim' = claim \/ Release(a) \/ (CanClaim(a) /\ claim' = a),
             pending' = pending \/ \E s \in Settlements : SetPending(a, s)
      PROVE  IInv'
  <2>1. q.on.tx = t
    BY <1>4, <1>7 DEF TxOf
  <2>2. OwnMemory(a)
    BY <1>1, <1>7, MemoryIsOwn
  <2>3. CallOK(q)' /\ (q.pc \in Owning => call[c].pc \in Owning /\ q.on.tx = TxOf(c))
    BY <1>4, <1>5, <1>7, <2>1, AgentAssumption DEF CallOK, Owning
  <2>4. overlap \/ StrictOK(q)'
    BY <1>5, <1>7, <2>1 DEF StrictOK, Clean, Holding
  <2> QED  BY <1>3, <1>7, <2>2, <2>3, <2>4, QuietKeeps
<1>8. CASE Uncertain(c)
  <2>1. CASE End(c)
    BY <1>1, <1>8, <2>1, EndKeeps DEF Uncertain, memory
  <2>2. CASE ~ HasPending(c) /\ Goto(c, "forget")
    <3>1. PICK q \in CallStates : /\ call' = [call EXCEPT ![c] = q] /\ q.agent = a /\ q.pc = "forget"
                                  /\ q.on = call[c].on
      BY <1>1, <1>2, <2>2, GotoGives DEF Pcs
    <3> QED  BY <1>6, <1>7, <1>8, <2>2, <3>1 DEF Uncertain, memory
  <2> QED  BY <1>8, <2>1, <2>2 DEF Uncertain
<1>9. CASE chain[TxOf(c)] = "failed" /\ Abandon(c)
  <2>1. PICK q \in CallStates : /\ call' = [call EXCEPT ![c] = q] /\ q.agent = a /\ q.pc = "forget"
                                /\ q.on = call[c].on
    BY <1>1, <1>2, <1>9, GotoGives DEF Pcs, Abandon
  <2> QED  BY <1>2, <1>4, <1>7, <1>9, <2>1, SettlementsAre DEF Abandon
<1>10. CASE Deliver(c)
  <2>1. CASE End(c) /\ UNCHANGED claim
    BY <1>1, <1>10, <2>1, EndKeeps DEF Deliver
  <2>2. CASE CanClaim(a) /\ claim' = a /\ Goto(c, "deliver")
    <3>1. PICK q \in CallStates : /\ call' = [call EXCEPT ![c] = q] /\ q.agent = a /\ q.pc = "deliver"
                                  /\ q.on = call[c].on
      BY <1>1, <1>2, <2>2, GotoGives DEF Pcs
    <3> QED  BY <1>7, <1>10, <2>2, <3>1 DEF Deliver
  <2> QED  BY <1>2, <1>10, <2>1, <2>2 DEF Deliver
<1>11. CASE /\ ~ HasPending(c)
            /\ SetPending(AgentOf(c), Receipt(TxOf(c))) /\ Goto(c, "resave") /\ UNCHANGED claim
  <2>1. PICK q \in CallStates : /\ call' = [call EXCEPT ![c] = q] /\ q.agent = a /\ q.pc = "resave"
                                /\ q.on = call[c].on
    BY <1>1, <1>2, <1>11, GotoGives DEF Pcs
  <2> QED  BY <1>2, <1>4, <1>6, <1>7, <1>11, <2>1, SettlementsAre
<1> QED  BY <1>8, <1>9, <1>10, <1>11

\* The outcome of a payment.
LEMMA AwaitKeeps ==
    ASSUME IInv, UNCHANGED overlap, NEW c \in Calls, Await(c)
    PROVE  IInv'
<1>1. call[c].pc \in {"send", "await"} /\ UNCHANGED <<store, ledger, app, overlap>>
  BY DEF Await, At
<1>2. \/ Uncertain(c) \/ (chain[TxOf(c)] = "failed" /\ Abandon(c))
      \/ chain[TxOf(c)] = "success" /\ Deliver(c)
      \/ /\ chain[TxOf(c)] = "success" /\ ~ HasPending(c)
         /\ SetPending(AgentOf(c), Receipt(TxOf(c))) /\ Goto(c, "resave") /\ UNCHANGED claim
  BY DEF Await
<1> QED  BY <1>1, <1>2, OverKeeps
-----------------------------------------------------------------------------
(* The receipts                                                            *)

\* A step that changes the store, or what the application holds, and ends, or goes to a
\* point of recovery.
LEMMA StoreKeeps ==
    ASSUME IInv, NEW c \in Calls, NEW q \in CallStates, NEW a \in Agents,
           call' = [call EXCEPT ![c] = q], OwnCall(c, a), q.agent \in {a, Nothing},
           q.pc = "idle" <=> q.agent = Nothing,
           OwnMemory(a), UNCHANGED <<ledger, overlap>>,
           store' \in SUBSET Txs,
           \A t \in store \ store' :
              \/ chain[t] \in {"failed", "expired"} \/ t \in committed
              \/ call[c].pc \in Owning /\ TxOf(c) = t /\ (overlap \/ t \notin Unresolved),
           delivered' \in SUBSET Txs, committed' \in SUBSET Txs, committed \subseteq committed',
           \A t \in delivered' \cup committed' : chain[t] = "success",
           \/ q.pc = "idle" \/ (q.pc = "deliver" /\ q.on.tx \in Txs)
           \/ q.pc = "acknowledge" /\ q.on.tx \in committed'
    PROVE  IInv'
<1>1. /\ claim' \in Agents \cup {Nothing} /\ pending' \in [Agents -> Settlements]
      /\ \A b \in Agents \ {a} : (claim = b => claim' = b) /\ pending'[b] = pending[b]
  BY DEF OwnMemory
<1>2. AgentOf(c) = a \/ (AgentOf(c) = Nothing /\ (overlap \/ \A d \in Calls : AgentOf(d) # a))
  BY DEF OwnCall
<1>3. Served'
  BY DEF Served, ledger
<1>4. q.pc \notin Owning /\ CallOK(q)' /\ StrictOK(q)'
  BY AgentAssumption DEF Owning, CallOK, StrictOK, Clean, Holding
<1> QED  BY <1>1, <1>2, <1>3, <1>4, CallKeeps

\* A call that ends on the store.
LEMMA StoreEndKeeps ==
    ASSUME IInv, NEW c \in Calls, call[c].pc # "idle", End(c),
           claim' = claim \/ Release(AgentOf(c)),
           pending' = pending \/ \E s \in Settlements : SetPending(AgentOf(c), s),
           UNCHANGED <<ledger, overlap>>, UNCHANGED app, store' \in SUBSET Txs,
           \A t \in store \ store' :
              \/ chain[t] \in {"failed", "expired"} \/ t \in committed
              \/ call[c].pc \in Owning /\ TxOf(c) = t /\ (overlap \/ t \notin Unresolved)
    PROVE  IInv'
<1>1. PICK a \in Agents : a = AgentOf(c) /\ OwnCall(c, a)
  BY ReadyIsOwn
<1>2. OwnMemory(a)
  BY <1>1, MemoryIsOwn DEF IInv
<1>3. Idle \in CallStates /\ call' = [call EXCEPT ![c] = Idle] /\ Idle.pc = "idle" /\ Idle.agent = Nothing
  BY EndGives
<1>4. /\ delivered' \in SUBSET Txs /\ committed' \in SUBSET Txs /\ committed \subseteq committed'
      /\ \A t \in delivered' \cup committed' : chain[t] = "success"
  BY DEF IInv, TypeInv, Served, app
<1>5. PICK q \in CallStates : q = Idle
  BY <1>3
<1> QED  BY <1>1, <1>2, <1>3, <1>4, <1>5, StoreKeeps

\* A payment that landed after all is put back; one that was not made is forgotten.
LEMMA ResaveKeeps ==
    ASSUME IInv, UNCHANGED overlap, NEW c \in Calls, Resave(c) \/ Forget(c)
    PROVE  IInv'
<1>1. call[c].pc \in Owning /\ call[c].pc # "idle" /\ UNCHANGED <<ledger, overlap>> /\ UNCHANGED app
  BY DEF Resave, Forget, At, Owning
<1>2. PICK a \in Agents : a = AgentOf(c)
  BY <1>1, CallHas
<1>3. OwnCall(c, a) /\ CallOK(call[c]) /\ (overlap \/ (Strict /\ StrictOK(call[c])))
  BY <1>1, <1>2, CallHas
<1>4. PICK t \in Txs : t = TxOf(c)
  BY <1>1, <1>3 DEF CallOK, TxOf
<1>5. /\ store \in SUBSET Txs /\ TypeInv
      /\ delivered' \in SUBSET Txs /\ committed' \in SUBSET Txs /\ committed \subseteq committed'
      /\ \A u \in delivered' \cup committed' : chain[u] = "success"
  BY <1>1 DEF IInv, TypeInv, Served, app
<1>6. CASE Resave(c)
  <2>1. CASE SaveFails(TxOf(c)) /\ End(c) /\ UNCHANGED memory
    <3>1. store' \in SUBSET Txs /\ store \ store' = {}
      BY <1>4, <1>5, <2>1 DEF SaveFails
    <3> QED  BY <1>1, <2>1, <3>1, StoreEndKeeps DEF memory
  <2>2. CASE store' = store \cup {TxOf(c)} /\ Deliver(c)
    <3>1. store' \in SUBSET Txs /\ store \ store' = {}
      BY <1>4, <1>5, <2>2
    <3>2. CASE End(c) /\ UNCHANGED claim
      BY <1>1, <2>2, <3>1, <3>2, StoreEndKeeps DEF Deliver
    <3>3. CASE CanClaim(a) /\ claim' = a /\ Goto(c, "deliver")
      <4>1. PICK q \in CallStates : /\ call' = [call EXCEPT ![c] = q] /\ q.agent = a /\ q.pc = "deliver"
                                    /\ q.on = call[c].on
        BY <1>2, <1>5, <3>3, GotoGives DEF Pcs
      <4>2. OwnMemory(a)
        BY <1>5, <2>2, <3>3, MemoryIsOwn DEF Deliver
      <4>3. q.on.tx \in Txs /\ q.agent # Nothing
        BY <1>4, <4>1, AgentAssumption DEF TxOf
      <4> QED  BY <1>1, <1>3, <1>5, <3>1, <4>1, <4>2, <4>3, StoreKeeps
    <3> QED  BY <1>2, <2>2, <3>2, <3>3 DEF Deliver
  <2> QED  BY <1>6, <2>1, <2>2 DEF Resave
<1>7. CASE Forget(c)
  <2>1. store' \in SUBSET Txs /\ store \ store' \subseteq {t} /\ End(c) /\ UNCHANGED memory
    BY <1>4, <1>5, <1>7 DEF Forget, ClearFails
  <2>2. overlap \/ t \notin Unresolved
    BY <1>3, <1>4, <1>7 DEF Forget, At, StrictOK, Unresolved, TxOf
  <2>3. \A u \in store \ store' :
              \/ chain[u] \in {"failed", "expired"} \/ u \in committed
              \/ call[c].pc \in Owning /\ TxOf(c) = u /\ (overlap \/ u \notin Unresolved)
    BY <1>1, <1>4, <2>1, <2>2
  <2> QED  BY <1>1, <2>1, <2>3, StoreEndKeeps DEF memory
<1> QED  BY <1>6, <1>7

\* Delivery is for what settled, and is acknowledged only when it is durable.
LEMMA DeliveryKeeps ==
    ASSUME IInv, UNCHANGED overlap, NEW c \in Calls,
           \/ \E a \in Agents, t \in Txs : Retry(c, a, t) \/ Acknowledge(c, a, t)
           \/ Delivery(c) \/ AckClear(c)
    PROVE  IInv'
<1>1. /\ store \in SUBSET Txs /\ delivered \in SUBSET Txs /\ committed \in SUBSET Txs /\ TypeInv
      /\ \A u \in delivered \cup committed : chain[u] = "success"
  BY DEF IInv, TypeInv, Served
<1>2. ASSUME NEW a \in Agents, NEW t \in Txs, Retry(c, a, t) PROVE IInv'
  <2>1. OwnCall(c, a) /\ UNCHANGED <<pending, store, ledger, app, overlap>> /\ CanClaim(a) /\ claim' = a
    BY <1>2, ReadyIsOwn DEF Retry
  <2>2. PICK q \in CallStates : /\ call' = [call EXCEPT ![c] = q] /\ q.agent = a /\ q.pc = "deliver"
                                /\ q.on = Receipt(t)
    BY <1>2, BeginGives, SettlementsAre DEF Retry, Pcs
  <2>3. OwnMemory(a)
    BY <1>1, <2>1, MemoryIsOwn
  <2>4. q.on.tx \in Txs /\ q.agent # Nothing
    BY <2>2, SettlementsAre, AgentAssumption
  <2>5. CallOK(q)' /\ StrictOK(q)' /\ q.pc \notin Owning
    BY <2>2, <2>4 DEF CallOK, StrictOK, Clean, Holding, Owning
  <2> QED  BY <2>1, <2>2, <2>3, <2>5, QuietKeeps
<1>3. ASSUME NEW a \in Agents, NEW t \in Txs, Acknowledge(c, a, t) PROVE IInv'
  <2>1. /\ OwnCall(c, a) /\ UNCHANGED <<memory, store, ledger, delivered, overlap>>
        /\ t \in delivered /\ committed' = committed \cup {t}
    BY <1>3, ReadyIsOwn DEF Acknowledge
  <2>2. PICK q \in CallStates : /\ call' = [call EXCEPT ![c] = q] /\ q.agent = a /\ q.pc = "acknowledge"
                                /\ q.on = Receipt(t)
    BY <1>3, BeginGives, SettlementsAre DEF Acknowledge, Pcs
  <2>3. OwnMemory(a)
    BY <1>1, <2>1, MemoryIsOwn DEF memory
  <2>4. q.on.tx = t /\ q.agent # Nothing
    BY <2>2, SettlementsAre, AgentAssumption
  <2>5. /\ store' \in SUBSET Txs /\ store \ store' = {}
        /\ delivered' \in SUBSET Txs /\ committed' \in SUBSET Txs /\ committed \subseteq committed'
        /\ \A u \in delivered' \cup committed' : chain[u] = "success"
    BY <1>1, <2>1
  <2> QED  BY <2>1, <2>2, <2>3, <2>4, <2>5, StoreKeeps
<1>4. CASE Delivery(c)
  <2>1. /\ call[c].pc = "deliver" /\ End(c) /\ UNCHANGED <<memory, store, ledger, committed, overlap>>
        /\ delivered' = delivered \/ (chain[TxOf(c)] = "success" /\ delivered' = delivered \cup {TxOf(c)})
    BY <1>4 DEF Delivery, At
  <2>2. PICK a \in Agents : a = AgentOf(c)
    BY <2>1, CallHas
  <2>3. OwnCall(c, a) /\ CallOK(call[c])
    BY <2>1, <2>2, CallHas
  <2>4. TxOf(c) \in Txs
    BY <2>1, <2>3 DEF CallOK, TxOf
  <2>5. PICK q \in CallStates : q = Idle /\ call' = [call EXCEPT ![c] = q] /\ q.pc = "idle" /\ q.agent = Nothing
    BY <2>1, EndGives
  <2>6. OwnMemory(a)
    BY <1>1, <2>1, MemoryIsOwn DEF memory
  <2>7. /\ store' \in SUBSET Txs /\ store \ store' = {}
        /\ delivered' \in SUBSET Txs /\ committed' \in SUBSET Txs /\ committed \subseteq committed'
        /\ \A u \in delivered' \cup committed' : chain[u] = "success"
    BY <1>1, <2>1, <2>4
  <2> QED  BY <2>1, <2>3, <2>5, <2>6, <2>7, StoreKeeps
<1>5. CASE AckClear(c)
  <2>1. call[c].pc = "acknowledge" /\ End(c) /\ UNCHANGED <<ledger, overlap>> /\ UNCHANGED app
    BY <1>5 DEF AckClear, At
  <2>2. TxOf(c) \in committed
    BY <2>1, CallHas DEF CallOK, TxOf
  <2>3. store' \in SUBSET Txs /\ store \ store' \subseteq {TxOf(c)}
    BY <1>1, <1>5 DEF AckClear, ClearFails
  <2>4. /\ claim' = claim \/ Release(AgentOf(c))
        /\ pending' = pending \/ \E s \in Settlements : SetPending(AgentOf(c), s)
    BY <1>5, SettlementsAre DEF AckClear, memory
  <2>5. \A u \in store \ store' :
              \/ chain[u] \in {"failed", "expired"} \/ u \in committed
              \/ call[c].pc \in Owning /\ TxOf(c) = u /\ (overlap \/ u \notin Unresolved)
    BY <2>2, <2>3
  <2> QED  BY <2>1, <2>3, <2>4, <2>5, StoreEndKeeps
<1> QED  BY <1>2, <1>3, <1>4, <1>5

\* What reconciliation finds over, and only that, is cleared.
LEMMA QueryKeeps ==
    ASSUME IInv, UNCHANGED overlap, NEW c \in Calls, Query(c) \/ Clear(c)
    PROVE  IInv'
<1>1. call[c].pc # "idle" /\ UNCHANGED <<ledger, overlap>> /\ UNCHANGED app /\ TypeInv
  BY DEF Query, Clear, At, IInv
<1>2. PICK a \in Agents : a = AgentOf(c)
  BY <1>1, CallHas
<1>3. OwnCall(c, a) /\ CallOK(call[c])
  BY <1>1, <1>2, CallHas
<1>4. CASE Query(c)
  <2>1. UNCHANGED <<store, ledger, app, overlap>>
    BY <1>1, <1>4 DEF Query
  <2>2. CASE End(c) /\ UNCHANGED memory
    BY <1>1, <2>1, <2>2, EndKeeps DEF memory
  <2>3. CASE SetPending(AgentOf(c), None) /\ End(c) /\ Release(AgentOf(c))
    BY <1>1, <2>1, <2>3, SettlementsAre, EndKeeps
  <2>4. CASE /\ Hashed(c) /\ (chain[TxOf(c)] = "failed" \/ Expired(TxOf(c)))
             /\ SetPending(AgentOf(c), None) /\ Goto(c, "clear") /\ UNCHANGED claim
    <3>1. PICK q \in CallStates : /\ call' = [call EXCEPT ![c] = q] /\ q.agent = a /\ q.pc = "clear"
                                  /\ q.on = call[c].on
      BY <1>1, <1>2, <2>4, GotoGives DEF Pcs
    <3>2. TxOf(c) \in Txs /\ q.on.tx = TxOf(c)
      BY <1>1, <2>4, <3>1 DEF Hashed, TypeInv, CallStates, Settlements, TxOf
    <3>3. chain[TxOf(c)] \in {"failed", "expired"} /\ chain' = chain
      BY <1>1, <2>4 DEF Expired, ledger
    <3>4. OwnMemory(a)
      BY <1>1, <1>2, <2>4, SettlementsAre, MemoryIsOwn
    <3>5. CallOK(q)' /\ StrictOK(q)' /\ q.pc \notin Owning
      BY <3>1, <3>2, <3>3, AgentAssumption DEF CallOK, StrictOK, Clean, Holding, Owning
    <3> QED  BY <1>3, <2>1, <3>1, <3>4, <3>5, QuietKeeps
  <2> QED  BY <1>4, <2>2, <2>3, <2>4 DEF Query, GiveUp
<1>5. CASE Clear(c)
  <2>1. chain[TxOf(c)] \in {"failed", "expired"} /\ End(c) /\ UNCHANGED pending
    BY <1>3, <1>5 DEF Clear, At, CallOK, TxOf
  <2>2. store' \in SUBSET Txs /\ store \ store' \subseteq {TxOf(c)} /\ (claim' = claim \/ Release(AgentOf(c)))
    BY <1>1, <1>5 DEF Clear, ClearFails, TypeInv
  <2>3. \A u \in store \ store' :
              \/ chain[u] \in {"failed", "expired"} \/ u \in committed
              \/ call[c].pc \in Owning /\ TxOf(c) = u /\ (overlap \/ u \notin Unresolved)
    BY <2>1, <2>2
  <2> QED  BY <1>1, <2>1, <2>2, <2>3, StoreEndKeeps
<1> QED  BY <1>4, <1>5
-----------------------------------------------------------------------------
(* The chain                                                               *)

\* A transaction is signed for one call, that alone may send it.
LEMMA SignKeeps ==
    ASSUME IInv, UNCHANGED overlap, NEW c \in Calls, Sign(c)
    PROVE  IInv'
<1>1. call[c].pc = "sign" /\ UNCHANGED <<store, seq, overlap>> /\ UNCHANGED app /\ TypeInv
  BY DEF Sign, At, IInv
<1>2. PICK a \in Agents : a = AgentOf(c)
  BY <1>1, CallHas
<1>3. OwnCall(c, a) /\ CallOK(call[c]) /\ (overlap \/ (Strict /\ StrictOK(call[c])))
  BY <1>1, <1>2, CallHas
<1>4. CASE Throw(c) /\ UNCHANGED <<chain, seqOf>>
  <2>1. UNCHANGED <<store, ledger, app, overlap>> /\ call[c].pc # "idle"
    BY <1>1, <1>4 DEF ledger
  <2> QED  BY <1>4, <2>1, EndKeeps DEF Throw
<1>5. ASSUME NEW t \in Txs, chain[t] = "new", chain' = [chain EXCEPT ![t] = "signed"],
             seqOf' = [seqOf EXCEPT ![t] = call[c].n],
             SetPending(AgentOf(c), Signed(t)), GotoOn(c, "save", Signed(t)), UNCHANGED claim
      PROVE  IInv'
  <2>1. PICK q \in CallStates : /\ call' = [call EXCEPT ![c] = q] /\ q.agent = a /\ q.pc = "save"
                                /\ q.on = Signed(t)
    BY <1>1, <1>2, <1>5, GotoOnGives, SettlementsAre DEF Pcs
  <2>2. q.on.tx = t /\ pending' = [pending EXCEPT ![a] = Signed(t)]
    BY <1>2, <1>5, <2>1, SettlementsAre DEF SetPending
  <2>3. TypeInv'
    <3>1. call[c].n \in Nat
      BY <1>1 DEF TypeInv, CallStates
    <3>2. seqOf' \in [Txs -> Nat] /\ chain' \in [Txs -> Fates]
      BY <1>1, <1>5, <3>1 DEF TypeInv, Fates
    <3>3. pending' \in [Agents -> Settlements] /\ call' \in [Calls -> CallStates]
      BY <1>1, <2>1, <2>2, SettlementsAre DEF TypeInv
    <3> QED  BY <1>1, <1>5, <3>2, <3>3 DEF TypeInv, app
  <2>4. /\ call'[c] = q /\ \A d \in Calls : d # c => call'[d] = call[d]
        /\ chain'[t] = "signed" /\ \A u \in Txs : u # t => chain'[u] = chain[u]
        /\ pending'[a] = Signed(t) /\ \A b \in Agents : b # a => pending'[b] = pending[b]
        /\ UNCHANGED <<store, delivered, committed, claim, overlap>>
    BY <1>1, <1>5, <2>1, <2>2 DEF TypeInv, app
  <2>5. Served /\ t \notin delivered \cup committed /\ delivered \in SUBSET Txs /\ committed \in SUBSET Txs
    BY <1>5 DEF IInv, Served, TypeInv
  <2>6. Served'
    BY <2>4, <2>5 DEF Served
  <2>7. Unresolved' = Unresolved
    BY <1>5, <2>4 DEF Unresolved
  <2>8. \A d \in Calls : d # c /\ call[d].pc \in Owning => TxOf(d) # t
    BY <1>5 DEF IInv, CallOK, TxOf
  <2>9. ASSUME NEW d \in Calls PROVE CallOK(call[d])'
    <3>1. CASE d = c
      BY <2>1, <2>2, <2>4, <3>1, AgentAssumption DEF CallOK, Owning
    <3>2. CASE d # c
      <4>1. CallOK(call[d]) /\ call'[d] = call[d]
        BY <2>4, <3>2 DEF IInv
      <4> QED  BY <1>5, <2>4, <2>8, <3>2, <4>1 DEF CallOK, Owning, TxOf
    <3> QED  BY <3>1, <3>2
  <2>10. Owners'
    <3> SUFFICES ASSUME NEW d \in Calls, NEW e \in Calls, d # e,
                        call'[d].pc \in Owning, call'[e].pc \in Owning,
                        call'[d].on.tx = call'[e].on.tx
                 PROVE  FALSE
      BY DEF Owners, TxOf
    <3>1. d # c => call'[d] = call[d] /\ call[d].on.tx # t
      BY <2>4, <2>8 DEF TxOf
    <3>2. e # c => call'[e] = call[e] /\ call[e].on.tx # t
      BY <2>4, <2>8 DEF TxOf
    <3>3. call'[c].on.tx = t
      BY <2>2, <2>4
    <3> QED  BY <3>1, <3>2, <3>3 DEF IInv, Owners, TxOf
  <2>11. ASSUME ~ overlap PROVE Strict'
    <3>1. Strict /\ Unresolved = {} /\ claim = a
      BY <1>1, <1>2, <1>3, <2>11 DEF StrictOK, Clean, Holding, AgentOf
    <3>2. \A d, e \in Calls : AgentOf(d)' = AgentOf(e)' /\ AgentOf(d)' # Nothing => d = e
      <4>1. \A d \in Calls : AgentOf(d)' = AgentOf(d)
        BY <1>2, <2>1, <2>4 DEF AgentOf
      <4> QED  BY <3>1, <4>1 DEF Strict
    <3>3. ASSUME NEW d \in Calls PROVE StrictOK(call[d])'
      <4>1. CASE d = c
        BY <2>1, <2>2, <2>4, <2>7, <3>1, <4>1, SettlementsAre DEF StrictOK, Clean
      <4>2. CASE d # c
        <5>1. StrictOK(call[d]) /\ CallOK(call[d]) /\ call'[d] = call[d]
          BY <2>4, <3>1, <4>2 DEF Strict, IInv
        <5>2. call[d].agent # a
          BY <1>2, <3>1, <4>2, AgentAssumption DEF Strict, AgentOf
        <5>3. call[d].pc \notin Holding
          BY <3>1, <5>1, <5>2 DEF StrictOK
        <5>4. call[d].pc = "forget" => chain'[call[d].on.tx] \in {"signed", "failed", "expired"}
          <6> SUFFICES ASSUME call[d].pc = "forget" PROVE chain'[call[d].on.tx] \in {"signed", "failed", "expired"}
            OBVIOUS
          <6>1. call[d].on.tx \in Txs /\ call[d].on.tx # t
            BY <2>8, <4>2, <5>1 DEF CallOK, Owning, TxOf
          <6> QED  BY <2>4, <5>1, <6>1 DEF StrictOK
        <5>5. ~ Clean(call[d]) /\ call[d].pc \notin {"save", "send", "await"} /\ call[d].pc # "resave"
          BY <5>1, <5>3 DEF Clean, Holding, StrictOK
        <5> QED  BY <5>1, <5>3, <5>4, <5>5 DEF StrictOK, Clean
      <4> QED  BY <4>1, <4>2
    <3> QED  BY <2>4, <2>7, <3>1, <3>2, <3>3 DEF Strict
  <2> QED  BY <1>1, <2>3, <2>6, <2>9, <2>10, <2>11 DEF IInv
<1> QED  BY <1>4, <1>5 DEF Sign

\* Only the call a transaction was signed for sends it, its receipt stored, and no other
\* payment unresolved.
LEMMA SendKeeps ==
    ASSUME IInv, UNCHANGED overlap, NEW c \in Calls, Send(c)
    PROVE  IInv'
<1>1. call[c].pc = "send" /\ UNCHANGED <<store, seqOf, seq, overlap>> /\ UNCHANGED app /\ TypeInv
  BY DEF Send, At, IInv
<1>2. PICK a \in Agents : a = AgentOf(c)
  BY <1>1, CallHas
<1>3. OwnCall(c, a) /\ CallOK(call[c]) /\ (overlap \/ (Strict /\ StrictOK(call[c])))
  BY <1>1, <1>2, CallHas
<1>4. PICK t \in Txs : t = TxOf(c)
  BY <1>1, <1>3 DEF CallOK, Owning, TxOf
<1>5. CASE Uncertain(c) /\ UNCHANGED chain
  <2>1. UNCHANGED <<store, ledger, app, overlap>>
    BY <1>1, <1>5 DEF ledger
  <2> QED  BY <1>1, <1>5, <2>1, OverKeeps
<1>6. CASE /\ chain[t] = "signed" /\ chain' = [chain EXCEPT ![t] = "sent"]
           /\ Goto(c, "await") /\ UNCHANGED memory
  <2>1. PICK q \in CallStates : /\ call' = [call EXCEPT ![c] = q] /\ q.agent = a /\ q.pc = "await"
                                /\ q.on = call[c].on
    BY <1>1, <1>2, <1>6, GotoGives DEF Pcs
  <2>2. q.on.tx = t /\ t \in store
    BY <1>1, <1>3, <1>4, <1>6, <2>1 DEF CallOK, TxOf
  <2>3. TypeInv'
    BY <1>1, <1>6, <2>1 DEF TypeInv, Fates, app, memory
  <2>4. /\ call'[c] = q /\ \A d \in Calls : d # c => call'[d] = call[d]
        /\ chain'[t] = "sent" /\ \A u \in Txs : u # t => chain'[u] = chain[u]
        /\ UNCHANGED <<store, delivered, committed, claim, pending, overlap>>
    BY <1>1, <1>6, <2>1 DEF TypeInv, app, memory
  <2>5. Served /\ t \notin delivered \cup committed /\ delivered \in SUBSET Txs /\ committed \in SUBSET Txs
    BY <1>6 DEF IInv, Served, TypeInv
  <2>6. Served'
    BY <2>4, <2>5 DEF Served
  <2>7. Unresolved' = Unresolved \cup {t}
    BY <1>6, <2>4 DEF Unresolved
  <2>8. \A d \in Calls : d # c /\ call[d].pc \in Owning => TxOf(d) # t
    BY <1>1, <1>4 DEF IInv, Owners, Owning
  <2>9. ASSUME NEW d \in Calls PROVE CallOK(call[d])'
    <3>1. CASE d = c
      BY <2>1, <2>2, <2>4, <3>1, AgentAssumption DEF CallOK, Owning
    <3>2. CASE d # c
      <4>1. CallOK(call[d]) /\ call'[d] = call[d]
        BY <2>4, <3>2 DEF IInv
      <4> QED  BY <1>6, <2>4, <2>8, <3>2, <4>1 DEF CallOK, Owning, TxOf
    <3> QED  BY <3>1, <3>2
  <2>10. Owners'
    <3> SUFFICES ASSUME NEW d \in Calls, NEW e \in Calls, d # e,
                        call'[d].pc \in Owning, call'[e].pc \in Owning,
                        call'[d].on.tx = call'[e].on.tx
                 PROVE  FALSE
      BY DEF Owners, TxOf
    <3>1. \A f \in Calls : call'[f].pc \in Owning =>
             call[f].pc \in Owning /\ call'[f].on.tx = call[f].on.tx
      BY <1>1, <1>4, <2>2, <2>4 DEF Owning, TxOf
    <3> QED  BY <3>1 DEF IInv, Owners, TxOf
  <2>11. ASSUME ~ overlap PROVE Strict'
    <3>1. Strict /\ Unresolved = {} /\ claim = a /\ pending[a].tx = t
      BY <1>1, <1>2, <1>3, <1>4, <2>11 DEF StrictOK, Clean, Holding, AgentOf, TxOf
    <3>2. \A d, e \in Calls : AgentOf(d)' = AgentOf(e)' /\ AgentOf(d)' # Nothing => d = e
      <4>1. \A d \in Calls : AgentOf(d)' = AgentOf(d)
        BY <1>2, <2>1, <2>4 DEF AgentOf
      <4> QED  BY <3>1, <4>1 DEF Strict
    <3>3. ASSUME NEW d \in Calls PROVE StrictOK(call[d])'
      <4>1. CASE d = c
        BY <2>1, <2>2, <2>4, <3>1, <4>1 DEF StrictOK, Clean
      <4>2. CASE d # c
        <5>1. StrictOK(call[d]) /\ CallOK(call[d]) /\ call'[d] = call[d]
          BY <2>4, <3>1, <4>2 DEF Strict, IInv
        <5>2. call[d].agent # a
          BY <1>2, <3>1, <4>2, AgentAssumption DEF Strict, AgentOf
        <5>3. call[d].pc \notin Holding
          BY <3>1, <5>1, <5>2 DEF StrictOK
        <5>4. call[d].pc = "forget" => chain'[call[d].on.tx] \in {"signed", "failed", "expired"}
          <6> SUFFICES ASSUME call[d].pc = "forget" PROVE chain'[call[d].on.tx] \in {"signed", "failed", "expired"}
            OBVIOUS
          <6>1. call[d].on.tx \in Txs /\ call[d].on.tx # t
            BY <2>8, <4>2, <5>1 DEF CallOK, Owning, TxOf
          <6> QED  BY <2>4, <5>1, <6>1 DEF StrictOK
        <5>5. ~ Clean(call[d]) /\ call[d].pc \notin {"save", "send", "await"} /\ call[d].pc # "resave"
          BY <5>1, <5>3 DEF Clean, Holding, StrictOK
        <5> QED  BY <5>1, <5>3, <5>4, <5>5 DEF StrictOK, Clean
      <4> QED  BY <4>1, <4>2
    <3> QED  BY <2>2, <2>4, <2>7, <3>1, <3>2, <3>3 DEF Strict
  <2> QED  BY <1>1, <2>3, <2>6, <2>9, <2>10, <2>11 DEF IInv
<1> QED  BY <1>4, <1>5, <1>6 DEF Send

\* What becomes of a transaction beside the calls resolves it, or leaves it as it was.
LEMMA WorldKeeps ==
    ASSUME IInv, UNCHANGED overlap, NEW t \in Txs, Land(t) \/ Reject(t) \/ Expire(t)
    PROVE  IInv'
<1>1. /\ UNCHANGED <<claim, pending, call, store, seqOf, delivered, committed, overlap>>
      /\ TypeInv /\ Served
  BY DEF Land, Reject, Expire, memory, app, IInv
<1>2. /\ chain' \in [Txs -> Fates] /\ \A u \in Txs : u # t => chain'[u] = chain[u]
      /\ \/ chain[t] = "sent" /\ chain'[t] \in {"success", "failed", "expired"}
         \/ chain[t] = "signed" /\ chain'[t] = "expired"
  BY <1>1 DEF Land, Reject, Expire, TypeInv, Fates
<1>3. seq' \in Nat
  BY <1>1 DEF Land, Reject, Expire, TypeInv
<1>4. TypeInv'
  BY <1>1, <1>2, <1>3 DEF TypeInv
<1>5. Served'
  BY <1>1, <1>2 DEF Served, TypeInv
<1>6. Owners'
  BY <1>1 DEF IInv, Owners, TxOf
<1>7. ASSUME NEW d \in Calls PROVE CallOK(call[d])'
  <2>1. CallOK(call[d]) /\ call'[d] = call[d]
    BY <1>1 DEF IInv
  <2> QED  BY <1>1, <1>2, <2>1 DEF CallOK, Owning
<1>8. ASSUME ~ overlap PROVE Strict'
  <2>1. Strict
    BY <1>8 DEF IInv
  <2>2. Unresolved' \subseteq Unresolved
    BY <1>1, <1>2, <1>5 DEF Unresolved, Served
  <2>3. ASSUME NEW d \in Calls PROVE StrictOK(call[d])'
    <3>1. StrictOK(call[d]) /\ CallOK(call[d]) /\ call'[d] = call[d]
      BY <1>1, <2>1 DEF Strict, IInv
    <3>2. call[d].pc = "forget" => chain'[call[d].on.tx] \in {"signed", "failed", "expired"}
      BY <1>2, <3>1 DEF StrictOK, CallOK, Owning
    <3>3. Clean(call[d]) => Unresolved' = {}
      BY <2>2, <3>1 DEF StrictOK
    <3> QED  BY <1>1, <3>1, <3>2, <3>3 DEF StrictOK, Clean
  <2> QED  BY <1>1, <2>1, <2>2, <2>3 DEF Strict, AgentOf
<1> QED  BY <1>1, <1>4, <1>5, <1>6, <1>7, <1>8 DEF IInv

\* A process that dies leaves only what is on the chain and in the stores.
LEMMA CrashKeeps ==
    ASSUME IInv, UNCHANGED overlap, Crash
    PROVE  IInv'
<1>1. /\ claim' = Nothing /\ pending' = [a \in Agents |-> None]
      /\ call' = [c \in Calls |-> Idle] /\ delivered' = delivered \cap committed
      /\ UNCHANGED <<store, chain, seqOf, seq, committed, overlap>> /\ TypeInv /\ Served
  BY DEF Crash, ledger, IInv
<1>2. Idle \in CallStates /\ Idle.pc = "idle" /\ Idle.agent = Nothing /\ None \in Settlements
  BY SettlementsAre DEF Idle, CallStates, Pcs
<1>3. TypeInv'
  BY <1>1, <1>2 DEF TypeInv
<1>4. \A c \in Calls : CallOK(call[c])'
  BY <1>1, <1>2 DEF CallOK, Owning
<1>5. Owners' /\ Served'
  BY <1>1, <1>2 DEF Owners, Owning, Served
<1>6. ASSUME ~ overlap PROVE Strict'
  <2>1. Strict /\ Unresolved' = Unresolved
    BY <1>1, <1>6 DEF IInv, Unresolved
  <2>2. \A c \in Calls : StrictOK(call[c])'
    BY <1>1, <1>2 DEF StrictOK, Clean, Holding
  <2> QED  BY <1>1, <1>2, <2>1, <2>2 DEF Strict, AgentOf
<1> QED  BY <1>1, <1>3, <1>4, <1>5, <1>6 DEF IInv

\* At first nothing has happened.
LEMMA InitIInv == Init => IInv
<1> SUFFICES ASSUME Init PROVE IInv
  OBVIOUS
<1>1. Idle \in CallStates /\ Idle.pc = "idle" /\ Idle.agent = Nothing /\ None \in Settlements
  BY SettlementsAre DEF Idle, CallStates, Pcs
<1>2. TypeInv
  BY <1>1, AgentAssumption DEF Init, TypeInv, Fates
<1>3. \A c \in Calls : CallOK(call[c])
  BY <1>1 DEF Init, CallOK, Owning
<1>4. Owners /\ Served
  BY <1>1 DEF Init, Owners, Owning, Served
<1>5. Strict
  <2>1. Unresolved = {}
    BY DEF Init, Unresolved
  <2>2. \A c \in Calls : StrictOK(call[c])
    BY <1>1 DEF Init, StrictOK, Clean, Holding
  <2> QED  BY <1>1, <2>1, <2>2 DEF Init, Strict, AgentOf
<1> QED  BY <1>2, <1>3, <1>4, <1>5 DEF IInv

-----------------------------------------------------------------------------
(* What the agents promise                                                 *)

\* Every step keeps the invariant.
LEMMA NextKeeps == IInv /\ [Next]_vars => IInv'
<1> SUFFICES ASSUME IInv, [Next]_vars PROVE IInv'
  OBVIOUS
<1>1. CASE UNCHANGED vars
  <2>1. UNCHANGED <<claim, pending, call, store, chain, seqOf, seq, delivered, committed, overlap>>
    BY <1>1 DEF vars, work, memory, ledger, app
  <2>2. TypeInv' /\ Owners' /\ Served'
    BY <2>1 DEF IInv, TypeInv, Owners, Served, TxOf
  <2>3. \A c \in Calls : CallOK(call[c])'
    BY <2>1 DEF IInv, CallOK
  <2>4. ASSUME ~ overlap PROVE Strict'
    <3>1. Strict /\ Unresolved' = Unresolved
      BY <2>1, <2>4 DEF IInv, Unresolved
    <3>2. \A c \in Calls : StrictOK(call[c])'
      BY <2>1, <3>1 DEF Strict, StrictOK, Clean
    <3> QED  BY <2>1, <3>1, <3>2 DEF Strict, AgentOf
  <2> QED  BY <2>1, <2>2, <2>3, <2>4 DEF IInv
<1>2. CASE Next
  <2>1. UNCHANGED overlap
    BY <1>2 DEF Next
  <2>2. ASSUME NEW c \in Calls, Run(c) PROVE IInv'
    BY <2>1, <2>2, FetchKeeps, FindsKeeps, PaysKeeps, SaveKeeps, AwaitKeeps, ResaveKeeps,
       DeliveryKeeps, QueryKeeps, SignKeeps, SendKeeps DEF Run
  <2>3. ASSUME NEW c \in Calls, NEW a \in Agents, Make(c, a) PROVE IInv'
    BY <2>1, <2>3, FetchKeeps, FindsKeeps, DeliveryKeeps DEF Make
  <2>4. ASSUME NEW t \in Txs, Land(t) \/ Reject(t) \/ Expire(t) PROVE IInv'
    BY <2>1, <2>4, WorldKeeps
  <2>5. CASE Crash
    BY <2>1, <2>5, CrashKeeps
  <2> QED  BY <1>2, <2>2, <2>3, <2>4, <2>5 DEF Next
<1> QED  BY <1>1, <1>2

\* In every reachable state the invariant holds.
LEMMA Invariance == Spec => []IInv
<1>1. Init => IInv
  BY InitIInv
<1>2. IInv /\ [Next]_vars => IInv'
  BY NextKeeps
<1> QED  BY <1>1, <1>2, PTL DEF Spec

\* A set of which any two members are one has at most one.
LEMMA AtMostOne ==
    ASSUME NEW S, \A x, y \in S : x = y
    PROVE  Cardinality(S) =< 1
<1>1. CASE S = {}
  BY <1>1, FS_EmptySet
<1>2. CASE S # {}
  <2>1. PICK x \in S : TRUE
    BY <1>2
  <2>2. S = {x}
    BY <2>1
  <2>3. Cardinality({x}) = 1
    BY FS_Singleton
  <2> QED  BY <2>2, <2>3
<1> QED  BY <1>1, <1>2

\* No step forgets a payment that may have been made: whatever of the store, the network
\* or the process fails, its receipt stays until the application has what it paid for.
THEOREM PaymentsAreKept == Spec => []NoneForgotten
<1>1. IInv => NoneForgotten
  BY DEF IInv, Strict, NoneForgotten
<1> QED  BY <1>1, Invariance, PTL

\* While a payment is unresolved no agent of the process, before or after a crash, makes
\* another.
THEOREM OnePayment == Spec => []NoSecondPayment
<1>1. IInv => NoSecondPayment
  BY AtMostOne DEF IInv, Strict, NoSecondPayment
<1> QED  BY <1>1, Invariance, PTL

\* No two calls are in the payment of the one mandate together.
THEOREM OnePayer == Spec => []ExclusivePayer
<1>1. IInv => ExclusivePayer
  <2> SUFFICES ASSUME IInv, ~ overlap PROVE Cardinality(Paying) =< 1
    BY DEF ExclusivePayer
  <2>1. \A c, d \in Paying : c = d
    <3> SUFFICES ASSUME NEW c \in Paying, NEW d \in Paying PROVE c = d
      OBVIOUS
    <3>1. c \in Calls /\ d \in Calls /\ call[c].pc \in Holding /\ call[d].pc \in Holding
          /\ call[c].pc # "idle"
      BY DEF Paying, Holding
    <3>2. Strict /\ StrictOK(call[c]) /\ StrictOK(call[d]) /\ CallOK(call[c])
      BY <3>1 DEF IInv, Strict
    <3>3. claim = AgentOf(c) /\ claim = AgentOf(d) /\ claim # Nothing
      BY <3>1, <3>2 DEF StrictOK, CallOK, AgentOf
    <3> QED  BY <3>1, <3>2, <3>3 DEF Strict
  <2> QED  BY <2>1, AtMostOne
<1> QED  BY <1>1, Invariance, PTL

\* However calls overlap, what is sent has its receipt in the store.
THEOREM ReceiptsPrecede == Spec => SentDurably
<1> DEFINE A == \A t \in Txs : chain'[t] = "sent" /\ chain[t] # "sent" => t \in store
<1>1. IInv /\ [Next]_vars => [A]_vars
  <2> SUFFICES ASSUME IInv, Next, NEW t \in Txs, chain'[t] = "sent", chain[t] # "sent"
               PROVE  t \in store
    OBVIOUS
  <2>1. \A u \in Txs : ~ (Land(u) \/ Reject(u) \/ Expire(u))
    BY DEF Land, Reject, Expire, IInv, TypeInv
  <2>2. chain' # chain
    OBVIOUS
  <2>3. PICK c \in Calls : Sign(c) \/ Send(c)
    <3>1. ASSUME NEW c \in Calls, NEW a \in Agents, Make(c, a) PROVE chain' = chain
      BY <3>1 DEF Make, Fetch, Reconcile, Retry, Acknowledge, Restore, ledger
    <3>2. ASSUME NEW c \in Calls, Run(c), ~ Sign(c), ~ Send(c) PROVE chain' = chain
      BY <3>2 DEF Run, FetchList, FetchHydrate, Request, PayList, PayHydrate, ReadSeq, Save, Await,
         Resave, Forget, Delivery, AckClear, Find, FindHydrate, Query, Clear, ledger
    <3>3. Crash => chain' = chain
      BY DEF Crash, ledger
    <3> QED  BY <2>1, <2>2, <3>1, <3>2, <3>3 DEF Next
  <2>4. ~ Sign(c)
    BY <2>2 DEF Sign, IInv, TypeInv
  <2>5. At(c, "send") /\ chain[TxOf(c)] = "signed" /\ chain' = [chain EXCEPT ![TxOf(c)] = "sent"]
    BY <2>2, <2>3, <2>4 DEF Send
  <2>6. TxOf(c) = t
    BY <2>5 DEF IInv, TypeInv
  <2>7. CallOK(call[c])
    BY DEF IInv
  <2> QED  BY <2>5, <2>6, <2>7 DEF At, CallOK, TxOf
<1> QED  BY <1>1, Invariance, PTL DEF Spec, SentDurably
=============================================================================
