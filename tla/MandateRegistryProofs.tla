------------------------ MODULE MandateRegistryProofs ------------------------
(***************************************************************************)
(* The contract's safety for every set of mandates, users, pools and terms *)
(* and for ledger time without any end.                                    *)
(*                                                                         *)
(* The inductive invariant IInv adds to the properties themselves what     *)
(* ties a mandate to its pool (PoolLinked): clear_pool pays the pool's     *)
(* merchant out of mandates it finds in the member list, so that paying    *)
(* the signed payee rests on what registration compared long before.       *)
(*                                                                         *)
(* Then the pools: who is committed, what a commitment is worth, what ends *)
(* it, and that both money paths together implement the SpendingAuthority  *)
(* the user granted.  PoolInv strengthens the two pool invariants by one   *)
(* fact about mandates that are not committed yet: a mandate registered    *)
(* against a pool expires only after that pool's capture window, or        *)
(* joining could not be sound.  MoneyInv adds that a merchant's balance is *)
(* the sum of what its mandates record as spent, and SettledInv that the   *)
(* members a pool captured have paid what they ordered at one price, which *)
(* met the pool's floors.                                                  *)
(***************************************************************************)
EXTENDS MandateRegistry, ClearingProofs

-----------------------------------------------------------------------------
(* The contract: the inductive invariant                                   *)

\* One mandate's storage r agrees with the transfers s made for it.
Account(r, s) ==
    /\ r.spent = IF s = << >> THEN 0 ELSE s[Len(s)].total
    /\ r.spent <= r.terms.max_amount
    /\ r.seq = Len(s)
    /\ \A i \in DOMAIN s : /\ s[i].seq = i - 1
                           /\ s[i].merchant = r.terms.merchant
                           /\ s[i].asset = r.terms.asset

\* A pooled mandate was registered against its pool, and only pooled mandates
\* are ever listed as members or committed.
PoolLinked ==
    /\ \A m \in DOMAIN mandate : PoolOf(m) # NoPool =>
          /\ PoolOf(m) \in DOMAIN pool
          /\ ValidSchedule(Schedule(m))
          /\ mandate[m].terms.merchant = PoolTerms[PoolOf(m)].merchant
          /\ mandate[m].terms.asset = PoolTerms[PoolOf(m)].asset
    /\ \A m \in DOMAIN mandate : mandate[m].pool_state = "Committed" => PoolOf(m) # NoPool
    /\ \A p \in DOMAIN pool : \A m \in pool[p].members :
          m \in DOMAIN mandate /\ PoolOf(m) = p

IInv ==
    /\ TypeOK
    /\ \A m \in DOMAIN mandate : Account(mandate[m], statement[m])
    /\ PoolLinked

-----------------------------------------------------------------------------
(* One mandate                                                             *)

\* Consuming an amount within the budget and recording its transfer, as both
\* money paths do, keeps storage and statement in agreement.
LEMMA ChargeKeepsAccount ==
    ASSUME NEW r \in Mandate, NEW s \in Seq(Entry), Account(r, s),
           NEW amount \in Nat, r.spent + amount <= r.terms.max_amount
    PROVE  LET e == [seq |-> r.seq, amount |-> amount,
                     total |-> (IF s = << >> THEN 0 ELSE s[Len(s)].total) + amount,
                     merchant |-> r.terms.merchant, asset |-> r.terms.asset]
           IN  /\ Consume(r, amount) \in Mandate
               /\ Consume(r, amount).terms = r.terms
               /\ Consume(r, amount).pool_state = r.pool_state
               /\ Append(s, e) \in Seq(Entry)
               /\ Account(Consume(r, amount), Append(s, e))
<1> DEFINE e == [seq |-> r.seq, amount |-> amount,
                 total |-> (IF s = << >> THEN 0 ELSE s[Len(s)].total) + amount,
                 merchant |-> r.terms.merchant, asset |-> r.terms.asset]
<1>1. /\ Consume(r, amount) \in Mandate
      /\ Consume(r, amount).terms = r.terms
      /\ Consume(r, amount).pool_state = r.pool_state
      /\ Consume(r, amount).spent = r.spent + amount
      /\ Consume(r, amount).seq = r.seq + 1
  <2>1. r.spent + amount \in Nat /\ r.seq + 1 \in Nat
    BY DEF Mandate
  <2>2. PICK st \in Status : Consume(r, amount) =
           [r EXCEPT !.spent = @ + amount, !.seq = @ + 1, !.status = st]
    BY DEF Consume, Mandate, Status
  <2> QED  BY <2>1, <2>2 DEF Mandate
<1>2. e \in Entry /\ e.total = r.spent + amount
  <2>1. r.spent \in Nat /\ r.seq \in Nat /\ r.terms \in Terms
    BY DEF Mandate
  <2>2. e.total = r.spent + amount /\ e.total \in Nat
    BY <2>1 DEF Account
  <2>3. r.terms.merchant \in Merchants /\ r.terms.asset \in Assets
    BY <2>1 DEF Terms
  <2>4. e = [seq |-> r.seq, amount |-> amount, total |-> e.total,
             merchant |-> r.terms.merchant, asset |-> r.terms.asset]
    OBVIOUS
  <2> HIDE DEF e
  <2> QED  BY <2>1, <2>2, <2>3, <2>4 DEF Entry
<1>3. /\ Append(s, e) \in Seq(Entry)
      /\ Len(Append(s, e)) = Len(s) + 1
      /\ \A i \in 1 .. Len(s) : Append(s, e)[i] = s[i]
      /\ Append(s, e)[Len(s) + 1] = e
  <2> HIDE DEF e
  <2> QED  BY <1>2, AppendProperties
<1>4. Account(Consume(r, amount), Append(s, e))
  <2>1. Len(s) \in Nat /\ Append(s, e) # << >>
    BY <1>3, LenProperties, EmptySeq
  <2>2. DOMAIN Append(s, e) = 1 .. (Len(s) + 1) /\ DOMAIN s = 1 .. Len(s)
    BY <1>3, LenProperties
  <2>3. \A i \in DOMAIN Append(s, e) :
           /\ Append(s, e)[i].seq = i - 1
           /\ Append(s, e)[i].merchant = r.terms.merchant
           /\ Append(s, e)[i].asset = r.terms.asset
    <3> SUFFICES ASSUME NEW i \in 1 .. (Len(s) + 1)
                 PROVE  /\ Append(s, e)[i].seq = i - 1
                        /\ Append(s, e)[i].merchant = r.terms.merchant
                        /\ Append(s, e)[i].asset = r.terms.asset
      BY <2>2
    <3>1. CASE i \in 1 .. Len(s)
      BY <3>1, <1>3, <2>2 DEF Account
    <3>2. CASE i = Len(s) + 1
      BY <3>2, <1>3, <2>1 DEF Account
    <3> QED  BY <3>1, <3>2, <2>1
  <2> HIDE DEF e
  <2> QED  BY <1>1, <1>2, <1>3, <2>1, <2>3 DEF Account
<1>5. QED
  BY <1>1, <1>3, <1>4

\* Whether consent stands and where the mandate is in its pool's life bear on
\* neither what was spent nor what was transferred.
LEMMA StateKeepsAccount ==
    ASSUME NEW r \in Mandate, NEW s, Account(r, s), NEW q \in Mandate,
           q.terms = r.terms, q.spent = r.spent, q.seq = r.seq
    PROVE  Account(q, s)
BY DEF Account

\* The same for a step that leaves the statements alone.
LEMMA StatesKeepAccounts ==
    ASSUME IInv, UNCHANGED statement,
           \A x \in DOMAIN mandate : /\ mandate'[x] \in Mandate
                                     /\ mandate'[x].terms = mandate[x].terms
                                     /\ mandate'[x].spent = mandate[x].spent
                                     /\ mandate'[x].seq = mandate[x].seq
    PROVE  \A x \in DOMAIN mandate : /\ statement'[x] \in Seq(Entry)
                                     /\ Account(mandate'[x], statement'[x])
<1> SUFFICES ASSUME NEW x \in DOMAIN mandate
             PROVE  statement'[x] \in Seq(Entry) /\ Account(mandate'[x], statement'[x])
  OBVIOUS
<1>1. statement'[x] = statement[x]
  OBVIOUS
<1>2. statement[x] \in Seq(Entry) /\ mandate[x] \in Mandate
  BY DEF IInv, TypeOK
<1>3. Account(mandate[x], statement[x])
  BY DEF IInv
<1>4. Account(mandate'[x], statement[x])
  BY <1>2, <1>3, StateKeepsAccount
<1> QED  BY <1>1, <1>2, <1>4

-----------------------------------------------------------------------------
(* The actions                                                             *)

\* The invariant holds at the start.
LEMMA InitKeeps == Init => IInv
<1> SUFFICES ASSUME Init  PROVE IInv
  OBVIOUS
<1>1. DOMAIN mandate = {} /\ DOMAIN pool = {} /\ DOMAIN statement = {}
  BY DEF Init
<1>2. TypeOK
  BY <1>1 DEF Init, TypeOK
<1> QED
  BY <1>1, <1>2 DEF IInv, PoolLinked

\* Steps that leave the contract's storage alone.
LEMMA OutsideKeeps ==
    ASSUME IInv, now' \in Nat, UNCHANGED registryVars
    PROVE  IInv'
BY DEF IInv, TypeOK, PoolLinked, Account, registryVars, PoolOf, Schedule

\* register_mandate stores a mandate of which nothing is spent.
LEMMA RegisterMandateKeeps ==
    ASSUME IInv, NEW m \in Mandates, NEW t \in Offers[m], RegisterMandate(m, t)
    PROVE  IInv'
<1> DEFINE r == [terms |-> t, spent |-> 0, seq |-> 0,
                 status |-> "Active", pool_state |-> "Unlinked"]
<1>1. t \in Terms
  BY RegistryAssumption
<1>2. r \in Mandate
  BY <1>1 DEF Mandate, Status, PoolState
<1>3. /\ DOMAIN mandate' = DOMAIN mandate \cup {m}
      /\ m \notin DOMAIN mandate
      /\ mandate'[m] = r
      /\ \A x \in DOMAIN mandate : mandate'[x] = mandate[x]
      /\ mandate' = [x \in DOMAIN mandate' |-> mandate'[x]]
  BY DEF RegisterMandate, Store
<1>4. /\ DOMAIN statement' = DOMAIN mandate'
      /\ statement'[m] = << >>
      /\ \A x \in DOMAIN mandate : statement'[x] = statement[x]
      /\ statement' = [x \in DOMAIN mandate' |-> statement'[x]]
  BY <1>3 DEF RegisterMandate, Store, IInv, TypeOK
<1>5. UNCHANGED <<now, pool>>
  BY DEF RegisterMandate
<1> HIDE DEF r
<1>6. TypeOK'
  <2>1. \A x \in DOMAIN mandate' : mandate'[x] \in Mandate /\ x \in Mandates
    BY <1>2, <1>3 DEF IInv, TypeOK
  <2>2. \A x \in DOMAIN mandate' : statement'[x] \in Seq(Entry)
    <3>1. statement'[m] \in Seq(Entry)
      BY <1>4, EmptySeq
    <3>2. \A x \in DOMAIN mandate : statement'[x] \in Seq(Entry)
      BY <1>4 DEF IInv, TypeOK
    <3> QED  BY <1>3, <3>1, <3>2
  <2>3. mandate' \in [DOMAIN mandate' -> Mandate] /\ DOMAIN mandate' \subseteq Mandates
    BY <1>3, <2>1
  <2>4. statement' \in [DOMAIN mandate' -> Seq(Entry)]
    BY <1>4, <2>2
  <2> QED  BY <1>5, <2>3, <2>4 DEF IInv, TypeOK
<1>7. Account(r, << >>)
  BY <1>1, EmptySeq DEF r, Account, RegisterMandate, Terms
<1>8. (\A x \in DOMAIN mandate : Account(mandate[x], statement[x]))'
  BY <1>3, <1>4, <1>7 DEF IInv
<1>9. PoolLinked'
  <2>1. t.pool_id # NoPool => /\ t.pool_id \in DOMAIN pool
                              /\ ValidSchedule(t.price_schedule)
                              /\ t.merchant = PoolTerms[t.pool_id].merchant
                              /\ t.asset = PoolTerms[t.pool_id].asset
    BY DEF RegisterMandate, PoolCompatible, SameDeal
  <2>2. r.terms = t /\ r.pool_state = "Unlinked"
    BY DEF r
  <2> QED  BY <1>3, <1>5, <2>1, <2>2 DEF IInv, PoolLinked, PoolOf, Schedule
<1> QED
  BY <1>6, <1>8, <1>9 DEF IInv

\* A step that changes stored records in place keeps the invariant if it does
\* so for each record: terms are never rewritten, the account still agrees, a
\* member that joins is a mandate of the pool.
LEMMA RecordwiseKeeps ==
    ASSUME IInv, UNCHANGED now,
           mandate' = [m \in DOMAIN mandate |-> mandate'[m]],
           statement' = [m \in DOMAIN mandate |-> statement'[m]],
           pool' = [p \in DOMAIN pool |-> pool'[p]],
           \A m \in DOMAIN mandate :
              /\ mandate'[m] \in Mandate
              /\ mandate'[m].terms = mandate[m].terms
              /\ mandate'[m].pool_state = "Committed" => PoolOf(m) # NoPool
              /\ statement'[m] \in Seq(Entry)
              /\ Account(mandate'[m], statement'[m]),
           \A p \in DOMAIN pool :
              /\ pool'[p] \in ClearingPool
              /\ \A m \in pool'[p].members :
                    m \in pool[p].members \/ (m \in DOMAIN mandate /\ PoolOf(m) = p)
    PROVE  IInv'
<1>1. DOMAIN mandate' = DOMAIN mandate /\ DOMAIN pool' = DOMAIN pool
  OBVIOUS
<1>2. TypeOK'
  <2>1. mandate' \in [DOMAIN mandate' -> Mandate]
    BY <1>1
  <2>2. statement' \in [DOMAIN mandate' -> Seq(Entry)]
    BY <1>1
  <2>3. pool' \in [DOMAIN pool' -> ClearingPool]
    BY <1>1
  <2> QED  BY <1>1, <2>1, <2>2, <2>3 DEF IInv, TypeOK
<1>3. (\A m \in DOMAIN mandate : Account(mandate[m], statement[m]))'
  BY <1>1
<1>4. PoolLinked'
  <2>1. \A m \in DOMAIN mandate : PoolOf(m)' = PoolOf(m) /\ Schedule(m)' = Schedule(m)
    BY DEF PoolOf, Schedule
  <2>2. (\A m \in DOMAIN mandate : PoolOf(m) # NoPool =>
          /\ PoolOf(m) \in DOMAIN pool
          /\ ValidSchedule(Schedule(m))
          /\ mandate[m].terms.merchant = PoolTerms[PoolOf(m)].merchant
          /\ mandate[m].terms.asset = PoolTerms[PoolOf(m)].asset)'
    BY <1>1, <2>1 DEF IInv, PoolLinked
  <2>3. (\A m \in DOMAIN mandate :
          mandate[m].pool_state = "Committed" => PoolOf(m) # NoPool)'
    BY <1>1, <2>1
  <2>4. (\A p \in DOMAIN pool : \A m \in pool[p].members :
          m \in DOMAIN mandate /\ PoolOf(m) = p)'
    BY <1>1, <2>1 DEF IInv, PoolLinked
  <2> QED  BY <2>2, <2>3, <2>4 DEF PoolLinked
<1> QED
  BY <1>2, <1>3, <1>4 DEF IInv

\* The slot freed by revocation and eviction was the pool's own.
LEMMA WithoutMemberShrinks ==
    ASSUME TypeOK, NEW p \in DOMAIN pool, NEW m
    PROVE  LET after == WithoutMember(p, m)
           IN  /\ after = [q \in DOMAIN pool |-> after[q]]
               /\ \A q \in DOMAIN pool : /\ after[q] \in ClearingPool
                                         /\ after[q].members \subseteq pool[q].members
<1> DEFINE S == pool[p].members \ {m}
           n == IF pool[p].member_count = 0 THEN 0 ELSE pool[p].member_count - 1
           r == [pool[p] EXCEPT !.members = S, !.member_count = n]
<1>1. pool[p] \in ClearingPool
  BY DEF TypeOK
<1>2. S \in SUBSET Mandates /\ n \in Nat
  BY <1>1 DEF ClearingPool
<1>3. r \in ClearingPool /\ r.members = S
  <2> HIDE DEF S, n
  <2> QED  BY <1>1, <1>2 DEF ClearingPool
<1>4. WithoutMember(p, m) = [pool EXCEPT ![p] = r]
  BY DEF WithoutMember
<1>5. S \subseteq pool[p].members
  OBVIOUS
<1> HIDE DEF r, S
<1> QED
  BY <1>3, <1>4, <1>5 DEF TypeOK

\* revoke_mandate changes what a mandate allows, not what it consumed.
LEMMA RevokeMandateKeeps ==
    ASSUME IInv, NEW m \in Mandates, RevokeMandate(m)
    PROVE  IInv'
<1>1. /\ mandate' = [x \in DOMAIN mandate |-> mandate'[x]]
      /\ \A x \in DOMAIN mandate :
            /\ mandate'[x] \in Mandate
            /\ mandate'[x].terms = mandate[x].terms
            /\ mandate'[x].spent = mandate[x].spent
            /\ mandate'[x].seq = mandate[x].seq
            /\ mandate'[x].pool_state \in {mandate[x].pool_state, "Released"}
  <2>1. PICK st \in Status, ps \in {mandate[m].pool_state, "Released"} :
           mandate' = [mandate EXCEPT ![m].status = st, ![m].pool_state = ps]
    BY DEF RevokeMandate, IInv, TypeOK, Mandate, Status
  <2>2. ps \in PoolState
    BY <2>1 DEF RevokeMandate, IInv, TypeOK, Mandate, PoolState
  <2> QED  BY <2>1, <2>2 DEF IInv, TypeOK, Mandate
<1>2. UNCHANGED <<now, statement>>
  BY DEF RevokeMandate
<1>3. /\ pool' = [p \in DOMAIN pool |-> pool'[p]]
      /\ \A p \in DOMAIN pool : /\ pool'[p] \in ClearingPool
                                /\ pool'[p].members \subseteq pool[p].members
  <2>1. CASE UNCHANGED pool
    BY <2>1 DEF IInv, TypeOK
  <2>2. CASE pool' = WithoutMember(PoolOf(m), m) /\ PoolOf(m) \in DOMAIN pool
    BY <2>2, WithoutMemberShrinks DEF IInv
  <2>3. PoolOf(m) # NoPool /\ m \in DOMAIN mandate => PoolOf(m) \in DOMAIN pool
    BY DEF IInv, PoolLinked
  <2> QED  BY <2>1, <2>2, <2>3 DEF RevokeMandate
<1>4. \A x \in DOMAIN mandate :
         /\ statement'[x] \in Seq(Entry)
         /\ Account(mandate'[x], statement'[x])
         /\ mandate'[x].pool_state = "Committed" => PoolOf(x) # NoPool
  <2>1. \A x \in DOMAIN mandate : /\ statement'[x] \in Seq(Entry)
                                  /\ Account(mandate'[x], statement'[x])
    BY <1>1, <1>2, StatesKeepAccounts
  <2>2. \A x \in DOMAIN mandate : mandate'[x].pool_state = "Committed" => PoolOf(x) # NoPool
    BY <1>1 DEF IInv, PoolLinked
  <2> QED  BY <2>1, <2>2
<1> QED
  BY <1>1, <1>2, <1>3, <1>4, RecordwiseKeeps DEF IInv, TypeOK

\* evict_child frees the slot of a member that could not pay.
LEMMA EvictChildKeeps ==
    ASSUME IInv, NEW p \in Pools, NEW m \in Mandates, EvictChild(p, m)
    PROVE  IInv'
<1>1. /\ mandate' = [x \in DOMAIN mandate |-> mandate'[x]]
      /\ \A x \in DOMAIN mandate :
            /\ mandate'[x] \in Mandate
            /\ mandate'[x].terms = mandate[x].terms
            /\ mandate'[x].spent = mandate[x].spent
            /\ mandate'[x].seq = mandate[x].seq
            /\ mandate'[x].pool_state \in {mandate[x].pool_state, "Released"}
  BY DEF EvictChild, IInv, TypeOK, Mandate, PoolState
<1>2. UNCHANGED <<now, statement>>
  BY DEF EvictChild
<1>3. /\ pool' = [q \in DOMAIN pool |-> pool'[q]]
      /\ \A q \in DOMAIN pool : /\ pool'[q] \in ClearingPool
                                /\ pool'[q].members \subseteq pool[q].members
  BY WithoutMemberShrinks DEF EvictChild, IInv
<1>4. \A x \in DOMAIN mandate :
         /\ statement'[x] \in Seq(Entry)
         /\ Account(mandate'[x], statement'[x])
         /\ mandate'[x].pool_state = "Committed" => PoolOf(x) # NoPool
  <2>1. \A x \in DOMAIN mandate : /\ statement'[x] \in Seq(Entry)
                                  /\ Account(mandate'[x], statement'[x])
    BY <1>1, <1>2, StatesKeepAccounts
  <2>2. \A x \in DOMAIN mandate : mandate'[x].pool_state = "Committed" => PoolOf(x) # NoPool
    BY <1>1 DEF IInv, PoolLinked
  <2> QED  BY <2>1, <2>2
<1> QED
  BY <1>1, <1>2, <1>3, <1>4, RecordwiseKeeps DEF IInv, TypeOK

\* commit_child lists the mandate in the pool it was registered against.
LEMMA CommitChildKeeps ==
    ASSUME IInv, NEW m \in Mandates, CommitChild(m)
    PROVE  IInv'
<1>1. /\ m \in DOMAIN mandate
      /\ PoolOf(m) \in DOMAIN pool
      /\ mandate' = [mandate EXCEPT ![m].pool_state = "Committed"]
      /\ pool' = [pool EXCEPT ![PoolOf(m)].members = @ \cup {m},
                              ![PoolOf(m)].member_count = @ + 1]
      /\ UNCHANGED <<now, statement>>
  BY DEF CommitChild
<1>2. PoolOf(m) # NoPool
  BY <1>1, RegistryAssumption DEF IInv, TypeOK
<1>3. /\ mandate' = [x \in DOMAIN mandate |-> mandate'[x]]
      /\ \A x \in DOMAIN mandate :
            /\ mandate'[x] \in Mandate
            /\ mandate'[x].terms = mandate[x].terms
            /\ mandate'[x].spent = mandate[x].spent
            /\ mandate'[x].seq = mandate[x].seq
            /\ x # m => mandate'[x].pool_state = mandate[x].pool_state
  BY <1>1 DEF IInv, TypeOK, Mandate, PoolState
<1>4. /\ pool' = [q \in DOMAIN pool |-> pool'[q]]
      /\ \A q \in DOMAIN pool :
            /\ pool'[q] \in ClearingPool
            /\ \A x \in pool'[q].members :
                  x \in pool[q].members \/ (x = m /\ PoolOf(m) = q)
  <2>1. \A q \in DOMAIN pool : pool[q] \in ClearingPool
    BY DEF IInv, TypeOK
  <2> DEFINE c == PoolOf(m)
             S == pool[c].members \cup {m}
             n == pool[c].member_count + 1
             r == [pool[c] EXCEPT !.members = S, !.member_count = n]
  <2>2. S \in SUBSET Mandates /\ n \in Nat
    BY <1>1, <2>1 DEF ClearingPool
  <2>3. c \in DOMAIN pool /\ pool' = [pool EXCEPT ![c] = r]
    BY <1>1, <2>1 DEF ClearingPool
  <2>4. r \in ClearingPool /\ r.members = S
    <3> HIDE DEF S, n
    <3> QED  BY <2>1, <2>2, <2>3 DEF ClearingPool
  <2> HIDE DEF r
  <2>5. pool'[c] \in ClearingPool /\ pool'[c].members = S
    BY <2>3, <2>4
  <2>6. pool' = [q \in DOMAIN pool |-> pool'[q]]
    BY <2>3
  <2>7. \A q \in DOMAIN pool : q # c => pool'[q] = pool[q]
    BY <2>3
  <2>8. \A q \in DOMAIN pool : \A x \in pool'[q].members :
           x \in pool[q].members \/ (x = m /\ PoolOf(m) = q)
    <3> SUFFICES ASSUME NEW q \in DOMAIN pool, NEW x \in pool'[q].members
                 PROVE  x \in pool[q].members \/ (x = m /\ PoolOf(m) = q)
      OBVIOUS
    <3>1. CASE q = c
      BY <2>5, <3>1
    <3>2. CASE q # c
      BY <2>7, <3>2
    <3> QED  BY <3>1, <3>2
  <2>9. \A q \in DOMAIN pool : pool'[q] \in ClearingPool
    BY <2>1, <2>5, <2>7
  <2> QED  BY <2>6, <2>8, <2>9
<1>5. \A x \in DOMAIN mandate :
         /\ statement'[x] \in Seq(Entry)
         /\ Account(mandate'[x], statement'[x])
         /\ mandate'[x].pool_state = "Committed" => PoolOf(x) # NoPool
  <2>1. \A x \in DOMAIN mandate : /\ statement'[x] \in Seq(Entry)
                                  /\ Account(mandate'[x], statement'[x])
    BY <1>1, <1>3, StatesKeepAccounts
  <2>2. \A x \in DOMAIN mandate : mandate'[x].pool_state = "Committed" => PoolOf(x) # NoPool
    BY <1>2, <1>3 DEF IInv, PoolLinked
  <2> QED  BY <2>1, <2>2
<1> QED
  BY <1>1, <1>3, <1>4, <1>5, RecordwiseKeeps DEF IInv, TypeOK

\* register_pool stores an open pool without members.
LEMMA RegisterPoolKeeps ==
    ASSUME IInv, NEW p \in Pools, RegisterPool(p)
    PROVE  IInv'
<1> DEFINE r == [status |-> "Open", members |-> {}, member_count |-> 0, fee_bps_pinned |-> 0]
<1>1. r \in ClearingPool
  BY DEF ClearingPool, PoolStatus
<1>2. /\ p \notin DOMAIN pool
      /\ DOMAIN pool' = DOMAIN pool \cup {p}
      /\ pool' = [q \in DOMAIN pool' |-> pool'[q]]
      /\ pool'[p] = r
      /\ \A q \in DOMAIN pool : pool'[q] = pool[q]
      /\ UNCHANGED <<now, mandate, statement>>
  BY DEF RegisterPool, Store
<1>3. r.members = {}
  OBVIOUS
<1> HIDE DEF r
<1>4. TypeOK'
  <2>1. \A q \in DOMAIN pool' : pool'[q] \in ClearingPool /\ q \in Pools
    BY <1>1, <1>2 DEF IInv, TypeOK
  <2> QED  BY <1>2, <2>1 DEF IInv, TypeOK
<1>5. PoolLinked'
  BY <1>2, <1>3 DEF IInv, PoolLinked, PoolOf, Schedule
<1> QED
  BY <1>2, <1>4, <1>5 DEF IInv

\* What a payment or a capture does to the mandate it charges.
LEMMA ChargeKeeps ==
    ASSUME IInv, NEW m \in DOMAIN mandate, NEW amount \in Nat,
           mandate[m].spent + amount <= mandate[m].terms.max_amount,
           NEW v, v = mandate[m].terms.merchant,
           NEW a, a = mandate[m].terms.asset
    PROVE  LET r == Consume(mandate[m], amount)
               s == Transferred(m, mandate[m].seq, amount, v, a)
           IN  /\ r \in Mandate
               /\ r.terms = mandate[m].terms
               /\ r.pool_state = mandate[m].pool_state
               /\ s \in Seq(Entry)
               /\ Account(r, s)
<1>1. /\ mandate[m] \in Mandate
      /\ statement[m] \in Seq(Entry)
      /\ Account(mandate[m], statement[m])
  BY DEF IInv, TypeOK
<1>2. QED
  BY <1>1, ChargeKeepsAccount DEF Transferred, Paid

\* execute_payment charges one mandate.
LEMMA ExecutePaymentKeeps ==
    ASSUME IInv, NEW m \in Mandates, NEW amount \in PayAmounts, NEW n \in ExpectedSeqs,
           ExecutePayment(m, amount, n)
    PROVE  IInv'
<1>1. /\ m \in DOMAIN mandate
      /\ n = mandate[m].seq
      /\ amount \in Nat
      /\ mandate[m].spent + amount <= mandate[m].terms.max_amount
  BY RegistryAssumption DEF ExecutePayment, MayPay, Check
<1> DEFINE r == Consume(mandate[m], amount)
           s == Transferred(m, n, amount, mandate[m].terms.merchant, mandate[m].terms.asset)
<1>2. /\ r \in Mandate
      /\ r.terms = mandate[m].terms
      /\ r.pool_state = mandate[m].pool_state
      /\ s \in Seq(Entry)
      /\ Account(r, s)
  BY <1>1, ChargeKeeps
<1>3. /\ mandate' = [mandate EXCEPT ![m] = r]
      /\ statement' = [statement EXCEPT ![m] = s]
      /\ UNCHANGED <<now, pool>>
  BY DEF ExecutePayment
<1> HIDE DEF r, s
<1>4. /\ mandate' = [x \in DOMAIN mandate |-> mandate'[x]]
      /\ statement' = [x \in DOMAIN mandate |-> statement'[x]]
      /\ mandate'[m] = r /\ statement'[m] = s
      /\ \A x \in DOMAIN mandate : x # m => /\ mandate'[x] = mandate[x]
                                             /\ statement'[x] = statement[x]
  BY <1>1, <1>3 DEF IInv, TypeOK
<1>5. \A x \in DOMAIN mandate :
         /\ mandate'[x] \in Mandate
         /\ mandate'[x].terms = mandate[x].terms
         /\ mandate'[x].pool_state = "Committed" => PoolOf(x) # NoPool
         /\ statement'[x] \in Seq(Entry)
         /\ Account(mandate'[x], statement'[x])
  <2> TAKE x \in DOMAIN mandate
  <2>1. CASE x = m
    BY <2>1, <1>1, <1>2, <1>4 DEF IInv, PoolLinked
  <2>2. CASE x # m
    BY <2>2, <1>4 DEF IInv, TypeOK, PoolLinked
  <2> QED  BY <2>1, <2>2
<1>6. /\ pool' = [q \in DOMAIN pool |-> pool'[q]]
      /\ \A q \in DOMAIN pool : pool'[q] \in ClearingPool /\ pool'[q] = pool[q]
  BY <1>3 DEF IInv, TypeOK
<1> QED
  BY <1>3, <1>4, <1>5, <1>6, RecordwiseKeeps

\* A pool that closes keeps its members listed.
LEMMA ClosedPool ==
    ASSUME IInv, NEW p \in DOMAIN pool, NEW st \in PoolStatus,
           pool' = [pool EXCEPT ![p].status = st]
    PROVE  /\ pool' = [q \in DOMAIN pool |-> pool'[q]]
           /\ \A q \in DOMAIN pool : /\ pool'[q] \in ClearingPool
                                     /\ pool'[q].members = pool[q].members
BY DEF IInv, TypeOK, ClearingPool

\* clear_pool's abort releases members and moves nothing.
LEMMA AbortPoolKeeps ==
    ASSUME IInv, NEW p \in DOMAIN pool, AbortPool(p), UNCHANGED now
    PROVE  IInv'
<1>1. /\ mandate' = [x \in DOMAIN mandate |-> mandate'[x]]
      /\ \A x \in DOMAIN mandate :
            /\ mandate'[x] \in Mandate
            /\ mandate'[x].terms = mandate[x].terms
            /\ mandate'[x].spent = mandate[x].spent
            /\ mandate'[x].seq = mandate[x].seq
            /\ mandate'[x].pool_state \in {mandate[x].pool_state, "Released"}
  BY DEF AbortPool, Release, IInv, TypeOK, Mandate, PoolState
<1>2. UNCHANGED statement
  BY DEF AbortPool
<1>3. /\ pool' = [q \in DOMAIN pool |-> pool'[q]]
      /\ \A q \in DOMAIN pool : /\ pool'[q] \in ClearingPool
                                /\ pool'[q].members = pool[q].members
  BY ClosedPool DEF AbortPool, PoolStatus
<1>4. \A x \in DOMAIN mandate :
         /\ statement'[x] \in Seq(Entry)
         /\ Account(mandate'[x], statement'[x])
         /\ mandate'[x].pool_state = "Committed" => PoolOf(x) # NoPool
  <2>1. \A x \in DOMAIN mandate : /\ statement'[x] \in Seq(Entry)
                                  /\ Account(mandate'[x], statement'[x])
    BY <1>1, <1>2, StatesKeepAccounts
  <2>2. \A x \in DOMAIN mandate : mandate'[x].pool_state = "Committed" => PoolOf(x) # NoPool
    BY <1>1 DEF IInv, PoolLinked
  <2> QED  BY <2>1, <2>2
<1> QED
  BY <1>1, <1>2, <1>3, <1>4, RecordwiseKeeps DEF IInv, TypeOK

\* What clearing returns for a pool as it stands: quantities for members that
\* are committed to it, registered against it, with their own demand.
LEMMA ClosingOutcomeShape ==
    ASSUME IInv, NEW p \in DOMAIN pool
    PROVE  /\ ClosingOutcome(p).clearing_price \in Nat
           /\ DOMAIN ClosingOutcome(p).allocations \subseteq Committed(p)
           /\ \A m \in DOMAIN ClosingOutcome(p).allocations :
                 /\ m \in DOMAIN mandate
                 /\ PoolOf(m) = p
                 /\ ClosingOutcome(p).allocations[m] =
                       Demand(Schedule(m), ClosingOutcome(p).clearing_price)
                 /\ ClosingOutcome(p).allocations[m] \in Nat \ {0}
<1>1. CASE now <= WindowEnd(p)
  <2> DEFINE kids == {m \in pool[p].members : Eligible(p, m)}
             schedule == [m \in kids |-> Schedule(m)]
             outcome == Clear(PoolTerms[p], kids, schedule, pool[p].fee_bps_pinned)
  <2>1. ClosingOutcome(p) = outcome
    BY <1>1 DEF ClosingOutcome, ClearNow
  <2>2. kids \subseteq Committed(p)
    BY DEF Committed, Eligible
  <2>3. \A m \in kids : m \in DOMAIN mandate /\ PoolOf(m) = p
    BY DEF IInv, PoolLinked
  <2>4. p \in Pools /\ p # NoPool
    BY RegistryAssumption DEF IInv, TypeOK
  <2>5. \A m \in kids : schedule[m] \in Seq(SchedulePoint) /\ ValidSchedule(schedule[m])
    BY <2>3, <2>4 DEF IInv, TypeOK, PoolLinked, Mandate, Terms, Schedule
  <2>6. PoolTerms[p].threshold_value \in Nat
    BY <2>4, RegistryAssumption
  <2>7. Outcome(kids, schedule, outcome)
    <3> HIDE DEF kids, schedule
    <3> QED  BY <2>5, <2>6, ClearOutcome
  <2>8. \A m \in kids : schedule[m] = Schedule(m)
    OBVIOUS
  <2> HIDE DEF kids, schedule, outcome
  <2> QED  BY <2>1, <2>2, <2>3, <2>7, <2>8 DEF Outcome
<1>2. CASE ~ (now <= WindowEnd(p))
  BY <1>2 DEF ClosingOutcome, NoFire
<1> QED
  BY <1>1, <1>2

\* clear_pool's capture charges each buyer its leg, to the pool's merchant,
\* which is the mandate's own.
LEMMA CapturePoolKeeps ==
    ASSUME IInv, NEW p \in DOMAIN pool, UNCHANGED now,
           CapturePool(p, ClosingOutcome(p))
    PROVE  IInv'
<1> DEFINE outcome == ClosingOutcome(p)
           bought  == DOMAIN outcome.allocations
           Leg(m)  == outcome.clearing_price * outcome.allocations[m]
           LegNet(m)  == Leg(m) - FeeOf(Leg(m), pool[p].fee_bps_pinned)
           t       == PoolTerms[p]
<1>1. bought \subseteq Committed(p)
  BY ClosingOutcomeShape
<1>2. \A m \in bought : /\ m \in DOMAIN mandate
                        /\ PoolOf(m) = p
                        /\ Leg(m) \in Nat
  <2> SUFFICES ASSUME NEW m \in bought
               PROVE  m \in DOMAIN mandate /\ PoolOf(m) = p /\ Leg(m) \in Nat
    OBVIOUS
  <2>1. /\ outcome.clearing_price \in Nat
        /\ outcome.allocations[m] \in Nat
        /\ m \in DOMAIN mandate /\ PoolOf(m) = p
    BY ClosingOutcomeShape
  <2> HIDE DEF outcome
  <2> QED  BY <2>1
<1>3. \A m \in bought : LegNet(m) = Leg(m)
  <2>1. pool[p].fee_bps_pinned = 0
    BY DEF IInv, TypeOK, ClearingPool
  <2>2. \A x \in Nat : x - FeeOf(x, 0) = x
    BY DEF FeeOf, BPS_DENOM
  <2> HIDE DEF Leg, bought
  <2> QED  BY <1>2, <2>1, <2>2
<1>4. \A m \in bought : /\ t.merchant = mandate[m].terms.merchant
                        /\ t.asset = mandate[m].terms.asset
  <2>1. p # NoPool
    BY RegistryAssumption DEF IInv, TypeOK
  <2> HIDE DEF bought
  <2> QED  BY <1>2, <2>1 DEF IInv, PoolLinked
<1>5. /\ \A m \in Committed(p) \cap bought :
            mandate[m].spent + Leg(m) <= mandate[m].terms.max_amount
      /\ pool' = [pool EXCEPT ![p].status = "Cleared"]
      /\ mandate' = [m \in DOMAIN mandate |->
            IF m \notin Committed(p) THEN mandate[m]
            ELSE IF m \in bought
            THEN [Consume(mandate[m], Leg(m)) EXCEPT !.pool_state = "Captured"]
            ELSE [mandate[m] EXCEPT !.pool_state = "Released"]]
      /\ statement' = [m \in DOMAIN statement |->
            IF m \in bought
            THEN Transferred(m, mandate[m].seq, LegNet(m), t.merchant, t.asset)
            ELSE statement[m]]
  BY DEF CapturePool
<1> HIDE DEF outcome, bought, Leg, LegNet, t
<1>6. /\ mandate' = [x \in DOMAIN mandate |-> mandate'[x]]
      /\ statement' = [x \in DOMAIN mandate |-> statement'[x]]
  BY <1>5 DEF IInv, TypeOK
<1>7. \A x \in DOMAIN mandate :
         /\ mandate'[x] \in Mandate
         /\ mandate'[x].terms = mandate[x].terms
         /\ mandate'[x].pool_state = "Committed" => PoolOf(x) # NoPool
         /\ statement'[x] \in Seq(Entry)
         /\ Account(mandate'[x], statement'[x])
  <2> TAKE x \in DOMAIN mandate
  <2>0. /\ mandate[x] \in Mandate
        /\ statement[x] \in Seq(Entry)
        /\ Account(mandate[x], statement[x])
        /\ x \in DOMAIN statement
    BY DEF IInv, TypeOK
  <2>1. CASE x \in bought
    <3> DEFINE r == Consume(mandate[x], Leg(x))
               q == [r EXCEPT !.pool_state = "Captured"]
               s == Transferred(x, mandate[x].seq, Leg(x), t.merchant, t.asset)
    <3>1. /\ r \in Mandate
          /\ r.terms = mandate[x].terms
          /\ s \in Seq(Entry)
          /\ Account(r, s)
      BY <1>1, <1>2, <1>4, <1>5, <2>1, ChargeKeeps
    <3>2. mandate'[x] = q /\ statement'[x] = s
      BY <1>1, <1>3, <1>5, <2>0, <2>1
    <3> HIDE DEF r, s
    <3>3. q \in Mandate /\ q.terms = r.terms /\ q.spent = r.spent /\ q.seq = r.seq
          /\ q.pool_state = "Captured"
      BY <3>1 DEF Mandate, PoolState
    <3> HIDE DEF q
    <3> QED  BY <3>1, <3>2, <3>3, StateKeepsAccount
  <2>2. CASE x \in Committed(p) /\ x \notin bought
    <3> DEFINE q == [mandate[x] EXCEPT !.pool_state = "Released"]
    <3>1. mandate'[x] = q /\ statement'[x] = statement[x]
      BY <1>5, <2>0, <2>2
    <3>2. /\ q \in Mandate /\ q.terms = mandate[x].terms /\ q.pool_state = "Released"
          /\ q.spent = mandate[x].spent /\ q.seq = mandate[x].seq
      BY <2>0 DEF Mandate, PoolState
    <3> HIDE DEF q
    <3> QED  BY <2>0, <3>1, <3>2, StateKeepsAccount
  <2>3. CASE x \notin Committed(p) /\ x \notin bought
    BY <1>5, <2>0, <2>3 DEF IInv, PoolLinked
  <2> QED  BY <1>1, <2>1, <2>2, <2>3
<1>8. /\ pool' = [q \in DOMAIN pool |-> pool'[q]]
      /\ \A q \in DOMAIN pool : /\ pool'[q] \in ClearingPool
                                /\ pool'[q].members = pool[q].members
  BY <1>5, ClosedPool DEF PoolStatus
<1> QED
  BY <1>6, <1>7, <1>8, RecordwiseKeeps

-----------------------------------------------------------------------------
(* The invariant and what follows from it                                  *)

\* Every step keeps the invariant.
LEMMA NextKeeps == IInv /\ [Next]_vars => IInv'
<1> SUFFICES ASSUME IInv, [Next]_vars  PROVE IInv'
  OBVIOUS
<1>1. ASSUME NEW m \in Mandates, NEW t \in Offers[m], RegisterMandate(m, t)  PROVE IInv'
  BY <1>1, RegisterMandateKeeps
<1>2. ASSUME NEW m \in Mandates, RevokeMandate(m)  PROVE IInv'
  BY <1>2, RevokeMandateKeeps
<1>3. ASSUME NEW m \in Mandates, NEW amount \in PayAmounts, NEW n \in ExpectedSeqs,
             ExecutePayment(m, amount, n)
      PROVE  IInv'
  BY <1>3, ExecutePaymentKeeps
<1>4. ASSUME NEW p \in Pools, RegisterPool(p)  PROVE IInv'
  BY <1>4, RegisterPoolKeeps
<1>5. ASSUME NEW m \in Mandates, CommitChild(m)  PROVE IInv'
  BY <1>5, CommitChildKeeps
<1>6. ASSUME NEW p \in Pools, NEW m \in Mandates, EvictChild(p, m)  PROVE IInv'
  BY <1>6, EvictChildKeeps
<1>7. ASSUME NEW p \in Pools, ClearPool(p)  PROVE IInv'
  BY <1>7, AbortPoolKeeps, CapturePoolKeeps DEF ClearPool
<1>8. CASE Tick
  <2>1. now' \in Nat
    BY <1>8 DEF Tick, IInv, TypeOK
  <2> QED  BY <1>8, <2>1, OutsideKeeps DEF Tick
<1>9. CASE Wallet
  BY <1>9, OutsideKeeps DEF Wallet, IInv, TypeOK
<1>10. CASE UNCHANGED vars
  BY <1>10, OutsideKeeps DEF vars, IInv, TypeOK
<1> QED
  BY <1>1, <1>2, <1>3, <1>4, <1>5, <1>6, <1>7, <1>8, <1>9, <1>10 DEF Next

\* The invariant is one.
LEMMA Invariance == Spec => []IInv
<1> QED
  BY InitKeeps, NextKeeps, PTL DEF Spec

\* Storage keeps its types through every call of the contract.
THEOREM TypeCorrect == Spec => []TypeOK
<1>1. IInv => TypeOK
  BY DEF IInv
<1> QED
  BY <1>1, Invariance, PTL

\* On both money paths the budget consumed is the money moved, within the
\* amount the user signed.
THEOREM BudgetIsTransferred == Spec => []SpentIsTransferred
<1>1. IInv => SpentIsTransferred
  BY DEF IInv, SpentIsTransferred, Account, Paid
<1> QED
  BY <1>1, Invariance, PTL

\* One transfer per sequence number, however the two money paths alternate.
THEOREM SequenceOnce == Spec => []SequenceConsumedOnce
<1>1. IInv => SequenceConsumedOnce
  BY DEF IInv, SequenceConsumedOnce, Account
<1> QED
  BY <1>1, Invariance, PTL

\* No caller, pool or member can turn a payment away from the signed payee.
THEOREM SignedPayee == Spec => []PaysSignedPayee
<1>1. IInv => PaysSignedPayee
  BY DEF IInv, PaysSignedPayee, Account
<1> QED
  BY <1>1, Invariance, PTL

-----------------------------------------------------------------------------
(* The clearing pools                                                      *)

\* A mandate that may join a pool outlives the pool's capture window.
PooledOutlives ==
    \A m \in DOMAIN mandate :
        PoolOf(m) # NoPool => mandate[m].terms.expiry > WindowEnd(PoolOf(m))

PoolInv == IInv /\ MembershipAgrees /\ PooledOutlives /\ CommittedIsSound

-----------------------------------------------------------------------------
(* Membership                                                              *)

\* Steps that commit nobody and release nobody leave every pool's books right.
LEMMA MembershipStays ==
    ASSUME IInv, MembershipAgrees,
           \A m \in DOMAIN mandate : /\ m \in DOMAIN mandate'
                                     /\ mandate'[m].terms = mandate[m].terms,
           \A m \in DOMAIN mandate' :
              mandate'[m].pool_state = "Committed"
                 <=> m \in DOMAIN mandate /\ mandate[m].pool_state = "Committed",
           \A p \in DOMAIN pool : p \in DOMAIN pool' /\ pool'[p] = pool[p],
           \A p \in DOMAIN pool' : p \notin DOMAIN pool =>
              pool'[p].members = {} /\ pool'[p].member_count = 0
    PROVE  MembershipAgrees'
<1>1. \A m \in DOMAIN mandate : PoolOf(m)' = PoolOf(m)
  BY DEF PoolOf
<1>2. \A m \in DOMAIN mandate :
         mandate[m].pool_state = "Committed" =>
             PoolOf(m) \in DOMAIN pool /\ pool[PoolOf(m)].status = "Open"
  BY DEF MembershipAgrees
<1>3. ASSUME NEW p \in DOMAIN pool', pool'[p].status = "Open"
      PROVE  /\ pool'[p].members = {m \in DOMAIN mandate' :
                                       /\ PoolOf(m)' = p
                                       /\ mandate'[m].pool_state = "Committed"}
             /\ pool'[p].member_count = Cardinality(pool'[p].members)
             /\ pool'[p].member_count <= MaxPoolMembers
  <2>1. CASE p \in DOMAIN pool
    <3>1. /\ pool[p].members = {m \in DOMAIN mandate :
                                   /\ PoolOf(m) = p
                                   /\ mandate[m].pool_state = "Committed"}
          /\ pool[p].member_count = Cardinality(pool[p].members)
          /\ pool[p].member_count <= MaxPoolMembers
          /\ pool'[p] = pool[p]
      BY <1>3, <2>1 DEF MembershipAgrees
    <3> QED  BY <1>1, <3>1
  <2>2. CASE p \notin DOMAIN pool
    <3>1. pool'[p].members = {} /\ pool'[p].member_count = 0
      BY <2>2
    <3>2. Cardinality({}) = 0 /\ 0 <= MaxPoolMembers
      BY FS_EmptySet, RegistryAssumption
    <3>3. \A m \in DOMAIN mandate' :
             ~ (PoolOf(m)' = p /\ mandate'[m].pool_state = "Committed")
      BY <1>1, <1>2, <2>2
    <3> QED  BY <3>1, <3>2, <3>3
  <2> QED  BY <2>1, <2>2
<1>4. \A m \in DOMAIN mandate' :
         mandate'[m].pool_state = "Committed" =>
             PoolOf(m)' \in DOMAIN pool' /\ pool'[PoolOf(m)'].status = "Open"
  BY <1>1, <1>2
<1> QED
  BY <1>3, <1>4 DEF MembershipAgrees

\* A member of an open pool is counted, so that giving its slot back is exact.
LEMMA MemberLeaves ==
    ASSUME IInv, MembershipAgrees,
           NEW p \in DOMAIN pool, pool[p].status = "Open",
           NEW m \in DOMAIN mandate, PoolOf(m) = p,
           mandate[m].pool_state = "Committed",
           pool' = WithoutMember(p, m),
           DOMAIN mandate' = DOMAIN mandate,
           mandate'[m].terms = mandate[m].terms,
           mandate'[m].pool_state # "Committed",
           \A x \in DOMAIN mandate : x # m => mandate'[x] = mandate[x]
    PROVE  MembershipAgrees'
<1>1. \A x \in DOMAIN mandate : PoolOf(x)' = PoolOf(x)
  BY DEF PoolOf
<1>2. /\ pool[p].members = {x \in DOMAIN mandate :
                               /\ PoolOf(x) = p
                               /\ mandate[x].pool_state = "Committed"}
      /\ pool[p].member_count = Cardinality(pool[p].members)
      /\ pool[p].member_count <= MaxPoolMembers
  BY DEF MembershipAgrees
<1>3. pool[p] \in ClearingPool /\ pool[p].member_count \in Nat
  BY DEF IInv, TypeOK, ClearingPool
<1>4. IsFiniteSet(pool[p].members)
  BY <1>3, RegistryAssumption, FS_Subset DEF ClearingPool
<1>5. /\ Cardinality(pool[p].members \ {m}) = pool[p].member_count - 1
      /\ pool[p].member_count # 0
  <2>1. Cardinality(pool[p].members \ {m}) = pool[p].member_count - 1
    <3>1. m \in pool[p].members
      BY <1>2
    <3>2. Cardinality(pool[p].members \ {m}) = Cardinality(pool[p].members) - 1
      BY <3>1, <1>4, FS_RemoveElement
    <3> QED  BY <3>2, <1>2
  <2>2. pool[p].member_count # 0
    BY <1>2, <1>4, FS_EmptySet
  <2> QED  BY <2>1, <2>2
<1>6. /\ DOMAIN pool' = DOMAIN pool
      /\ \A q \in DOMAIN pool : q # p => pool'[q] = pool[q]
      /\ pool'[p].status = "Open"
      /\ pool'[p].members = pool[p].members \ {m}
      /\ pool'[p].member_count = pool[p].member_count - 1
  <2> DEFINE S == pool[p].members \ {m}
             n == IF pool[p].member_count = 0 THEN 0 ELSE pool[p].member_count - 1
             r == [pool[p] EXCEPT !.members = S, !.member_count = n]
  <2>1. pool' = [pool EXCEPT ![p] = r]
    BY DEF WithoutMember
  <2>2. n = pool[p].member_count - 1
    BY <1>5
  <2>3. r.status = pool[p].status /\ r.members = S /\ r.member_count = n
    <3>1. pool[p] = [status |-> pool[p].status, members |-> pool[p].members,
                     member_count |-> pool[p].member_count,
                     fee_bps_pinned |-> pool[p].fee_bps_pinned]
      BY <1>3 DEF ClearingPool
    <3> HIDE DEF S, n
    <3> QED  BY <3>1
  <2> HIDE DEF r, n
  <2> QED  BY <2>1, <2>2, <2>3
<1>7. ASSUME NEW q \in DOMAIN pool', pool'[q].status = "Open"
      PROVE  /\ pool'[q].members = {x \in DOMAIN mandate' :
                                       /\ PoolOf(x)' = q
                                       /\ mandate'[x].pool_state = "Committed"}
             /\ pool'[q].member_count = Cardinality(pool'[q].members)
             /\ pool'[q].member_count <= MaxPoolMembers
  <2>1. CASE q = p
    <3>1. pool'[p].members = {x \in DOMAIN mandate' :
                                 /\ PoolOf(x)' = p
                                 /\ mandate'[x].pool_state = "Committed"}
      BY <1>1, <1>2, <1>6
    <3>2. pool[p].member_count - 1 <= MaxPoolMembers
      BY <1>2, <1>3, RegistryAssumption
    <3> QED  BY <2>1, <3>1, <3>2, <1>5, <1>6
  <2>2. CASE q # p
    <3>1. /\ q \in DOMAIN pool
          /\ pool'[q] = pool[q]
      BY <2>2, <1>6
    <3>2. /\ pool[q].members = {x \in DOMAIN mandate :
                                   /\ PoolOf(x) = q
                                   /\ mandate[x].pool_state = "Committed"}
          /\ pool[q].member_count = Cardinality(pool[q].members)
          /\ pool[q].member_count <= MaxPoolMembers
      BY <1>7, <3>1 DEF MembershipAgrees
    <3> QED  BY <2>2, <3>1, <3>2, <1>1
  <2> QED  BY <2>1, <2>2
<1>8. \A x \in DOMAIN mandate' :
         mandate'[x].pool_state = "Committed" =>
             PoolOf(x)' \in DOMAIN pool' /\ pool'[PoolOf(x)'].status = "Open"
  BY <1>1, <1>6 DEF MembershipAgrees
<1> QED
  BY <1>7, <1>8 DEF MembershipAgrees

\* commit_child takes one more slot of a pool that is not full.
LEMMA MemberJoins ==
    ASSUME IInv, MembershipAgrees, NEW m \in Mandates, CommitChild(m)
    PROVE  MembershipAgrees'
<1> DEFINE p == PoolOf(m)
<1>1. /\ m \in DOMAIN mandate
      /\ p \in DOMAIN pool
      /\ mandate[m].pool_state = "Unlinked"
      /\ pool[p].status = "Open"
      /\ pool[p].member_count < MaxPoolMembers
      /\ mandate' = [mandate EXCEPT ![m].pool_state = "Committed"]
      /\ pool' = [pool EXCEPT ![p].members = @ \cup {m}, ![p].member_count = @ + 1]
  BY DEF CommitChild
<1>2. /\ DOMAIN mandate' = DOMAIN mandate
      /\ mandate'[m].terms = mandate[m].terms
      /\ mandate'[m].pool_state = "Committed"
      /\ \A x \in DOMAIN mandate : x # m => mandate'[x] = mandate[x]
  BY <1>1 DEF IInv, TypeOK, Mandate
<1> HIDE DEF p
<1>3. \A x \in DOMAIN mandate : PoolOf(x)' = PoolOf(x)
  BY <1>2 DEF PoolOf
<1>4. /\ pool[p].members = {x \in DOMAIN mandate :
                               /\ PoolOf(x) = p
                               /\ mandate[x].pool_state = "Committed"}
      /\ pool[p].member_count = Cardinality(pool[p].members)
  BY <1>1 DEF MembershipAgrees
<1>5. pool[p] \in ClearingPool /\ pool[p].member_count \in Nat
  BY <1>1 DEF IInv, TypeOK, ClearingPool
<1>6. Cardinality(pool[p].members \cup {m}) = pool[p].member_count + 1
  <2>1. IsFiniteSet(pool[p].members)
    BY <1>5, RegistryAssumption, FS_Subset DEF ClearingPool
  <2>2. m \notin pool[p].members
    BY <1>1, <1>4
  <2> QED  BY <1>4, <2>1, <2>2, FS_AddElement
<1>7. /\ DOMAIN pool' = DOMAIN pool
      /\ \A q \in DOMAIN pool : q # p => pool'[q] = pool[q]
      /\ pool'[p].status = "Open"
      /\ pool'[p].members = pool[p].members \cup {m}
      /\ pool'[p].member_count = pool[p].member_count + 1
  <2> DEFINE S == pool[p].members \cup {m}
             n == pool[p].member_count + 1
             r == [pool[p] EXCEPT !.members = S, !.member_count = n]
  <2>1. pool' = [pool EXCEPT ![p] = r]
    BY <1>1
  <2>2. r.status = pool[p].status /\ r.members = S /\ r.member_count = n
    <3>1. pool[p] = [status |-> pool[p].status, members |-> pool[p].members,
                     member_count |-> pool[p].member_count,
                     fee_bps_pinned |-> pool[p].fee_bps_pinned]
      BY <1>5 DEF ClearingPool
    <3> HIDE DEF S, n
    <3> QED  BY <3>1
  <2> HIDE DEF r
  <2> QED  BY <1>1, <2>1, <2>2
<1>8. ASSUME NEW q \in DOMAIN pool', pool'[q].status = "Open"
      PROVE  /\ pool'[q].members = {x \in DOMAIN mandate' :
                                       /\ PoolOf(x)' = q
                                       /\ mandate'[x].pool_state = "Committed"}
             /\ pool'[q].member_count = Cardinality(pool'[q].members)
             /\ pool'[q].member_count <= MaxPoolMembers
  <2>1. CASE q = p
    <3>1. PoolOf(m) = p /\ m \in DOMAIN mandate
      BY <1>1 DEF p
    <3>2. pool'[p].members = {x \in DOMAIN mandate' :
                                 /\ PoolOf(x)' = p
                                 /\ mandate'[x].pool_state = "Committed"}
      BY <1>2, <1>3, <1>4, <1>7, <3>1
    <3>3. pool[p].member_count + 1 <= MaxPoolMembers
      BY <1>1, <1>5, RegistryAssumption
    <3> QED  BY <2>1, <3>2, <3>3, <1>6, <1>7
  <2>2. CASE q # p
    <3>1. q \in DOMAIN pool /\ pool'[q] = pool[q] /\ PoolOf(m) # q
      BY <2>2, <1>7 DEF p
    <3>2. /\ pool[q].members = {x \in DOMAIN mandate :
                                   /\ PoolOf(x) = q
                                   /\ mandate[x].pool_state = "Committed"}
          /\ pool[q].member_count = Cardinality(pool[q].members)
          /\ pool[q].member_count <= MaxPoolMembers
      BY <1>8, <3>1 DEF MembershipAgrees
    <3> QED  BY <3>1, <3>2, <1>2, <1>3
  <2> QED  BY <2>1, <2>2
<1>9. \A x \in DOMAIN mandate' :
         mandate'[x].pool_state = "Committed" =>
             PoolOf(x)' \in DOMAIN pool' /\ pool'[PoolOf(x)'].status = "Open"
  BY <1>1, <1>2, <1>3, <1>7 DEF MembershipAgrees, p
<1> QED
  BY <1>8, <1>9 DEF MembershipAgrees

\* What a charge changes and what it leaves alone.
LEMMA ConsumeFrame ==
    ASSUME NEW r \in Mandate, NEW amount
    PROVE  /\ Consume(r, amount).terms = r.terms
           /\ Consume(r, amount).pool_state = r.pool_state
           /\ Consume(r, amount).spent = r.spent + amount
           /\ Consume(r, amount).status \in {r.status, "Exhausted"}
           /\ [Consume(r, amount) EXCEPT !.pool_state = "Captured"].spent = r.spent + amount
           /\ [Consume(r, amount) EXCEPT !.pool_state = "Captured"].terms = r.terms
           /\ [Consume(r, amount) EXCEPT !.pool_state = "Captured"].pool_state = "Captured"
           /\ [Consume(r, amount) EXCEPT !.pool_state = "Captured"].status
                 \in {r.status, "Exhausted"}
<1> DEFINE st == IF r.spent + amount = r.terms.max_amount THEN "Exhausted" ELSE r.status
           sp == r.spent + amount
           sq == r.seq + 1
<1>1. Consume(r, amount) = [r EXCEPT !.spent = sp, !.seq = sq, !.status = st]
  BY DEF Consume
<1>2. r = [terms |-> r.terms, spent |-> r.spent, seq |-> r.seq,
           status |-> r.status, pool_state |-> r.pool_state]
  BY DEF Mandate
<1>3. st \in {r.status, "Exhausted"} /\ sp = r.spent + amount
  OBVIOUS
<1> HIDE DEF st, sp, sq
<1> QED
  BY <1>1, <1>2, <1>3

\* Closing a pool, whichever way it ends, settles all of its members at once
\* and nobody else.
LEMMA Closing ==
    ASSUME IInv, NEW p \in Pools, ClearPool(p)
    PROVE  /\ p \in DOMAIN pool
           /\ pool[p].status = "Open"
           /\ now >= Deadline(p)
           /\ DOMAIN pool' = DOMAIN pool
           /\ \A q \in DOMAIN pool : q # p => pool'[q] = pool[q]
           /\ pool'[p].status = IF ClosingOutcome(p).fires THEN "Cleared" ELSE "Aborted"
           /\ pool'[p].members = pool[p].members
           /\ DOMAIN mandate' = DOMAIN mandate
           /\ \A m \in DOMAIN mandate :
                 /\ mandate'[m].terms = mandate[m].terms
                 /\ m \in Committed(p) => mandate'[m].pool_state \in {"Captured", "Released"}
                 /\ m \notin Committed(p) => mandate'[m] = mandate[m]
<1> DEFINE outcome == ClosingOutcome(p)
<1>1. /\ p \in DOMAIN pool
      /\ pool[p].status = "Open"
      /\ now >= Deadline(p)
  BY DEF ClearPool, DeadlineReached
<1>2. ASSUME NEW st, pool' = [pool EXCEPT ![p].status = st]
      PROVE  /\ DOMAIN pool' = DOMAIN pool
             /\ \A q \in DOMAIN pool : q # p => pool'[q] = pool[q]
             /\ pool'[p].status = st
             /\ pool'[p].members = pool[p].members
  BY <1>1, <1>2 DEF IInv, TypeOK, ClearingPool
<1>3. \A m \in DOMAIN mandate : mandate[m] \in Mandate
  BY DEF IInv, TypeOK
<1>4. CASE ~ outcome.fires /\ AbortPool(p)
  <2>1. /\ pool' = [pool EXCEPT ![p].status = "Aborted"]
        /\ mandate' = Release(Committed(p))
    BY <1>4 DEF AbortPool
  <2>2. \A m \in DOMAIN mandate :
           /\ [mandate[m] EXCEPT !.pool_state = "Released"].terms = mandate[m].terms
           /\ [mandate[m] EXCEPT !.pool_state = "Released"].pool_state = "Released"
    BY <1>3 DEF Mandate
  <2>3. /\ DOMAIN mandate' = DOMAIN mandate
        /\ \A m \in DOMAIN mandate :
              mandate'[m] = IF m \in Committed(p)
                            THEN [mandate[m] EXCEPT !.pool_state = "Released"]
                            ELSE mandate[m]
    BY <2>1 DEF Release
  <2>4. /\ DOMAIN pool' = DOMAIN pool
        /\ \A q \in DOMAIN pool : q # p => pool'[q] = pool[q]
        /\ pool'[p].status = "Aborted"
        /\ pool'[p].members = pool[p].members
    BY <1>2, <2>1
  <2>5. \A m \in DOMAIN mandate :
           /\ mandate'[m].terms = mandate[m].terms
           /\ m \in Committed(p) => mandate'[m].pool_state = "Released"
           /\ m \notin Committed(p) => mandate'[m] = mandate[m]
    BY <2>2, <2>3
  <2>6. ~ ClosingOutcome(p).fires
    BY <1>4
  <2> HIDE DEF outcome
  <2> QED  BY <1>1, <2>3, <2>4, <2>5, <2>6
<1>5. CASE outcome.fires /\ CapturePool(p, outcome)
  <2> DEFINE Leg(m) == outcome.clearing_price * outcome.allocations[m]
  <2>1. pool' = [pool EXCEPT ![p].status = "Cleared"]
    BY <1>5 DEF CapturePool
  <2>2. mandate' = [m \in DOMAIN mandate |->
              IF m \notin Committed(p) THEN mandate[m]
              ELSE IF m \in DOMAIN outcome.allocations
              THEN [Consume(mandate[m], Leg(m)) EXCEPT !.pool_state = "Captured"]
              ELSE [mandate[m] EXCEPT !.pool_state = "Released"]]
    BY <1>5 DEF CapturePool
  <2>3. \A m \in DOMAIN mandate :
           /\ [mandate[m] EXCEPT !.pool_state = "Released"].terms = mandate[m].terms
           /\ [mandate[m] EXCEPT !.pool_state = "Released"].pool_state = "Released"
    BY <1>3 DEF Mandate
  <2> HIDE DEF Leg, outcome
  <2>4. \A m \in DOMAIN mandate :
           LET r == [Consume(mandate[m], Leg(m)) EXCEPT !.pool_state = "Captured"]
           IN  r.terms = mandate[m].terms /\ r.pool_state = "Captured"
    BY <1>3, ConsumeFrame
  <2>5. DOMAIN mandate' = DOMAIN mandate
    BY <2>2
  <2>6. ASSUME NEW m \in DOMAIN mandate
        PROVE  /\ mandate'[m].terms = mandate[m].terms
               /\ m \in Committed(p) => mandate'[m].pool_state \in {"Captured", "Released"}
               /\ m \notin Committed(p) => mandate'[m] = mandate[m]
    BY <2>2, <2>3, <2>4
  <2> QED  BY <1>1, <1>2, <1>5, <2>1, <2>5, <2>6 DEF outcome
<1> QED
  BY <1>4, <1>5 DEF ClearPool

\* No member is left behind in a pool that closes.
LEMMA MembersSettled ==
    ASSUME IInv, MembershipAgrees, NEW p \in Pools, ClearPool(p)
    PROVE  MembershipAgrees'
<1>1. /\ p \in DOMAIN pool
      /\ pool[p].status = "Open"
      /\ DOMAIN pool' = DOMAIN pool
      /\ \A q \in DOMAIN pool : q # p => pool'[q] = pool[q]
      /\ pool'[p].status # "Open"
      /\ DOMAIN mandate' = DOMAIN mandate
      /\ \A m \in DOMAIN mandate :
            /\ mandate'[m].terms = mandate[m].terms
            /\ m \in Committed(p) => mandate'[m].pool_state # "Committed"
            /\ m \notin Committed(p) => mandate'[m] = mandate[m]
  BY Closing
<1>2. \A x \in DOMAIN mandate : PoolOf(x)' = PoolOf(x)
  BY <1>1 DEF PoolOf
<1>3. \A m \in DOMAIN mandate :
         m \in Committed(p) <=> PoolOf(m) = p /\ mandate[m].pool_state = "Committed"
  BY <1>1 DEF MembershipAgrees, Committed
<1>4. ASSUME NEW q \in DOMAIN pool', pool'[q].status = "Open"
      PROVE  /\ pool'[q].members = {x \in DOMAIN mandate' :
                                       /\ PoolOf(x)' = q
                                       /\ mandate'[x].pool_state = "Committed"}
             /\ pool'[q].member_count = Cardinality(pool'[q].members)
             /\ pool'[q].member_count <= MaxPoolMembers
  <2>1. q # p /\ q \in DOMAIN pool /\ pool'[q] = pool[q]
    BY <1>1, <1>4
  <2>2. /\ pool[q].members = {x \in DOMAIN mandate :
                                 /\ PoolOf(x) = q
                                 /\ mandate[x].pool_state = "Committed"}
        /\ pool[q].member_count = Cardinality(pool[q].members)
        /\ pool[q].member_count <= MaxPoolMembers
    BY <1>4, <2>1 DEF MembershipAgrees
  <2> QED  BY <1>1, <1>2, <1>3, <2>1, <2>2
<1>5. \A x \in DOMAIN mandate' :
         mandate'[x].pool_state = "Committed" =>
             PoolOf(x)' \in DOMAIN pool' /\ pool'[PoolOf(x)'].status = "Open"
  BY <1>1, <1>2, <1>3 DEF MembershipAgrees
<1> QED
  BY <1>4, <1>5 DEF MembershipAgrees

-----------------------------------------------------------------------------
(* What a commitment is worth                                              *)

\* Commitments stay sound through a step that leaves those there are as they
\* were and admits new ones only when they are sound themselves.
LEMMA CommitmentsStaySound ==
    ASSUME PoolInv, IInv',
           \A m \in DOMAIN mandate : /\ m \in DOMAIN mandate'
                                     /\ mandate'[m].terms = mandate[m].terms,
           \A m \in DOMAIN mandate' : m \notin DOMAIN mandate /\ PoolOf(m)' # NoPool
              => mandate'[m].terms.expiry > WindowEnd(PoolOf(m)'),
           \A m \in DOMAIN mandate' : mandate'[m].pool_state = "Committed" =>
              /\ m \in DOMAIN mandate
              /\ \/ mandate'[m] = mandate[m]
                 \/ /\ mandate'[m].status = "Active"
                    /\ mandate'[m].terms.max_amount - mandate'[m].spent
                          >= WorstCase(mandate'[m].terms.price_schedule)
                    /\ \A x \in DOMAIN mandate' :
                          /\ mandate'[x].pool_state = "Committed"
                          /\ PoolOf(x)' = PoolOf(m)'
                          /\ mandate'[x].terms.user = mandate'[m].terms.user
                          => x = m
    PROVE  PooledOutlives' /\ CommittedIsSound'
<1>1. \A m \in DOMAIN mandate : PoolOf(m)' = PoolOf(m) /\ Schedule(m)' = Schedule(m)
  BY DEF PoolOf, Schedule
<1>2. PooledOutlives'
  BY <1>1 DEF PoolInv, PooledOutlives, WindowEnd, Deadline
<1>3. ASSUME NEW p \in DOMAIN pool', pool'[p].status = "Open", NEW m \in Committed(p)'
      PROVE  /\ mandate'[m].status = "Active"
             /\ mandate'[m].terms.max_amount - mandate'[m].spent >= WorstCase(Schedule(m)')
             /\ mandate'[m].terms.expiry > WindowEnd(p)'
             /\ \A x \in Committed(p)' :
                   mandate'[x].terms.user = mandate'[m].terms.user => x = m
  <2>1. \A x \in Committed(p)' : /\ x \in DOMAIN mandate'
                                 /\ x \in DOMAIN mandate
                                 /\ PoolOf(x)' = p
                                 /\ PoolOf(x) = p
                                 /\ mandate'[x].pool_state = "Committed"
    BY <1>1, <1>3 DEF IInv, PoolLinked, Committed
  <2>2. mandate'[m].terms.expiry > WindowEnd(p)'
    <3>1. p \in Pools /\ p # NoPool
      BY RegistryAssumption DEF IInv, TypeOK
    <3> QED  BY <2>1, <3>1, <1>2 DEF PooledOutlives, WindowEnd, Deadline
  <2>3. CASE mandate'[m] = mandate[m]
    <3>1. /\ PoolOf(m) \in DOMAIN pool
          /\ pool[p].status = "Open"
          /\ m \in Committed(p)
      BY <2>1, <2>3 DEF PoolInv, MembershipAgrees, Committed
    <3>2. /\ mandate[m].status = "Active"
          /\ mandate[m].terms.max_amount - mandate[m].spent >= WorstCase(Schedule(m))
          /\ \A x \in Committed(p) :
                mandate[x].terms.user = mandate[m].terms.user => x = m
      BY <2>1, <3>1 DEF PoolInv, CommittedIsSound
    <3>3. ASSUME NEW x \in Committed(p)', mandate'[x].terms.user = mandate'[m].terms.user
          PROVE  x = m
      <4>1. CASE mandate'[x] = mandate[x]
        <5>1. x \in Committed(p)
          BY <2>1, <4>1 DEF PoolInv, MembershipAgrees, Committed
        <5> QED  BY <2>1, <3>2, <3>3, <5>1
      <4>2. CASE mandate'[x] # mandate[x]
        <5>1. m = x
          BY <2>1, <3>3, <4>2
        <5> QED  BY <5>1
      <4> QED  BY <4>1, <4>2
    <3> QED  BY <2>1, <2>2, <2>3, <3>2, <3>3, <1>1
  <2>4. CASE mandate'[m] # mandate[m]
    BY <2>1, <2>2, <2>4 DEF Schedule
  <2> QED  BY <2>3, <2>4
<1> QED
  BY <1>2, <1>3 DEF CommittedIsSound

-----------------------------------------------------------------------------
(* The actions                                                             *)

\* Consent withdrawn frees the slot of a member exactly when there is one.
LEMMA Revoking ==
    ASSUME IInv, MembershipAgrees, NEW m \in Mandates, RevokeMandate(m)
    PROVE  /\ m \in DOMAIN mandate
           /\ DOMAIN mandate' = DOMAIN mandate
           /\ mandate'[m].terms = mandate[m].terms
           /\ mandate'[m].status = "Revoked"
           /\ mandate'[m].pool_state = IF mandate[m].pool_state = "Committed"
                                       THEN "Released" ELSE mandate[m].pool_state
           /\ \A x \in DOMAIN mandate : x # m => mandate'[x] = mandate[x]
           /\ \/ /\ mandate[m].pool_state = "Committed"
                 /\ pool' = WithoutMember(PoolOf(m), m)
                 /\ PoolOf(m) \in DOMAIN pool
                 /\ pool[PoolOf(m)].status = "Open"
              \/ /\ mandate[m].pool_state # "Committed"
                 /\ pool' = pool
           /\ UNCHANGED <<now, statement>>
<1>1. m \in DOMAIN mandate /\ mandate[m] \in Mandate /\ UNCHANGED <<now, statement>>
  BY DEF RevokeMandate, IInv, TypeOK
<1>2. mandate[m].pool_state = "Committed" =>
         /\ PoolOf(m) # NoPool
         /\ PoolOf(m) \in DOMAIN pool
         /\ pool[PoolOf(m)].status = "Open"
  BY <1>1 DEF MembershipAgrees, IInv, PoolLinked
<1>3. CASE mandate[m].pool_state = "Committed"
  <2>1. /\ pool' = WithoutMember(PoolOf(m), m)
        /\ mandate' = [mandate EXCEPT ![m].status = "Revoked", ![m].pool_state = "Released"]
    BY <1>2, <1>3 DEF RevokeMandate
  <2>2. /\ DOMAIN mandate' = DOMAIN mandate
        /\ mandate'[m].terms = mandate[m].terms
        /\ mandate'[m].status = "Revoked"
        /\ mandate'[m].pool_state = "Released"
        /\ \A x \in DOMAIN mandate : x # m => mandate'[x] = mandate[x]
    BY <1>1, <2>1 DEF Mandate
  <2> QED  BY <1>1, <1>2, <1>3, <2>1, <2>2
<1>4. CASE mandate[m].pool_state # "Committed"
  <2>1. /\ pool' = pool
        /\ mandate' = [mandate EXCEPT ![m].status = "Revoked"]
    BY <1>4 DEF RevokeMandate
  <2>2. /\ DOMAIN mandate' = DOMAIN mandate
        /\ mandate'[m].terms = mandate[m].terms
        /\ mandate'[m].status = "Revoked"
        /\ mandate'[m].pool_state = mandate[m].pool_state
        /\ \A x \in DOMAIN mandate : x # m => mandate'[x] = mandate[x]
    BY <1>1, <2>1 DEF Mandate
  <2> QED  BY <1>1, <1>4, <2>1, <2>2
<1> QED
  BY <1>3, <1>4

\* Eviction frees the slot of a member that could not pay.
LEMMA Evicting ==
    ASSUME IInv, NEW p \in Pools, NEW m \in Mandates, EvictChild(p, m)
    PROVE  /\ p \in DOMAIN pool
           /\ pool[p].status = "Open"
           /\ m \in DOMAIN mandate
           /\ PoolOf(m) = p
           /\ mandate[m].pool_state = "Committed"
           /\ ~ Eligible(p, m)
           /\ DOMAIN mandate' = DOMAIN mandate
           /\ mandate'[m].terms = mandate[m].terms
           /\ mandate'[m].status = mandate[m].status
           /\ mandate'[m].pool_state = "Released"
           /\ \A x \in DOMAIN mandate : x # m => mandate'[x] = mandate[x]
           /\ pool' = WithoutMember(p, m)
           /\ UNCHANGED <<now, statement>>
<1>1. m \in DOMAIN mandate /\ mandate[m] \in Mandate
  BY DEF EvictChild, IInv, TypeOK
<1>2. mandate' = [mandate EXCEPT ![m].pool_state = "Released"]
  BY DEF EvictChild
<1>3. /\ DOMAIN mandate' = DOMAIN mandate
      /\ mandate'[m].terms = mandate[m].terms
      /\ mandate'[m].status = mandate[m].status
      /\ mandate'[m].pool_state = "Released"
      /\ \A x \in DOMAIN mandate : x # m => mandate'[x] = mandate[x]
  BY <1>1, <1>2 DEF Mandate
<1> QED
  BY <1>1, <1>3 DEF EvictChild

\* A solo payment touches one mandate, and none that a pool holds.
LEMMA Paying ==
    ASSUME IInv, NEW m \in Mandates, NEW amount \in PayAmounts, NEW n \in ExpectedSeqs,
           ExecutePayment(m, amount, n)
    PROVE  /\ m \in DOMAIN mandate
           /\ mandate[m].pool_state \in {"Unlinked", "Released"}
           /\ DOMAIN mandate' = DOMAIN mandate
           /\ mandate'[m].terms = mandate[m].terms
           /\ mandate'[m].pool_state = mandate[m].pool_state
           /\ \A x \in DOMAIN mandate : x # m => /\ mandate'[x] = mandate[x]
                                                 /\ statement'[x] = statement[x]
           /\ DOMAIN statement' = DOMAIN mandate
           /\ UNCHANGED <<now, pool>>
<1>1. /\ m \in DOMAIN mandate
      /\ mandate[m] \in Mandate
      /\ mandate[m].pool_state \in {"Unlinked", "Released"}
      /\ DOMAIN statement = DOMAIN mandate
  BY DEF ExecutePayment, MayPay, Check, Unlocked, IInv, TypeOK
<1>2. /\ mandate' = [mandate EXCEPT ![m] = Consume(mandate[m], amount)]
      /\ \E s : statement' = [statement EXCEPT ![m] = s]
      /\ UNCHANGED <<now, pool>>
  BY DEF ExecutePayment
<1>3. /\ Consume(mandate[m], amount).terms = mandate[m].terms
      /\ Consume(mandate[m], amount).pool_state = mandate[m].pool_state
  BY <1>1, ConsumeFrame
<1> QED
  BY <1>1, <1>2, <1>3

\* Registration stores the signed terms under a new key, uncommitted.
LEMMA Registering ==
    ASSUME IInv, NEW m \in Mandates, NEW t \in Offers[m], RegisterMandate(m, t)
    PROVE  /\ m \notin DOMAIN mandate
           /\ DOMAIN mandate' = DOMAIN mandate \cup {m}
           /\ DOMAIN statement' = DOMAIN mandate \cup {m}
           /\ mandate'[m] = [terms |-> t, spent |-> 0, seq |-> 0,
                             status |-> "Active", pool_state |-> "Unlinked"]
           /\ statement'[m] = << >>
           /\ \A x \in DOMAIN mandate : /\ mandate'[x] = mandate[x]
                                        /\ statement'[x] = statement[x]
           /\ UNCHANGED <<now, pool>>
<1>1. /\ m \notin DOMAIN mandate
      /\ mandate' = Store(mandate, m, [terms |-> t, spent |-> 0, seq |-> 0,
                                       status |-> "Active", pool_state |-> "Unlinked"])
      /\ statement' = Store(statement, m, << >>)
      /\ UNCHANGED <<now, pool>>
      /\ DOMAIN statement = DOMAIN mandate
  BY DEF RegisterMandate, IInv, TypeOK
<1> QED
  BY <1>1 DEF Store

\* Every call keeps the pools' books and the worth of each commitment.
LEMMA PoolNextKeeps == PoolInv /\ [Next]_vars => PoolInv'
<1> SUFFICES ASSUME PoolInv, [Next]_vars  PROVE PoolInv'
  OBVIOUS
<1>0. IInv /\ MembershipAgrees /\ IInv'
  BY NextKeeps DEF PoolInv
<1>1. ASSUME NEW m \in Mandates, NEW t \in Offers[m], RegisterMandate(m, t)
      PROVE  PoolInv'
  <2>1. /\ m \notin DOMAIN mandate
        /\ DOMAIN mandate' = DOMAIN mandate \cup {m}
        /\ mandate'[m].terms = t
        /\ mandate'[m].pool_state = "Unlinked"
        /\ \A x \in DOMAIN mandate : mandate'[x] = mandate[x]
        /\ pool' = pool
    <3>1. mandate'[m] = [terms |-> t, spent |-> 0, seq |-> 0,
                         status |-> "Active", pool_state |-> "Unlinked"]
      BY <1>0, <1>1, Registering
    <3>2. mandate'[m].terms = t /\ mandate'[m].pool_state = "Unlinked"
      BY <3>1
    <3> QED  BY <1>0, <1>1, <3>2, Registering
  <2>2. t.pool_id # NoPool => t.expiry > WindowEnd(t.pool_id)
    BY <1>1 DEF RegisterMandate, PoolCompatible
  <2>3. PoolOf(m)' # NoPool => mandate'[m].terms.expiry > WindowEnd(PoolOf(m)')
    BY <2>1, <2>2 DEF PoolOf
  <2>4. MembershipAgrees'
    BY <1>0, <2>1, MembershipStays
  <2>5. \A x \in DOMAIN mandate' : mandate'[x].pool_state = "Committed" =>
           x \in DOMAIN mandate /\ mandate'[x] = mandate[x]
    BY <2>1
  <2>6. PooledOutlives' /\ CommittedIsSound'
    BY <1>0, <2>1, <2>3, <2>5, CommitmentsStaySound
  <2> QED  BY <1>0, <2>4, <2>6 DEF PoolInv
<1>2. ASSUME NEW m \in Mandates, RevokeMandate(m)
      PROVE  PoolInv'
  <2>1. /\ m \in DOMAIN mandate
        /\ DOMAIN mandate' = DOMAIN mandate
        /\ mandate'[m].terms = mandate[m].terms
        /\ mandate'[m].pool_state = IF mandate[m].pool_state = "Committed"
                                    THEN "Released" ELSE mandate[m].pool_state
        /\ \A x \in DOMAIN mandate : x # m => mandate'[x] = mandate[x]
        /\ \/ /\ mandate[m].pool_state = "Committed"
              /\ pool' = WithoutMember(PoolOf(m), m)
              /\ PoolOf(m) \in DOMAIN pool
              /\ pool[PoolOf(m)].status = "Open"
           \/ /\ mandate[m].pool_state # "Committed"
              /\ pool' = pool
    BY <1>0, <1>2, Revoking
  <2>2. MembershipAgrees'
    <3>1. CASE mandate[m].pool_state = "Committed"
      BY <1>0, <2>1, <3>1, MemberLeaves
    <3>2. CASE mandate[m].pool_state # "Committed"
      BY <1>0, <2>1, <3>2, MembershipStays
    <3> QED  BY <3>1, <3>2
  <2>3. PooledOutlives' /\ CommittedIsSound'
    BY <1>0, <2>1, CommitmentsStaySound
  <2> QED  BY <1>0, <2>2, <2>3 DEF PoolInv
<1>3. ASSUME NEW m \in Mandates, NEW amount \in PayAmounts, NEW n \in ExpectedSeqs,
             ExecutePayment(m, amount, n)
      PROVE  PoolInv'
  <2>1. /\ m \in DOMAIN mandate
        /\ mandate[m].pool_state \in {"Unlinked", "Released"}
        /\ DOMAIN mandate' = DOMAIN mandate
        /\ mandate'[m].terms = mandate[m].terms
        /\ mandate'[m].pool_state = mandate[m].pool_state
        /\ \A x \in DOMAIN mandate : x # m => mandate'[x] = mandate[x]
        /\ pool' = pool
    BY <1>0, <1>3, Paying
  <2>2. MembershipAgrees'
    BY <1>0, <2>1, MembershipStays
  <2>3. PooledOutlives' /\ CommittedIsSound'
    BY <1>0, <2>1, CommitmentsStaySound
  <2> QED  BY <1>0, <2>2, <2>3 DEF PoolInv
<1>4. ASSUME NEW p \in Pools, RegisterPool(p)
      PROVE  PoolInv'
  <2>1. /\ mandate' = mandate
        /\ p \notin DOMAIN pool
        /\ DOMAIN pool' = DOMAIN pool \cup {p}
        /\ pool'[p].members = {} /\ pool'[p].member_count = 0
        /\ \A q \in DOMAIN pool : pool'[q] = pool[q]
    BY <1>4 DEF RegisterPool, Store
  <2>2. MembershipAgrees'
    BY <1>0, <2>1, MembershipStays
  <2>3. PooledOutlives' /\ CommittedIsSound'
    BY <1>0, <2>1, CommitmentsStaySound
  <2> QED  BY <1>0, <2>2, <2>3 DEF PoolInv
<1>5. ASSUME NEW m \in Mandates, CommitChild(m)
      PROVE  PoolInv'
  <2>1. /\ m \in DOMAIN mandate
        /\ PoolOf(m) \in DOMAIN pool
        /\ pool[PoolOf(m)].status = "Open"
        /\ mandate[m].status = "Active"
        /\ ~ DuplicateMember(PoolOf(m), m)
        /\ mandate[m].terms.max_amount - mandate[m].spent >= WorstCase(Schedule(m))
        /\ mandate' = [mandate EXCEPT ![m].pool_state = "Committed"]
    BY <1>5 DEF CommitChild, Active, Funded
  <2>2. mandate[m] \in Mandate
    BY <1>0, <2>1 DEF IInv, TypeOK
  <2>3. /\ DOMAIN mandate' = DOMAIN mandate
        /\ mandate'[m].terms = mandate[m].terms
        /\ mandate'[m].status = mandate[m].status
        /\ mandate'[m].spent = mandate[m].spent
        /\ \A x \in DOMAIN mandate : x # m => mandate'[x] = mandate[x]
    BY <2>1, <2>2 DEF Mandate
  <2>4. \A x \in DOMAIN mandate : PoolOf(x)' = PoolOf(x)
    BY <2>3 DEF PoolOf
  <2>5. \A x \in DOMAIN mandate' :
           /\ mandate'[x].pool_state = "Committed"
           /\ PoolOf(x)' = PoolOf(m)'
           /\ mandate'[x].terms.user = mandate'[m].terms.user
           => x = m
    <3> SUFFICES ASSUME NEW x \in DOMAIN mandate, x # m,
                        mandate'[x].pool_state = "Committed",
                        PoolOf(x)' = PoolOf(m)',
                        mandate'[x].terms.user = mandate'[m].terms.user
                 PROVE  FALSE
      BY <2>3
    <3>1. /\ mandate[x].pool_state = "Committed"
          /\ PoolOf(x) = PoolOf(m)
          /\ mandate[x].terms.user = mandate[m].terms.user
      BY <2>1, <2>3, <2>4
    <3>2. x \in pool[PoolOf(m)].members
      BY <1>0, <2>1, <3>1 DEF MembershipAgrees
    <3> QED  BY <2>1, <3>1, <3>2 DEF DuplicateMember, Committed
  <2>6. MembershipAgrees'
    BY <1>0, <1>5, MemberJoins
  <2>7. PooledOutlives' /\ CommittedIsSound'
    <3>1. /\ mandate'[m].status = "Active"
          /\ mandate'[m].terms.max_amount - mandate'[m].spent
                >= WorstCase(mandate'[m].terms.price_schedule)
      BY <2>1, <2>3 DEF Schedule
    <3>2. \A x \in DOMAIN mandate' : x \in DOMAIN mandate /\ (x = m \/ mandate'[x] = mandate[x])
      BY <2>3
    <3>3. \A x \in DOMAIN mandate : x \in DOMAIN mandate' /\ mandate'[x].terms = mandate[x].terms
      BY <2>3
    <3> QED  BY <1>0, <2>5, <3>1, <3>2, <3>3, CommitmentsStaySound
  <2> QED  BY <1>0, <2>6, <2>7 DEF PoolInv
<1>6. ASSUME NEW p \in Pools, NEW m \in Mandates, EvictChild(p, m)
      PROVE  PoolInv'
  <2>1. /\ p \in DOMAIN pool
        /\ pool[p].status = "Open"
        /\ m \in DOMAIN mandate
        /\ PoolOf(m) = p
        /\ mandate[m].pool_state = "Committed"
        /\ DOMAIN mandate' = DOMAIN mandate
        /\ mandate'[m].terms = mandate[m].terms
        /\ mandate'[m].pool_state = "Released"
        /\ \A x \in DOMAIN mandate : x # m => mandate'[x] = mandate[x]
        /\ pool' = WithoutMember(p, m)
    BY <1>0, <1>6, Evicting
  <2>2. MembershipAgrees'
    BY <1>0, <2>1, MemberLeaves
  <2>3. PooledOutlives' /\ CommittedIsSound'
    BY <1>0, <2>1, CommitmentsStaySound
  <2> QED  BY <1>0, <2>2, <2>3 DEF PoolInv
<1>7. ASSUME NEW p \in Pools, ClearPool(p)
      PROVE  PoolInv'
  <2>1. /\ DOMAIN mandate' = DOMAIN mandate
        /\ \A m \in DOMAIN mandate :
              /\ mandate'[m].terms = mandate[m].terms
              /\ m \in Committed(p) => mandate'[m].pool_state # "Committed"
              /\ m \notin Committed(p) => mandate'[m] = mandate[m]
    BY <1>0, <1>7, Closing
  <2>2. MembershipAgrees'
    BY <1>0, <1>7, MembersSettled
  <2>3. PooledOutlives' /\ CommittedIsSound'
    BY <1>0, <2>1, CommitmentsStaySound
  <2> QED  BY <1>0, <2>2, <2>3 DEF PoolInv
<1>8. ASSUME UNCHANGED registryVars
      PROVE  PoolInv'
  BY <1>0, <1>8 DEF PoolInv, MembershipAgrees, PooledOutlives, CommittedIsSound,
                    Committed, Schedule, PoolOf, WindowEnd, Deadline, registryVars
<1> QED
  BY <1>1, <1>2, <1>3, <1>4, <1>5, <1>6, <1>7, <1>8 DEF Next, Tick, Wallet, vars

\* There is no pool and no mandate to disagree when the contract starts.
LEMMA PoolInit == Init => PoolInv
<1> SUFFICES ASSUME Init  PROVE PoolInv
  OBVIOUS
<1>1. DOMAIN mandate = {} /\ DOMAIN pool = {}
  BY DEF Init
<1> QED
  BY <1>1, InitKeeps DEF PoolInv, MembershipAgrees, PooledOutlives, CommittedIsSound

\* The pools' books and the commitments are sound in every behaviour.
LEMMA PoolInvariance == Spec => []PoolInv
<1> QED
  BY PoolInit, PoolNextKeeps, PTL DEF Spec

\* However commitments, evictions, revocations and clearings alternate, the
\* member list, the live count and the mandates' own states stay one account.
THEOREM PoolsAgree == Spec => []MembershipAgrees
<1>1. PoolInv => MembershipAgrees
  BY DEF PoolInv
<1> QED
  BY <1>1, PoolInvariance, PTL

\* A committed member keeps its budget, its life and its place alone.
THEOREM CommitmentsAreSound == Spec => []CommittedIsSound
<1>1. PoolInv => CommittedIsSound
  BY DEF PoolInv
<1> QED
  BY <1>1, PoolInvariance, PTL

-----------------------------------------------------------------------------
(* What a step may never do                                                *)

\* Members leave a pool by their user's revocation, because they could not pay
\* any more, or when the pool closes; nothing else moves a committed mandate.
LEMMA CommitmentStepHolds ==
    ASSUME PoolInv, Next
    PROVE  CommitmentStep
<1>0. IInv /\ MembershipAgrees
  BY DEF PoolInv
<1>1. \A m \in DOMAIN mandate : mandate[m] \in Mandate /\ m \in DOMAIN statement
  BY <1>0 DEF IInv, TypeOK
<1>2. ASSUME NEW m \in Mandates, NEW t \in Offers[m], RegisterMandate(m, t)
      PROVE  CommitmentStep
  <2>1. \A x \in DOMAIN mandate : mandate'[x] = mandate[x] /\ statement'[x] = statement[x]
    BY <1>0, <1>2, Registering
  <2> QED  BY <2>1 DEF CommitmentStep
<1>3. ASSUME NEW m \in Mandates, RevokeMandate(m)
      PROVE  CommitmentStep
  <2>1. /\ mandate'[m].status = "Revoked"
        /\ mandate'[m].pool_state = IF mandate[m].pool_state = "Committed"
                                    THEN "Released" ELSE mandate[m].pool_state
        /\ \A x \in DOMAIN mandate : x # m => mandate'[x] = mandate[x]
        /\ statement' = statement
    BY <1>0, <1>3, Revoking
  <2> QED  BY <2>1 DEF CommitmentStep
<1>4. ASSUME NEW m \in Mandates, NEW amount \in PayAmounts, NEW n \in ExpectedSeqs,
             ExecutePayment(m, amount, n)
      PROVE  CommitmentStep
  <2>1. /\ mandate[m].pool_state \in {"Unlinked", "Released"}
        /\ mandate'[m].pool_state = mandate[m].pool_state
        /\ \A x \in DOMAIN mandate : x # m => /\ mandate'[x] = mandate[x]
                                              /\ statement'[x] = statement[x]
    BY <1>0, <1>4, Paying
  <2> QED  BY <2>1 DEF CommitmentStep
<1>5. ASSUME NEW m \in Mandates, CommitChild(m)
      PROVE  CommitmentStep
  <2>1. /\ m \in DOMAIN mandate
        /\ mandate[m].pool_state = "Unlinked"
        /\ mandate' = [mandate EXCEPT ![m].pool_state = "Committed"]
        /\ statement' = statement
    BY <1>5 DEF CommitChild
  <2>2. \A x \in DOMAIN mandate : x # m => mandate'[x] = mandate[x]
    BY <2>1
  <2> QED  BY <2>1, <2>2 DEF CommitmentStep
<1>6. ASSUME NEW p \in Pools, NEW m \in Mandates, EvictChild(p, m)
      PROVE  CommitmentStep
  <2>1. /\ PoolOf(m) = p
        /\ mandate[m].pool_state = "Committed"
        /\ ~ Eligible(p, m)
        /\ mandate'[m].pool_state = "Released"
        /\ \A x \in DOMAIN mandate : x # m => mandate'[x] = mandate[x]
        /\ statement' = statement
    BY <1>0, <1>6, Evicting
  <2> QED  BY <2>1 DEF CommitmentStep
<1>7. ASSUME NEW p \in Pools, ClearPool(p)
      PROVE  CommitmentStep
  <2>1. /\ p \in DOMAIN pool
        /\ now >= Deadline(p)
        /\ \A m \in DOMAIN mandate :
              /\ m \in Committed(p) => mandate'[m].pool_state \in {"Captured", "Released"}
              /\ m \notin Committed(p) => mandate'[m] = mandate[m]
    BY <1>0, <1>7, Closing
  <2>2. \A m \in DOMAIN mandate : m \in Committed(p) =>
           mandate[m].pool_state = "Committed" /\ PoolOf(m) = p
    BY <1>0, <2>1 DEF Committed, IInv, PoolLinked
  <2>3. \A m \in DOMAIN mandate : m \notin Committed(p) => statement'[m] = statement[m]
    <3>1. CASE ~ ClosingOutcome(p).fires
      BY <1>7, <3>1 DEF ClearPool, AbortPool
    <3>2. CASE ClosingOutcome(p).fires
      <4>1. CapturePool(p, ClosingOutcome(p))
        BY <1>7, <3>2 DEF ClearPool
      <4>2. DOMAIN ClosingOutcome(p).allocations \subseteq Committed(p)
        BY <1>0, <2>1, ClosingOutcomeShape
      <4> QED  BY <4>1, <4>2, <1>1 DEF CapturePool
    <3> QED  BY <3>1, <3>2
  <2> QED  BY <2>1, <2>2, <2>3 DEF CommitmentStep
<1>8. ASSUME UNCHANGED <<mandate, statement>>
      PROVE  CommitmentStep
  BY <1>8 DEF CommitmentStep
<1>9. (\E p \in Pools : RegisterPool(p)) \/ Tick \/ Wallet => UNCHANGED <<mandate, statement>>
  BY DEF RegisterPool, Tick, Wallet, registryVars
<1> QED
  BY <1>2, <1>3, <1>4, <1>5, <1>6, <1>7, <1>8, <1>9 DEF Next

\* No caller can end a commitment early, spend it meanwhile or take it up again.
THEOREM CommitmentsAreKept == Spec => CommitmentKept
<1>1. PoolInv /\ [Next]_vars => [CommitmentStep]_vars
  BY CommitmentStepHolds
<1> QED
  BY <1>1, PoolInvariance, PTL DEF Spec, CommitmentKept

\* The legs of a capture, as the statement records them.
LEMMA CaptureLegs ==
    ASSUME IInv, NEW p \in DOMAIN pool, CapturePool(p, ClosingOutcome(p)), UNCHANGED now
    PROVE  LET outcome == ClosingOutcome(p)
           IN  \A m \in DOMAIN mandate :
                  /\ m \notin DOMAIN outcome.allocations => statement'[m] = statement[m]
                  /\ m \in DOMAIN outcome.allocations =>
                        /\ Len(statement'[m]) = Len(statement[m]) + 1
                        /\ statement'[m][Len(statement'[m])].amount =
                              outcome.clearing_price * outcome.allocations[m]
                        /\ \A i \in DOMAIN statement[m] : statement'[m][i] = statement[m][i]
<1> DEFINE outcome == ClosingOutcome(p)
           Leg(m)  == outcome.clearing_price * outcome.allocations[m]
           LegNet(m)  == Leg(m) - FeeOf(Leg(m), pool[p].fee_bps_pinned)
           e(m)    == [seq |-> mandate[m].seq, amount |-> LegNet(m), total |-> Paid(m) + LegNet(m),
                       merchant |-> PoolTerms[p].merchant, asset |-> PoolTerms[p].asset]
<1>1. \A m \in DOMAIN mandate : statement[m] \in Seq(Entry) /\ m \in DOMAIN statement
  BY DEF IInv, TypeOK
<1>2. ASSUME NEW m \in DOMAIN outcome.allocations
      PROVE  LegNet(m) = Leg(m)
  <2>1. /\ outcome.clearing_price \in Nat
        /\ outcome.allocations[m] \in Nat
    BY ClosingOutcomeShape
  <2>2. Leg(m) \in Nat
    <3> HIDE DEF outcome
    <3> QED  BY <2>1
  <2>3. pool[p].fee_bps_pinned = 0
    BY DEF IInv, TypeOK, ClearingPool
  <2>4. \A x \in Nat : x - FeeOf(x, 0) = x
    BY DEF FeeOf, BPS_DENOM
  <2> HIDE DEF Leg
  <2> QED  BY <2>2, <2>3, <2>4
<1>3. statement' = [m \in DOMAIN statement |->
         IF m \in DOMAIN outcome.allocations THEN Append(statement[m], e(m)) ELSE statement[m]]
  BY DEF CapturePool, Transferred
<1>4. \A m : e(m).amount = LegNet(m)
  OBVIOUS
<1> HIDE DEF outcome, Leg, LegNet, e
<1>5. ASSUME NEW m \in DOMAIN mandate, m \in DOMAIN outcome.allocations
      PROVE  /\ Len(statement'[m]) = Len(statement[m]) + 1
             /\ statement'[m][Len(statement'[m])].amount = Leg(m)
             /\ \A i \in DOMAIN statement[m] : statement'[m][i] = statement[m][i]
  <2>1. statement'[m] = Append(statement[m], e(m))
    BY <1>1, <1>3, <1>5
  <2>2. e(m).amount = Leg(m)
    BY <1>2, <1>4, <1>5
  <2>3. statement[m] \in Seq(Entry \cup {e(m)}) /\ e(m) \in Entry \cup {e(m)}
    BY <1>1, SeqDef
  <2>4. /\ Len(Append(statement[m], e(m))) = Len(statement[m]) + 1
        /\ \A i \in 1 .. Len(statement[m]) : Append(statement[m], e(m))[i] = statement[m][i]
        /\ Append(statement[m], e(m))[Len(statement[m]) + 1] = e(m)
    BY <2>3, AppendProperties
  <2> QED  BY <1>1, <2>1, <2>2, <2>4, LenProperties
<1>6. \A m \in DOMAIN mandate : m \notin DOMAIN outcome.allocations => statement'[m] = statement[m]
  BY <1>1, <1>3
<1> QED
  BY <1>5, <1>6 DEF outcome, Leg

\* A slot that is freed does not close the pool.
LEMMA StatusStays ==
    ASSUME IInv, NEW p \in DOMAIN pool, NEW m, pool' = WithoutMember(p, m)
    PROVE  \A q \in DOMAIN pool : pool'[q].status = pool[q].status
<1> DEFINE S == pool[p].members \ {m}
           n == IF pool[p].member_count = 0 THEN 0 ELSE pool[p].member_count - 1
<1>1. pool' = [pool EXCEPT ![p] = [pool[p] EXCEPT !.members = S, !.member_count = n]]
  BY DEF WithoutMember
<1>2. pool[p] = [status |-> pool[p].status, members |-> pool[p].members,
                 member_count |-> pool[p].member_count,
                 fee_bps_pinned |-> pool[p].fee_bps_pinned]
  BY DEF IInv, TypeOK, ClearingPool
<1> HIDE DEF S, n
<1> QED
  BY <1>1, <1>2

\* What the outcome of a closing pool is, beyond its shape: it is the clearing
\* of the members that are eligible, or nothing at all.
LEMMA ClosingOutcomeFires ==
    ASSUME IInv, NEW p \in DOMAIN pool
    PROVE  LET outcome == ClosingOutcome(p)
           IN  /\ outcome.fires => outcome.clearing_price > 0
               /\ ~ outcome.fires => DOMAIN outcome.allocations = {}
               /\ \A m \in DOMAIN outcome.allocations : Eligible(p, m)
<1>1. CASE now <= WindowEnd(p)
  <2> DEFINE kids == {m \in pool[p].members : Eligible(p, m)}
             schedule == [m \in kids |-> Schedule(m)]
             outcome == Clear(PoolTerms[p], kids, schedule, pool[p].fee_bps_pinned)
  <2>1. ClosingOutcome(p) = outcome
    BY <1>1 DEF ClosingOutcome, ClearNow
  <2>2. p \in Pools /\ p # NoPool
    BY RegistryAssumption DEF IInv, TypeOK
  <2>3. \A m \in kids : m \in DOMAIN mandate /\ PoolOf(m) = p
    BY DEF IInv, PoolLinked
  <2>4. \A m \in kids : schedule[m] \in Seq(SchedulePoint) /\ ValidSchedule(schedule[m])
    BY <2>2, <2>3 DEF IInv, TypeOK, PoolLinked, Mandate, Terms, Schedule
  <2>5. PoolTerms[p].threshold_value \in Nat
    BY <2>2, RegistryAssumption
  <2>6. Outcome(kids, schedule, outcome)
    <3> HIDE DEF kids, schedule
    <3> QED  BY <2>4, <2>5, ClearOutcome
  <2>7. \A m \in kids : Eligible(p, m)
    OBVIOUS
  <2> HIDE DEF kids, schedule, outcome
  <2> QED  BY <2>1, <2>6, <2>7 DEF Outcome
<1>2. CASE ~ (now <= WindowEnd(p))
  BY <1>2 DEF ClosingOutcome, NoFire
<1> QED
  BY <1>1, <1>2

\* What a third party was told clear_pool would do is what it does.
LEMMA ClosingStepHolds ==
    ASSUME PoolInv, Next
    PROVE  ClosingStep
<1>0. IInv /\ MembershipAgrees
  BY DEF PoolInv
<1>1. ASSUME NEW p \in Pools, ClearPool(p)
      PROVE  ClosingStep
  <2>1. /\ p \in DOMAIN pool
        /\ \A q \in DOMAIN pool : q # p => pool'[q] = pool[q]
        /\ pool'[p].status = IF ClosingOutcome(p).fires THEN "Cleared" ELSE "Aborted"
        /\ pool[p].status = "Open"
    BY <1>0, <1>1, Closing
  <2>2. SimulateClear(p) = ClosingOutcome(p)
    <3>1. now \in Nat /\ WindowEnd(p) \in Nat
      BY <1>0, RegistryAssumption DEF IInv, TypeOK, WindowEnd, Deadline
    <3> QED  BY <3>1 DEF SimulateClear, ClosingOutcome
  <2> DEFINE outcome == ClosingOutcome(p)
  <2>3. \A m \in DOMAIN outcome.allocations : m \in DOMAIN mandate
    BY <1>0, <2>1, ClosingOutcomeShape
  <2>4. \A m \in pool[p].members : m \in DOMAIN mandate
    BY <1>0, <2>1 DEF IInv, PoolLinked
  <2>5. \A m \in DOMAIN mandate : Len(statement[m]) \in Nat
    BY <1>0, LenProperties DEF IInv, TypeOK
  <2>6. /\ \A m \in DOMAIN mandate :
              statement'[m] # statement[m] <=> m \in DOMAIN outcome.allocations
        /\ \A m \in DOMAIN outcome.allocations :
              /\ Len(statement'[m]) = Len(statement[m]) + 1
              /\ statement'[m][Len(statement'[m])].amount =
                    outcome.clearing_price * outcome.allocations[m]
    <3>1. CASE outcome.fires
      <4>1. CapturePool(p, outcome) /\ now' = now
        BY <1>1, <3>1 DEF ClearPool
      <4>2. \A m \in DOMAIN mandate :
               /\ m \notin DOMAIN outcome.allocations => statement'[m] = statement[m]
               /\ m \in DOMAIN outcome.allocations =>
                     /\ Len(statement'[m]) = Len(statement[m]) + 1
                     /\ statement'[m][Len(statement'[m])].amount =
                           outcome.clearing_price * outcome.allocations[m]
        BY <1>0, <2>1, <4>1, CaptureLegs
      <4> HIDE DEF outcome
      <4> QED  BY <2>3, <2>5, <4>2
    <3>2. CASE ~ outcome.fires
      <4>1. statement' = statement
        BY <1>1, <3>2 DEF ClearPool, AbortPool
      <4>2. DOMAIN outcome.allocations = {}
        BY <1>0, <2>1, <3>2, ClosingOutcomeFires
      <4> HIDE DEF outcome
      <4> QED  BY <4>1, <4>2
    <3> QED  BY <3>1, <3>2
  <2> HIDE DEF outcome
  <2>7. /\ outcome.fires <=> pool'[p].status = "Cleared"
        /\ SimulateClear(p) = outcome
    BY <2>1, <2>2 DEF outcome
  <2> QED  BY <2>1, <2>4, <2>6, <2>7 DEF ClosingStep
<1>2. ASSUME \A p \in DOMAIN pool : pool'[p].status = pool[p].status
      PROVE  ClosingStep
  BY <1>2 DEF ClosingStep
<1>3. ASSUME NEW m \in Mandates, RevokeMandate(m)
      PROVE  \A p \in DOMAIN pool : pool'[p].status = pool[p].status
  <2>1. \/ /\ pool' = WithoutMember(PoolOf(m), m)
           /\ PoolOf(m) \in DOMAIN pool
        \/ pool' = pool
    BY <1>0, <1>3, Revoking
  <2> QED  BY <2>1, <1>0, StatusStays
<1>4. ASSUME NEW p \in Pools, NEW m \in Mandates, EvictChild(p, m)
      PROVE  \A q \in DOMAIN pool : pool'[q].status = pool[q].status
  <2>1. pool' = WithoutMember(p, m) /\ p \in DOMAIN pool
    BY <1>0, <1>4, Evicting
  <2> QED  BY <2>1, <1>0, StatusStays
<1>5. ASSUME NEW m \in Mandates, CommitChild(m)
      PROVE  \A p \in DOMAIN pool : pool'[p].status = pool[p].status
  <2> DEFINE p == PoolOf(m)
  <2>1. /\ p \in DOMAIN pool
        /\ pool' = [pool EXCEPT ![p].members = @ \cup {m}, ![p].member_count = @ + 1]
    BY <1>5 DEF CommitChild
  <2>2. pool[p] \in ClearingPool
    BY <1>0, <2>1 DEF IInv, TypeOK
  <2> HIDE DEF p
  <2> QED  BY <2>1, <2>2 DEF ClearingPool
<1>6. ASSUME NEW p \in Pools, RegisterPool(p)
      PROVE  \A q \in DOMAIN pool : pool'[q].status = pool[q].status
  BY <1>6 DEF RegisterPool, Store
<1>7. ASSUME NEW m \in Mandates, NEW t \in Offers[m], RegisterMandate(m, t)
      PROVE  pool' = pool
  BY <1>7 DEF RegisterMandate
<1>8. ASSUME NEW m \in Mandates, NEW amount \in PayAmounts, NEW n \in ExpectedSeqs,
             ExecutePayment(m, amount, n)
      PROVE  pool' = pool
  BY <1>8 DEF ExecutePayment
<1>9. Tick \/ Wallet => pool' = pool
  BY DEF Tick, Wallet, registryVars
<1> QED
  BY <1>1, <1>2, <1>3, <1>4, <1>5, <1>6, <1>7, <1>8, <1>9 DEF Next

\* simulate_clear never misleads: for the ledger it reads it is clear_pool.
THEOREM SimulationIsExact == Spec => SimulateIsCapture
<1>1. PoolInv /\ [Next]_vars => [ClosingStep]_vars
  BY ClosingStepHolds
<1> QED
  BY <1>1, PoolInvariance, PTL DEF Spec, SimulateIsCapture

-----------------------------------------------------------------------------
(* The contract implements the authority its users granted                 *)

\* The mapping, named: what was signed, what was moved, what was taken back.
SignedGrant == [m \in DOMAIN mandate |-> [limit  |-> mandate[m].terms.max_amount,
                                          expiry |-> mandate[m].terms.expiry]]
MovedSoFar  == [m \in DOMAIN mandate |-> Paid(m)]
TakenBack   == {m \in DOMAIN mandate : mandate[m].status = "Revoked"}

\* Registration is the grant: nothing is moved under it yet.
LEMMA RegisteringGrants ==
    ASSUME PoolInv, NEW m \in Mandates, NEW t \in Offers[m], RegisterMandate(m, t)
    PROVE  Authority!Grant
<1>0. IInv
  BY DEF PoolInv
<1>1. /\ m \notin DOMAIN mandate
      /\ DOMAIN mandate' = DOMAIN mandate \cup {m}
      /\ statement'[m] = << >>
      /\ \A x \in DOMAIN mandate : /\ mandate'[x] = mandate[x]
                                   /\ statement'[x] = statement[x]
      /\ now' = now
  BY <1>0, Registering
<1>2. mandate'[m].terms = t /\ mandate'[m].status = "Active"
  <2>1. mandate'[m] = [terms |-> t, spent |-> 0, seq |-> 0,
                       status |-> "Active", pool_state |-> "Unlinked"]
    BY <1>0, Registering
  <2> QED  BY <2>1
<1>3. t.max_amount > 0 /\ t.expiry > now
  BY DEF RegisterMandate
<1>4. /\ t.max_amount \in {x.max_amount : x \in UNION {Offers[y] : y \in Mandates}}
      /\ t.expiry \in {x.expiry : x \in UNION {Offers[y] : y \in Mandates}}
  OBVIOUS
<1>5. SignedGrant' = [x \in DOMAIN SignedGrant \cup {m} |->
                         IF x = m THEN [limit |-> t.max_amount, expiry |-> t.expiry]
                                  ELSE SignedGrant[x]]
  BY <1>1, <1>2 DEF SignedGrant
<1>6. MovedSoFar' = [x \in DOMAIN MovedSoFar \cup {m} |->
                        IF x = m THEN 0 ELSE MovedSoFar[x]]
  BY <1>1 DEF MovedSoFar, Paid
<1>7. TakenBack' = TakenBack
  BY <1>1, <1>2 DEF TakenBack
<1>8. m \in Mandates \ DOMAIN SignedGrant
  BY <1>1 DEF SignedGrant
<1> HIDE DEF SignedGrant, MovedSoFar, TakenBack
<1>9. \E x \in Mandates \ DOMAIN SignedGrant,
         l \in {y.max_amount : y \in UNION {Offers[z] : z \in Mandates}},
         e \in {y.expiry : y \in UNION {Offers[z] : z \in Mandates}} :
            /\ l > 0
            /\ e > now
            /\ SignedGrant' = [y \in DOMAIN SignedGrant \cup {x} |->
                                  IF y = x THEN [limit |-> l, expiry |-> e] ELSE SignedGrant[y]]
            /\ MovedSoFar' = [y \in DOMAIN MovedSoFar \cup {x} |->
                                  IF y = x THEN 0 ELSE MovedSoFar[y]]
            /\ UNCHANGED <<now, TakenBack>>
  BY <1>1, <1>3, <1>4, <1>5, <1>6, <1>7, <1>8
<1> QED
  BY <1>9 DEF Authority!Grant, SignedGrant, MovedSoFar, TakenBack

\* Revocation, of a member or not, is the withdrawal.
LEMMA RevokingWithdraws ==
    ASSUME PoolInv, NEW m \in Mandates, RevokeMandate(m)
    PROVE  Authority!Withdraw
<1>1. /\ m \in DOMAIN mandate
      /\ DOMAIN mandate' = DOMAIN mandate
      /\ mandate'[m].terms = mandate[m].terms
      /\ mandate'[m].status = "Revoked"
      /\ \A x \in DOMAIN mandate : x # m => mandate'[x] = mandate[x]
      /\ now' = now /\ statement' = statement
  BY Revoking DEF PoolInv
<1>2. SignedGrant' = SignedGrant
  BY <1>1 DEF SignedGrant
<1>3. MovedSoFar' = MovedSoFar
  BY <1>1 DEF MovedSoFar, Paid
<1>4. TakenBack' = TakenBack \cup {m}
  BY <1>1 DEF TakenBack
<1>5. m \in DOMAIN SignedGrant
  BY <1>1 DEF SignedGrant
<1> HIDE DEF SignedGrant, MovedSoFar, TakenBack
<1>6. \E x \in DOMAIN SignedGrant : /\ TakenBack' = TakenBack \cup {x}
                                    /\ UNCHANGED <<now, SignedGrant, MovedSoFar>>
  BY <1>1, <1>2, <1>3, <1>4, <1>5
<1> QED
  BY <1>6 DEF Authority!Withdraw, SignedGrant, MovedSoFar, TakenBack

\* A step in which every mandate whose money moved was entitled to it draws.
LEMMA Drawing ==
    ASSUME IInv, IInv', UNCHANGED now, DOMAIN mandate' = DOMAIN mandate,
           \A m \in DOMAIN mandate :
              /\ mandate'[m].terms = mandate[m].terms
              /\ mandate'[m].status = "Revoked" <=> mandate[m].status = "Revoked"
              /\ \/ statement'[m] = statement[m]
                 \/ /\ mandate[m].status # "Revoked"
                    /\ now < mandate[m].terms.expiry
                    /\ Paid(m) < Paid(m)'
    PROVE  Authority!Draw
<1>1. SignedGrant' = SignedGrant
  BY DEF SignedGrant
<1>2. TakenBack' = TakenBack
  BY DEF TakenBack
<1>3. MovedSoFar' = [m \in DOMAIN MovedSoFar |-> MovedSoFar'[m]]
  BY DEF MovedSoFar
<1>4. ASSUME NEW m \in DOMAIN MovedSoFar, MovedSoFar'[m] # MovedSoFar[m]
      PROVE  /\ m \notin TakenBack
             /\ now < SignedGrant[m].expiry
             /\ MovedSoFar[m] < MovedSoFar'[m]
             /\ MovedSoFar'[m] <= SignedGrant[m].limit
  <2>1. m \in DOMAIN mandate /\ MovedSoFar[m] = Paid(m) /\ MovedSoFar'[m] = Paid(m)'
    BY DEF MovedSoFar
  <2>2. statement'[m] # statement[m]
    BY <1>4, <2>1 DEF Paid
  <2>3. Paid(m)' <= mandate[m].terms.max_amount
    <3>1. Account(mandate'[m], statement'[m])
      BY <2>1 DEF IInv
    <3> QED  BY <2>1, <3>1 DEF Account, Paid
  <2> QED  BY <2>1, <2>2, <2>3 DEF TakenBack, SignedGrant
<1> HIDE DEF SignedGrant, MovedSoFar, TakenBack
<1>5. /\ MovedSoFar' = [m \in DOMAIN MovedSoFar |-> MovedSoFar'[m]]
      /\ \A m \in DOMAIN MovedSoFar : MovedSoFar'[m] # MovedSoFar[m] =>
            /\ m \notin TakenBack
            /\ now < SignedGrant[m].expiry
            /\ MovedSoFar[m] < MovedSoFar'[m]
            /\ MovedSoFar'[m] <= SignedGrant[m].limit
      /\ UNCHANGED <<now, SignedGrant, TakenBack>>
  BY <1>1, <1>2, <1>3, <1>4
<1> QED
  BY <1>5 DEF Authority!Draw, SignedGrant, MovedSoFar, TakenBack

\* execute_payment draws on one grant.
LEMMA PayingDraws ==
    ASSUME PoolInv, IInv', NEW m \in Mandates, NEW amount \in PayAmounts,
           NEW n \in ExpectedSeqs, ExecutePayment(m, amount, n)
    PROVE  Authority!Draw
<1>0. IInv
  BY DEF PoolInv
<1>1. /\ m \in DOMAIN mandate
      /\ DOMAIN mandate' = DOMAIN mandate
      /\ mandate'[m].terms = mandate[m].terms
      /\ \A x \in DOMAIN mandate : x # m => /\ mandate'[x] = mandate[x]
                                            /\ statement'[x] = statement[x]
      /\ now' = now
  BY <1>0, Paying
<1>2. /\ mandate[m].status = "Active"
      /\ now < mandate[m].terms.expiry
      /\ amount > 0 /\ amount \in Int
      /\ mandate' = [mandate EXCEPT ![m] = Consume(mandate[m], amount)]
  BY RegistryAssumption DEF ExecutePayment, MayPay, Check, Active, Unexpired
<1>3. mandate[m] \in Mandate /\ mandate[m].spent \in Nat
  BY <1>0, <1>1 DEF IInv, TypeOK, Mandate
<1>4. /\ mandate'[m].spent = mandate[m].spent + amount
      /\ mandate'[m].status \in {"Active", "Exhausted"}
  BY <1>1, <1>2, <1>3, ConsumeFrame
<1>5. Paid(m) < Paid(m)'
  <2>1. Account(mandate[m], statement[m]) /\ Account(mandate'[m], statement'[m])
    BY <1>0, <1>1 DEF IInv
  <2>2. Paid(m) = mandate[m].spent /\ Paid(m)' = mandate'[m].spent
    BY <2>1 DEF Account, Paid
  <2> QED  BY <1>2, <1>3, <1>4, <2>2
<1>6. \A x \in DOMAIN mandate :
         /\ mandate'[x].terms = mandate[x].terms
         /\ mandate'[x].status = "Revoked" <=> mandate[x].status = "Revoked"
         /\ \/ statement'[x] = statement[x]
            \/ /\ mandate[x].status # "Revoked"
               /\ now < mandate[x].terms.expiry
               /\ Paid(x) < Paid(x)'
  BY <1>1, <1>2, <1>4, <1>5
<1> QED
  BY <1>0, <1>1, <1>6, Drawing

\* A capture draws on the grants of all its buyers in one step; an abort on none.
LEMMA ClosingDraws ==
    ASSUME PoolInv, IInv', NEW p \in Pools, ClearPool(p)
    PROVE  Authority!Draw
<1>0. IInv
  BY DEF PoolInv
<1> DEFINE outcome == ClosingOutcome(p)
           bought  == DOMAIN outcome.allocations
           Leg(m)  == outcome.clearing_price * outcome.allocations[m]
<1>1. /\ p \in DOMAIN pool
      /\ DOMAIN mandate' = DOMAIN mandate
      /\ \A m \in DOMAIN mandate : /\ mandate'[m].terms = mandate[m].terms
                                   /\ m \notin Committed(p) => mandate'[m] = mandate[m]
  BY <1>0, Closing
<1>2. \A m \in DOMAIN mandate : /\ mandate[m] \in Mandate
                                /\ mandate[m].spent \in Nat
                                /\ m \in DOMAIN statement
  BY <1>0 DEF IInv, TypeOK, Mandate
<1>3. now' = now
  BY DEF ClearPool
<1>4. CASE ~ outcome.fires /\ AbortPool(p)
  <2>1. statement' = statement
    BY <1>4 DEF AbortPool
  <2>2. ASSUME NEW m \in DOMAIN mandate
        PROVE  mandate'[m].status = mandate[m].status
    <3>1. [mandate[m] EXCEPT !.pool_state = "Released"].status = mandate[m].status
      BY <1>2 DEF Mandate
    <3> QED  BY <1>4, <3>1 DEF AbortPool, Release
  <2> QED  BY <1>0, <1>1, <1>3, <2>1, <2>2, Drawing
<1>5. CASE outcome.fires /\ CapturePool(p, outcome)
  <2>1. /\ mandate' = [m \in DOMAIN mandate |->
              IF m \notin Committed(p) THEN mandate[m]
              ELSE IF m \in bought
              THEN [Consume(mandate[m], Leg(m)) EXCEPT !.pool_state = "Captured"]
              ELSE [mandate[m] EXCEPT !.pool_state = "Released"]]
        /\ \A m \in DOMAIN statement : m \notin bought => statement'[m] = statement[m]
    BY <1>5 DEF CapturePool
  <2>2. bought \subseteq Committed(p)
    BY <1>0, <1>1, ClosingOutcomeShape
  <2>3. ASSUME NEW m \in bought
        PROVE  /\ mandate[m].status = "Active"
               /\ now < mandate[m].terms.expiry
               /\ Leg(m) \in Nat \ {0}
    <3>1. Eligible(p, m)
      BY <1>0, <1>1, ClosingOutcomeFires
    <3>2. outcome.clearing_price \in Nat /\ outcome.clearing_price > 0
      BY <1>0, <1>1, <1>5, ClosingOutcomeShape, ClosingOutcomeFires
    <3>3. outcome.allocations[m] \in Nat \ {0}
      BY <1>0, <1>1, ClosingOutcomeShape
    <3>4. \A x, y \in Nat \ {0} : x * y \in Nat \ {0}
      OBVIOUS
    <3> HIDE DEF outcome
    <3> QED  BY <3>1, <3>2, <3>3, <3>4 DEF Eligible, Active, Unexpired
  <2> HIDE DEF outcome, bought, Leg
  <2>4. ASSUME NEW m \in DOMAIN mandate
        PROVE  /\ mandate'[m].status = "Revoked" <=> mandate[m].status = "Revoked"
               /\ \/ statement'[m] = statement[m]
                  \/ /\ mandate[m].status # "Revoked"
                     /\ now < mandate[m].terms.expiry
                     /\ Paid(m) < Paid(m)'
    <3>1. CASE m \in bought
      <4>1. mandate'[m] = [Consume(mandate[m], Leg(m)) EXCEPT !.pool_state = "Captured"]
        BY <2>1, <2>2, <3>1
      <4>2. /\ mandate'[m].spent = mandate[m].spent + Leg(m)
            /\ mandate'[m].status \in {"Active", "Exhausted"}
        BY <1>2, <2>3, <3>1, <4>1, ConsumeFrame
      <4>3. Account(mandate[m], statement[m]) /\ Account(mandate'[m], statement'[m])
        BY <1>0, <1>1 DEF IInv
      <4>4. Paid(m) = mandate[m].spent /\ Paid(m)' = mandate'[m].spent
        BY <4>3 DEF Account, Paid
      <4>5. Paid(m) < Paid(m)'
        BY <1>2, <2>3, <3>1, <4>2, <4>4
      <4> QED  BY <2>3, <3>1, <4>2, <4>5
    <3>2. CASE m \notin bought
      <4>1. [mandate[m] EXCEPT !.pool_state = "Released"].status = mandate[m].status
        BY <1>2 DEF Mandate
      <4> QED  BY <1>2, <2>1, <3>2, <4>1
    <3> QED  BY <3>1, <3>2
  <2> QED  BY <1>0, <1>1, <1>3, <2>4, Drawing
<1> QED
  BY <1>4, <1>5 DEF ClearPool

\* Steps that neither grant, withdraw nor draw leave the user's view alone.
LEMMA Unseen ==
    ASSUME DOMAIN mandate' = DOMAIN mandate, statement' = statement,
           \A m \in DOMAIN mandate : /\ mandate'[m].terms = mandate[m].terms
                                     /\ mandate'[m].status = mandate[m].status
    PROVE  UNCHANGED <<SignedGrant, MovedSoFar, TakenBack>>
<1>1. SignedGrant' = SignedGrant
  BY DEF SignedGrant
<1>2. MovedSoFar' = MovedSoFar
  BY DEF MovedSoFar, Paid
<1>3. TakenBack' = TakenBack
  BY DEF TakenBack
<1> QED
  BY <1>1, <1>2, <1>3

\* Every step of the contract is a step of the authority, or none.
LEMMA AuthorityStep ==
    ASSUME PoolInv, [Next]_vars
    PROVE  [Authority!Next]_(Authority!authorityVars)
<1>0. IInv /\ IInv'
  BY NextKeeps DEF PoolInv
<1>1. ASSUME UNCHANGED <<now, SignedGrant, MovedSoFar, TakenBack>>
      PROVE  UNCHANGED Authority!authorityVars
  BY <1>1 DEF Authority!authorityVars, SignedGrant, MovedSoFar, TakenBack
<1>2. ASSUME NEW m \in Mandates, NEW t \in Offers[m], RegisterMandate(m, t)
      PROVE  Authority!Next
  BY <1>2, RegisteringGrants DEF Authority!Next
<1>3. ASSUME NEW m \in Mandates, RevokeMandate(m)
      PROVE  Authority!Next
  BY <1>3, RevokingWithdraws DEF Authority!Next
<1>4. ASSUME NEW m \in Mandates, NEW amount \in PayAmounts, NEW n \in ExpectedSeqs,
             ExecutePayment(m, amount, n)
      PROVE  Authority!Next
  BY <1>0, <1>4, PayingDraws DEF Authority!Next
<1>5. ASSUME NEW p \in Pools, ClearPool(p)
      PROVE  Authority!Next
  BY <1>0, <1>5, ClosingDraws DEF Authority!Next
<1>6. ASSUME NEW m \in Mandates, CommitChild(m)
      PROVE  UNCHANGED Authority!authorityVars
  <2>1. /\ m \in DOMAIN mandate
        /\ mandate' = [mandate EXCEPT ![m].pool_state = "Committed"]
        /\ now' = now /\ statement' = statement
    BY <1>6 DEF CommitChild
  <2>2. /\ DOMAIN mandate' = DOMAIN mandate
        /\ \A x \in DOMAIN mandate : /\ mandate'[x].terms = mandate[x].terms
                                     /\ mandate'[x].status = mandate[x].status
    BY <1>0, <2>1 DEF IInv, TypeOK, Mandate
  <2> QED  BY <1>1, <2>1, <2>2, Unseen
<1>7. ASSUME NEW p \in Pools, NEW m \in Mandates, EvictChild(p, m)
      PROVE  UNCHANGED Authority!authorityVars
  <2>1. /\ DOMAIN mandate' = DOMAIN mandate
        /\ \A x \in DOMAIN mandate : /\ mandate'[x].terms = mandate[x].terms
                                     /\ mandate'[x].status = mandate[x].status
        /\ now' = now /\ statement' = statement
    BY <1>0, <1>7, Evicting
  <2> QED  BY <1>1, <2>1, Unseen
<1>8. CASE Tick
  <2>1. now' > now
    BY <1>0, <1>8 DEF Tick, IInv, TypeOK
  <2>2. UNCHANGED <<SignedGrant, MovedSoFar, TakenBack>>
    BY <1>8, Unseen DEF Tick, registryVars
  <2>3. Authority!Pass
    BY <2>1, <2>2 DEF Authority!Pass, SignedGrant, MovedSoFar, TakenBack
  <2> QED  BY <2>3 DEF Authority!Next
<1>9. ASSUME UNCHANGED <<now, mandate, statement>>
      PROVE  UNCHANGED Authority!authorityVars
  BY <1>1, <1>9, Unseen
<1>10. (\E p \in Pools : RegisterPool(p)) \/ Wallet \/ UNCHANGED vars
          => UNCHANGED <<now, mandate, statement>>
  BY DEF RegisterPool, Wallet, registryVars, vars
<1> QED
  BY <1>2, <1>3, <1>4, <1>5, <1>6, <1>7, <1>8, <1>9, <1>10 DEF Next

\* Through every path of the contract money moves only as the user granted:
\* within the limit, in strictly growing totals, before the expiry, never
\* after the withdrawal.
THEOREM RegistryIsAuthority == Spec => ImplementsAuthority
<1>1. Init => Authority!Init
  <2> SUFFICES ASSUME Init  PROVE Authority!Init
    OBVIOUS
  <2>1. DOMAIN mandate = {} /\ now = 0
    BY DEF Init
  <2> QED  BY <2>1 DEF Authority!Init
<1>2. PoolInv /\ [Next]_vars => [Authority!Next]_(Authority!authorityVars)
  BY AuthorityStep
<1> QED
  BY <1>1, <1>2, PoolInvariance, PTL DEF Spec, ImplementsAuthority, Authority!Spec
-----------------------------------------------------------------------------
(* The money                                                               *)

\* The mandates of M that name asset a and merchant v, and what they record
\* as spent.
PayingTo(M, a, v) == {m \in DOMAIN M : M[m].terms.asset = a /\ M[m].terms.merchant = v}
SpentOf(M)        == [m \in DOMAIN M |-> M[m].spent]
SpentSum(M, S)    == MapThenSumSet(LAMBDA m : M[m].spent, S)

\* MerchantsReceiveSpent with its sum as a Total.
BooksBalance ==
    \A a \in Assets, v \in Merchants :
        balance[a][v] = Total(SpentOf(mandate), PayingTo(mandate, a, v))

MoneyInv == PoolInv /\ TokenTypeOK /\ BooksBalance

\* The sum of the spent counters is a Total.
LEMMA SpentIsTotal ==
    ASSUME NEW M, NEW S, IsFiniteSet(S), S \subseteq DOMAIN M
    PROVE  SpentSum(M, S) = Total(SpentOf(M), S)
<1> DEFINE f == SpentOf(M)
           P(g) == g = [s \in SUBSET S |->
                           IF s = {} THEN 0
                           ELSE M[CHOOSE x \in s : TRUE].spent + g[s \ {CHOOSE x \in s : TRUE}]]
<1>1. SpentSum(M, S) = (CHOOSE g : P(g))[S]
  BY DEF SpentSum, MapThenSumSet, MapThenFoldSet
<1>2. \A g : P(g) <=> Sums(g, f, S)
  <2>1. \A s \in SUBSET S : s # {} =>
           f[CHOOSE x \in s : TRUE] = M[CHOOSE x \in s : TRUE].spent
    BY DEF SpentOf
  <2> HIDE DEF f
  <2> QED  BY <2>1 DEF Sums
<1> HIDE DEF P, f
<1>3. \E g : P(g)
  BY <1>2, SumsExist
<1>4. P(CHOOSE g : P(g))
  BY <1>3
<1>5. (CHOOSE g : P(g))[S] = Total(f, S)
  BY <1>2, <1>4, AnySums
<1> QED
  BY <1>1, <1>5 DEF f

\* Both ways to write the sum say the same.
LEMMA BooksAreSpent ==
    ASSUME TypeOK
    PROVE  BooksBalance => MerchantsReceiveSpent
<1>1. \A a \in Assets, v \in Merchants :
         SpentSum(mandate, PayingTo(mandate, a, v))
            = Total(SpentOf(mandate), PayingTo(mandate, a, v))
  <2>1. \A a, v : PayingTo(mandate, a, v) \subseteq DOMAIN mandate
    BY DEF PayingTo
  <2>2. \A a, v : IsFiniteSet(PayingTo(mandate, a, v))
    BY <2>1, RegistryAssumption, FS_Subset DEF TypeOK
  <2> QED  BY <2>1, <2>2, SpentIsTotal
<1>2. (\A a \in Assets, v \in Merchants :
          balance[a][v] = SpentSum(mandate, PayingTo(mandate, a, v)))
      => MerchantsReceiveSpent
  BY DEF MerchantsReceiveSpent, SpentSum, PayingTo
<1> QED
  BY <1>1, <1>2 DEF BooksBalance

\* A debit is the Total of the legs drawn on its owner.
LEMMA DebitIsTotal ==
    ASSUME NEW u, NEW owner, NEW leg
    PROVE  Debit(u, owner, leg) = Total(leg, {m \in DOMAIN leg : owner[m] = u})
BY DEF Debit, Total

\* N is M with the mandates B, all of the deal (a0, v0), charged their legs,
\* and perhaps with new mandates of which nothing is spent.
Charges(M, N, B, leg, a0, v0) ==
    /\ IsFiniteSet(DOMAIN M) /\ IsFiniteSet(DOMAIN N) /\ B \subseteq DOMAIN M
    /\ \A m \in DOMAIN M : /\ m \in DOMAIN N
                           /\ N[m].terms = M[m].terms
                           /\ M[m].spent \in Int
                           /\ N[m].spent = IF m \in B THEN M[m].spent + leg[m]
                                                      ELSE M[m].spent
    /\ \A m \in DOMAIN N : m \notin DOMAIN M => N[m].spent = 0
    /\ \A m \in B : /\ leg[m] \in Int
                    /\ M[m].terms.asset = a0
                    /\ M[m].terms.merchant = v0

\* Charging raises what that deal's merchant is due by the legs, and what
\* anybody else is due not at all.
LEMMA DueGrows ==
    ASSUME NEW M, NEW N, NEW B, NEW leg, NEW a0, NEW v0,
           Charges(M, N, B, leg, a0, v0), NEW a, NEW v
    PROVE  Total(SpentOf(N), PayingTo(N, a, v)) =
              Total(SpentOf(M), PayingTo(M, a, v))
                 + IF a = a0 /\ v = v0 THEN Total(leg, B) ELSE 0
<1> DEFINE S == PayingTo(M, a, v)
           T == PayingTo(N, a, v)
           f == SpentOf(M)
           g == SpentOf(N)
<1>0. /\ IsFiniteSet(DOMAIN M) /\ IsFiniteSet(DOMAIN N) /\ B \subseteq DOMAIN M
      /\ \A m \in DOMAIN M : /\ m \in DOMAIN N
                             /\ N[m].terms = M[m].terms
                             /\ M[m].spent \in Int
                             /\ N[m].spent = IF m \in B THEN M[m].spent + leg[m]
                                                        ELSE M[m].spent
      /\ \A m \in DOMAIN N : m \notin DOMAIN M => N[m].spent = 0
      /\ \A m \in B : /\ leg[m] \in Int
                      /\ M[m].terms.asset = a0
                      /\ M[m].terms.merchant = v0
  BY DEF Charges
<1>1. S \in SUBSET T /\ S \subseteq DOMAIN M /\ T \subseteq DOMAIN N
  BY <1>0 DEF PayingTo
<1>2. IsFiniteSet(S) /\ IsFiniteSet(T)
  BY <1>0, <1>1, FS_Subset
<1>3. \A m \in S : f[m] \in Int /\ g[m] = IF m \in B THEN f[m] + leg[m] ELSE f[m]
  BY <1>0, <1>1 DEF SpentOf
<1>4. (\A m \in T : g[m] \in Int) /\ \A m \in T \ S : g[m] = 0
  <2>1. \A m \in T \ S : m \in DOMAIN N /\ m \notin DOMAIN M
    BY <1>0 DEF PayingTo
  <2>2. \A m \in T : m \in DOMAIN M => m \in S
    BY <1>0 DEF PayingTo
  <2> QED  BY <1>0, <2>1, <2>2, <1>1 DEF SpentOf
<1>5. IF a = a0 /\ v = v0 THEN B \subseteq S ELSE B \cap S = {}
  BY <1>0 DEF PayingTo
<1> HIDE DEF S, T, f, g
<1>6. Total(g, T) = Total(g, S)
  BY <1>1, <1>2, <1>4, TotalSkipsZeros
<1>7. CASE a = a0 /\ v = v0
  <2>1. B \in SUBSET S /\ \A m \in S : f[m] \in Int
    BY <1>0, <1>3, <1>5, <1>7
  <2>2. Total(g, S) = Total(f, S) + Total(leg, B)
    BY <1>0, <1>2, <1>3, <2>1, TotalCharged
  <2> QED  BY <1>6, <1>7, <2>2 DEF S, T, f, g
<1>8. CASE ~ (a = a0 /\ v = v0)
  <2>1. \A m \in S : f[m] \in Int /\ g[m] = f[m]
    BY <1>3, <1>5, <1>8
  <2>2. Total(g, S) = Total(f, S)
    BY <1>2, <2>1, TotalAgrees
  <2>3. Total(f, S) \in Int
    BY <1>2, <2>1, TotalSplits
  <2> QED  BY <1>6, <1>8, <2>2, <2>3 DEF S, T, f, g
<1> QED
  BY <1>7, <1>8

\* A batch that goes through debits users only, within what they hold and
\* allow, and credits one merchant with the total of its legs.
LEMMA BatchMoves ==
    ASSUME TokenTypeOK, NEW a \in Assets, NEW to \in Merchants, NEW owner, NEW leg,
           IsFiniteSet(DOMAIN leg),
           \A m \in DOMAIN leg : leg[m] \in Nat /\ owner[m] \in Users,
           TransferAll(a, owner, to, leg)
    PROVE  /\ TokenTypeOK'
           /\ \A b \in Assets, v \in Merchants :
                 balance'[b][v] = balance[b][v]
                    + IF b = a /\ v = to THEN Total(leg, DOMAIN leg) ELSE 0
<1> DEFINE credit   == Total(leg, DOMAIN leg)
           taken(u) == Total(leg, {m \in DOMAIN leg : owner[m] = u})
<1>1. credit \in Nat /\ \A u : taken(u) \in Nat
  <2>1. \A u : IsFiniteSet({m \in DOMAIN leg : owner[m] = u})
    BY FS_Subset
  <2> QED  BY <2>1, TotalNatural
<1>2. \A v \in Merchants : taken(v) = 0
  <2> SUFFICES ASSUME NEW v \in Merchants  PROVE taken(v) = 0
    OBVIOUS
  <2>1. {m \in DOMAIN leg : owner[m] = v} = {}
    BY TokenAssumption
  <2> QED  BY <2>1, TotalOfNone
<1>3. \A u \in Users : /\ balance[a][u] \in Nat /\ allowance[a][u] \in Nat
                       /\ taken(u) <= balance[a][u]
                       /\ taken(u) <= allowance[a][u]
  <2> SUFFICES ASSUME NEW u \in Users
               PROVE  /\ balance[a][u] \in Nat /\ allowance[a][u] \in Nat
                      /\ taken(u) <= balance[a][u]
                      /\ taken(u) <= allowance[a][u]
    OBVIOUS
  <2>1. balance[a][u] \in Nat /\ allowance[a][u] \in Nat
    BY DEF TokenTypeOK, Accounts
  <2>2. CASE {m \in DOMAIN leg : owner[m] = u} = {}
    <3>1. taken(u) = 0
      BY <2>2, TotalOfNone
    <3> HIDE DEF taken
    <3> QED  BY <2>1, <3>1
  <2>3. CASE {m \in DOMAIN leg : owner[m] = u} # {}
    <3>1. Debit(u, owner, leg) <= balance[a][u] /\ Debit(u, owner, leg) <= allowance[a][u]
      BY <2>3 DEF TransferAll, CanTransferAll
    <3> QED  BY <2>1, <3>1, DebitIsTotal
  <2> QED  BY <2>2, <2>3
<1>4. /\ balance' = [balance EXCEPT ![a] =
             [x \in Accounts |-> IF x = to THEN balance[a][x] + credit
                                           ELSE balance[a][x] - taken(x)]]
      /\ allowance' = [allowance EXCEPT ![a] =
             [u \in Users |-> allowance[a][u] - taken(u)]]
      /\ frozen' = frozen
  <2>1. \A x : Debit(x, owner, leg) = taken(x)
    BY DebitIsTotal
  <2>2. balance' = [balance EXCEPT ![a] =
             [x \in Accounts |-> IF x = to THEN @[x] + Total(leg, DOMAIN leg)
                                           ELSE @[x] - Debit(x, owner, leg)]]
    BY DEF TransferAll, Total
  <2>3. /\ allowance' = [allowance EXCEPT ![a] =
             [u \in Users |-> @[u] - Debit(u, owner, leg)]]
        /\ frozen' = frozen
    BY DEF TransferAll
  <2> HIDE DEF taken
  <2> QED  BY <2>1, <2>2, <2>3
<1> HIDE DEF credit, taken
<1>5. \A x \in Accounts : balance[a][x] \in Nat
  BY DEF TokenTypeOK
<1> DEFINE B == [x \in Accounts |-> IF x = to THEN balance[a][x] + credit
                                              ELSE balance[a][x] - taken(x)]
           A == [u \in Users |-> allowance[a][u] - taken(u)]
<1>6. \A x \in Merchants : balance[a][x] - taken(x) = balance[a][x]
  BY <1>2, <1>5 DEF Accounts
<1>7. B \in [Accounts -> Nat] /\ A \in [Users -> Nat]
  <2>1. \A u \in Users : balance[a][u] - taken(u) \in Nat /\ allowance[a][u] - taken(u) \in Nat
    BY <1>1, <1>3
  <2>2. \A x \in Accounts : balance[a][x] + credit \in Nat
    BY <1>1, <1>5
  <2> QED  BY <1>5, <1>6, <2>1, <2>2 DEF Accounts
<1>8. \A v \in Merchants : B[v] = balance[a][v] + IF v = to THEN credit ELSE 0
  BY <1>1, <1>5, <1>6 DEF Accounts
<1>9. balance' = [balance EXCEPT ![a] = B] /\ allowance' = [allowance EXCEPT ![a] = A]
  BY <1>4
<1> HIDE DEF B, A
<1>10. TokenTypeOK'
  BY <1>4, <1>7, <1>9 DEF TokenTypeOK
<1>11. ASSUME NEW b \in Assets, NEW v \in Merchants
       PROVE  balance'[b][v] = balance[b][v] + IF b = a /\ v = to THEN credit ELSE 0
  <2>1. balance[b][v] \in Nat
    BY DEF TokenTypeOK, Accounts
  <2>2. CASE b = a
    BY <1>8, <1>9, <2>2 DEF TokenTypeOK
  <2>3. CASE b # a
    BY <1>9, <2>1, <2>3 DEF TokenTypeOK
  <2> QED  BY <2>2, <2>3
<1> QED
  BY <1>10, <1>11 DEF credit

\* Steps that charge nobody and touch no merchant's balance.
LEMMA BooksStay ==
    ASSUME IInv, IInv', BooksBalance,
           \A a \in Assets, v \in Merchants : balance'[a][v] = balance[a][v],
           \A m \in DOMAIN mandate : /\ m \in DOMAIN mandate'
                                     /\ mandate'[m].terms = mandate[m].terms
                                     /\ mandate'[m].spent = mandate[m].spent,
           \A m \in DOMAIN mandate' : m \notin DOMAIN mandate => mandate'[m].spent = 0
    PROVE  BooksBalance'
<1>1. IsFiniteSet(DOMAIN mandate) /\ IsFiniteSet(DOMAIN mandate')
  BY RegistryAssumption, FS_Subset DEF IInv, TypeOK
<1>2. \A m \in DOMAIN mandate : mandate[m].spent \in Int
  BY DEF IInv, TypeOK, Mandate
<1> SUFFICES ASSUME NEW a \in Assets, NEW v \in Merchants
             PROVE  balance'[a][v] = Total(SpentOf(mandate'), PayingTo(mandate', a, v))
  BY DEF BooksBalance
<1>3. Total(SpentOf(mandate'), PayingTo(mandate', a, v)) =
         Total(SpentOf(mandate), PayingTo(mandate, a, v))
            + IF a = a /\ v = v THEN Total(SpentOf(mandate), {}) ELSE 0
  <2>1. Charges(mandate, mandate', {}, SpentOf(mandate), a, v)
    BY <1>1, <1>2 DEF Charges
  <2> QED  BY <2>1, DueGrows
<1>4. balance[a][v] = Total(SpentOf(mandate), PayingTo(mandate, a, v))
  BY DEF BooksBalance
<1>5. Total(SpentOf(mandate), PayingTo(mandate, a, v)) \in Int
  <2>1. PayingTo(mandate, a, v) \subseteq DOMAIN mandate
    BY DEF PayingTo
  <2>2. IsFiniteSet(PayingTo(mandate, a, v))
    BY <1>1, <2>1, FS_Subset
  <2>3. \A m \in PayingTo(mandate, a, v) : SpentOf(mandate)[m] \in Int
    BY <1>2, <2>1 DEF SpentOf
  <2> QED  BY <2>2, <2>3, TotalSplits
<1> QED
  BY <1>3, <1>4, <1>5, TotalOfNone

\* A money path that charges the mandates of one deal and moves the legs to
\* its merchant keeps the books.
LEMMA BooksCharged ==
    ASSUME IInv, IInv', BooksBalance, TokenTypeOK,
           DOMAIN mandate' = DOMAIN mandate,
           NEW a0 \in Assets, NEW v0 \in Merchants, NEW owner, NEW leg,
           TransferAll(a0, owner, v0, leg),
           \A m \in DOMAIN leg : /\ m \in DOMAIN mandate
                                 /\ leg[m] \in Nat
                                 /\ owner[m] \in Users
                                 /\ mandate[m].terms.asset = a0
                                 /\ mandate[m].terms.merchant = v0,
           \A m \in DOMAIN mandate :
              /\ mandate'[m].terms = mandate[m].terms
              /\ mandate'[m].spent = IF m \in DOMAIN leg THEN mandate[m].spent + leg[m]
                                                         ELSE mandate[m].spent
    PROVE  TokenTypeOK' /\ BooksBalance'
<1>1. IsFiniteSet(DOMAIN mandate) /\ DOMAIN leg \in SUBSET DOMAIN mandate
  BY RegistryAssumption, FS_Subset DEF IInv, TypeOK
<1>2. IsFiniteSet(DOMAIN leg)
  BY <1>1, FS_Subset
<1>3. \A m \in DOMAIN mandate : mandate[m].spent \in Int
  BY DEF IInv, TypeOK, Mandate
<1>4. /\ TokenTypeOK'
      /\ \A b \in Assets, v \in Merchants :
            balance'[b][v] = balance[b][v]
               + IF b = a0 /\ v = v0 THEN Total(leg, DOMAIN leg) ELSE 0
  <2>1. \A m \in DOMAIN leg : leg[m] \in Nat /\ owner[m] \in Users
    OBVIOUS
  <2> QED  BY <1>2, <2>1, BatchMoves
<1>5. ASSUME NEW a \in Assets, NEW v \in Merchants
      PROVE  Total(SpentOf(mandate'), PayingTo(mandate', a, v)) =
                Total(SpentOf(mandate), PayingTo(mandate, a, v))
                   + IF a = a0 /\ v = v0 THEN Total(leg, DOMAIN leg) ELSE 0
  <2>1. Charges(mandate, mandate', DOMAIN leg, leg, a0, v0)
    BY <1>1, <1>3 DEF Charges
  <2> QED  BY <2>1, DueGrows
<1>6. BooksBalance'
  <2> SUFFICES ASSUME NEW a \in Assets, NEW v \in Merchants
               PROVE  balance'[a][v] = Total(SpentOf(mandate'), PayingTo(mandate', a, v))
    BY DEF BooksBalance
  <2>1. balance[a][v] = Total(SpentOf(mandate), PayingTo(mandate, a, v))
    BY DEF BooksBalance
  <2> QED  BY <1>4, <1>5, <2>1
<1> QED
  BY <1>4, <1>6

\* The wallets and issuers move nothing of a merchant's.
LEMMA WalletKeepsBooks ==
    ASSUME MoneyInv, IInv', Wallet
    PROVE  TokenTypeOK' /\ BooksBalance'
<1>0. IInv /\ TokenTypeOK /\ BooksBalance /\ UNCHANGED mandate
  BY DEF MoneyInv, PoolInv, Wallet, registryVars
<1>1. TokenTypeOK' /\ \A a \in Assets, v \in Merchants : balance'[a][v] = balance[a][v]
  <2>1. ASSUME NEW a \in Assets, NEW u \in Users, NEW x \in Approvals, Approve(a, u, x)
        PROVE  TokenTypeOK' /\ balance' = balance
    <3>1. x \in Nat
      BY RegistryAssumption
    <3> QED  BY <1>0, <2>1, <3>1 DEF Approve, TokenTypeOK
  <2>2. ASSUME NEW a \in Assets, NEW u \in Users, NEW x \in Holdings, MoveFunds(a, u, x)
        PROVE  /\ TokenTypeOK'
               /\ \A b \in Assets, v \in Merchants : balance'[b][v] = balance[b][v]
    <3>1. x \in Nat /\ u \in Accounts
      BY RegistryAssumption DEF Accounts
    <3>2. TokenTypeOK'
      BY <1>0, <2>2, <3>1 DEF MoveFunds, TokenTypeOK
    <3>3. \A v \in Merchants : v # u
      BY TokenAssumption
    <3> QED  BY <1>0, <2>2, <3>2, <3>3 DEF MoveFunds, TokenTypeOK
  <2>3. ASSUME NEW f \in Freezable, ToggleTrustline(f[1], f[2])
        PROVE  TokenTypeOK' /\ balance' = balance
    <3>1. <<f[1], f[2]>> \in Assets \X Accounts
      BY RegistryAssumption
    <3> QED  BY <1>0, <2>3, <3>1 DEF ToggleTrustline, TokenTypeOK
  <2> QED  BY <2>1, <2>2, <2>3 DEF Wallet
<1> QED
  BY <1>0, <1>1, BooksStay

\* execute_payment charges one mandate and pays its merchant.
LEMMA PayingKeepsBooks ==
    ASSUME MoneyInv, IInv', NEW m \in Mandates, NEW amount \in PayAmounts,
           NEW n \in ExpectedSeqs, ExecutePayment(m, amount, n)
    PROVE  TokenTypeOK' /\ BooksBalance'
<1> DEFINE t     == mandate[m].terms
           leg   == [x \in {m} |-> amount]
           owner == [x \in {m} |-> t.user]
<1>0. IInv /\ TokenTypeOK /\ BooksBalance
  BY DEF MoneyInv, PoolInv
<1>1. /\ m \in DOMAIN mandate
      /\ DOMAIN mandate' = DOMAIN mandate
      /\ mandate'[m].terms = mandate[m].terms
      /\ \A x \in DOMAIN mandate : x # m => mandate'[x] = mandate[x]
  BY <1>0, Paying
<1>2. /\ amount \in Nat
      /\ mandate' = [mandate EXCEPT ![m] = Consume(mandate[m], amount)]
  BY RegistryAssumption DEF ExecutePayment, MayPay, Check
<1>3. mandate[m] \in Mandate /\ t \in Terms
  BY <1>0, <1>1 DEF IInv, TypeOK, Mandate
<1>4. mandate'[m].spent = mandate[m].spent + amount
  BY <1>1, <1>2, <1>3, ConsumeFrame
<1>5. t.asset \in Assets /\ t.merchant \in Merchants /\ t.user \in Users
  BY <1>3 DEF Terms
<1>6. TransferAll(t.asset, owner, t.merchant, leg)
  BY DEF ExecutePayment
<1>7. /\ DOMAIN leg = {m}
      /\ leg[m] = amount /\ owner[m] = t.user
  OBVIOUS
<1>8. mandate[m].terms = t
  OBVIOUS
<1> HIDE DEF leg, owner, t
<1>9. /\ \A x \in DOMAIN leg : /\ x \in DOMAIN mandate
                               /\ leg[x] \in Nat
                               /\ owner[x] \in Users
                               /\ mandate[x].terms.asset = t.asset
                               /\ mandate[x].terms.merchant = t.merchant
      /\ \A x \in DOMAIN mandate :
            /\ mandate'[x].terms = mandate[x].terms
            /\ mandate'[x].spent = IF x \in DOMAIN leg THEN mandate[x].spent + leg[x]
                                                       ELSE mandate[x].spent
  BY <1>1, <1>2, <1>4, <1>5, <1>7, <1>8
<1> QED
  BY <1>0, <1>1, <1>5, <1>6, <1>9, BooksCharged

\* clear_pool charges the buyers and pays the pool's merchant, or charges
\* nobody.
LEMMA ClosingKeepsBooks ==
    ASSUME MoneyInv, IInv', NEW p \in Pools, ClearPool(p)
    PROVE  TokenTypeOK' /\ BooksBalance'
<1> DEFINE outcome == ClosingOutcome(p)
           bought  == DOMAIN outcome.allocations
           Leg(m)  == outcome.clearing_price * outcome.allocations[m]
           leg     == [m \in bought |-> Leg(m) - FeeOf(Leg(m), pool[p].fee_bps_pinned)]
           owner   == [m \in bought |-> mandate[m].terms.user]
           t       == PoolTerms[p]
<1>0. IInv /\ TokenTypeOK /\ BooksBalance
  BY DEF MoneyInv, PoolInv
<1>1. /\ p \in DOMAIN pool
      /\ DOMAIN mandate' = DOMAIN mandate
      /\ \A m \in DOMAIN mandate : /\ mandate'[m].terms = mandate[m].terms
                                   /\ m \notin Committed(p) => mandate'[m] = mandate[m]
  BY <1>0, Closing
<1>2. \A m \in DOMAIN mandate : mandate[m] \in Mandate
  BY <1>0 DEF IInv, TypeOK
<1>3. CASE ~ outcome.fires /\ AbortPool(p)
  <2>1. UNCHANGED <<balance, allowance, frozen>>
    BY <1>3 DEF AbortPool, tokenVars
  <2>2. ASSUME NEW m \in DOMAIN mandate
        PROVE  mandate'[m].spent = mandate[m].spent
    <3>1. [mandate[m] EXCEPT !.pool_state = "Released"].spent = mandate[m].spent
      BY <1>2 DEF Mandate
    <3> QED  BY <1>3, <3>1 DEF AbortPool, Release
  <2>3. TokenTypeOK'
    BY <1>0, <2>1 DEF TokenTypeOK
  <2> QED  BY <1>0, <1>1, <2>1, <2>2, <2>3, BooksStay
<1>4. CASE outcome.fires /\ CapturePool(p, outcome)
  <2>1. /\ bought \subseteq Committed(p)
        /\ outcome.clearing_price \in Nat
        /\ \A m \in bought : /\ m \in DOMAIN mandate
                             /\ PoolOf(m) = p
                             /\ outcome.allocations[m] \in Nat
    BY <1>0, <1>1, ClosingOutcomeShape
  <2>2. \A m \in bought : Leg(m) \in Nat
    <3>1. \A x, y \in Nat : x * y \in Nat
      OBVIOUS
    <3> HIDE DEF outcome
    <3> QED  BY <2>1, <3>1
  <2>3. \A m \in bought : leg[m] = Leg(m)
    <3>1. pool[p].fee_bps_pinned = 0
      BY <1>0, <1>1 DEF IInv, TypeOK, ClearingPool
    <3>2. \A x \in Nat : x - FeeOf(x, 0) = x
      BY DEF FeeOf, BPS_DENOM
    <3> HIDE DEF Leg, bought
    <3> QED  BY <2>2, <3>1, <3>2
  <2>4. /\ TransferAll(t.asset, owner, t.merchant, leg)
        /\ mandate' = [m \in DOMAIN mandate |->
              IF m \notin Committed(p) THEN mandate[m]
              ELSE IF m \in bought
              THEN [Consume(mandate[m], Leg(m)) EXCEPT !.pool_state = "Captured"]
              ELSE [mandate[m] EXCEPT !.pool_state = "Released"]]
    BY <1>4 DEF CapturePool
  <2>5. DOMAIN leg = bought /\ \A m \in bought : owner[m] = mandate[m].terms.user
    OBVIOUS
  <2>6. t.asset \in Assets /\ t.merchant \in Merchants
    BY RegistryAssumption
  <2> HIDE DEF leg, owner, bought, Leg, outcome, t
  <2>7. ASSUME NEW m \in bought
        PROVE  /\ owner[m] \in Users
               /\ mandate[m].terms.asset = t.asset
               /\ mandate[m].terms.merchant = t.merchant
    <3>1. mandate[m].terms \in Terms /\ PoolOf(m) = p /\ m \in DOMAIN mandate
      BY <1>2, <2>1 DEF Mandate
    <3>2. PoolOf(m) # NoPool
      BY <3>1, RegistryAssumption
    <3> QED  BY <1>0, <2>5, <3>1, <3>2 DEF IInv, PoolLinked, Terms, t
  <2>8. ASSUME NEW m \in DOMAIN mandate
        PROVE  mandate'[m].spent = IF m \in bought THEN mandate[m].spent + leg[m]
                                                   ELSE mandate[m].spent
    <3>1. CASE m \in bought
      <4>1. mandate'[m] = [Consume(mandate[m], Leg(m)) EXCEPT !.pool_state = "Captured"]
        BY <2>1, <2>4, <3>1
      <4> QED  BY <1>2, <2>3, <3>1, <4>1, ConsumeFrame
    <3>2. CASE m \notin bought
      <4>1. [mandate[m] EXCEPT !.pool_state = "Released"].spent = mandate[m].spent
        BY <1>2 DEF Mandate
      <4> QED  BY <2>4, <3>2, <4>1
    <3> QED  BY <3>1, <3>2
  <2>9. /\ \A m \in DOMAIN leg : /\ m \in DOMAIN mandate
                                 /\ leg[m] \in Nat
                                 /\ owner[m] \in Users
                                 /\ mandate[m].terms.asset = t.asset
                                 /\ mandate[m].terms.merchant = t.merchant
        /\ \A m \in DOMAIN mandate :
              /\ mandate'[m].terms = mandate[m].terms
              /\ mandate'[m].spent = IF m \in DOMAIN leg THEN mandate[m].spent + leg[m]
                                                         ELSE mandate[m].spent
    BY <1>1, <2>1, <2>2, <2>3, <2>5, <2>7, <2>8
  <2> QED  BY <1>0, <1>1, <2>4, <2>6, <2>9, BooksCharged
<1> QED
  BY <1>3, <1>4 DEF ClearPool

\* Every call and every step of the environment keeps the books.
LEMMA MoneyNextKeeps == MoneyInv /\ [Next]_vars => MoneyInv'
<1> SUFFICES ASSUME MoneyInv, [Next]_vars  PROVE MoneyInv'
  OBVIOUS
<1>0. /\ PoolInv /\ PoolInv' /\ IInv /\ IInv'
      /\ TokenTypeOK /\ BooksBalance /\ MembershipAgrees
  BY PoolNextKeeps DEF MoneyInv, PoolInv
<1> SUFFICES TokenTypeOK' /\ BooksBalance'
  BY <1>0 DEF MoneyInv
<1>1. ASSUME UNCHANGED tokenVars,
             \A m \in DOMAIN mandate : /\ m \in DOMAIN mandate'
                                       /\ mandate'[m].terms = mandate[m].terms
                                       /\ mandate'[m].spent = mandate[m].spent,
             \A m \in DOMAIN mandate' : m \notin DOMAIN mandate => mandate'[m].spent = 0
      PROVE  TokenTypeOK' /\ BooksBalance'
  <2>1. balance' = balance /\ TokenTypeOK'
    BY <1>0, <1>1 DEF tokenVars, TokenTypeOK
  <2> QED  BY <1>0, <1>1, <2>1, BooksStay
<1>2. ASSUME NEW m \in Mandates, NEW t \in Offers[m], RegisterMandate(m, t)
      PROVE  TokenTypeOK' /\ BooksBalance'
  <2>1. /\ DOMAIN mandate' = DOMAIN mandate \cup {m}
        /\ mandate'[m] = [terms |-> t, spent |-> 0, seq |-> 0,
                          status |-> "Active", pool_state |-> "Unlinked"]
        /\ \A x \in DOMAIN mandate : mandate'[x] = mandate[x]
    BY <1>0, <1>2, Registering
  <2>2. mandate'[m].spent = 0 /\ UNCHANGED tokenVars
    BY <1>2, <2>1 DEF RegisterMandate
  <2> QED  BY <1>1, <2>1, <2>2
<1>3. ASSUME NEW m \in DOMAIN mandate, UNCHANGED tokenVars,
             DOMAIN mandate' = DOMAIN mandate,
             mandate'[m].terms = mandate[m].terms,
             mandate'[m].spent = mandate[m].spent,
             \A x \in DOMAIN mandate : x # m => mandate'[x] = mandate[x]
      PROVE  TokenTypeOK' /\ BooksBalance'
  BY <1>1, <1>3
<1>4. ASSUME NEW m \in Mandates, RevokeMandate(m)
      PROVE  TokenTypeOK' /\ BooksBalance'
  <2>1. m \in DOMAIN mandate /\ mandate[m] \in Mandate /\ UNCHANGED tokenVars
    BY <1>0, <1>4 DEF RevokeMandate, IInv, TypeOK
  <2>2. /\ [mandate[m] EXCEPT !.status = "Revoked"].spent = mandate[m].spent
        /\ [mandate[m] EXCEPT !.status = "Revoked",
                              !.pool_state = "Released"].spent = mandate[m].spent
    BY <2>1 DEF Mandate
  <2>3. mandate'[m].spent = mandate[m].spent
    BY <1>4, <2>1, <2>2 DEF RevokeMandate
  <2>4. /\ DOMAIN mandate' = DOMAIN mandate
        /\ mandate'[m].terms = mandate[m].terms
        /\ \A x \in DOMAIN mandate : x # m => mandate'[x] = mandate[x]
    BY <1>0, <1>4, Revoking
  <2> QED  BY <1>3, <2>1, <2>3, <2>4
<1>5. ASSUME NEW m \in DOMAIN mandate, NEW ps,
             mandate' = [mandate EXCEPT ![m].pool_state = ps], UNCHANGED tokenVars
      PROVE  TokenTypeOK' /\ BooksBalance'
  <2>1. mandate[m] \in Mandate
    BY <1>0 DEF IInv, TypeOK
  <2>2. /\ [mandate[m] EXCEPT !.pool_state = ps].terms = mandate[m].terms
        /\ [mandate[m] EXCEPT !.pool_state = ps].spent = mandate[m].spent
    BY <2>1 DEF Mandate
  <2>3. /\ DOMAIN mandate' = DOMAIN mandate
        /\ mandate'[m].terms = mandate[m].terms
        /\ mandate'[m].spent = mandate[m].spent
        /\ \A x \in DOMAIN mandate : x # m => mandate'[x] = mandate[x]
    BY <1>5, <2>2
  <2> QED  BY <1>3, <1>5, <2>3
<1>6. ASSUME NEW m \in Mandates, CommitChild(m)
      PROVE  TokenTypeOK' /\ BooksBalance'
  BY <1>5, <1>6 DEF CommitChild
<1>7. ASSUME NEW p \in Pools, NEW m \in Mandates, EvictChild(p, m)
      PROVE  TokenTypeOK' /\ BooksBalance'
  BY <1>5, <1>7 DEF EvictChild
<1>8. ASSUME UNCHANGED <<mandate, tokenVars>>
      PROVE  TokenTypeOK' /\ BooksBalance'
  BY <1>1, <1>8
<1>9. (\E p \in Pools : RegisterPool(p)) \/ Tick \/ UNCHANGED vars
         => UNCHANGED <<mandate, tokenVars>>
  BY DEF RegisterPool, Tick, registryVars, vars
<1> QED
  BY <1>0, <1>2, <1>4, <1>6, <1>7, <1>8, <1>9,
     PayingKeepsBooks, ClosingKeepsBooks, WalletKeepsBooks DEF Next

\* Nothing is spent and no merchant holds anything when the contract starts.
LEMMA MoneyInitKeeps == Init => TokenTypeOK /\ BooksBalance
<1> SUFFICES ASSUME Init  PROVE TokenTypeOK /\ BooksBalance
  OBVIOUS
<1>1. TokenTypeOK
  BY RegistryAssumption DEF Init, TokenTypeOK
<1>2. \A a, v : PayingTo(mandate, a, v) = {}
  BY DEF Init, PayingTo
<1>3. \A a \in Assets, v \in Merchants : balance[a][v] = 0
  BY TokenAssumption DEF Init, Accounts
<1> QED
  BY <1>1, <1>2, <1>3, TotalOfNone DEF BooksBalance

\* The books are kept in every behaviour.
LEMMA MoneyInvariance == Spec => []MoneyInv
<1>1. Init => MoneyInv
  BY MoneyInitKeeps, PoolInit DEF MoneyInv
<1> QED
  BY <1>1, MoneyNextKeeps, PTL DEF Spec

\* What merchants hold is what the mandates naming them record as spent: no
\* leg is lost, doubled or misdirected by either money path.
THEOREM SpentReachesMerchants == Spec => []MerchantsReceiveSpent
<1>1. MoneyInv => MerchantsReceiveSpent
  BY BooksAreSpent DEF MoneyInv, PoolInv, IInv
<1> QED
  BY <1>1, MoneyInvariance, PTL
-----------------------------------------------------------------------------
(* No member vetoes a capture                                              *)

\* What the contract would close with is what it would report.
LEMMA SimulationIsClosing ==
    ASSUME TypeOK, NEW p \in DOMAIN pool
    PROVE  SimulateClear(p) = ClosingOutcome(p)
<1>1. now \in Nat /\ WindowEnd(p) \in Nat
  BY RegistryAssumption DEF TypeOK, WindowEnd, Deadline
<1> QED
  BY <1>1 DEF SimulateClear, ClosingOutcome

\* A buyer's leg is within what its eligibility found left, held and allowed.
LEMMA LegIsFunded ==
    ASSUME MoneyInv, NEW p \in DOMAIN pool, NEW m \in DOMAIN ClosingOutcome(p).allocations
    PROVE  LET leg == ClosingOutcome(p).clearing_price * ClosingOutcome(p).allocations[m]
               t   == mandate[m].terms
               a   == PoolTerms[p].asset
           IN  /\ leg \in Nat
               /\ leg <= WorstCase(Schedule(m))
               /\ mandate[m].spent + leg <= t.max_amount
               /\ leg <= allowance[a][t.user]
               /\ leg <= balance[a][t.user]
               /\ Authorized(a, t.user)
<1> DEFINE price == ClosingOutcome(p).clearing_price
           leg   == price * ClosingOutcome(p).allocations[m]
           t     == mandate[m].terms
           a     == PoolTerms[p].asset
           wc    == WorstCase(Schedule(m))
<1>0. IInv /\ TokenTypeOK
  BY DEF MoneyInv, PoolInv
<1>1. /\ price \in Nat
      /\ m \in DOMAIN mandate
      /\ PoolOf(m) = p
      /\ ClosingOutcome(p).allocations[m] = Demand(Schedule(m), price)
      /\ ClosingOutcome(p).allocations[m] \in Nat
      /\ Eligible(p, m)
  BY <1>0, ClosingOutcomeShape, ClosingOutcomeFires
<1>2. t \in Terms /\ mandate[m].spent \in Nat
  BY <1>0, <1>1 DEF IInv, TypeOK, Mandate
<1>3. /\ Schedule(m) \in Seq(SchedulePoint)
      /\ ValidSchedule(Schedule(m))
  <2>1. PoolOf(m) # NoPool
    BY <1>0, <1>1, RegistryAssumption DEF IInv, TypeOK
  <2> QED  BY <1>0, <1>1, <1>2, <2>1 DEF IInv, PoolLinked, Schedule, Terms
<1>4. leg \in Nat /\ leg <= wc
  <2>1. price * Demand(Schedule(m), price) <= wc
    BY <1>1, <1>3, LegWithinWorstCase
  <2>2. \A x, y \in Nat : x * y \in Nat
    OBVIOUS
  <2>3. leg = price * Demand(Schedule(m), price)
    BY <1>1
  <2>4. leg \in Nat
    <3> HIDE DEF price
    <3> QED  BY <1>1, <2>2
  <2> HIDE DEF leg, wc
  <2> QED  BY <2>1, <2>3, <2>4
<1>5. wc \in Int
  BY <1>3, WorstCaseBounds
<1>6. /\ t.max_amount - mandate[m].spent >= wc
      /\ allowance[a][t.user] >= wc
      /\ balance[a][t.user] >= wc
      /\ Authorized(a, t.user)
  BY <1>1 DEF Eligible, Funded
<1>7. /\ t.max_amount \in Int
      /\ allowance[a][t.user] \in Nat
      /\ balance[a][t.user] \in Nat
  <2>1. p \in Pools /\ a \in Assets
    BY <1>0, RegistryAssumption DEF IInv, TypeOK
  <2>2. t.max_amount \in Int /\ t.user \in Users
    BY <1>2 DEF Terms
  <2> HIDE DEF a, t
  <2> QED  BY <1>0, <2>1, <2>2 DEF TokenTypeOK, Accounts
<1>8. /\ mandate[m].spent + leg <= t.max_amount
      /\ leg <= allowance[a][t.user]
      /\ leg <= balance[a][t.user]
  <2> HIDE DEF leg, wc, t, a
  <2> QED  BY <1>2, <1>4, <1>5, <1>6, <1>7
<1> QED
  BY <1>4, <1>6, <1>8

\* A committed user has no other leg in the batch, so that the debit the token
\* makes is the leg that eligibility looked at.
LEMMA OneLegPerUser ==
    ASSUME MoneyInv, NEW p \in DOMAIN pool, pool[p].status = "Open",
           NEW leg, DOMAIN leg = DOMAIN ClosingOutcome(p).allocations,
           NEW m \in DOMAIN leg, leg[m] \in Int
    PROVE  Debit(mandate[m].terms.user,
                 [x \in DOMAIN leg |-> mandate[x].terms.user], leg) = leg[m]
<1> DEFINE owner == [x \in DOMAIN leg |-> mandate[x].terms.user]
           drawn == {x \in DOMAIN leg : owner[x] = mandate[m].terms.user}
<1>1. \A x \in DOMAIN leg : x \in Committed(p)
  BY ClosingOutcomeShape DEF MoneyInv, PoolInv
<1>2. \A x \in DOMAIN leg : mandate[x].terms.user = mandate[m].terms.user => x = m
  BY <1>1 DEF MoneyInv, PoolInv, CommittedIsSound
<1>3. drawn = {m}
  BY <1>2
<1>4. Debit(mandate[m].terms.user, owner, leg) = Total(leg, drawn)
  BY DebitIsTotal
<1> QED
  BY <1>3, <1>4, TotalOfOne

\* A pool that would fire now goes through: every leg within its mandate's
\* budget and accepted by the token, if only the merchant may receive.
THEOREM NobodyVetoes == Spec => []NoMemberVeto
<1>1. ASSUME MoneyInv  PROVE NoMemberVeto
  <2> SUFFICES ASSUME NEW p \in DOMAIN pool, pool[p].status = "Open",
                      Authorized(PoolTerms[p].asset, PoolTerms[p].merchant)
               PROVE  LET outcome == SimulateClear(p)
                          t       == PoolTerms[p]
                          leg     == [m \in DOMAIN outcome.allocations |->
                                         outcome.clearing_price * outcome.allocations[m]]
                      IN  /\ \A m \in DOMAIN leg :
                                /\ mandate[m].spent + leg[m] <= mandate[m].terms.max_amount
                                /\ leg[m] <= WorstCase(Schedule(m))
                          /\ CanTransferAll(t.asset, [m \in DOMAIN leg |-> mandate[m].terms.user],
                                            t.merchant, leg)
    BY DEF NoMemberVeto
  <2> DEFINE outcome == SimulateClear(p)
             t       == PoolTerms[p]
             leg     == [m \in DOMAIN outcome.allocations |->
                            outcome.clearing_price * outcome.allocations[m]]
             owner   == [m \in DOMAIN leg |-> mandate[m].terms.user]
  <2>1. outcome = ClosingOutcome(p)
    BY <1>1, SimulationIsClosing DEF MoneyInv, PoolInv, IInv
  <2>2. /\ DOMAIN leg = DOMAIN ClosingOutcome(p).allocations
        /\ \A m \in DOMAIN leg :
              leg[m] = ClosingOutcome(p).clearing_price * ClosingOutcome(p).allocations[m]
    BY <2>1
  <2> HIDE DEF outcome, leg
  <2>3. \A m \in DOMAIN leg : /\ leg[m] \in Nat
                              /\ leg[m] <= WorstCase(Schedule(m))
                              /\ mandate[m].spent + leg[m] <= mandate[m].terms.max_amount
                              /\ leg[m] <= allowance[t.asset][mandate[m].terms.user]
                              /\ leg[m] <= balance[t.asset][mandate[m].terms.user]
                              /\ Authorized(t.asset, mandate[m].terms.user)
    BY <1>1, <2>2, LegIsFunded
  <2>4. \A m \in DOMAIN leg : Debit(mandate[m].terms.user, owner, leg) = leg[m]
    BY <1>1, <2>2, <2>3, OneLegPerUser
  <2>5. CanTransferAll(t.asset, owner, t.merchant, leg)
    <3>1. \A m \in DOMAIN leg : owner[m] = mandate[m].terms.user
      OBVIOUS
    <3> HIDE DEF owner
    <3> QED  BY <2>3, <2>4, <3>1 DEF CanTransferAll
  <2> QED  BY <2>3, <2>5 DEF leg, outcome
<1> QED
  BY <1>1, MoneyInvariance, PTL
-----------------------------------------------------------------------------
(* What a cleared pool charged                                             *)

\* The members pool p captured, what they ordered and what they paid.
CapturedIn(M, p)       == {m \in DOMAIN M : /\ M[m].terms.pool_id = p
                                            /\ M[m].pool_state = "Captured"}
PaidLast(st, m)        == st[m][Len(st[m])].amount
Ordered(M, S, price)   == [m \in S |-> Demand(M[m].terms.price_schedule, price)]
PaidLegs(st, S)        == [m \in S |-> PaidLast(st, m)]
OrderedSum(M, S, price) == MapThenSumSet(LAMBDA m : Demand(M[m].terms.price_schedule, price), S)
PaidSum(st, S)         == MapThenSumSet(LAMBDA m : PaidLast(st, m), S)

\* UniformPriceCapture for a pool p with terms t, its sums as Totals.
Settled(M, st, status, p) ==
    LET S == CapturedIn(M, p) IN
    /\ S # {} => status = "Cleared"
    /\ status = "Cleared" =>
          /\ \E price \in 1 .. MaxUnitPrice :
                /\ \A m \in S :
                      PaidLast(st, m) = price * Demand(M[m].terms.price_schedule, price)
                /\ Total(Ordered(M, S, price), S) >= PoolTerms[p].threshold_qty
          /\ Total(PaidLegs(st, S), S) >= PoolTerms[p].threshold_value

AllSettled == \A p \in DOMAIN pool : Settled(mandate, statement, pool[p].status, p)

SettledInv == PoolInv /\ AllSettled

\* The order captured is a Total.
LEMMA OrderedIsTotal ==
    ASSUME NEW M, NEW S, IsFiniteSet(S), NEW price
    PROVE  OrderedSum(M, S, price) = Total(Ordered(M, S, price), S)
<1> DEFINE f == Ordered(M, S, price)
           e(x) == Demand(M[x].terms.price_schedule, price)
           P(g) == g = [s \in SUBSET S |->
                           IF s = {} THEN 0
                           ELSE e(CHOOSE x \in s : TRUE) + g[s \ {CHOOSE x \in s : TRUE}]]
<1>1. OrderedSum(M, S, price) = (CHOOSE g : P(g))[S]
  BY DEF OrderedSum, MapThenSumSet, MapThenFoldSet
<1>2. \A g : P(g) <=> Sums(g, f, S)
  <2>1. \A s \in SUBSET S : s # {} => f[CHOOSE x \in s : TRUE] = e(CHOOSE x \in s : TRUE)
    <3>1. \A x \in S : f[x] = e(x)
      BY DEF Ordered
    <3> HIDE DEF f, e
    <3> QED  BY <3>1
  <2> HIDE DEF f, e
  <2> QED  BY <2>1 DEF Sums
<1> HIDE DEF P, f
<1>3. \E g : P(g)
  BY <1>2, SumsExist
<1>4. P(CHOOSE g : P(g))
  BY <1>3
<1>5. (CHOOSE g : P(g))[S] = Total(f, S)
  BY <1>2, <1>4, AnySums
<1> QED
  BY <1>1, <1>5 DEF f

\* The value captured is a Total.
LEMMA PaidIsTotal ==
    ASSUME NEW st, NEW S, IsFiniteSet(S)
    PROVE  PaidSum(st, S) = Total(PaidLegs(st, S), S)
<1> DEFINE f == PaidLegs(st, S)
           P(g) == g = [s \in SUBSET S |->
                           IF s = {} THEN 0
                           ELSE PaidLast(st, CHOOSE x \in s : TRUE)
                                   + g[s \ {CHOOSE x \in s : TRUE}]]
<1>1. PaidSum(st, S) = (CHOOSE g : P(g))[S]
  BY DEF PaidSum, MapThenSumSet, MapThenFoldSet
<1>2. \A g : P(g) <=> Sums(g, f, S)
  <2>1. \A s \in SUBSET S : s # {} =>
           f[CHOOSE x \in s : TRUE] = PaidLast(st, CHOOSE x \in s : TRUE)
    <3>1. \A x \in S : f[x] = PaidLast(st, x)
      BY DEF PaidLegs
    <3> HIDE DEF f
    <3> QED  BY <3>1
  <2> HIDE DEF f
  <2> QED  BY <2>1 DEF Sums
<1> HIDE DEF P, f
<1>3. \E g : P(g)
  BY <1>2, SumsExist
<1>4. P(CHOOSE g : P(g))
  BY <1>3
<1>5. (CHOOSE g : P(g))[S] = Total(f, S)
  BY <1>2, <1>4, AnySums
<1> QED
  BY <1>1, <1>5 DEF f

\* Both ways to write the settlement say the same.
LEMMA SettledIsUniform ==
    ASSUME TypeOK, AllSettled
    PROVE  UniformPriceCapture
<1>1. \A p : CapturedIn(mandate, p) = CapturedBy(p) /\ IsFiniteSet(CapturedBy(p))
  <2>1. \A p : CapturedBy(p) \subseteq Mandates
    BY DEF TypeOK, CapturedBy
  <2>2. \A p : IsFiniteSet(CapturedBy(p))
    BY <2>1, RegistryAssumption, FS_Subset
  <2> QED  BY <2>2 DEF CapturedIn, CapturedBy, PoolOf
<1>2. \A p \in DOMAIN pool :
         /\ CapturedBy(p) # {} => pool[p].status = "Cleared"
         /\ pool[p].status = "Cleared" =>
               /\ \E price \in 1 .. MaxUnitPrice :
                     /\ \A m \in CapturedBy(p) :
                           LastAmount(m) = price * Demand(Schedule(m), price)
                     /\ OrderedSum(mandate, CapturedBy(p), price)
                           >= PoolTerms[p].threshold_qty
               /\ PaidSum(statement, CapturedBy(p)) >= PoolTerms[p].threshold_value
  BY <1>1, OrderedIsTotal, PaidIsTotal DEF AllSettled, Settled, LastAmount, PaidLast, Schedule
<1> QED
  BY <1>2 DEF UniformPriceCapture, OrderedSum, PaidSum, PaidLast, Schedule, LastAmount

\* A pool whose status, captured members and their payments stay is settled as
\* it was.
LEMMA SettledStays ==
    ASSUME NEW M, NEW N, NEW st, NEW su, NEW status, NEW p, Settled(M, st, status, p),
           CapturedIn(N, p) = CapturedIn(M, p),
           \A m \in CapturedIn(M, p) : N[m].terms = M[m].terms /\ su[m] = st[m]
    PROVE  Settled(N, su, status, p)
<1> DEFINE S == CapturedIn(M, p)
<1>1. \A price : Ordered(N, S, price) = Ordered(M, S, price)
  BY DEF Ordered
<1>2. PaidLegs(su, S) = PaidLegs(st, S) /\ \A m \in S : PaidLast(su, m) = PaidLast(st, m)
  BY DEF PaidLegs, PaidLast
<1>3. \A m \in S : N[m].terms = M[m].terms
  OBVIOUS
<1>4. CapturedIn(N, p) = S /\ S = CapturedIn(M, p)
  OBVIOUS
<1> HIDE DEF S
<1> QED
  BY <1>1, <1>2, <1>3, <1>4 DEF Settled

\* Steps that neither capture a mandate, pay for a captured one nor close a
\* pool leave every pool settled as it was.
LEMMA AllSettledStays ==
    ASSUME IInv, IInv', AllSettled,
           \A m \in DOMAIN mandate : /\ m \in DOMAIN mandate'
                                     /\ mandate'[m].terms = mandate[m].terms,
           \A m \in DOMAIN mandate' :
              mandate'[m].pool_state = "Captured"
                 <=> m \in DOMAIN mandate /\ mandate[m].pool_state = "Captured",
           \A m \in DOMAIN mandate :
              mandate[m].pool_state = "Captured" => statement'[m] = statement[m],
           \A p \in DOMAIN pool : p \in DOMAIN pool' /\ pool'[p].status = pool[p].status,
           \A p \in DOMAIN pool' : p \notin DOMAIN pool => pool'[p].status # "Cleared"
    PROVE  AllSettled'
<1> SUFFICES ASSUME NEW p \in DOMAIN pool'
             PROVE  Settled(mandate', statement', pool'[p].status, p)
  BY DEF AllSettled
<1>1. CapturedIn(mandate', p) = CapturedIn(mandate, p)
  BY DEF CapturedIn
<1>2. CASE p \in DOMAIN pool
  <2>1. Settled(mandate, statement, pool[p].status, p)
    BY <1>2 DEF AllSettled
  <2>2. \A m \in CapturedIn(mandate, p) : /\ mandate'[m].terms = mandate[m].terms
                                          /\ statement'[m] = statement[m]
    BY DEF CapturedIn
  <2>3. pool'[p].status = pool[p].status
    BY <1>2
  <2> QED  BY <1>1, <2>1, <2>2, <2>3, SettledStays
<1>3. CASE p \notin DOMAIN pool
  <2>1. p # NoPool
    BY RegistryAssumption DEF IInv, TypeOK
  <2>2. CapturedIn(mandate, p) = {}
    BY <1>3, <2>1 DEF CapturedIn, IInv, PoolLinked, PoolOf
  <2> QED  BY <1>1, <1>3, <2>2 DEF Settled
<1> QED
  BY <1>2, <1>3

\* A capture meets the vendor's floors with what it charges.
LEMMA CaptureMeetsFloors ==
    ASSUME IInv, NEW p \in DOMAIN pool, ClosingOutcome(p).fires
    PROVE  LET outcome == ClosingOutcome(p)
               bought  == DOMAIN outcome.allocations
               leg     == [m \in bought |-> outcome.clearing_price * outcome.allocations[m]]
           IN  /\ outcome.clearing_price \in 1 .. MaxUnitPrice
               /\ Total(outcome.allocations, bought) >= PoolTerms[p].threshold_qty
               /\ Total(leg, bought) >= PoolTerms[p].threshold_value
<1> DEFINE outcome  == ClosingOutcome(p)
           bought   == DOMAIN outcome.allocations
           leg      == [m \in bought |-> outcome.clearing_price * outcome.allocations[m]]
           kids     == {m \in pool[p].members : Eligible(p, m)}
           schedule == [m \in kids |-> Schedule(m)]
<1>1. \A m \in kids : m \in DOMAIN mandate /\ PoolOf(m) = p
  BY DEF IInv, PoolLinked
<1>2. p \in Pools /\ p # NoPool
  BY RegistryAssumption DEF IInv, TypeOK
<1>3. \A m \in kids : schedule[m] \in Seq(SchedulePoint) /\ ValidSchedule(schedule[m])
  BY <1>1, <1>2 DEF IInv, TypeOK, PoolLinked, Mandate, Terms, Schedule
<1>4. IsFiniteSet(kids)
  <2>1. kids \subseteq Mandates
    BY <1>1 DEF IInv, TypeOK
  <2> QED  BY <2>1, RegistryAssumption, FS_Subset
<1>5. /\ PoolTerms[p].threshold_qty \in Nat
      /\ PoolTerms[p].threshold_value \in Nat
  BY <1>2, RegistryAssumption
<1>6. outcome = Clear(PoolTerms[p], kids, schedule, 0)
  <2>1. pool[p].fee_bps_pinned = 0
    BY DEF IInv, TypeOK, ClearingPool
  <2> QED  BY <2>1 DEF ClosingOutcome, ClearNow, NoFire
<1>7. /\ outcome.clearing_price \in 1 .. MaxUnitPrice
      /\ Total(outcome.allocations, bought) >= PoolTerms[p].threshold_qty
      /\ Total([m \in bought |-> leg[m] - FeeOf(leg[m], 0)], bought)
            >= PoolTerms[p].threshold_value
  <2> HIDE DEF kids, schedule, outcome
  <2>1. 0 \in Nat /\ outcome.fires
    BY DEF outcome
  <2> QED  BY <1>3, <1>4, <1>5, <1>6, <2>1, ClearMeetsFloors
<1>8. \A m \in bought : leg[m] \in Nat /\ leg[m] - FeeOf(leg[m], 0) = leg[m]
  <2>1. \A m \in bought : outcome.clearing_price \in Nat /\ outcome.allocations[m] \in Nat
    BY ClosingOutcomeShape
  <2>2. \A x, y \in Nat : x * y \in Nat
    OBVIOUS
  <2>3. \A x \in Nat : x - FeeOf(x, 0) = x
    BY DEF FeeOf, BPS_DENOM
  <2> HIDE DEF outcome
  <2>4. \A m \in bought : leg[m] \in Nat
    BY <2>1, <2>2
  <2> HIDE DEF leg
  <2> QED  BY <2>3, <2>4
<1>9. [m \in bought |-> leg[m] - FeeOf(leg[m], 0)] = leg
  <2>1. leg = [m \in bought |-> leg[m]]
    OBVIOUS
  <2> HIDE DEF leg
  <2> QED  BY <1>8, <2>1
<1> QED
  BY <1>7, <1>9

\* Closing a pool settles it; the other pools stay settled.
LEMMA ClosingSettles ==
    ASSUME SettledInv, IInv', NEW p \in Pools, ClearPool(p)
    PROVE  AllSettled'
<1> DEFINE outcome == ClosingOutcome(p)
           bought  == DOMAIN outcome.allocations
           price   == outcome.clearing_price
<1>0. IInv /\ AllSettled
  BY DEF SettledInv, PoolInv
<1>1. /\ p \in DOMAIN pool
      /\ pool[p].status = "Open"
      /\ DOMAIN pool' = DOMAIN pool
      /\ \A q \in DOMAIN pool : q # p => pool'[q] = pool[q]
      /\ pool'[p].status = IF outcome.fires THEN "Cleared" ELSE "Aborted"
      /\ DOMAIN mandate' = DOMAIN mandate
      /\ \A m \in DOMAIN mandate :
            /\ mandate'[m].terms = mandate[m].terms
            /\ m \in Committed(p) => mandate'[m].pool_state \in {"Captured", "Released"}
            /\ m \notin Committed(p) => mandate'[m] = mandate[m]
  BY <1>0, Closing
<1>2. \A m \in DOMAIN mandate : m \in Committed(p) =>
         mandate[m].pool_state = "Committed" /\ mandate[m].terms.pool_id = p
  BY <1>0, <1>1 DEF Committed, IInv, PoolLinked, PoolOf
<1>3. \A m \in DOMAIN mandate : m \in DOMAIN statement /\ mandate[m] \in Mandate
  BY <1>0 DEF IInv, TypeOK
<1>4. bought \subseteq Committed(p) /\ \A m \in bought : m \in DOMAIN mandate
  BY <1>0, <1>1, ClosingOutcomeShape
<1>5. \A m \in DOMAIN mandate : m \notin Committed(p) => statement'[m] = statement[m]
  <2>1. CASE ~ outcome.fires
    BY <2>1 DEF ClearPool, AbortPool
  <2>2. CASE outcome.fires
    <3>1. CapturePool(p, outcome)
      BY <2>2 DEF ClearPool
    <3> QED  BY <1>3, <1>4, <3>1 DEF CapturePool
  <2> QED  BY <2>1, <2>2
<1>6. ASSUME NEW q \in DOMAIN pool, q # p
      PROVE  Settled(mandate', statement', pool'[q].status, q)
  <2>1. CapturedIn(mandate', q) = CapturedIn(mandate, q)
    BY <1>1, <1>2, <1>6 DEF CapturedIn
  <2>2. \A m \in CapturedIn(mandate, q) : /\ mandate'[m].terms = mandate[m].terms
                                          /\ statement'[m] = statement[m]
    BY <1>1, <1>2, <1>5, <1>6 DEF CapturedIn
  <2>3. Settled(mandate, statement, pool[q].status, q) /\ pool'[q].status = pool[q].status
    BY <1>0, <1>1, <1>6 DEF AllSettled
  <2> QED  BY <2>1, <2>2, <2>3, SettledStays
<1>7. CapturedIn(mandate, p) = {}
  BY <1>0, <1>1 DEF AllSettled, Settled
<1>8. CASE ~ outcome.fires /\ AbortPool(p)
  <2>1. ASSUME NEW m \in DOMAIN mandate, m \in Committed(p)
        PROVE  mandate'[m].pool_state = "Released"
    <3>1. [mandate[m] EXCEPT !.pool_state = "Released"].pool_state = "Released"
      BY <1>3 DEF Mandate
    <3> QED  BY <1>8, <2>1, <3>1 DEF AbortPool, Release
  <2>2. CapturedIn(mandate', p) = {}
    BY <1>1, <1>7, <2>1 DEF CapturedIn
  <2>3. Settled(mandate', statement', pool'[p].status, p)
    BY <1>1, <1>8, <2>2 DEF Settled
  <2> QED  BY <1>1, <1>6, <2>3 DEF AllSettled
<1>9. CASE outcome.fires /\ CapturePool(p, outcome)
  <2>1. mandate' = [m \in DOMAIN mandate |->
              IF m \notin Committed(p) THEN mandate[m]
              ELSE IF m \in bought
              THEN [Consume(mandate[m], price * outcome.allocations[m])
                       EXCEPT !.pool_state = "Captured"]
              ELSE [mandate[m] EXCEPT !.pool_state = "Released"]]
    BY <1>9 DEF CapturePool
  <2>2. ASSUME NEW m \in DOMAIN mandate, m \in Committed(p)
        PROVE  mandate'[m].pool_state = "Captured" <=> m \in bought
    <3>1. [mandate[m] EXCEPT !.pool_state = "Released"].pool_state = "Released"
      BY <1>3 DEF Mandate
    <3>2. [Consume(mandate[m], price * outcome.allocations[m])
              EXCEPT !.pool_state = "Captured"].pool_state = "Captured"
      BY <1>3, ConsumeFrame
    <3> HIDE DEF outcome, bought, price
    <3> QED  BY <2>1, <2>2, <3>1, <3>2
  <2>3. CapturedIn(mandate', p) = bought
    BY <1>1, <1>2, <1>4, <1>7, <2>2 DEF CapturedIn
  <2>4. \A m \in bought : PaidLast(statement', m) = price * outcome.allocations[m]
    BY <1>0, <1>1, <1>4, <1>9, CaptureLegs DEF PaidLast, ClearPool
  <2>5. \A m \in bought :
           /\ outcome.allocations[m] = Demand(mandate'[m].terms.price_schedule, price)
           /\ outcome.allocations[m] \in Nat /\ price \in Nat
    BY <1>0, <1>1, <1>4, ClosingOutcomeShape DEF Schedule
  <2>6. IsFiniteSet(bought)
    BY <1>0, <1>4, RegistryAssumption, FS_Subset DEF IInv, TypeOK
  <2>7. /\ price \in 1 .. MaxUnitPrice
        /\ Total(outcome.allocations, bought) >= PoolTerms[p].threshold_qty
        /\ Total([m \in bought |-> price * outcome.allocations[m]], bought)
              >= PoolTerms[p].threshold_value
    BY <1>0, <1>1, <1>9, CaptureMeetsFloors
  <2> HIDE DEF outcome, bought, price
  <2>8. Total(Ordered(mandate', bought, price), bought) = Total(outcome.allocations, bought)
    <3>1. \A m \in bought : /\ outcome.allocations[m] \in Int
                            /\ Ordered(mandate', bought, price)[m] = outcome.allocations[m]
      BY <2>5 DEF Ordered
    <3> QED  BY <2>6, <3>1, TotalAgrees
  <2>9. PaidLegs(statement', bought) = [m \in bought |-> price * outcome.allocations[m]]
    BY <2>4 DEF PaidLegs
  <2>10. \A m \in bought : PaidLast(statement', m) =
            price * Demand(mandate'[m].terms.price_schedule, price)
    BY <2>4, <2>5
  <2>11. Settled(mandate', statement', pool'[p].status, p)
    <3>1. pool'[p].status = "Cleared"
      BY <1>1, <1>9 DEF outcome
    <3> QED  BY <2>3, <2>7, <2>8, <2>9, <2>10, <3>1 DEF Settled
  <2> QED  BY <1>1, <1>6, <2>11 DEF AllSettled
<1> QED
  BY <1>8, <1>9 DEF ClearPool

\* Every call keeps the pools settled.
LEMMA SettledNextKeeps == SettledInv /\ [Next]_vars => SettledInv'
<1> SUFFICES ASSUME SettledInv, [Next]_vars  PROVE SettledInv'
  OBVIOUS
<1>0. /\ PoolInv /\ PoolInv' /\ IInv /\ IInv' /\ MembershipAgrees /\ AllSettled
  BY PoolNextKeeps DEF SettledInv, PoolInv
<1> SUFFICES AllSettled'
  BY <1>0 DEF SettledInv
<1>1. ASSUME NEW m \in Mandates, NEW t \in Offers[m], RegisterMandate(m, t)
      PROVE  AllSettled'
  <2>1. /\ m \notin DOMAIN mandate
        /\ DOMAIN mandate' = DOMAIN mandate \cup {m}
        /\ mandate'[m] = [terms |-> t, spent |-> 0, seq |-> 0,
                          status |-> "Active", pool_state |-> "Unlinked"]
        /\ \A x \in DOMAIN mandate : /\ mandate'[x] = mandate[x]
                                     /\ statement'[x] = statement[x]
        /\ pool' = pool
    BY <1>0, <1>1, Registering
  <2>2. mandate'[m].pool_state = "Unlinked"
    BY <2>1
  <2>3. \A x \in DOMAIN mandate' : mandate'[x].pool_state = "Captured"
           <=> x \in DOMAIN mandate /\ mandate[x].pool_state = "Captured"
    BY <2>1, <2>2
  <2>4. \A x \in DOMAIN mandate : /\ x \in DOMAIN mandate'
                                  /\ mandate'[x].terms = mandate[x].terms
                                  /\ statement'[x] = statement[x]
    BY <2>1
  <2>5. pool' = pool
    BY <1>0, <1>1, Registering
  <2> QED  BY <1>0, <2>3, <2>4, <2>5, AllSettledStays
<1>2. ASSUME NEW m \in Mandates, RevokeMandate(m)
      PROVE  AllSettled'
  <2>1. /\ m \in DOMAIN mandate
        /\ DOMAIN mandate' = DOMAIN mandate
        /\ mandate'[m].terms = mandate[m].terms
        /\ mandate'[m].pool_state = IF mandate[m].pool_state = "Committed"
                                    THEN "Released" ELSE mandate[m].pool_state
        /\ \A x \in DOMAIN mandate : x # m => mandate'[x] = mandate[x]
        /\ \/ pool' = WithoutMember(PoolOf(m), m) /\ PoolOf(m) \in DOMAIN pool
           \/ pool' = pool
        /\ statement' = statement
    BY <1>0, <1>2, Revoking
  <2>2. /\ DOMAIN pool' = DOMAIN pool
        /\ \A q \in DOMAIN pool : pool'[q].status = pool[q].status
    BY <1>0, <2>1, StatusStays DEF WithoutMember
  <2> QED  BY <1>0, <2>1, <2>2, AllSettledStays
<1>3. ASSUME NEW m \in Mandates, NEW amount \in PayAmounts, NEW n \in ExpectedSeqs,
             ExecutePayment(m, amount, n)
      PROVE  AllSettled'
  <2>1. /\ m \in DOMAIN mandate
        /\ mandate[m].pool_state \in {"Unlinked", "Released"}
        /\ DOMAIN mandate' = DOMAIN mandate
        /\ mandate'[m].terms = mandate[m].terms
        /\ mandate'[m].pool_state = mandate[m].pool_state
        /\ \A x \in DOMAIN mandate : x # m => /\ mandate'[x] = mandate[x]
                                              /\ statement'[x] = statement[x]
        /\ pool' = pool
    BY <1>0, <1>3, Paying
  <2> QED  BY <1>0, <2>1, AllSettledStays
<1>4. ASSUME NEW p \in Pools, RegisterPool(p)
      PROVE  AllSettled'
  <2>1. /\ mandate' = mandate /\ statement' = statement
        /\ p \notin DOMAIN pool
        /\ DOMAIN pool' = DOMAIN pool \cup {p}
        /\ pool'[p].status = "Open"
        /\ \A q \in DOMAIN pool : pool'[q] = pool[q]
    BY <1>4 DEF RegisterPool, Store
  <2> QED  BY <1>0, <2>1, AllSettledStays
<1>5. ASSUME NEW m \in Mandates, CommitChild(m)
      PROVE  AllSettled'
  <2>1. /\ m \in DOMAIN mandate
        /\ PoolOf(m) \in DOMAIN pool
        /\ mandate[m].pool_state = "Unlinked"
        /\ mandate' = [mandate EXCEPT ![m].pool_state = "Committed"]
        /\ pool' = [pool EXCEPT ![PoolOf(m)].members = @ \cup {m},
                                ![PoolOf(m)].member_count = @ + 1]
        /\ statement' = statement
    BY <1>5 DEF CommitChild
  <2>2. /\ DOMAIN mandate' = DOMAIN mandate
        /\ mandate'[m].terms = mandate[m].terms
        /\ mandate'[m].pool_state = "Committed"
        /\ \A x \in DOMAIN mandate : x # m => mandate'[x] = mandate[x]
    BY <1>0, <2>1 DEF IInv, TypeOK, Mandate
  <2>3. /\ DOMAIN pool' = DOMAIN pool
        /\ \A q \in DOMAIN pool : pool'[q].status = pool[q].status
    BY <1>0, <2>1 DEF IInv, TypeOK, ClearingPool
  <2>4. \A x \in DOMAIN mandate' : mandate'[x].pool_state = "Captured"
           <=> x \in DOMAIN mandate /\ mandate[x].pool_state = "Captured"
    BY <2>1, <2>2
  <2>5. \A x \in DOMAIN mandate : /\ x \in DOMAIN mandate'
                                  /\ mandate'[x].terms = mandate[x].terms
                                  /\ statement'[x] = statement[x]
    BY <2>1, <2>2
  <2> QED  BY <1>0, <2>3, <2>4, <2>5, AllSettledStays
<1>6. ASSUME NEW p \in Pools, NEW m \in Mandates, EvictChild(p, m)
      PROVE  AllSettled'
  <2>1. /\ p \in DOMAIN pool
        /\ m \in DOMAIN mandate
        /\ mandate[m].pool_state = "Committed"
        /\ DOMAIN mandate' = DOMAIN mandate
        /\ mandate'[m].terms = mandate[m].terms
        /\ mandate'[m].pool_state = "Released"
        /\ \A x \in DOMAIN mandate : x # m => mandate'[x] = mandate[x]
        /\ pool' = WithoutMember(p, m)
        /\ statement' = statement
    BY <1>0, <1>6, Evicting
  <2>2. /\ DOMAIN pool' = DOMAIN pool
        /\ \A q \in DOMAIN pool : pool'[q].status = pool[q].status
    BY <1>0, <2>1, StatusStays DEF WithoutMember
  <2> QED  BY <1>0, <2>1, <2>2, AllSettledStays
<1>7. ASSUME NEW p \in Pools, ClearPool(p)
      PROVE  AllSettled'
  BY <1>0, <1>7, ClosingSettles
<1>8. ASSUME UNCHANGED registryVars
      PROVE  AllSettled'
  BY <1>0, <1>8 DEF AllSettled, registryVars
<1> QED
  BY <1>1, <1>2, <1>3, <1>4, <1>5, <1>6, <1>7, <1>8 DEF Next, Tick, Wallet, vars

\* What a cleared pool charged: one uniform price, each buyer's own demand at
\* it, both of the vendor's floors met; nobody is charged by any other pool.
THEOREM CaptureIsUniform == Spec => []UniformPriceCapture
<1>1. Init => SettledInv
  <2> SUFFICES ASSUME Init  PROVE SettledInv
    OBVIOUS
  <2>1. DOMAIN pool = {}
    BY DEF Init
  <2> QED  BY <2>1, PoolInit DEF SettledInv, AllSettled
<1>2. SettledInv => UniformPriceCapture
  BY SettledIsUniform DEF SettledInv, PoolInv, IInv
<1> QED
  BY <1>1, <1>2, SettledNextKeeps, PTL DEF Spec
=============================================================================
