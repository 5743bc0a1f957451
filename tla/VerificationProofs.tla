------------------------- MODULE VerificationProofs -------------------------
(***************************************************************************)
(* What the payment verifier may conclude from the events of a             *)
(* transaction, for every transaction: a payment that the events show was  *)
(* made, and is the only one of its kind; and a payment made is shown.     *)
(*                                                                         *)
(* The events of all calls are one flattened sequence, so the facts rest   *)
(* on what FlattenSeq returns, proved first, by the least length at which  *)
(* it could go wrong.                                                      *)
(***************************************************************************)
EXTENDS Verification, SequenceTheorems, FiniteSetTheorems, WellFoundedInduction, TLAPS

\* A claim that fails for a natural number fails for a least one.
LEMMA LeastNatural ==
    ASSUME NEW Bad \in SUBSET Nat, Bad # {}
    PROVE  \E n \in Bad : \A k \in Nat : k < n => k \notin Bad
<1> DEFINE below == {pair \in Nat \X Nat : pair[1] < pair[2]}
<1>1. IsWellFoundedOn(below, Nat)
  BY NatLessThanWellFounded DEF OpToRel
<1>2. PICK n \in Bad : \A y \in Bad : ~ (<<y, n>> \in below)
  <2> HIDE DEF below
  <2> QED  BY <1>1, WFMin
<1>3. \A k \in Nat : k < n => k \notin Bad
  <2> SUFFICES ASSUME NEW k \in Nat, k < n, k \in Bad  PROVE FALSE
    OBVIOUS
  <2>1. <<k, n>> \in Nat \X Nat /\ <<k, n>>[1] = k /\ <<k, n>>[2] = n
    OBVIOUS
  <2>2. <<k, n>> \in below
    BY <2>1
  <2> QED  BY <1>2, <2>2
<1> QED
  BY <1>3

-----------------------------------------------------------------------------
(* Flattened sequences                                                     *)

\* f[i] is the concatenation of the first i sequences, for i up to n.
Flattens(f, seqs, n) ==
    f = [i \in 1 .. n |-> IF i = 1 THEN seqs[i] ELSE f[i-1] \o seqs[i]]

\* The elements of s are those of the first n sequences, in their order.
Merges(s, seqs, n) ==
    /\ \A x \in DOMAIN s : \E j \in 1 .. n : \E a \in DOMAIN seqs[j] : s[x] = seqs[j][a]
    /\ \A j \in 1 .. n : \A a \in DOMAIN seqs[j] : \E x \in DOMAIN s : s[x] = seqs[j][a]
    /\ \A j, k \in 1 .. n : j < k =>
          \A a \in DOMAIN seqs[j], b \in DOMAIN seqs[k] :
             \E x, y \in DOMAIN s : x # y /\ s[x] = seqs[j][a] /\ s[y] = seqs[k][b]

\* FlattenSeq returns the last value of such a function, if there is one.
LEMMA FlattenIsLast ==
    ASSUME NEW S, NEW seqs \in Seq(Seq(S)), seqs # << >>
    PROVE  FlattenSeq(seqs) = (CHOOSE f : Flattens(f, seqs, Len(seqs)))[Len(seqs)]
<1>1. Len(seqs) # 0
  BY EmptySeq
<1> QED
  BY <1>1 DEF FlattenSeq, Flattens

\* There is one.
LEMMA FlattensExists ==
    ASSUME NEW S, NEW seqs \in Seq(Seq(S))
    PROVE  \E f : Flattens(f, seqs, Len(seqs))
<1> DEFINE Bad == {n \in 0 .. Len(seqs) : ~ \E f : Flattens(f, seqs, n)}
<1> SUFFICES ASSUME Bad # {}  PROVE FALSE
  BY LenProperties
<1>1. PICK n \in Bad : \A k \in Nat : k < n => k \notin Bad
  <2>1. Bad \in SUBSET Nat
    BY LenProperties
  <2> HIDE DEF Bad
  <2> QED  BY <2>1, LeastNatural
<1>2. Len(seqs) \in Nat /\ n \in Nat /\ n <= Len(seqs)
  BY LenProperties
<1>3. CASE n = 0
  <2>1. Flattens([i \in 1 .. 0 |-> 0], seqs, 0)
    BY DEF Flattens
  <2> QED  BY <1>1, <1>3, <2>1
<1>4. CASE n > 0
  <2>1. n - 1 \in Nat /\ n - 1 < n /\ n - 1 \in 0 .. Len(seqs)
    BY <1>2, <1>4
  <2>2. PICK f : Flattens(f, seqs, n - 1)
    BY <1>1, <2>1
  <2> DEFINE new == [i \in 1 .. n |-> IF i = 1 THEN seqs[i] ELSE f[i-1] \o seqs[i]]
  <2>3. \A i \in 1 .. n - 1 : new[i] = f[i]
    <3> SUFFICES ASSUME NEW i \in 1 .. n - 1  PROVE new[i] = f[i]
      OBVIOUS
    <3>1. i \in 1 .. n
      BY <1>2
    <3>2. f[i] = IF i = 1 THEN seqs[i] ELSE f[i-1] \o seqs[i]
      BY <2>2 DEF Flattens
    <3> QED  BY <3>1, <3>2
  <2>4. \A i \in 1 .. n : i # 1 => i - 1 \in 1 .. n - 1
    BY <1>2
  <2>5. new = [i \in 1 .. n |-> IF i = 1 THEN seqs[i] ELSE new[i-1] \o seqs[i]]
    <3>1. \A i \in 1 .. n : i # 1 => new[i-1] = f[i-1]
      BY <2>3, <2>4
    <3>2. new = [i \in 1 .. n |-> IF i = 1 THEN seqs[i] ELSE f[i-1] \o seqs[i]]
      OBVIOUS
    <3> HIDE DEF new
    <3> QED  BY <3>1, <3>2
  <2> HIDE DEF new
  <2>6. Flattens(new, seqs, n)
    BY <2>5 DEF Flattens
  <2> QED  BY <1>1, <2>6
<1> QED
  BY <1>2, <1>3, <1>4

\* One more sequence appended keeps the elements merged.
LEMMA MergesNext ==
    ASSUME NEW S, NEW seqs \in Seq(Seq(S)), NEW n \in Nat, n + 1 <= Len(seqs),
           NEW s \in Seq(S), Merges(s, seqs, n)
    PROVE  /\ s \o seqs[n + 1] \in Seq(S)
           /\ Merges(s \o seqs[n + 1], seqs, n + 1)
<1> DEFINE last == seqs[n + 1]
           r    == s \o last
<1>1. /\ last \in Seq(S) /\ Len(s) \in Nat /\ Len(last) \in Nat
      /\ DOMAIN s = 1 .. Len(s) /\ DOMAIN last = 1 .. Len(last)
  <2>1. n + 1 \in 1 .. Len(seqs) /\ Len(seqs) \in Nat
    BY LenProperties
  <2>2. last \in Seq(S)
    BY <2>1, ElementOfSeq
  <2> QED  BY <2>2, LenProperties
<1>2. /\ r \in Seq(S) /\ DOMAIN r = 1 .. Len(s) + Len(last)
      /\ \A x \in DOMAIN s : x \in DOMAIN r /\ r[x] = s[x]
      /\ \A a \in DOMAIN last : Len(s) + a \in DOMAIN r /\ r[Len(s) + a] = last[a]
  <2> HIDE DEF last
  <2>1. /\ s \o last \in Seq(S) /\ Len(s \o last) = Len(s) + Len(last)
        /\ \A i \in 1 .. Len(s) + Len(last) :
              (s \o last)[i] = IF i <= Len(s) THEN s[i] ELSE last[i - Len(s)]
    BY <1>1, ConcatProperties
  <2>2. DOMAIN (s \o last) = 1 .. Len(s) + Len(last)
    BY <2>1, LenProperties
  <2>3. \A x \in 1 .. Len(s) : x \in 1 .. Len(s) + Len(last) /\ x <= Len(s)
    BY <1>1
  <2>4. \A a \in 1 .. Len(last) : /\ Len(s) + a \in 1 .. Len(s) + Len(last)
                                  /\ ~ (Len(s) + a <= Len(s)) /\ (Len(s) + a) - Len(s) = a
    <3> SUFFICES ASSUME NEW l \in Nat, NEW m \in Nat, NEW a \in 1 .. m
                 PROVE  l + a \in 1 .. l + m /\ ~ (l + a <= l) /\ (l + a) - l = a
      BY <1>1
    <3> QED  OBVIOUS
  <2> QED  BY <1>1, <2>1, <2>2, <2>3, <2>4
<1>3. \A j \in 1 .. n + 1 : j \in 1 .. n \/ j = n + 1
  OBVIOUS
<1>4. \A j \in 1 .. n : j \in 1 .. n + 1
  OBVIOUS
<1>5. n + 1 \in 1 .. n + 1
  OBVIOUS
<1>6. \A x \in DOMAIN r : x \in DOMAIN s \/ \E a \in DOMAIN last : x = Len(s) + a
  <2> SUFFICES ASSUME NEW x \in 1 .. Len(s) + Len(last), x \notin 1 .. Len(s)
               PROVE  \E a \in 1 .. Len(last) : x = Len(s) + a
    BY <1>1, <1>2
  <2>1. x - Len(s) \in 1 .. Len(last) /\ x = Len(s) + (x - Len(s))
    BY <1>1
  <2> QED  BY <2>1
<1>7. \A x \in DOMAIN s, a \in DOMAIN last : x # Len(s) + a
  BY <1>1
<1> HIDE DEF r
<1>8. \A x \in DOMAIN r : \E j \in 1 .. n + 1 : \E a \in DOMAIN seqs[j] : r[x] = seqs[j][a]
  <2> SUFFICES ASSUME NEW x \in DOMAIN r
               PROVE  \E j \in 1 .. n + 1 : \E a \in DOMAIN seqs[j] : r[x] = seqs[j][a]
    OBVIOUS
  <2>1. CASE x \in DOMAIN s
    <3>1. PICK j \in 1 .. n : \E a \in DOMAIN seqs[j] : s[x] = seqs[j][a]
      BY <2>1 DEF Merges
    <3> QED  BY <2>1, <3>1, <1>2, <1>4
  <2>2. CASE \E a \in DOMAIN last : x = Len(s) + a
    BY <2>2, <1>2, <1>5
  <2> QED  BY <2>1, <2>2, <1>6
<1>9. \A j \in 1 .. n + 1 : \A a \in DOMAIN seqs[j] : \E x \in DOMAIN r : r[x] = seqs[j][a]
  <2> SUFFICES ASSUME NEW j \in 1 .. n + 1, NEW a \in DOMAIN seqs[j]
               PROVE  \E x \in DOMAIN r : r[x] = seqs[j][a]
    OBVIOUS
  <2>1. CASE j \in 1 .. n
    <3>1. PICK x \in DOMAIN s : s[x] = seqs[j][a]
      BY <2>1 DEF Merges
    <3> QED  BY <3>1, <1>2
  <2>2. CASE j = n + 1
    BY <2>2, <1>2
  <2> QED  BY <2>1, <2>2, <1>3
<1>10. \A j, k \in 1 .. n + 1 : j < k =>
          \A a \in DOMAIN seqs[j], b \in DOMAIN seqs[k] :
             \E x, y \in DOMAIN r : x # y /\ r[x] = seqs[j][a] /\ r[y] = seqs[k][b]
  <2> SUFFICES ASSUME NEW j \in 1 .. n + 1, NEW k \in 1 .. n + 1, j < k,
                      NEW a \in DOMAIN seqs[j], NEW b \in DOMAIN seqs[k]
               PROVE  \E x, y \in DOMAIN r : x # y /\ r[x] = seqs[j][a] /\ r[y] = seqs[k][b]
    OBVIOUS
  <2>1. j \in 1 .. n
    OBVIOUS
  <2>2. CASE k \in 1 .. n
    <3> HIDE DEF r, last
    <3>0. \A i, l \in 1 .. n : i < l =>
             \A u \in DOMAIN seqs[i], v \in DOMAIN seqs[l] :
                \E x, y \in DOMAIN s : x # y /\ s[x] = seqs[i][u] /\ s[y] = seqs[l][v]
      BY DEF Merges
    <3>1. PICK x \in DOMAIN s, y \in DOMAIN s : x # y /\ s[x] = seqs[j][a] /\ s[y] = seqs[k][b]
      <4>1. \A u \in DOMAIN seqs[j], v \in DOMAIN seqs[k] :
                \E x, y \in DOMAIN s : x # y /\ s[x] = seqs[j][u] /\ s[y] = seqs[k][v]
        BY <2>1, <2>2, <3>0
      <4> QED  BY <4>1
    <3>2. x \in DOMAIN r /\ r[x] = s[x] /\ y \in DOMAIN r /\ r[y] = s[y]
      BY <3>1, <1>2
    <3> QED  BY <3>1, <3>2
  <2>3. CASE k = n + 1
    <3>1. PICK x \in DOMAIN s : s[x] = seqs[j][a]
      BY <2>1 DEF Merges
    <3>2. b \in DOMAIN last /\ last[b] = seqs[k][b]
      BY <2>3
    <3> DEFINE y == Len(s) + b
    <3>3. x \in DOMAIN r /\ r[x] = seqs[j][a]
      BY <3>1, <1>2
    <3>4. y \in DOMAIN r /\ r[y] = seqs[k][b]
      BY <3>2, <1>2
    <3>5. x # y
      BY <3>1, <3>2, <1>7
    <3> HIDE DEF y
    <3> QED  BY <3>3, <3>4, <3>5
  <2> QED  BY <2>2, <2>3, <1>3
<1> QED
  BY <1>2, <1>8, <1>9, <1>10 DEF Merges, r

\* Flattening keeps every element of every sequence, apart from all others, and adds none.
THEOREM FlattenMerges ==
    ASSUME NEW S, NEW seqs \in Seq(Seq(S)), seqs # << >>
    PROVE  /\ FlattenSeq(seqs) \in Seq(S)
           /\ Merges(FlattenSeq(seqs), seqs, Len(seqs))
           /\ Len(seqs) = 1 => FlattenSeq(seqs) = seqs[1]
<1> DEFINE len == Len(seqs)
           f   == CHOOSE g : Flattens(g, seqs, len)
<1>1. Flattens(f, seqs, len)
  BY FlattensExists
<1>2. FlattenSeq(seqs) = f[len]
  BY FlattenIsLast
<1>3. len \in Nat /\ len > 0
  BY LenProperties, EmptySeq
<1> HIDE DEF f, len
<1> DEFINE Good(i) == f[i] \in Seq(S) /\ Merges(f[i], seqs, i)
           Bad     == {i \in 1 .. len : ~ Good(i)}
<1>4. f[1] = seqs[1] /\ \A i \in 1 .. len : i # 1 => f[i] = f[i-1] \o seqs[i]
  <2>1. 1 \in 1 .. len
    BY <1>3
  <2> QED  BY <1>1, <2>1 DEF Flattens
<1>5. Bad = {}
  <2> SUFFICES ASSUME Bad # {}  PROVE FALSE
    OBVIOUS
  <2>1. PICK n \in Bad : \A k \in Nat : k < n => k \notin Bad
    <3>1. Bad \in SUBSET Nat
      BY <1>3
    <3> HIDE DEF Bad
    <3> QED  BY <3>1, LeastNatural
  <2>2. CASE n = 1
    <3>1. seqs[1] \in Seq(S)
      BY <1>3, ElementOfSeq DEF len
    <3>2. Merges(seqs[1], seqs, 1)
      <4>1. 1 .. 1 = {1}
        OBVIOUS
      <4>2. \A j, k \in {1} : ~ (j < k)
        OBVIOUS
      <4> QED  BY <4>1, <4>2 DEF Merges
    <3> QED  BY <2>1, <2>2, <3>1, <3>2, <1>4
  <2>3. CASE n # 1
    <3>1. n - 1 \in Nat /\ n - 1 \in 1 .. len /\ n - 1 < n /\ (n - 1) + 1 = n /\ n <= len
      BY <2>3, <1>3
    <3>2. Good(n - 1)
      BY <2>1, <3>1
    <3>3. f[n] = f[n-1] \o seqs[n]
      BY <1>4, <2>1, <2>3
    <3> DEFINE m == n - 1
    <3>4. m \in Nat /\ m + 1 = n /\ m + 1 <= Len(seqs) /\ f[m] \in Seq(S) /\ Merges(f[m], seqs, m)
      BY <3>1, <3>2 DEF len
    <3> HIDE DEF m
    <3>5. f[m] \o seqs[m + 1] \in Seq(S) /\ Merges(f[m] \o seqs[m + 1], seqs, m + 1)
      BY <3>4, MergesNext
    <3>6. Good(n)
      BY <3>3, <3>4, <3>5 DEF m
    <3> QED  BY <2>1, <3>6
  <2> QED  BY <2>2, <2>3
<1>6. Good(len)
  <2>1. len \in 1 .. len
    BY <1>3
  <2> QED  BY <1>5, <2>1
<1> QED
  BY <1>2, <1>4, <1>6 DEF len

-----------------------------------------------------------------------------
(* What the events of a transaction show                                   *)

\* A call that pays what the requirement asks, by its registry and to its merchant.
PaysFor(call, need) == /\ call.op = "pay" /\ call.on = need.registry
                       /\ call.to = need.merchant
                       /\ call.amount > 0 /\ call.amount >= need.stroops

\* A call emits an eligible event just if it pays, and that event tells what it paid.
LEMMA EligibleIsPayment ==
    ASSUME NEW call, IsCall(call), NEW need
    PROVE  /\ DOMAIN EventsOf(call) \subseteq {1, 2}
           /\ \A a \in DOMAIN EventsOf(call) : Eligible(EventsOf(call)[a], need) =>
                 a = 2 /\ PaysFor(call, need) /\ EventsOf(call)[a] = PaymentEvent(call)
           /\ PaysFor(call, need) => /\ 2 \in DOMAIN EventsOf(call)
                                     /\ EventsOf(call)[2] = PaymentEvent(call)
                                     /\ Eligible(PaymentEvent(call), need)
           /\ PaysFor(call, need) => /\ PaymentEvent(call).mandate = call.mandate
                                     /\ PaymentEvent(call).amount = call.amount
<1>1. CASE call.op = "transfer"
  <2>1. EventsOf(call) = <<call>>
    BY <1>1 DEF EventsOf
  <2>2. ~ Eligible(call, need) /\ ~ PaysFor(call, need)
    BY <1>1 DEF Eligible, PaysFor
  <2> QED  BY <2>1, <2>2
<1>2. CASE call.op # "transfer"
  <2> DEFINE moved == TransferEvent(Mandate[call.mandate].asset, call)
             told  == IF call.op = "pay" THEN PaymentEvent(call) ELSE CaptureEvent(call)
  <2>1. EventsOf(call) = <<moved, told>>
    BY <1>2 DEF EventsOf
  <2>2. /\ call.op \in {"pay", "capture"}
        /\ call = [op |-> call.op, on |-> call.on, mandate |-> call.mandate,
                   from |-> Mandate[call.mandate].user, to |-> Mandate[call.mandate].merchant,
                   amount |-> call.amount]
    BY <1>2 DEF IsCall, Pay
  <2>3. moved.op = "transfer"
    BY <2>2 DEF TransferEvent
  <2>4. /\ LET p == PaymentEvent(call)
           IN  p.op = "payment" /\ p.on = call.on /\ p.mandate = call.mandate
               /\ p.to = call.to /\ p.amount = call.amount
        /\ CaptureEvent(call).op = "pool_clr"
    <3> DEFINE o == call.op
               n == call.on
               m == call.mandate
               u == Mandate[call.mandate].user
               v == call.to
               a == call.amount
    <3>1. call = [op |-> o, on |-> n, mandate |-> m, from |-> u, to |-> v, amount |-> a]
      BY <2>2
    <3> HIDE DEF o, n, m, u, v, a
    <3>2. LET p == PaymentEvent([op |-> o, on |-> n, mandate |-> m, from |-> u, to |-> v, amount |-> a])
          IN  p.op = "payment" /\ p.on = n /\ p.mandate = m /\ p.to = v /\ p.amount = a
      BY DEF PaymentEvent
    <3>3. CaptureEvent([op |-> o, on |-> n, mandate |-> m, from |-> u, to |-> v, amount |-> a]).op
             = "pool_clr"
      BY DEF CaptureEvent
    <3>4. LET p == PaymentEvent(call)
          IN  p.op = "payment" /\ p.on = n /\ p.mandate = m /\ p.to = v /\ p.amount = a
      BY <3>1, <3>2
    <3>5. CaptureEvent(call).op = "pool_clr"
      BY <3>1, <3>3
    <3> QED  BY <3>4, <3>5 DEF n, m, v, a
  <2> HIDE DEF moved
  <2>5. ~ Eligible(moved, need)
    BY <2>3 DEF Eligible
  <2>6. ~ Eligible(CaptureEvent(call), need)
    BY <2>4 DEF Eligible
  <2>7. /\ Eligible(told, need) => PaysFor(call, need) /\ told = PaymentEvent(call)
        /\ PaysFor(call, need) => told = PaymentEvent(call) /\ Eligible(told, need)
    <3>1. CASE call.op = "pay"
      BY <3>1, <2>4 DEF Eligible, PaysFor
    <3>2. CASE call.op = "capture"
      BY <3>2, <2>6 DEF PaysFor
    <3> QED  BY <3>1, <3>2, <2>2
  <2> HIDE DEF told
  <2>8. DOMAIN EventsOf(call) = {1, 2} /\ EventsOf(call)[1] = moved /\ EventsOf(call)[2] = told
    BY <2>1
  <2> QED  BY <2>4, <2>5, <2>7, <2>8
<1> QED
  BY <1>1, <1>2

\* The eligible events of a transaction are those of the calls that pay, one each.
LEMMA EligibleEvents ==
    ASSUME NEW t \in DOMAIN Chain, NEW need
    PROVE  /\ \E n \in Nat : DOMAIN Events(t) = 1 .. n
           /\ \A i \in DOMAIN Events(t) : Eligible(Events(t)[i], need) =>
                 \E k \in DOMAIN Chain[t].calls :
                    PaysFor(Chain[t].calls[k], need) /\ Events(t)[i] = PaymentEvent(Chain[t].calls[k])
           /\ \A k \in DOMAIN Chain[t].calls : PaysFor(Chain[t].calls[k], need) =>
                 \E i \in DOMAIN Events(t) : Eligible(Events(t)[i], need)
           /\ \A k, l \in DOMAIN Chain[t].calls :
                 k # l /\ PaysFor(Chain[t].calls[k], need) /\ PaysFor(Chain[t].calls[l], need) =>
                    \E i, j \in DOMAIN Events(t) :
                       i # j /\ Eligible(Events(t)[i], need) /\ Eligible(Events(t)[j], need)
<1> DEFINE calls == Chain[t].calls
           seqs  == [k \in DOMAIN calls |-> EventsOf(calls[k])]
           Of(k) == {EventsOf(calls[k])[a] : a \in DOMAIN EventsOf(calls[k])}
           S     == UNION {Of(k) : k \in DOMAIN calls}
<1>1. /\ Len(calls) \in Nat /\ DOMAIN calls = 1 .. Len(calls)
      /\ \A k \in DOMAIN calls : IsCall(calls[k])
  <2>1. calls \in Seq({calls[k] : k \in DOMAIN calls}) /\ \A k \in DOMAIN calls : IsCall(calls[k])
    BY ChainAssumption
  <2> HIDE DEF calls
  <2> QED  BY <2>1, LenProperties
<1>2. \A k \in DOMAIN calls : EventsOf(calls[k]) \in Seq(S)
  <2> SUFFICES ASSUME NEW k \in DOMAIN calls  PROVE EventsOf(calls[k]) \in Seq(S)
    OBVIOUS
  <2>1. Of(k) \subseteq S
    OBVIOUS
  <2>2. EventsOf(calls[k]) \in Seq(Of(k))
    <3>1. \/ \E e : EventsOf(calls[k]) = <<e>>
          \/ \E e, d : EventsOf(calls[k]) = <<e, d>>
      BY DEF EventsOf
    <3> QED  BY <3>1
  <2> HIDE DEF S, Of
  <2> QED  BY <2>1, <2>2
<1>3. seqs \in Seq(Seq(S)) /\ Len(seqs) = Len(calls)
  <2>1. seqs \in [1 .. Len(calls) -> Seq(S)]
    BY <1>1, <1>2
  <2> HIDE DEF seqs, S
  <2> QED  BY <1>1, <2>1
<1>4. Events(t) = FlattenSeq(seqs)
  BY DEF Events
<1>5. CASE calls = << >>
  <2>1. seqs = << >>
    BY <1>5
  <2>2. Events(t) = << >>
    <3> HIDE DEF seqs
    <3>1. Len(seqs) = 0
      BY <2>1
    <3> QED  BY <1>4, <2>1, <3>1 DEF FlattenSeq
  <2>3. DOMAIN Events(t) = {} /\ DOMAIN calls = {} /\ 1 .. 0 = {}
    BY <2>2, <1>5
  <2> QED  BY <2>3
<1>6. CASE calls # << >>
  <2>1. Len(seqs) # 0
    BY <1>1, <1>3, <1>6
  <2>2. seqs # << >>
    BY <2>1
  <2>3. Events(t) \in Seq(S) /\ Merges(Events(t), seqs, Len(calls))
    <3> HIDE DEF seqs, S
    <3> QED  BY <1>3, <1>4, <2>2, FlattenMerges
  <2>4. Len(Events(t)) \in Nat /\ DOMAIN Events(t) = 1 .. Len(Events(t))
    BY <2>3, LenProperties
  <2>5. \A k \in 1 .. Len(calls) : seqs[k] = EventsOf(calls[k]) /\ IsCall(calls[k])
    BY <1>1
  <2>6. /\ \A i \in DOMAIN Events(t) : \E k \in DOMAIN calls : \E a \in DOMAIN EventsOf(calls[k]) :
              Events(t)[i] = EventsOf(calls[k])[a]
        /\ \A k \in DOMAIN calls : \A a \in DOMAIN EventsOf(calls[k]) :
              \E i \in DOMAIN Events(t) : Events(t)[i] = EventsOf(calls[k])[a]
        /\ \A k, l \in DOMAIN calls : k < l =>
              \A a \in DOMAIN EventsOf(calls[k]), b \in DOMAIN EventsOf(calls[l]) :
                 \E i, j \in DOMAIN Events(t) :
                    i # j /\ Events(t)[i] = EventsOf(calls[k])[a] /\ Events(t)[j] = EventsOf(calls[l])[b]
    <3> DEFINE e == Events(t)
               n == Len(calls)
    <3>1. DOMAIN calls = 1 .. n
      BY <1>1
    <3>2. Merges(e, seqs, n)
      BY <2>3
    <3>3. \A k \in 1 .. n : seqs[k] = EventsOf(calls[k])
      BY <2>5
    <3> HIDE DEF seqs, S, calls, e, n
    <3>4. \A i \in DOMAIN e : \E k \in 1 .. n : \E a \in DOMAIN EventsOf(calls[k]) :
             e[i] = EventsOf(calls[k])[a]
      <4> SUFFICES ASSUME NEW i \in DOMAIN e
                   PROVE  \E k \in 1 .. n : \E a \in DOMAIN EventsOf(calls[k]) :
                             e[i] = EventsOf(calls[k])[a]
        OBVIOUS
      <4>1. PICK k \in 1 .. n : \E a \in DOMAIN seqs[k] : e[i] = seqs[k][a]
        BY <3>2 DEF Merges
      <4> QED  BY <4>1, <3>3
    <3>5. \A k \in 1 .. n : \A a \in DOMAIN EventsOf(calls[k]) :
             \E i \in DOMAIN e : e[i] = EventsOf(calls[k])[a]
      BY <3>2, <3>3 DEF Merges
    <3>6. ASSUME NEW k \in 1 .. n, NEW l \in 1 .. n, k < l,
                 NEW a \in DOMAIN EventsOf(calls[k]), NEW b \in DOMAIN EventsOf(calls[l])
          PROVE  \E i, j \in DOMAIN e :
                    i # j /\ e[i] = EventsOf(calls[k])[a] /\ e[j] = EventsOf(calls[l])[b]
      BY <3>2, <3>3, <3>6 DEF Merges
    <3>7. \A k, l \in 1 .. n : k < l =>
             \A a \in DOMAIN EventsOf(calls[k]), b \in DOMAIN EventsOf(calls[l]) :
                \E i, j \in DOMAIN e :
                   i # j /\ e[i] = EventsOf(calls[k])[a] /\ e[j] = EventsOf(calls[l])[b]
      BY <3>6
    <3>8. DOMAIN calls = 1 .. n /\ e = Events(t)
      BY <3>1 DEF e
    <3>9. \A i \in DOMAIN Events(t) : \E k \in DOMAIN calls : \E a \in DOMAIN EventsOf(calls[k]) :
             Events(t)[i] = EventsOf(calls[k])[a]
      BY <3>8, <3>4
    <3>10. \A k \in DOMAIN calls : \A a \in DOMAIN EventsOf(calls[k]) :
              \E i \in DOMAIN Events(t) : Events(t)[i] = EventsOf(calls[k])[a]
      BY <3>8, <3>5
    <3>11. \A k, l \in DOMAIN calls : k < l =>
              \A a \in DOMAIN EventsOf(calls[k]), b \in DOMAIN EventsOf(calls[l]) :
                 \E i, j \in DOMAIN Events(t) :
                    i # j /\ Events(t)[i] = EventsOf(calls[k])[a] /\ Events(t)[j] = EventsOf(calls[l])[b]
      BY <3>8, <3>7
    <3> QED  BY <3>9, <3>10, <3>11
  <2> HIDE DEF seqs, S
  <2>7. ASSUME NEW i \in DOMAIN Events(t), Eligible(Events(t)[i], need)
        PROVE  \E k \in DOMAIN calls : PaysFor(calls[k], need) /\ Events(t)[i] = PaymentEvent(calls[k])
    <3> HIDE DEF calls
    <3>1. PICK k \in DOMAIN calls : \E a \in DOMAIN EventsOf(calls[k]) :
                                       Events(t)[i] = EventsOf(calls[k])[a]
      BY <2>6
    <3>2. IsCall(calls[k])
      BY <1>1
    <3> QED  BY <2>7, <3>1, <3>2, EligibleIsPayment
  <2>8. ASSUME NEW k \in DOMAIN calls, PaysFor(calls[k], need)
        PROVE  2 \in DOMAIN EventsOf(calls[k]) /\ Eligible(EventsOf(calls[k])[2], need)
    <3> HIDE DEF calls
    <3>1. IsCall(calls[k])
      BY <1>1
    <3> QED  BY <2>8, <3>1, EligibleIsPayment
  <2>9. \A k, l \in DOMAIN calls : k # l => k < l \/ l < k
    BY <1>1
  <2>10. ASSUME NEW k \in DOMAIN calls, NEW l \in DOMAIN calls, k < l,
                PaysFor(calls[k], need), PaysFor(calls[l], need)
         PROVE  \E i, j \in DOMAIN Events(t) :
                   i # j /\ Eligible(Events(t)[i], need) /\ Eligible(Events(t)[j], need)
    <3> HIDE DEF calls
    <3>1. PICK i \in DOMAIN Events(t), j \in DOMAIN Events(t) :
             i # j /\ Events(t)[i] = EventsOf(calls[k])[2] /\ Events(t)[j] = EventsOf(calls[l])[2]
      BY <2>6, <2>8, <2>10
    <3> QED  BY <2>8, <2>10, <3>1
  <2>11. \A k \in DOMAIN calls : PaysFor(calls[k], need) =>
            \E i \in DOMAIN Events(t) : Eligible(Events(t)[i], need)
    <3> HIDE DEF calls
    <3> QED  BY <2>6, <2>8
  <2> QED  BY <2>4, <2>7, <2>9, <2>10, <2>11
<1> QED
  BY <1>5, <1>6

\* The VerifiedPayment p is of call c, for the requirement.
Tells(p, t, c, need) ==
    /\ p.tx = t /\ p.mandate = c.mandate /\ p.amount = c.amount
    /\ p.agent = Mandate[c.mandate].agent
    /\ p.merchant = Mandate[c.mandate].merchant /\ p.asset = Mandate[c.mandate].asset
    /\ p.registry = need.registry

\* What the verifier reads off an event is what the event's call did.
LEMMA VerifiedTells ==
    ASSUME NEW t, NEW c, NEW e, NEW need, e.mandate = c.mandate, e.amount = c.amount
    PROVE  Tells(VerifiedPayment(t, e, need), t, c, need)
<1> DEFINE text == FormatStroops(e.amount, need.decimals)
<1>1. VerifiedPayment(t, e, need) =
        [tx |-> t, mandate |-> e.mandate, user |-> Mandate[e.mandate].user,
         agent |-> Mandate[e.mandate].agent, text |-> text, amount |-> e.amount,
         merchant |-> Mandate[e.mandate].merchant, asset |-> Mandate[e.mandate].asset,
         registry |-> need.registry]
  BY DEF VerifiedPayment
<1> HIDE DEF text
<1> QED
  BY <1>1 DEF Tells

\* A payment that the verifier concludes from a transaction's events was made, by the
\* required registry to the required merchant, in the asset and of at least the price;
\* and it is the only payment of the transaction that could have been meant.
THEOREM ShownIsPaid ==
    ASSUME NEW t \in DOMAIN Chain, NEW need, Shown(t, need) # Nothing
    PROVE  \E k \in DOMAIN Chain[t].calls :
              /\ PaysFor(Chain[t].calls[k], need)
              /\ \A l \in DOMAIN Chain[t].calls : PaysFor(Chain[t].calls[l], need) => l = k
              /\ Mandate[Chain[t].calls[k].mandate].merchant = need.merchant
              /\ Mandate[Chain[t].calls[k].mandate].asset = need.asset
              /\ Tells(Shown(t, need), t, Chain[t].calls[k], need)
<1> DEFINE calls    == Chain[t].calls
           events   == Events(t)
           eligible == {i \in DOMAIN events : Eligible(events[i], need)}
           event    == SelectPayment(events, need)
<1>1. /\ event # Nothing
      /\ Mandate[event.mandate].merchant = need.merchant
      /\ Mandate[event.mandate].asset = need.asset
      /\ Shown(t, need) = VerifiedPayment(t, event, need)
  BY DEF Shown
<1>2. Cardinality(eligible) = 1 /\ event = events[CHOOSE i \in eligible : TRUE]
  BY <1>1 DEF SelectPayment
<1>3. \E i : eligible = {i}
  <2>1. PICK n \in Nat : DOMAIN events = 1 .. n
    BY EligibleEvents
  <2>2. IsFiniteSet(1 .. n)
    BY FS_Interval
  <2>3. IsFiniteSet(eligible)
    BY <2>1, <2>2, FS_Subset
  <2> HIDE DEF eligible
  <2> QED  BY <1>2, <2>3, FS_Singleton
<1>4. PICK i : eligible = {i}
  BY <1>3
<1>5. i \in DOMAIN events /\ Eligible(events[i], need) /\ event = events[i]
  <2>1. (CHOOSE j \in eligible : TRUE) = i
    <3> HIDE DEF eligible
    <3> QED  BY <1>4
  <2> HIDE DEF event, events
  <2> QED  BY <1>2, <1>4, <2>1
<1>6. PICK k \in DOMAIN calls : PaysFor(calls[k], need) /\ events[i] = PaymentEvent(calls[k])
  <2> HIDE DEF event
  <2> QED  BY <1>5, EligibleEvents
<1>7. \A l \in DOMAIN calls : PaysFor(calls[l], need) => l = k
  <2> SUFFICES ASSUME NEW l \in DOMAIN calls, PaysFor(calls[l], need), l # k  PROVE FALSE
    OBVIOUS
  <2>1. PICK x \in DOMAIN events, y \in DOMAIN events :
           x # y /\ Eligible(events[x], need) /\ Eligible(events[y], need)
    <3> HIDE DEF event
    <3> QED  BY <1>6, EligibleEvents
  <2>2. x \in eligible /\ y \in eligible
    BY <2>1
  <2> HIDE DEF eligible
  <2> QED  BY <1>4, <2>1, <2>2
<1>8. event.mandate = calls[k].mandate /\ event.amount = calls[k].amount
  <2>1. IsCall(calls[k])
    BY ChainAssumption
  <2> HIDE DEF event, events, calls
  <2> QED  BY <1>5, <1>6, <2>1, EligibleIsPayment
<1>9. Tells(Shown(t, need), t, calls[k], need)
  <2> HIDE DEF event, events, calls
  <2> QED  BY <1>1, <1>8, VerifiedTells
<1> QED
  <2> HIDE DEF event, events
  <2> QED  BY <1>1, <1>6, <1>7, <1>8, <1>9

\* A transaction that makes just one payment, of the price and out of a mandate for this
\* merchant and this asset, is shown for what it is: nobody who paid so is turned away
\* because of what the events of the payment look like.
THEOREM PaymentIsShown ==
    ASSUME NEW t \in DOMAIN Chain, NEW need, NEW m,
           Chain[t].calls = <<Pay(need.registry, m, need.stroops)>>,
           need.stroops \in Nat, need.stroops > 0,
           Mandate[m].merchant = need.merchant, Mandate[m].asset = need.asset
    PROVE  \E e : /\ Shown(t, need) = VerifiedPayment(t, e, need)
                  /\ e = PaymentEvent(Pay(need.registry, m, need.stroops))
                  /\ Tells(Shown(t, need), t, Pay(need.registry, m, need.stroops), need)
<1> DEFINE c     == Pay(need.registry, m, need.stroops)
           moved == TransferEvent(Mandate[m].asset, c)
           told  == PaymentEvent(c)
<1>1. /\ c.op = "pay" /\ c.on = need.registry /\ c.mandate = m /\ c.from = Mandate[m].user
      /\ c.to = need.merchant /\ c.amount = need.stroops
  BY DEF Pay
<1>2. IsCall(c) /\ told # Nothing
  <2>1. 1 \in DOMAIN Chain[t].calls /\ Chain[t].calls[1] = c
    OBVIOUS
  <2> HIDE DEF c
  <2> QED  BY <2>1, ChainAssumption
<1>3. EventsOf(c) = <<moved, told>>
  <2> HIDE DEF told
  <2> QED  BY <1>1 DEF EventsOf, told
<1>4. /\ moved.op = "transfer" /\ moved.on = Mandate[m].asset /\ moved.from = Mandate[m].user
      /\ moved.to = need.merchant /\ moved.amount = need.stroops
  BY DEF TransferEvent, Pay
<1>5. told.op = "payment"
  BY DEF PaymentEvent, Pay
<1> HIDE DEF c, moved, told
<1>6. Events(t) = <<moved, told>>
  <2> DEFINE calls == Chain[t].calls
             seqs  == [k \in DOMAIN calls |-> EventsOf(calls[k])]
  <2>1. calls = <<c>>
    BY DEF c
  <2>2. seqs = <<<<moved, told>>>>
    <3> HIDE DEF calls
    <3>1. DOMAIN calls = 1 .. 1 /\ calls[1] = c
      BY <2>1
    <3>2. seqs = [k \in 1 .. 1 |-> <<moved, told>>]
      BY <3>1, <1>3
    <3> QED  BY <3>2
  <2>3. Events(t) = FlattenSeq(seqs)
    BY DEF Events
  <2> HIDE DEF seqs
  <2> DEFINE S == {moved, told}
  <2>4. seqs \in Seq(Seq(S)) /\ seqs # << >> /\ Len(seqs) = 1 /\ seqs[1] = <<moved, told>>
    BY <2>2
  <2> HIDE DEF S
  <2>5. FlattenSeq(seqs) = seqs[1]
    BY <2>4, FlattenMerges
  <2> QED  BY <2>3, <2>4, <2>5
<1>7. PaysFor(c, need)
  BY <1>1 DEF PaysFor
<1>8. Eligible(told, need) /\ told.mandate = m /\ told.amount = need.stroops
  BY <1>1, <1>2, <1>7, EligibleIsPayment DEF told
<1>9. ~ Eligible(moved, need)
  BY <1>4 DEF Eligible
<1> DEFINE events == <<moved, told>>
<1>10. DOMAIN events = {1, 2} /\ events[1] = moved /\ events[2] = told
  OBVIOUS
<1> HIDE DEF events
<1>11. SelectPayment(events, need) = told
  <2>1. {i \in DOMAIN events : Eligible(events[i], need)} = {2}
    BY <1>8, <1>9, <1>10
  <2>2. Cardinality({2}) = 1 /\ (CHOOSE i \in {2} : TRUE) = 2
    BY FS_Singleton
  <2> QED  BY <1>10, <2>1, <2>2 DEF SelectPayment
<1>12. SelectTransfer(events, Mandate[m].asset, Mandate[m].user, need.merchant, need.stroops)
  <2>1. {i \in DOMAIN events :
            /\ events[i].op = "transfer" /\ events[i].on = Mandate[m].asset
            /\ events[i].from = Mandate[m].user /\ events[i].to = need.merchant
            /\ events[i].amount = need.stroops} = {1}
    BY <1>4, <1>5, <1>10
  <2>2. Cardinality({1}) = 1
    BY FS_Singleton
  <2> QED  BY <2>1, <2>2 DEF SelectTransfer
<1>13. Shown(t, need) = VerifiedPayment(t, told, need)
  <2>1. Events(t) = events
    BY <1>6 DEF events
  <2> QED  BY <2>1, <1>2, <1>8, <1>11, <1>12 DEF Shown
<1>14. Tells(VerifiedPayment(t, told, need), t, c, need)
  BY <1>1, <1>8, VerifiedTells
<1> QED
  BY <1>13, <1>14 DEF told, c
=============================================================================
