--------------------------- MODULE ClearingProofs ---------------------------
(***************************************************************************)
(* The clearing arithmetic, for every schedule and every pool: what Min,   *)
(* Max and a sum return, that no price can charge a schedule more than its *)
(* worst case, and what Clear promises of the price it returns.            *)
(*                                                                         *)
(* Then the loops of clearing.rs, for every list of members: ScanInv says  *)
(* what each loop has done so far, and when the last one ends the outcome  *)
(* is that of Clear (LoopsComputeClear), whose price is the least of all   *)
(* that suffice (LoopsFindLeastPrice); and the loops run out of turns      *)
(* (LoopsRunOut).                                                          *)
(*                                                                         *)
(* MandateRegistryProofs extends this module for what it says of Clear;    *)
(* no action there mentions a variable of the loops.                       *)
(***************************************************************************)
EXTENDS ClearingScan, SequenceTheorems, FiniteSetTheorems, WellFoundedInduction, TLAPS

-----------------------------------------------------------------------------
(* The clearing arithmetic                                                 *)

\* A nonempty set of naturals has a least element, and Min is it.
LEMMA MinOfNaturals ==
    ASSUME NEW S \in SUBSET Nat, S # {}
    PROVE  /\ Min(S) \in S
           /\ \A y \in S : Min(S) <= y
<1> DEFINE below == {pair \in Nat \X Nat : pair[1] < pair[2]}
<1>1. IsWellFoundedOn(below, Nat)
  BY NatLessThanWellFounded DEF OpToRel
<1>2. PICK x \in S : \A y \in S : ~ (<<y, x>> \in below)
  <2> HIDE DEF below
  <2> QED  BY <1>1, WFMin
<1>3. \A y \in S : x <= y
  <2> SUFFICES ASSUME NEW y \in S  PROVE x <= y
    OBVIOUS
  <2>1. <<y, x>> \in Nat \X Nat /\ <<y, x>>[1] = y /\ <<y, x>>[2] = x
    OBVIOUS
  <2>2. ~ (y < x)
    BY <1>2, <2>1
  <2> QED  BY <2>2
<1>4. QED
  BY <1>3 DEF Min

\* A nonempty bounded set of naturals has a greatest element, and Max is it.
LEMMA MaxOfNaturals ==
    ASSUME NEW S \in SUBSET Nat, S # {}, NEW bound \in Nat, \A x \in S : x <= bound
    PROVE  /\ Max(S) \in S
           /\ \A y \in S : y <= Max(S)
<1> DEFINE gaps == {g \in Nat : bound - g \in S}
<1>1. gaps # {}
  <2>1. PICK x \in S : TRUE
    OBVIOUS
  <2>2. bound - x \in Nat /\ bound - (bound - x) = x
    BY <2>1
  <2> QED  BY <2>1, <2>2
<1>2. PICK least \in gaps : \A g \in gaps : least <= g
  <2>1. gaps \in SUBSET Nat
    OBVIOUS
  <2> HIDE DEF gaps
  <2> QED  BY <1>1, <2>1, MinOfNaturals
<1>3. \A y \in S : y <= bound - least
  <2> SUFFICES ASSUME NEW y \in S  PROVE y <= bound - least
    OBVIOUS
  <2>1. bound - y \in gaps
    <3>1. bound - y \in Nat /\ bound - (bound - y) = y
      OBVIOUS
    <3> QED  BY <3>1
  <2> QED  BY <1>2, <2>1
<1>4. QED
  BY <1>2, <1>3 DEF Max

-----------------------------------------------------------------------------
(* Sums over finite sets: what the order, the balances and the statements  *)
(* are added up with, whichever term is taken first.                       *)

Total(f, S) == MapThenSumSet(LAMBDA x : f[x], S)

\* g adds up every subset of U, taking its terms in the order of CHOOSE.
Sums(g, f, U) ==
    g = [s \in SUBSET U |->
            IF s = {} THEN 0
            ELSE f[CHOOSE x \in s : TRUE] + g[s \ {CHOOSE x \in s : TRUE}]]

\* Total is the value at S of the function that adds S up, if there is one.
LEMMA TotalIsSum ==
    ASSUME NEW f, NEW S
    PROVE  Total(f, S) = (CHOOSE g : Sums(g, f, S))[S]
BY DEF Total, Sums, MapThenSumSet, MapThenFoldSet

\* Among the finite sets for which a claim fails there is a least one: what
\* stands in for induction over finite sets.
LEMMA SmallestSubset ==
    ASSUME NEW U, IsFiniteSet(U), NEW Bad, Bad \subseteq SUBSET U, Bad # {}
    PROVE  \E T \in Bad : /\ IsFiniteSet(T)
                          /\ \A s \in Bad : s \subseteq T => s = T
<1>1. IsWellFoundedOn(StrictSubsetOrdering(U), SUBSET U)
  BY FS_StrictSubsetOrderingWellFounded, FS_FiniteSubsetsOfFinite
<1>2. PICK T \in Bad : \A s \in Bad : ~ (<<s, T>> \in StrictSubsetOrdering(U))
  BY <1>1, WFMin
<1>3. \A s \in Bad : s \subseteq T => s = T
  <2> SUFFICES ASSUME NEW s \in Bad, s \subseteq T, s # T  PROVE FALSE
    OBVIOUS
  <2>1. <<s, T>> \in (SUBSET U) \X (SUBSET U)
    OBVIOUS
  <2>2. <<s, T>>[1] = s /\ <<s, T>>[2] = T
    OBVIOUS
  <2>3. <<s, T>> \in StrictSubsetOrdering(U)
    BY <2>1, <2>2 DEF StrictSubsetOrdering
  <2> QED  BY <1>2, <2>3
<1>4. IsFiniteSet(T)
  BY FS_Subset
<1> QED
  BY <1>3, <1>4

\* Two functions that add up sets agree wherever both are defined.
LEMMA SumsUnique ==
    ASSUME NEW U, IsFiniteSet(U), NEW f, NEW A \in SUBSET U, NEW B \in SUBSET U,
           NEW g, Sums(g, f, A), NEW h, Sums(h, f, B),
           NEW s \in SUBSET (A \cap B)
    PROVE  g[s] = h[s]
<1> DEFINE Bad == {t \in SUBSET (A \cap B) : g[t] # h[t]}
<1> SUFFICES ASSUME Bad # {}  PROVE FALSE
  OBVIOUS
<1>1. PICK t \in Bad : \A r \in Bad : r \subseteq t => r = t
  <2>1. Bad \subseteq SUBSET U
    OBVIOUS
  <2> HIDE DEF Bad
  <2> QED  BY <2>1, SmallestSubset
<1>2. CASE t = {}
  BY <1>2 DEF Sums
<1>3. CASE t # {}
  <2> DEFINE c == CHOOSE x \in t : TRUE
  <2>1. c \in t
    BY <1>3
  <2> HIDE DEF c
  <2>2. g[t \ {c}] = h[t \ {c}]
    BY <1>1, <2>1
  <2>3. g[t] = f[c] + g[t \ {c}]
    BY <1>3 DEF Sums, c
  <2>4. h[t] = f[c] + h[t \ {c}]
    BY <1>3 DEF Sums, c
  <2> QED  BY <1>1, <2>2, <2>3, <2>4
<1> QED
  BY <1>2, <1>3

\* Every finite set can be added up.
LEMMA SumsExist ==
    ASSUME NEW U, IsFiniteSet(U), NEW f
    PROVE  \E g : Sums(g, f, U)
<1> DEFINE Bad == {T \in SUBSET U : ~ \E g : Sums(g, f, T)}
<1> SUFFICES ASSUME Bad # {}  PROVE FALSE
  OBVIOUS
<1>1. PICK T \in Bad : \A r \in Bad : r \subseteq T => r = T
  <2>1. Bad \subseteq SUBSET U
    OBVIOUS
  <2> HIDE DEF Bad
  <2> QED  BY <2>1, SmallestSubset
<1> DEFINE G(r) == CHOOSE g : Sums(g, f, r)
           c(s) == CHOOSE x \in s : TRUE
           new == [s \in SUBSET T |-> IF s = {} THEN 0 ELSE f[c(s)] + G(s \ {c(s)})[s \ {c(s)}]]
<1>2. ASSUME NEW r \in SUBSET T, r # T
      PROVE  Sums(G(r), f, r)
  <2>1. \E g : Sums(g, f, r)
    BY <1>1, <1>2
  <2> QED  BY <2>1
<1>3. \A s \in SUBSET T : s # {} => c(s) \in s
  OBVIOUS
<1>4. ASSUME NEW r \in SUBSET T, r # T
      PROVE  new[r] = G(r)[r]
  <2>1. Sums(G(r), f, r)
    BY <1>2, <1>4
  <2> HIDE DEF G
  <2>2. CASE r = {}
    BY <2>1, <2>2 DEF Sums
  <2>3. CASE r # {}
    <3>1. c(r) \in r
      BY <2>3, <1>3
    <3>2. G(r)[r] = f[c(r)] + G(r)[r \ {c(r)}]
      BY <2>1, <2>3 DEF Sums
    <3> HIDE DEF c
    <3>3. Sums(G(r \ {c(r)}), f, r \ {c(r)})
      BY <1>2, <3>1
    <3>4. G(r)[r \ {c(r)}] = G(r \ {c(r)})[r \ {c(r)}]
      BY <2>1, <3>3, SumsUnique
    <3> QED  BY <2>3, <3>2, <3>4
  <2> QED  BY <2>2, <2>3
<1>5. Sums(new, f, T)
  <2>1. \A s \in SUBSET T : s # {} =>
           new[s \ {c(s)}] = G(s \ {c(s)})[s \ {c(s)}]
    <3> SUFFICES ASSUME NEW s \in SUBSET T, s # {}
                 PROVE  new[s \ {c(s)}] = G(s \ {c(s)})[s \ {c(s)}]
      OBVIOUS
    <3>1. c(s) \in s
      BY <1>3
    <3> HIDE DEF c, G, new
    <3> QED  BY <1>4, <3>1
  <2>2. \A s \in SUBSET T : new[s] = IF s = {} THEN 0 ELSE f[c(s)] + new[s \ {c(s)}]
    <3>1. \A s \in SUBSET T :
             new[s] = IF s = {} THEN 0 ELSE f[c(s)] + G(s \ {c(s)})[s \ {c(s)}]
      OBVIOUS
    <3> HIDE DEF new, G, c
    <3> QED  BY <2>1, <3>1
  <2>3. new = [s \in SUBSET T |-> new[s]]
    OBVIOUS
  <2> HIDE DEF new
  <2>4. new = [s \in SUBSET T |-> IF s = {} THEN 0 ELSE f[c(s)] + new[s \ {c(s)}]]
    BY <2>2, <2>3
  <2> QED  BY <2>4 DEF Sums
<1> QED
  BY <1>1, <1>5

\* A total is one of its terms, the one CHOOSE picks, and the total of the rest.
LEMMA TotalUnfolds ==
    ASSUME NEW S, IsFiniteSet(S), NEW f
    PROVE  /\ Total(f, {}) = 0
           /\ S # {} => LET c == CHOOSE x \in S : TRUE
                        IN  c \in S /\ Total(f, S) = f[c] + Total(f, S \ {c})
<1> DEFINE G(r) == CHOOSE g : Sums(g, f, r)
<1>1. \A r \in SUBSET S : Sums(G(r), f, r) /\ Total(f, r) = G(r)[r]
  <2> SUFFICES ASSUME NEW r \in SUBSET S  PROVE Sums(G(r), f, r) /\ Total(f, r) = G(r)[r]
    OBVIOUS
  <2>1. IsFiniteSet(r)
    BY FS_Subset
  <2>2. \E g : Sums(g, f, r)
    BY <2>1, SumsExist
  <2> QED  BY <2>2, TotalIsSum
<1> HIDE DEF G
<1>2. Total(f, {}) = 0
  <2>1. Sums(G({}), f, {}) /\ Total(f, {}) = G({})[{}]
    BY <1>1
  <2> QED  BY <2>1 DEF Sums
<1>3. ASSUME S # {}
      PROVE  LET c == CHOOSE x \in S : TRUE
             IN  c \in S /\ Total(f, S) = f[c] + Total(f, S \ {c})
  <2> DEFINE c == CHOOSE x \in S : TRUE
  <2>1. c \in S
    BY <1>3
  <2>2. G(S)[S] = f[c] + G(S)[S \ {c}]
    BY <1>1, <1>3 DEF Sums
  <2> HIDE DEF c
  <2>3. /\ Sums(G(S), f, S)
        /\ Sums(G(S \ {c}), f, S \ {c})
        /\ Total(f, S) = G(S)[S]
        /\ Total(f, S \ {c}) = G(S \ {c})[S \ {c}]
    BY <1>1
  <2>4. G(S)[S \ {c}] = G(S \ {c})[S \ {c}]
    BY <2>3, SumsUnique
  <2> QED  BY <2>1, <2>2, <2>3, <2>4 DEF c
<1> QED
  BY <1>2, <1>3

\* Nothing adds up to nothing.
LEMMA TotalOfNone ==
    ASSUME NEW f
    PROVE  Total(f, {}) = 0
BY FS_EmptySet, TotalUnfolds

\* The order of addition does not matter: any term may be taken out first.
LEMMA TotalSplits ==
    ASSUME NEW S, IsFiniteSet(S), NEW f, \A x \in S : f[x] \in Int
    PROVE  /\ Total(f, S) \in Int
           /\ \A a \in S : Total(f, S) = f[a] + Total(f, S \ {a})
<1> DEFINE Right(s) == /\ Total(f, s) \in Int
                       /\ \A a \in s : Total(f, s) = f[a] + Total(f, s \ {a})
           Bad == {s \in SUBSET S : ~ Right(s)}
<1> SUFFICES ASSUME Bad # {}  PROVE FALSE
  <2>1. Right(S) => /\ Total(f, S) \in Int
                    /\ \A a \in S : Total(f, S) = f[a] + Total(f, S \ {a})
    OBVIOUS
  <2> HIDE DEF Right
  <2> QED  BY <2>1
<1>1. PICK s \in Bad : IsFiniteSet(s) /\ \A r \in Bad : r \subseteq s => r = s
  <2>1. Bad \subseteq SUBSET S
    OBVIOUS
  <2> HIDE DEF Bad
  <2> QED  BY <2>1, SmallestSubset
<1>2. \A r \in SUBSET s : r # s => Right(r)
  <2> HIDE DEF Right
  <2> QED  BY <1>1
<1>3. s # {}
  <2>1. Right({})
    BY TotalOfNone
  <2> HIDE DEF Right
  <2> QED  BY <1>1, <2>1
<1>4. PICK c \in s : Total(f, s) = f[c] + Total(f, s \ {c})
  BY <1>1, <1>3, TotalUnfolds
<1>5. Total(f, s \ {c}) \in Int /\ Total(f, s) \in Int
  BY <1>1, <1>2, <1>4
<1>6. ASSUME NEW a \in s, a # c
      PROVE  Total(f, s) = f[a] + Total(f, s \ {a})
  <2>1. Total(f, s \ {c}) = f[a] + Total(f, (s \ {c}) \ {a})
    BY <1>2, <1>6
  <2>2. Total(f, s \ {a}) = f[c] + Total(f, (s \ {a}) \ {c})
    BY <1>2, <1>6
  <2>3. (s \ {c}) \ {a} = (s \ {a}) \ {c}
    OBVIOUS
  <2>4. Total(f, (s \ {c}) \ {a}) \in Int /\ f[a] \in Int /\ f[c] \in Int
    BY <1>1, <1>2, <1>6
  <2>5. PICK rest \in Int : /\ Total(f, s \ {c}) = f[a] + rest
                           /\ Total(f, s \ {a}) = f[c] + rest
    BY <2>1, <2>2, <2>3, <2>4
  <2>6. Total(f, s) = f[c] + (f[a] + rest) /\ f[a] \in Int /\ f[c] \in Int
    BY <1>4, <2>4, <2>5
  <2> QED  BY <2>5, <2>6
<1> QED
  BY <1>1, <1>4, <1>5, <1>6

\* A total depends on the terms and on nothing else.
LEMMA TotalAgrees ==
    ASSUME NEW S, IsFiniteSet(S), NEW f, NEW g, \A x \in S : f[x] \in Int /\ g[x] = f[x]
    PROVE  Total(g, S) = Total(f, S)
<1> DEFINE Bad == {s \in SUBSET S : Total(g, s) # Total(f, s)}
<1> SUFFICES ASSUME Bad # {}  PROVE FALSE
  BY DEF Bad
<1>1. PICK s \in Bad : IsFiniteSet(s) /\ \A r \in Bad : r \subseteq s => r = s
  <2>1. Bad \subseteq SUBSET S
    OBVIOUS
  <2> HIDE DEF Bad
  <2> QED  BY <2>1, SmallestSubset
<1>2. s # {}
  BY <1>1, TotalOfNone
<1>3. PICK c \in s : TRUE
  BY <1>2
<1>4. /\ Total(f, s) = f[c] + Total(f, s \ {c})
      /\ Total(g, s) = g[c] + Total(g, s \ {c})
  <2>1. \A x \in s : f[x] \in Int /\ g[x] \in Int
    BY <1>1
  <2> QED  BY <1>1, <1>3, <2>1, TotalSplits
<1>5. Total(f, s \ {c}) = Total(g, s \ {c})
  BY <1>1, <1>3
<1> QED
  BY <1>1, <1>3, <1>4, <1>5

\* Adding up sums is adding up their parts.
LEMMA TotalAdds ==
    ASSUME NEW S, IsFiniteSet(S), NEW f, NEW g, NEW h,
           \A x \in S : f[x] \in Int /\ g[x] \in Int /\ h[x] = f[x] + g[x]
    PROVE  Total(h, S) = Total(f, S) + Total(g, S)
<1> DEFINE Bad == {s \in SUBSET S : Total(h, s) # Total(f, s) + Total(g, s)}
<1> SUFFICES ASSUME Bad # {}  PROVE FALSE
  BY DEF Bad
<1>1. PICK s \in Bad : IsFiniteSet(s) /\ \A r \in Bad : r \subseteq s => r = s
  <2>1. Bad \subseteq SUBSET S
    OBVIOUS
  <2> HIDE DEF Bad
  <2> QED  BY <2>1, SmallestSubset
<1>2. s # {}
  <2>1. Total(f, {}) = 0 /\ Total(g, {}) = 0 /\ Total(h, {}) = 0
    BY TotalOfNone
  <2>2. {} \notin Bad
    BY <2>1
  <2> HIDE DEF Bad
  <2> QED  BY <1>1, <2>2
<1>3. PICK c \in s : TRUE
  BY <1>2
<1>4. /\ f[c] \in Int /\ g[c] \in Int /\ h[c] = f[c] + g[c]
      /\ Total(f, s) = f[c] + Total(f, s \ {c})
      /\ Total(g, s) = g[c] + Total(g, s \ {c})
      /\ Total(h, s) = h[c] + Total(h, s \ {c})
      /\ Total(f, s \ {c}) \in Int
      /\ Total(g, s \ {c}) \in Int
  <2>1. /\ \A x \in s : f[x] \in Int /\ g[x] \in Int /\ h[x] \in Int
        /\ IsFiniteSet(s \ {c})
    BY <1>1, FS_RemoveElement
  <2> QED  BY <1>1, <1>3, <2>1, TotalSplits
<1>5. Total(h, s \ {c}) = Total(f, s \ {c}) + Total(g, s \ {c})
  BY <1>1, <1>3
<1> QED
  BY <1>1, <1>3, <1>4, <1>5

\* Terms that are zero may be left out.
LEMMA TotalSkipsZeros ==
    ASSUME NEW S, IsFiniteSet(S), NEW T \in SUBSET S, NEW f,
           \A x \in S : f[x] \in Int, \A x \in S \ T : f[x] = 0
    PROVE  Total(f, S) = Total(f, T)
<1> DEFINE Bad == {s \in SUBSET S : Total(f, s) # Total(f, s \cap T)}
<1> SUFFICES ASSUME Bad # {}  PROVE FALSE
  <2>1. S \cap T = T
    OBVIOUS
  <2> QED  BY <2>1 DEF Bad
<1>1. PICK s \in Bad : IsFiniteSet(s) /\ \A r \in Bad : r \subseteq s => r = s
  <2>1. Bad \subseteq SUBSET S
    OBVIOUS
  <2> HIDE DEF Bad
  <2> QED  BY <2>1, SmallestSubset
<1>2. PICK c \in s : c \notin T
  BY <1>1
<1>3. Total(f, s) = f[c] + Total(f, s \ {c}) /\ f[c] = 0 /\ Total(f, s \ {c}) \in Int
  <2>1. (\A x \in s : f[x] \in Int) /\ IsFiniteSet(s \ {c})
    BY <1>1, FS_RemoveElement
  <2> QED  BY <1>1, <1>2, <2>1, TotalSplits
<1>4. Total(f, s \ {c}) = Total(f, (s \ {c}) \cap T)
  BY <1>1, <1>2
<1>5. (s \ {c}) \cap T = s \cap T
  BY <1>2
<1> QED
  BY <1>1, <1>3, <1>4, <1>5

\* One term is its own total.
LEMMA TotalOfOne ==
    ASSUME NEW a, NEW f, f[a] \in Int
    PROVE  Total(f, {a}) = f[a]
<1>1. IsFiniteSet({a})
  BY FS_Singleton
<1>2. Total(f, {a}) = f[a] + Total(f, {a} \ {a})
  BY <1>1, TotalSplits
<1>3. {a} \ {a} = {}
  OBVIOUS
<1> QED
  BY <1>2, <1>3, TotalOfNone

\* Natural terms have a natural total.
LEMMA TotalNatural ==
    ASSUME NEW S, IsFiniteSet(S), NEW f, \A x \in S : f[x] \in Nat
    PROVE  Total(f, S) \in Nat
<1> DEFINE Bad == {s \in SUBSET S : Total(f, s) \notin Nat}
<1> SUFFICES ASSUME Bad # {}  PROVE FALSE
  BY DEF Bad
<1>1. PICK s \in Bad : IsFiniteSet(s) /\ \A r \in Bad : r \subseteq s => r = s
  <2>1. Bad \subseteq SUBSET S
    OBVIOUS
  <2> HIDE DEF Bad
  <2> QED  BY <2>1, SmallestSubset
<1>2. s # {}
  <2>1. Total(f, {}) \in Nat
    BY TotalOfNone
  <2> QED  BY <1>1, <2>1
<1>3. PICK c \in s : TRUE
  BY <1>2
<1>4. Total(f, s) = f[c] + Total(f, s \ {c})
  <2>1. \A x \in s : f[x] \in Int
    BY <1>1
  <2> QED  BY <1>1, <1>3, <2>1, TotalSplits
<1>5. Total(f, s \ {c}) \in Nat /\ f[c] \in Nat
  BY <1>1, <1>3
<1> QED
  BY <1>1, <1>4, <1>5

\* Whatever adds up a set that way gives its total.
LEMMA AnySums ==
    ASSUME NEW S, IsFiniteSet(S), NEW f, NEW g, Sums(g, f, S)
    PROVE  g[S] = Total(f, S)
<1>1. Sums(CHOOSE h : Sums(h, f, S), f, S)
  OBVIOUS
<1> DEFINE chosen == CHOOSE h : Sums(h, f, S)
<1>2. Sums(chosen, f, S) /\ Total(f, S) = chosen[S]
  BY <1>1, TotalIsSum
<1> HIDE DEF chosen
<1> QED
  BY <1>2, SumsUnique

\* Charging some of the terms raises the total by what was charged.
LEMMA TotalCharged ==
    ASSUME NEW S, IsFiniteSet(S), NEW B \in SUBSET S, NEW f, NEW g, NEW leg,
           \A x \in S : f[x] \in Int, \A x \in B : leg[x] \in Int,
           \A x \in S : g[x] = IF x \in B THEN f[x] + leg[x] ELSE f[x]
    PROVE  Total(g, S) = Total(f, S) + Total(leg, B)
<1> DEFINE charge == [x \in S |-> IF x \in B THEN leg[x] ELSE 0]
<1>1. \A x \in S : /\ charge[x] \in Int
                   /\ g[x] = f[x] + charge[x]
                   /\ x \notin B => charge[x] = 0
                   /\ x \in B => charge[x] = leg[x]
  OBVIOUS
<1> HIDE DEF charge
<1>2. Total(g, S) = Total(f, S) + Total(charge, S)
  BY <1>1, TotalAdds
<1>3. Total(charge, S) = Total(charge, B)
  BY <1>1, TotalSkipsZeros
<1>4. Total(charge, B) = Total(leg, B)
  <2>1. IsFiniteSet(B)
    BY FS_Subset
  <2> QED  BY <1>1, <2>1, TotalAgrees
<1> QED
  BY <1>2, <1>3, <1>4

-----------------------------------------------------------------------------
(* Schedules                                                               *)

\* What a schedule demands at any price is a quantity.
LEMMA DemandType ==
    ASSUME NEW s \in Seq(SchedulePoint), NEW p \in Int
    PROVE  Demand(s, p) \in Nat
<1> DEFINE reaching == {i \in DOMAIN s : s[i].unit_price >= p}
<1>1. CASE reaching = {}
  BY <1>1 DEF Demand
<1>2. CASE reaching # {}
  <2>1. reaching \in SUBSET Nat
    BY LenProperties
  <2>2. Min(reaching) \in reaching
    <3> HIDE DEF reaching
    <3> QED  BY <1>2, <2>1, MinOfNaturals
  <2>3. s[Min(reaching)] \in SchedulePoint
    BY <2>2, ElementOfSeq, LenProperties
  <2> QED  BY <1>2, <2>3 DEF Demand, SchedulePoint
<1>3. QED
  BY <1>1, <1>2

\* The legs of a valid schedule are bounded, so that their maximum exists.
LEMMA WorstCaseBounds ==
    ASSUME NEW s \in Seq(SchedulePoint), ValidSchedule(s)
    PROVE  /\ WorstCase(s) \in Nat
           /\ \A i \in DOMAIN s : s[i].unit_price * s[i].max_qty <= WorstCase(s)
<1> DEFINE legs == {0} \cup {s[i].unit_price * s[i].max_qty : i \in DOMAIN s}
           bound == MaxUnitPrice * MaxQty
<1>1. bound \in Nat
  BY ClearingAssumption
<1>2. \A i \in DOMAIN s : /\ s[i].unit_price * s[i].max_qty \in Nat
                          /\ s[i].unit_price * s[i].max_qty <= bound
  <2> SUFFICES ASSUME NEW i \in DOMAIN s
               PROVE  /\ s[i].unit_price * s[i].max_qty \in Nat
                      /\ s[i].unit_price * s[i].max_qty <= bound
    OBVIOUS
  <2>1. s[i].unit_price \in 1 .. MaxUnitPrice /\ s[i].max_qty \in 1 .. MaxQty
    BY DEF ValidSchedule
  <2>2. \A x \in 1 .. MaxUnitPrice, y \in 1 .. MaxQty :
            x * y \in Nat /\ x * y <= MaxUnitPrice * MaxQty
    BY ClearingAssumption
  <2> QED  BY <2>1, <2>2
<1>3. legs \in SUBSET Nat /\ 0 \in legs /\ \A x \in legs : x <= bound
  BY <1>1, <1>2
<1>4. Max(legs) \in legs /\ \A y \in legs : y <= Max(legs)
  <2> HIDE DEF legs, bound
  <2> QED  BY <1>1, <1>3, MaxOfNaturals
<1>5. WorstCase(s) = Max(legs)
  BY DEF WorstCase
<1>6. QED
  <2>1. \A i \in DOMAIN s : s[i].unit_price * s[i].max_qty \in legs
    OBVIOUS
  <2> HIDE DEF legs
  <2> QED  BY <1>3, <1>4, <1>5, <2>1

\* The overcharge branch of clear_pool is dead code: whatever price a pool
\* clears at, a valid schedule's leg is at most the worst case its user signed.
THEOREM LegWithinWorstCase ==
    ASSUME NEW s \in Seq(SchedulePoint), ValidSchedule(s), NEW p \in Nat
    PROVE  p * Demand(s, p) <= WorstCase(s)
<1> DEFINE reaching == {i \in DOMAIN s : s[i].unit_price >= p}
<1>1. CASE reaching = {}
  <2>1. Demand(s, p) = 0
    BY <1>1 DEF Demand
  <2> QED  BY <2>1, WorstCaseBounds
<1>2. CASE reaching # {}
  <2>1. reaching \in SUBSET Nat
    BY LenProperties
  <2>2. PICK i \in reaching : i = Min(reaching)
    <3> HIDE DEF reaching
    <3> QED  BY <1>2, <2>1, MinOfNaturals
  <2>3. Demand(s, p) = s[i].max_qty
    BY <1>2, <2>2 DEF Demand
  <2>4. s[i].unit_price \in Nat /\ s[i].max_qty \in Nat
    BY ClearingAssumption DEF ValidSchedule
  <2>5. p * s[i].max_qty <= s[i].unit_price * s[i].max_qty
    <3>1. \A a, b, q \in Nat : a <= b => a * q <= b * q
      OBVIOUS
    <3> QED  BY <2>4, <3>1
  <2>6. s[i].unit_price * s[i].max_qty <= WorstCase(s)
    BY WorstCaseBounds
  <2> QED  BY <2>3, <2>4, <2>5, <2>6, WorstCaseBounds
<1>3. QED
  BY <1>1, <1>2

Outcome(kids, schedule, outcome) ==
    /\ outcome.fires \in BOOLEAN
    /\ outcome.clearing_price \in Nat
    /\ outcome.fires => outcome.clearing_price > 0
    /\ ~ outcome.fires => DOMAIN outcome.allocations = {}
    /\ DOMAIN outcome.allocations \subseteq kids
    /\ \A k \in DOMAIN outcome.allocations :
          /\ outcome.allocations[k] = Demand(schedule[k], outcome.clearing_price)
          /\ outcome.allocations[k] \in Nat \ {0}

\* The breakpoints at which the order satisfies both of the vendor's floors.
Firing(terms, kids, schedule, fee_bps) ==
    {b \in Breakpoints(kids, schedule) : Feasible(terms, kids, schedule, b, fee_bps)}

\* The price Clear settles at: it is no greater than the first breakpoint b
\* that satisfies both floors, above every breakpoint before b, and the least such
\* price at which the order's net value suffices.
LEMMA ClearingPrice ==
    ASSUME NEW terms, terms.threshold_value \in Nat, NEW fee_bps,
           NEW kids, NEW schedule,
           \A k \in kids : schedule[k] \in Seq(SchedulePoint) /\ ValidSchedule(schedule[k]),
           Firing(terms, kids, schedule, fee_bps) # {}
    PROVE  \E b \in Firing(terms, kids, schedule, fee_bps), price \in 1 .. MaxUnitPrice :
              /\ price <= b
              /\ \A x \in Breakpoints(kids, schedule) : x < b => x < price
              /\ NetValue(kids, schedule, price, fee_bps) >= terms.threshold_value
              /\ Clear(terms, kids, schedule, fee_bps) = OutcomeAt(kids, schedule, price)
              /\ \A c \in Firing(terms, kids, schedule, fee_bps) : b <= c
              /\ \A p \in Nat \ {0} :
                    /\ p <= b /\ (\A x \in Breakpoints(kids, schedule) : x < b => x < p)
                    /\ NetValue(kids, schedule, p, fee_bps) >= terms.threshold_value
                    => price <= p
<1> DEFINE points == Breakpoints(kids, schedule)
           firing == Firing(terms, kids, schedule, fee_bps)
           b      == Min(firing)
           lower  == {0} \cup {x \in points : x < b}
           under   == Max(lower)
           good   == {p \in (under + 1) .. b :
                         NetValue(kids, schedule, p, fee_bps) >= terms.threshold_value}
           price  == Min(good)
<1>1. points \subseteq 1 .. MaxUnitPrice
  BY DEF Breakpoints, ValidSchedule
<1>2. b \in firing /\ \A c \in firing : b <= c
  <2>1. firing \in SUBSET Nat
    BY <1>1, ClearingAssumption DEF Firing
  <2> QED  BY <2>1, MinOfNaturals
<1>3. b \in 1 .. MaxUnitPrice /\ b \in Nat
  BY <1>1, <1>2, ClearingAssumption DEF Firing
<1>4. /\ under \in Nat /\ under < b /\ (under = 0 \/ under \in points)
      /\ \A x \in points : x < b => x <= under
  <2> HIDE DEF b
  <2>0. \A x \in points : x \in Nat
    BY <1>1, ClearingAssumption
  <2>1. lower \in SUBSET Nat /\ 0 \in lower
    <3>1. \A y \in lower : y = 0 \/ y \in points
      OBVIOUS
    <3>2. \A y \in lower : y \in Nat
      BY <2>0, <3>1
    <3>3. 0 \in lower
      OBVIOUS
    <3> HIDE DEF lower
    <3> QED  BY <3>2, <3>3
  <2>2. \A x \in lower : x <= b /\ x < b
    BY <2>0, <1>3
  <2>3. (\A x \in points : x < b => x \in lower) /\ \A y \in lower : y = 0 \/ y \in points
    OBVIOUS
  <2> HIDE DEF lower
  <2>4. under \in lower /\ \A y \in lower : y <= under
    BY <1>3, <2>1, <2>2, MaxOfNaturals
  <2> QED  BY <2>1, <2>2, <2>3, <2>4
<1>5. b \in good
  <2>1. NetValue(kids, schedule, b, fee_bps) >= terms.threshold_value
    BY <1>2 DEF Firing, Feasible
  <2>2. b \in (under + 1) .. b
    <3> HIDE DEF b, under
    <3> QED  BY <1>3, <1>4
  <2> QED  BY <2>1, <2>2
<1>6. price \in good /\ \A p \in good : price <= p
  <2> HIDE DEF b, under
  <2>1. good \in SUBSET Nat
    BY <1>3, <1>4
  <2> HIDE DEF good
  <2> QED  BY <1>5, <2>1, MinOfNaturals
<1>7. /\ price \in 1 .. MaxUnitPrice
      /\ price <= b
      /\ under < price
      /\ NetValue(kids, schedule, price, fee_bps) >= terms.threshold_value
  <2>1. price \in (under + 1) .. b
    BY <1>6
  <2>2. NetValue(kids, schedule, price, fee_bps) >= terms.threshold_value
    BY <1>6
  <2> HIDE DEF under, b, price
  <2> QED  BY <1>3, <1>4, <2>1, <2>2, ClearingAssumption
<1>8. Clear(terms, kids, schedule, fee_bps) = OutcomeAt(kids, schedule, price)
  BY DEF Clear, Firing
<1>9. \A x \in points : x < b => x < price
  <2> HIDE DEF under, b, price
  <2> QED  BY <1>1, <1>3, <1>4, <1>7, ClearingAssumption
<1>10. ASSUME NEW p \in Nat \ {0}, p <= b, \A x \in points : x < b => x < p,
              NetValue(kids, schedule, p, fee_bps) >= terms.threshold_value
       PROVE  price <= p
  <2>1. under < p
    <3> HIDE DEF under, b
    <3> QED  BY <1>4, <1>10
  <2>2. p \in (under + 1) .. b
    <3> HIDE DEF under, b
    <3> QED  BY <1>3, <1>4, <1>10, <2>1
  <2>3. p \in good
    <3> HIDE DEF under, b
    <3> QED  BY <1>10, <2>2
  <2> QED  BY <1>6, <2>3
<1> HIDE DEF b, price
<1> QED
  BY <1>2, <1>7, <1>8, <1>9, <1>10

\* What clear_pool settles: at one positive uniform price each allocated
\* member, an eligible one, receives exactly its own demand at that price.
THEOREM ClearOutcome ==
    ASSUME NEW terms, terms.threshold_value \in Nat, NEW fee_bps,
           NEW kids, NEW schedule,
           \A k \in kids : schedule[k] \in Seq(SchedulePoint) /\ ValidSchedule(schedule[k])
    PROVE  Outcome(kids, schedule, Clear(terms, kids, schedule, fee_bps))
<1>1. CASE Firing(terms, kids, schedule, fee_bps) = {}
  <2>1. Clear(terms, kids, schedule, fee_bps) = NoFire
    BY <1>1 DEF Clear, Firing
  <2> QED  BY <2>1 DEF NoFire, Outcome
<1>2. CASE Firing(terms, kids, schedule, fee_bps) # {}
  <2>1. PICK price \in 1 .. MaxUnitPrice :
           Clear(terms, kids, schedule, fee_bps) = OutcomeAt(kids, schedule, price)
    BY <1>2, ClearingPrice
  <2>2. price \in Nat /\ price > 0
    BY ClearingAssumption
  <2>3. \A k \in kids : Demand(schedule[k], price) \in Nat
    BY <2>2, DemandType
  <2> QED  BY <2>1, <2>2, <2>3 DEF OutcomeAt, Outcome
<1> QED
  BY <1>1, <1>2

\* Demand does not change between two breakpoints.
LEMMA DemandBetween ==
    ASSUME NEW s \in Seq(SchedulePoint), NEW p \in Nat, NEW b \in Nat, p <= b,
           \A i \in DOMAIN s : s[i].unit_price < b => s[i].unit_price < p
    PROVE  Demand(s, p) = Demand(s, b)
<1>1. \A i \in DOMAIN s : s[i].unit_price \in Int
  <2> SUFFICES ASSUME NEW i \in DOMAIN s  PROVE s[i].unit_price \in Int
    OBVIOUS
  <2>1. s[i] \in SchedulePoint
    BY ElementOfSeq, LenProperties
  <2> QED  BY <2>1 DEF SchedulePoint
<1>2. {i \in DOMAIN s : s[i].unit_price >= p} = {i \in DOMAIN s : s[i].unit_price >= b}
  BY <1>1
<1> QED
  BY <1>2 DEF Demand

\* The quantity ordered at a price is the total of the members' demands.
LEMMA QtyIsTotal ==
    ASSUME NEW kids, IsFiniteSet(kids), NEW schedule, NEW p
    PROVE  TotalQty(kids, schedule, p) = Total([k \in kids |-> Demand(schedule[k], p)], kids)
<1> DEFINE f == [k \in kids |-> Demand(schedule[k], p)]
           P(g) == g = [s \in SUBSET kids |->
                           IF s = {} THEN 0
                           ELSE Demand(schedule[CHOOSE x \in s : TRUE], p)
                                   + g[s \ {CHOOSE x \in s : TRUE}]]
<1>1. TotalQty(kids, schedule, p) = (CHOOSE g : P(g))[kids]
  BY DEF TotalQty, MapThenSumSet, MapThenFoldSet
<1>2. \A g : P(g) <=> Sums(g, f, kids)
  <2>1. \A s \in SUBSET kids : s # {} =>
           f[CHOOSE x \in s : TRUE] = Demand(schedule[CHOOSE x \in s : TRUE], p)
    OBVIOUS
  <2> HIDE DEF f
  <2> QED  BY <2>1 DEF Sums
<1> HIDE DEF P, f
<1>3. \E g : P(g)
  BY <1>2, SumsExist
<1>4. P(CHOOSE g : P(g))
  BY <1>3
<1>5. (CHOOSE g : P(g))[kids] = Total(f, kids)
  BY <1>2, <1>4, AnySums
<1> QED
  BY <1>1, <1>5 DEF f

\* What the vendor nets at a price is the total of the legs less their fees.
LEMMA NetIsTotal ==
    ASSUME NEW kids, IsFiniteSet(kids), NEW schedule, NEW p, NEW fee_bps
    PROVE  NetValue(kids, schedule, p, fee_bps) =
              Total([k \in kids |-> p * Demand(schedule[k], p)
                                       - FeeOf(p * Demand(schedule[k], p), fee_bps)], kids)
<1> DEFINE e(k) == p * Demand(schedule[k], p) - FeeOf(p * Demand(schedule[k], p), fee_bps)
           f == [k \in kids |-> e(k)]
           P(g) == g = [s \in SUBSET kids |->
                           IF s = {} THEN 0
                           ELSE e(CHOOSE x \in s : TRUE) + g[s \ {CHOOSE x \in s : TRUE}]]
<1>1. NetValue(kids, schedule, p, fee_bps) = (CHOOSE g : P(g))[kids]
  BY DEF NetValue, MapThenSumSet, MapThenFoldSet
<1>2. \A g : P(g) <=> Sums(g, f, kids)
  <2>1. \A s \in SUBSET kids : s # {} =>
           f[CHOOSE x \in s : TRUE] = e(CHOOSE x \in s : TRUE)
    <3> HIDE DEF e
    <3> QED  OBVIOUS
  <2> HIDE DEF f, e
  <2> QED  BY <2>1 DEF Sums
<1> HIDE DEF P, f
<1>3. \E g : P(g)
  BY <1>2, SumsExist
<1>4. P(CHOOSE g : P(g))
  BY <1>3
<1>5. (CHOOSE g : P(g))[kids] = Total(f, kids)
  BY <1>2, <1>4, AnySums
<1> QED
  BY <1>1, <1>5 DEF f

\* A pool that fires meets both floors with the members it charges, at the
\* price it charges them, although feasibility was tested at a breakpoint.
THEOREM ClearMeetsFloors ==
    ASSUME NEW terms, terms.threshold_qty \in Nat, terms.threshold_value \in Nat,
           NEW fee_bps \in Nat, NEW kids, IsFiniteSet(kids), NEW schedule,
           \A k \in kids : schedule[k] \in Seq(SchedulePoint) /\ ValidSchedule(schedule[k]),
           NEW outcome, outcome = Clear(terms, kids, schedule, fee_bps), outcome.fires
    PROVE  LET bought == DOMAIN outcome.allocations
               leg    == [k \in bought |-> outcome.clearing_price * outcome.allocations[k]]
           IN  /\ outcome.clearing_price \in 1 .. MaxUnitPrice
               /\ Total(outcome.allocations, bought) >= terms.threshold_qty
               /\ Total([k \in bought |-> leg[k] - FeeOf(leg[k], fee_bps)], bought)
                     >= terms.threshold_value
<1>1. Firing(terms, kids, schedule, fee_bps) # {}
  BY DEF Clear, Firing, NoFire
<1>2. PICK b \in Firing(terms, kids, schedule, fee_bps), price \in 1 .. MaxUnitPrice :
         /\ price <= b
         /\ \A x \in Breakpoints(kids, schedule) : x < b => x < price
         /\ NetValue(kids, schedule, price, fee_bps) >= terms.threshold_value
         /\ outcome = OutcomeAt(kids, schedule, price)
  BY <1>1, ClearingPrice
<1> DEFINE bought == {k \in kids : Demand(schedule[k], price) # 0}
           qty    == [k \in kids |-> Demand(schedule[k], price)]
           LegNet(k) == price * Demand(schedule[k], price)
                        - FeeOf(price * Demand(schedule[k], price), fee_bps)
           net    == [k \in kids |-> LegNet(k)]
<1>3. /\ outcome.clearing_price = price
      /\ outcome.allocations = [k \in bought |-> Demand(schedule[k], price)]
  BY <1>2 DEF OutcomeAt
<1>4. b \in Breakpoints(kids, schedule) /\ b \in Nat /\ price \in Nat
  BY ClearingAssumption DEF Firing, Breakpoints, ValidSchedule
<1>5. \A k \in kids : Demand(schedule[k], price) \in Nat
  BY <1>4, DemandType
<1>6. \A k \in kids : Demand(schedule[k], price) = Demand(schedule[k], b)
  <2> SUFFICES ASSUME NEW k \in kids
               PROVE  Demand(schedule[k], price) = Demand(schedule[k], b)
    OBVIOUS
  <2>1. \A i \in DOMAIN schedule[k] : schedule[k][i].unit_price \in Breakpoints(kids, schedule)
    BY DEF Breakpoints
  <2>2. \A i \in DOMAIN schedule[k] :
           schedule[k][i].unit_price < b => schedule[k][i].unit_price < price
    BY <1>2, <2>1
  <2> QED  BY <1>2, <1>4, <2>2, DemandBetween
<1>7. bought \in SUBSET kids /\ IsFiniteSet(bought)
  BY FS_Subset
<1>8. Total(outcome.allocations, bought) >= terms.threshold_qty
  <2>1. TotalQty(kids, schedule, b) >= terms.threshold_qty
    BY DEF Firing, Feasible
  <2>2. TotalQty(kids, schedule, b) = Total(qty, kids)
    <3>1. [k \in kids |-> Demand(schedule[k], b)] = qty
      BY <1>6
    <3> QED  BY <3>1, QtyIsTotal
  <2>3. Total(qty, kids) = Total(qty, bought)
    <3>1. (\A k \in kids : qty[k] \in Int) /\ \A k \in kids \ bought : qty[k] = 0
      BY <1>5
    <3> HIDE DEF qty, bought
    <3> QED  BY <1>7, <3>1, TotalSkipsZeros
  <2>4. Total(outcome.allocations, bought) = Total(qty, bought)
    <3>1. \A k \in bought : qty[k] \in Int /\ outcome.allocations[k] = qty[k]
      BY <1>3, <1>5
    <3> HIDE DEF qty, bought
    <3> QED  BY <1>7, <3>1, TotalAgrees
  <2> QED  BY <2>1, <2>2, <2>3, <2>4
<1>9. ASSUME NEW leg, leg = [k \in bought |-> price * outcome.allocations[k]]
      PROVE  Total([k \in bought |-> leg[k] - FeeOf(leg[k], fee_bps)], bought)
                >= terms.threshold_value
  <2>1. \A k \in kids : LegNet(k) \in Int /\ (k \notin bought => LegNet(k) = 0)
    <3>1. \A x \in Nat : x - FeeOf(x, fee_bps) \in Int
      BY DEF FeeOf, BPS_DENOM
    <3>2. 0 - FeeOf(0, fee_bps) = 0
      BY DEF FeeOf, BPS_DENOM
    <3>3. \A k \in kids : price * Demand(schedule[k], price) \in Nat
      BY <1>4, <1>5
    <3>4. \A k \in kids : k \notin bought => price * Demand(schedule[k], price) = 0
      BY <1>4
    <3> QED  BY <3>1, <3>2, <3>3, <3>4
  <2>2. NetValue(kids, schedule, price, fee_bps) = Total(net, kids)
    BY NetIsTotal
  <2>3. \A k \in bought : leg[k] - FeeOf(leg[k], fee_bps) = LegNet(k)
    BY <1>3, <1>9
  <2> HIDE DEF LegNet
  <2>4. Total(net, kids) = Total(net, bought)
    <3>1. (\A k \in kids : net[k] \in Int) /\ \A k \in kids \ bought : net[k] = 0
      BY <2>1
    <3> HIDE DEF net, bought
    <3> QED  BY <1>7, <3>1, TotalSkipsZeros
  <2> DEFINE paid == [k \in bought |-> leg[k] - FeeOf(leg[k], fee_bps)]
  <2>5. Total(paid, bought) = Total(net, bought)
    <3>1. \A k \in bought : net[k] \in Int /\ paid[k] = net[k]
      BY <1>7, <2>1, <2>3
    <3> HIDE DEF net, bought, paid
    <3> QED  BY <1>7, <3>1, TotalAgrees
  <2> QED  BY <1>2, <2>2, <2>4, <2>5
<1>10. DOMAIN outcome.allocations = bought
  BY <1>3
<1> HIDE DEF bought
<1> DEFINE dom  == DOMAIN outcome.allocations
           cost == [k \in dom |-> outcome.clearing_price * outcome.allocations[k]]
<1>11. cost = [k \in bought |-> price * outcome.allocations[k]]
  BY <1>3, <1>10
<1>12. Total([k \in dom |-> cost[k] - FeeOf(cost[k], fee_bps)], dom) >= terms.threshold_value
  <2> HIDE DEF cost, dom
  <2>1. Total([k \in bought |-> cost[k] - FeeOf(cost[k], fee_bps)], bought)
           >= terms.threshold_value
    BY <1>9, <1>11
  <2>2. dom = bought
    BY <1>10 DEF dom
  <2> QED  BY <2>1, <2>2
<1>13. outcome.clearing_price \in 1 .. MaxUnitPrice
  BY <1>2, <1>3
<1>14. Total(outcome.allocations, dom) >= terms.threshold_qty
  BY <1>8, <1>10
<1> QED
  BY <1>12, <1>13, <1>14

\* A larger term makes no smaller total.
LEMMA TotalGrows ==
    ASSUME NEW S, IsFiniteSet(S), NEW f, NEW g,
           \A x \in S : f[x] \in Int /\ g[x] \in Int /\ f[x] <= g[x]
    PROVE  Total(f, S) <= Total(g, S)
<1> DEFINE d == [x \in S |-> g[x] - f[x]]
<1>1. \A x \in S : f[x] \in Int /\ d[x] \in Int /\ g[x] = f[x] + d[x]
  OBVIOUS
<1>2. \A x \in S : d[x] \in Nat
  OBVIOUS
<1> HIDE DEF d
<1>3. Total(g, S) = Total(f, S) + Total(d, S)
  BY <1>1, TotalAdds
<1>4. Total(d, S) \in Nat /\ Total(f, S) \in Int
  BY <1>1, <1>2, TotalNatural, TotalSplits
<1> QED  BY <1>3, <1>4

\* A leg less its fee, rounded down, grows with the leg: a fee is at most all of it.
LEMMA LegLessFeeGrows ==
    ASSUME NEW x \in Nat, NEW y \in Nat, x <= y, NEW fee_bps \in 0 .. BPS_DENOM
    PROVE  x - FeeOf(x, fee_bps) <= y - FeeOf(y, fee_bps)
<1> DEFINE a == x * fee_bps
           b == y * fee_bps
           d == y - x
<1>1. a \in Nat /\ b \in Nat /\ d \in Nat /\ fee_bps \in Nat /\ fee_bps <= 10000
  BY DEF BPS_DENOM
<1>2. b = a + d * fee_bps
  BY <1>1
<1>3. d * fee_bps <= d * 10000
  BY <1>1
<1>4. b <= a + d * 10000
  BY <1>1, <1>2, <1>3
<1>5. y = x + d
  OBVIOUS
<1>6. FeeOf(x, fee_bps) = a \div 10000 /\ FeeOf(y, fee_bps) = b \div 10000
  BY DEF FeeOf, BPS_DENOM
<1> HIDE DEF a, b, d
<1>7. b \div 10000 <= a \div 10000 + d
  BY <1>1, <1>4
<1> QED  BY <1>1, <1>5, <1>6, <1>7

\* From one breakpoint down to the one before it, the quantity ordered stays the same and
\* what the vendor nets only falls: what the binary search between the two rests on.
LEMMA OrderBetween ==
    ASSUME NEW fee_bps \in 0 .. BPS_DENOM, NEW kids, IsFiniteSet(kids), NEW schedule,
           \A k \in kids : schedule[k] \in Seq(SchedulePoint) /\ ValidSchedule(schedule[k]),
           NEW p \in Nat, NEW b \in Nat, p <= b,
           \A x \in Breakpoints(kids, schedule) : x < b => x < p
    PROVE  /\ TotalQty(kids, schedule, p) = TotalQty(kids, schedule, b)
           /\ NetValue(kids, schedule, p, fee_bps) \in Int
           /\ NetValue(kids, schedule, b, fee_bps) \in Int
           /\ NetValue(kids, schedule, p, fee_bps) <= NetValue(kids, schedule, b, fee_bps)
<1> DEFINE qty(q) == [k \in kids |-> Demand(schedule[k], q)]
           LegNet(q, k) == q * Demand(schedule[k], q) - FeeOf(q * Demand(schedule[k], q), fee_bps)
           net(q) == [k \in kids |-> LegNet(q, k)]
<1>1. \A k \in kids : /\ Demand(schedule[k], p) = Demand(schedule[k], b)
                      /\ Demand(schedule[k], p) \in Nat
  <2> SUFFICES ASSUME NEW k \in kids
               PROVE  /\ Demand(schedule[k], p) = Demand(schedule[k], b)
                      /\ Demand(schedule[k], p) \in Nat
    OBVIOUS
  <2>1. \A i \in DOMAIN schedule[k] : schedule[k][i].unit_price \in Breakpoints(kids, schedule)
    BY DEF Breakpoints
  <2>2. \A i \in DOMAIN schedule[k] :
           schedule[k][i].unit_price < b => schedule[k][i].unit_price < p
    BY <2>1
  <2>3. Demand(schedule[k], p) = Demand(schedule[k], b)
    BY <2>2, DemandBetween
  <2>4. p \in Int /\ schedule[k] \in Seq(SchedulePoint)
    OBVIOUS
  <2>5. Demand(schedule[k], p) \in Nat
    BY <2>4, DemandType
  <2> QED  BY <2>3, <2>5
<1>2. TotalQty(kids, schedule, p) = TotalQty(kids, schedule, b)
  <2>1. qty(p) = qty(b)
    BY <1>1
  <2>2. TotalQty(kids, schedule, p) = Total(qty(p), kids)
    BY QtyIsTotal
  <2>3. TotalQty(kids, schedule, b) = Total(qty(b), kids)
    BY QtyIsTotal
  <2> HIDE DEF qty
  <2> QED  BY <2>1, <2>2, <2>3
<1>3. \A k \in kids : LegNet(p, k) \in Int /\ LegNet(b, k) \in Int /\ LegNet(p, k) <= LegNet(b, k)
  <2> SUFFICES ASSUME NEW k \in kids
               PROVE  LegNet(p, k) \in Int /\ LegNet(b, k) \in Int /\ LegNet(p, k) <= LegNet(b, k)
    OBVIOUS
  <2>1. PICK q \in Nat : q = Demand(schedule[k], p) /\ q = Demand(schedule[k], b)
    BY <1>1
  <2> DEFINE x == p * q
             y == b * q
  <2>2. x \in Nat /\ y \in Nat /\ x <= y
    OBVIOUS
  <2>3. LegNet(p, k) = x - FeeOf(x, fee_bps) /\ LegNet(b, k) = y - FeeOf(y, fee_bps)
    BY <2>1
  <2> HIDE DEF LegNet, x, y
  <2>4. FeeOf(x, fee_bps) \in Int /\ FeeOf(y, fee_bps) \in Int
    BY <2>2 DEF FeeOf, BPS_DENOM
  <2>5. x - FeeOf(x, fee_bps) <= y - FeeOf(y, fee_bps)
    BY <2>2, LegLessFeeGrows
  <2> QED  BY <2>2, <2>3, <2>4, <2>5
<1>4. /\ Total(net(p), kids) \in Int /\ Total(net(b), kids) \in Int
      /\ Total(net(p), kids) <= Total(net(b), kids)
  <2>1. \A k \in kids : net(p)[k] \in Int /\ net(b)[k] \in Int /\ net(p)[k] <= net(b)[k]
    BY <1>3
  <2> HIDE DEF net
  <2> QED  BY <2>1, TotalGrows, TotalSplits
<1>5. /\ NetValue(kids, schedule, p, fee_bps) = Total(net(p), kids)
      /\ NetValue(kids, schedule, b, fee_bps) = Total(net(b), kids)
  BY NetIsTotal
<1> QED  BY <1>2, <1>4, <1>5

\* An order that meets a floor above zero buys something, up to some breakpoint.
LEMMA FeasibleIsReached ==
    ASSUME NEW terms, terms.threshold_qty \in Nat, terms.threshold_value \in Nat,
           ~ (terms.threshold_qty = 0 /\ terms.threshold_value = 0),
           NEW fee_bps \in 0 .. BPS_DENOM, NEW kids, IsFiniteSet(kids), NEW schedule,
           \A k \in kids : schedule[k] \in Seq(SchedulePoint) /\ ValidSchedule(schedule[k]),
           NEW p \in Nat, Feasible(terms, kids, schedule, p, fee_bps)
    PROVE  \E x \in Breakpoints(kids, schedule) : x >= p
<1> SUFFICES ASSUME \A x \in Breakpoints(kids, schedule) : ~ (x >= p)
             PROVE  FALSE
  OBVIOUS
<1> DEFINE qty == [k \in kids |-> Demand(schedule[k], p)]
           net == [k \in kids |-> p * Demand(schedule[k], p)
                                     - FeeOf(p * Demand(schedule[k], p), fee_bps)]
<1>1. \A k \in kids : Demand(schedule[k], p) = 0
  <2> SUFFICES ASSUME NEW k \in kids  PROVE Demand(schedule[k], p) = 0
    OBVIOUS
  <2>1. \A i \in DOMAIN schedule[k] : schedule[k][i].unit_price \in Breakpoints(kids, schedule)
    BY DEF Breakpoints
  <2> QED  BY <2>1 DEF Demand
<1>2. p * 0 = 0 /\ FeeOf(0, fee_bps) = 0
  BY DEF FeeOf, BPS_DENOM
<1>3. \A k \in kids : qty[k] = 0 /\ net[k] = 0
  BY <1>1, <1>2
<1> HIDE DEF qty, net
<1>4. Total(qty, kids) = 0 /\ Total(net, kids) = 0
  <2>1. {} \in SUBSET kids
    OBVIOUS
  <2>2. Total(qty, kids) = Total(qty, {}) /\ Total(net, kids) = Total(net, {})
    BY <1>3, <2>1, TotalSkipsZeros
  <2> QED  BY <2>2, TotalOfNone
<1>5. TotalQty(kids, schedule, p) = 0 /\ NetValue(kids, schedule, p, fee_bps) = 0
  BY <1>4, QtyIsTotal, NetIsTotal DEF qty, net
<1> QED  BY <1>5 DEF Feasible

\* "Globally minimal" (clearing.rs): the price charged is the least of all prices at which
\* the order meets both floors, although only the interval below one breakpoint is
\* searched; and a pool does not fire only if there is no such price.
THEOREM ClearIsMinimal ==
    ASSUME NEW terms, terms.threshold_qty \in Nat, terms.threshold_value \in Nat,
           ~ (terms.threshold_qty = 0 /\ terms.threshold_value = 0),
           NEW fee_bps \in 0 .. BPS_DENOM, NEW kids, IsFiniteSet(kids), NEW schedule,
           \A k \in kids : schedule[k] \in Seq(SchedulePoint) /\ ValidSchedule(schedule[k]),
           NEW outcome, outcome = Clear(terms, kids, schedule, fee_bps)
    PROVE  LET prices == {p \in Nat \ {0} : Feasible(terms, kids, schedule, p, fee_bps)}
           IN  /\ outcome.fires <=> prices # {}
               /\ outcome.fires => outcome.clearing_price = Min(prices)
<1> DEFINE points == Breakpoints(kids, schedule)
           firing == Firing(terms, kids, schedule, fee_bps)
           prices == {p \in Nat \ {0} : Feasible(terms, kids, schedule, p, fee_bps)}
<1>1. points \subseteq 1 .. MaxUnitPrice /\ points \in SUBSET (Nat \ {0})
  BY ClearingAssumption DEF Breakpoints, ValidSchedule
<1>2. \A p \in prices : \E b \in firing : p <= b /\ \A x \in points : x < b => x < p
  <2> SUFFICES ASSUME NEW p \in prices
               PROVE  \E b \in firing : p <= b /\ \A x \in points : x < b => x < p
    OBVIOUS
  <2> DEFINE above == {x \in points : x >= p}
             b == Min(above)
  <2>1. p \in Nat /\ Feasible(terms, kids, schedule, p, fee_bps)
    OBVIOUS
  <2>2. above # {} /\ above \in SUBSET Nat
    BY <1>1, <2>1, FeasibleIsReached
  <2>3. b \in above /\ \A x \in above : b <= x
    <3> HIDE DEF above
    <3> QED  BY <2>2, MinOfNaturals
  <2>4. b \in points /\ b \in Nat /\ p <= b
    <3>1. b \in points /\ b >= p
      BY <2>3
    <3> HIDE DEF b, points
    <3> QED  BY <1>1, <2>1, <3>1
  <2>5. \A x \in points : x < b => x < p
    <3> HIDE DEF b
    <3> SUFFICES ASSUME NEW x \in points, x < b, ~ (x < p)  PROVE FALSE
      OBVIOUS
    <3>1. x \in Nat /\ x >= p
      BY <1>1, <2>1
    <3>2. x \in above
      BY <3>1
    <3> QED  BY <2>3, <2>4, <3>1, <3>2
  <2> HIDE DEF b
  <2>6. /\ TotalQty(kids, schedule, p) = TotalQty(kids, schedule, b)
        /\ NetValue(kids, schedule, p, fee_bps) \in Int
        /\ NetValue(kids, schedule, b, fee_bps) \in Int
        /\ NetValue(kids, schedule, p, fee_bps) <= NetValue(kids, schedule, b, fee_bps)
    BY <2>1, <2>4, <2>5, OrderBetween
  <2>7. b \in firing
    BY <2>1, <2>4, <2>6 DEF Feasible, Firing
  <2> QED  BY <2>4, <2>5, <2>7
<1>3. CASE firing = {}
  <2>1. outcome = NoFire
    BY <1>3 DEF Clear, Firing
  <2> QED  BY <1>2, <1>3, <2>1 DEF NoFire
<1>4. CASE firing # {}
  <2>1. PICK b \in firing, price \in 1 .. MaxUnitPrice :
           /\ price <= b
           /\ \A x \in points : x < b => x < price
           /\ NetValue(kids, schedule, price, fee_bps) >= terms.threshold_value
           /\ outcome = OutcomeAt(kids, schedule, price)
           /\ \A c \in firing : b <= c
           /\ \A p \in Nat \ {0} : /\ p <= b /\ (\A x \in points : x < b => x < p)
                                   /\ NetValue(kids, schedule, p, fee_bps) >= terms.threshold_value
                                   => price <= p
    BY <1>4, ClearingPrice
  <2>2. outcome.fires /\ outcome.clearing_price = price
    BY <2>1 DEF OutcomeAt
  <2>3. b \in points /\ b \in Nat /\ price \in Nat \ {0}
    BY <1>1, ClearingAssumption DEF Firing
  <2>4. price \in prices
    <3>1. TotalQty(kids, schedule, price) = TotalQty(kids, schedule, b)
      <4>1. /\ price \in Nat /\ b \in Nat /\ price <= b
            /\ \A x \in Breakpoints(kids, schedule) : x < b => x < price
        <5>1. price \in Nat /\ b \in Nat
          BY <2>3
        <5>2. price <= b
          BY <2>1
        <5>3. \A x \in Breakpoints(kids, schedule) : x < b => x < price
          <6>1. \A x \in points : x < b => x < price
            <7> HIDE DEF points, firing, prices
            <7> QED  BY <2>1
          <6> QED  BY <6>1
        <5> QED  BY <5>1, <5>2, <5>3
      <4>2. \A k \in kids : schedule[k] \in Seq(SchedulePoint) /\ ValidSchedule(schedule[k])
        OBVIOUS
      <4> HIDE <2>1, <2>3
      <4> QED  BY <4>1, <4>2, OrderBetween
    <3>2. TotalQty(kids, schedule, b) >= terms.threshold_qty
      BY <2>1 DEF Firing, Feasible
    <3> QED  BY <2>1, <2>3, <3>1, <3>2 DEF Feasible
  <2>5. \A p \in prices : price <= p
    <3> SUFFICES ASSUME NEW p \in prices  PROVE price <= p
      OBVIOUS
    <3>0. p \in Nat /\ NetValue(kids, schedule, p, fee_bps) >= terms.threshold_value
      BY DEF Feasible
    <3>1. PICK c \in firing : p <= c /\ \A x \in points : x < c => x < p
      BY <1>2
    <3>2. c \in points /\ c \in Nat /\ b <= c
      BY <1>1, <2>1 DEF Firing
    <3>3. CASE b = c
      BY <2>1, <3>0, <3>1, <3>3
    <3>4. CASE b # c
      <4>1. b < p
        BY <2>3, <3>1, <3>2, <3>4
      <4> QED  BY <2>1, <2>3, <3>0, <4>1
    <3> QED  BY <3>3, <3>4
  <2>6. price = Min(prices)
    <3>1. prices \in SUBSET Nat /\ prices # {}
      BY <2>4
    <3> HIDE DEF prices
    <3>2. Min(prices) \in prices /\ Min(prices) <= price
      BY <2>4, <3>1, MinOfNaturals
    <3>3. price <= Min(prices)
      BY <2>5, <3>2
    <3>4. price \in Int /\ Min(prices) \in Int
      <4>1. \A p \in prices : p \in Int
        BY <3>1
      <4> QED  BY <2>4, <3>2, <4>1
    <3> QED  BY <3>2, <3>3, <3>4
  <2>7. prices # {}
    BY <2>4
  <2> QED  BY <2>2, <2>6, <2>7
<1> QED  BY <1>3, <1>4

-----------------------------------------------------------------------------
(* The loops: what each has done so far                                    *)

\* The order of the members the loops were called with, as Clear sees it.
OrderedQty(p) == TotalQty(Chosen, CurveOf(views), p)
OrderedNet(p) == NetValue(Chosen, CurveOf(views), p, fee)
Points        == Breakpoints(Chosen, CurveOf(views))
FiringPoints  == Firing(floor, Chosen, CurveOf(views), fee)

\* The eligible views before the n-th, and no others, have been sorted in.
Gathered(n) ==
    /\ sorted \in Seq(ChildView)
    /\ \A i \in DOMAIN sorted : \E j \in Chosen : j < n /\ sorted[i] = views[j]
    /\ \A j \in Chosen : j < n => \E i \in DOMAIN sorted : sorted[i] = views[j]
    /\ \A i, j \in DOMAIN sorted : i < j => sorted[i].mandate_id < sorted[j].mandate_id

Ascending(s) == \A i, j \in DOMAIN s : i < j => s[i] < s[j]

\* The prices of the kids before `next', and those before `point' of that kid, have
\* been merged, and no others.
Collected ==
    /\ breakpoints \in Seq(Nat) /\ Ascending(breakpoints)
    /\ \A x \in DOMAIN breakpoints : breakpoints[x] \in Points
    /\ \A i \in DOMAIN sorted : \A a \in DOMAIN sorted[i].schedule :
          i < next \/ (i = next /\ a < point) =>
             \E x \in DOMAIN breakpoints : breakpoints[x] = sorted[i].schedule[a].unit_price

\* The breakpoints before the n-th do not fire.
Passed(n) ==
    /\ breakpoints \in Seq(Nat) /\ Ascending(breakpoints)
    /\ {breakpoints[x] : x \in DOMAIN breakpoints} = Points
    /\ n \in 1 .. Len(breakpoints) + 1
    /\ prev = IF n = 1 THEN 0 ELSE breakpoints[n - 1]
    /\ \A x \in 1 .. n - 1 : breakpoints[x] \notin FiringPoints

\* The least price is between lo and hi, which suffices.
Searched ==
    /\ next \in DOMAIN breakpoints
    /\ breakpoints[next] \in FiringPoints
    /\ lo \in Nat /\ hi \in Nat /\ prev < lo /\ lo <= hi /\ hi <= breakpoints[next]
    /\ OrderedNet(hi) >= floor.threshold_value
    /\ \A p \in prev + 1 .. lo - 1 : ~ (OrderedNet(p) >= floor.threshold_value)

ClearOutcomes ==
    [fires : BOOLEAN, clearing_price : Nat, allocations : Seq([mandate_id : Nat, qty : Nat]),
     total_qty : Int, gross_value : Int, total_fee : Int, net_value : Int]

Bought(p)  == [k \in DOMAIN sorted |-> Demand(sorted[k].schedule, p)]
Legs(p)    == [k \in DOMAIN sorted |-> p * Demand(sorted[k].schedule, p)]
FeesOn(p)  == [k \in DOMAIN sorted |-> FeeOf(p * Demand(sorted[k].schedule, p), fee)]
Share(k, p) == [mandate_id |-> sorted[k].mandate_id, qty |-> Demand(sorted[k].schedule, p)]

\* The kids before the n-th have been given what they ordered at the price of Clear.
Shared(n) ==
    LET p     == result.clearing_price
        given == result.allocations
    IN  /\ result \in ClearOutcomes /\ result.fires
        /\ p \in 1 .. MaxUnitPrice
        /\ Clear(floor, Chosen, CurveOf(views), fee) = OutcomeAt(Chosen, CurveOf(views), p)
        /\ \A i \in DOMAIN given : \E k \in 1 .. n - 1 : given[i] = Share(k, p) /\ given[i].qty # 0
        /\ \A k \in 1 .. n - 1 : Demand(sorted[k].schedule, p) # 0 =>
              \E i \in DOMAIN given : given[i] = Share(k, p)
        /\ \A i, j \in DOMAIN given : i < j => given[i].mandate_id < given[j].mandate_id
        /\ result.total_qty   = Total(Bought(p), 1 .. n - 1)
        /\ result.gross_value = Total(Legs(p), 1 .. n - 1)
        /\ result.total_fee   = Total(FeesOn(p), 1 .. n - 1)

Nothing == result = NoOutcome /\ FiringPoints = {}

ScanInv ==
    /\ views \in Views /\ floor \in PoolFloors /\ fee \in Fees
    /\ pc \in {"sort", "merge", "scan", "bisect", "allocate", "done"}
    /\ pc = "sort" => /\ next \in 1 .. Len(views) + 1 /\ Gathered(next)
                      /\ breakpoints = << >> /\ point = 1
    /\ pc # "sort" => Gathered(Len(views) + 1)
    /\ pc \in {"sort", "merge"} => prev = 0
    /\ pc \in {"sort", "merge", "scan", "bisect"} => result = NoOutcome
    /\ pc = "merge" => next \in 1 .. Len(sorted) + 1 /\ point \in Nat \ {0} /\ Collected
    /\ pc \in {"scan", "bisect"} => Passed(next)
    /\ pc = "bisect" => Searched
    /\ pc = "allocate" => next \in 1 .. Len(sorted) + 1 /\ Shared(next)
    /\ pc = "done" => \/ Nothing
                      \/ /\ Shared(Len(sorted) + 1)
                         /\ result.net_value = result.gross_value - result.total_fee

-----------------------------------------------------------------------------
(* Sorted sequences                                                        *)

\* InsertAt moves what stands at i and after one place up.
LEMMA InsertAtShifts ==
    ASSUME NEW S, NEW s \in Seq(S), NEW e \in S, NEW i \in 1 .. Len(s) + 1
    PROVE  LET r == InsertAt(s, i, e)
           IN  /\ r \in Seq(S) /\ Len(r) = Len(s) + 1
               /\ \A j \in 1 .. Len(s) + 1 :
                     r[j] = IF j < i THEN s[j] ELSE IF j = i THEN e ELSE s[j - 1]
<1> DEFINE n     == Len(s)
           left  == SubSeq(s, 1, i - 1)
           right == SubSeq(s, i, n)
           mid   == left \o <<e>>
           r     == mid \o right
<1>1. n \in Nat /\ i \in Nat
  BY LenProperties
<1>2. /\ left \in Seq(S) /\ Len(left) = i - 1
      /\ \A j \in 1 .. i - 1 : left[j] = s[j]
  <2>1. \A j \in 1 .. i - 1 : j \in 1 .. n
    BY <1>1
  <2>2. /\ left \in Seq(S)
        /\ Len(left) = IF 1 <= i - 1 THEN (i - 1) - 1 + 1 ELSE 0
        /\ \A j \in 1 .. (i - 1) - 1 + 1 : left[j] = s[1 + j - 1]
    BY <2>1, <1>1, SubSeqProperties
  <2>3. \A j \in 1 .. i - 1 : j \in 1 .. (i - 1) - 1 + 1 /\ 1 + j - 1 = j
    BY <1>1
  <2> HIDE DEF left
  <2> QED  BY <1>1, <2>2, <2>3
<1>3. /\ right \in Seq(S) /\ Len(right) = n - i + 1
      /\ \A j \in 1 .. n - i + 1 : right[j] = s[i + j - 1]
  <2>1. \A j \in i .. n : j \in 1 .. n
    BY <1>1
  <2>2. /\ right \in Seq(S)
        /\ Len(right) = IF i <= n THEN n - i + 1 ELSE 0
        /\ \A j \in 1 .. n - i + 1 : right[j] = s[i + j - 1]
    BY <2>1, <1>1, SubSeqProperties
  <2> HIDE DEF right
  <2> QED  BY <1>1, <2>2
<1> HIDE DEF left, right
<1>4. /\ mid \in Seq(S) /\ Len(mid) = i
      /\ \A j \in 1 .. i : mid[j] = IF j < i THEN left[j] ELSE e
  <2>1. <<e>> \in Seq(S) /\ Len(<<e>>) = 1 /\ <<e>>[1] = e
    OBVIOUS
  <2>2. /\ mid \in Seq(S) /\ Len(mid) = Len(left) + 1
        /\ \A j \in 1 .. Len(left) + 1 :
              mid[j] = IF j <= Len(left) THEN left[j] ELSE <<e>>[j - Len(left)]
    BY <1>2, <2>1, ConcatProperties
  <2>3. \A j \in 1 .. i : ~ (j < i) => j - (i - 1) = 1
    BY <1>1
  <2> HIDE DEF mid
  <2> QED  BY <1>1, <1>2, <2>1, <2>2, <2>3
<1> HIDE DEF mid
<1>5. /\ r \in Seq(S) /\ Len(r) = n + 1
      /\ \A j \in 1 .. n + 1 : r[j] = IF j <= i THEN mid[j] ELSE right[j - i]
  <2>1. /\ r \in Seq(S) /\ Len(r) = Len(mid) + Len(right)
        /\ \A j \in 1 .. Len(mid) + Len(right) :
              r[j] = IF j <= Len(mid) THEN mid[j] ELSE right[j - Len(mid)]
    BY <1>3, <1>4, ConcatProperties
  <2>2. i + (n - i + 1) = n + 1
    BY <1>1
  <2> HIDE DEF r
  <2> QED  BY <1>3, <1>4, <2>1, <2>2
<1>6. r = InsertAt(s, i, e)
  BY DEF InsertAt, mid, left, right
<1> HIDE DEF r
<1>7. \A j \in 1 .. n + 1 : r[j] = IF j < i THEN s[j] ELSE IF j = i THEN e ELSE s[j - 1]
  <2> SUFFICES ASSUME NEW j \in 1 .. n + 1
               PROVE  r[j] = IF j < i THEN s[j] ELSE IF j = i THEN e ELSE s[j - 1]
    OBVIOUS
  <2>1. CASE j < i
    <3>1. j \in 1 .. i - 1 /\ j \in 1 .. i
      BY <1>1, <2>1
    <3> QED  BY <1>2, <1>4, <1>5, <2>1, <3>1
  <2>2. CASE j = i
    <3>1. j \in 1 .. i
      BY <1>1, <2>2
    <3> QED  BY <1>4, <1>5, <2>2, <3>1
  <2>3. CASE j > i
    <3>1. j - i \in 1 .. n - i + 1 /\ i + (j - i) - 1 = j - 1
      BY <1>1, <2>3
    <3>2. r[j] = right[j - i] /\ ~ (j < i) /\ j # i
      BY <1>1, <1>5, <2>3
    <3> QED  BY <1>3, <3>1, <3>2
  <2> QED  BY <1>1, <2>1, <2>2, <2>3
<1> QED  BY <1>5, <1>6, <1>7

InOrder(key, s) == \A j, k \in DOMAIN s : j < k => key[s[j]] < key[s[k]]

\* The place i is between the elements of s that come before e and those after it.
Parts(key, s, i, e) == \A j \in DOMAIN s : IF j < i THEN key[s[j]] < key[e] ELSE key[s[j]] > key[e]

\* r holds what s holds, and e.
Holds(r, s, e) ==
    /\ \A j \in DOMAIN r : r[j] = e \/ \E k \in DOMAIN s : r[j] = s[k]
    /\ \E j \in DOMAIN r : r[j] = e
    /\ \A k \in DOMAIN s : \E j \in DOMAIN r : r[j] = s[k]

\* An element inserted before the first one with a greater key keeps a sequence sorted,
\* and the sequence keeps what it held.
LEMMA InsertKeepsOrder ==
    ASSUME NEW S, NEW key, \A x \in S : key[x] \in Int,
           NEW s \in Seq(S), NEW e \in S, NEW i \in 1 .. Len(s) + 1,
           Parts(key, s, i, e), InOrder(key, s)
    PROVE  /\ InsertAt(s, i, e) \in Seq(S)
           /\ InOrder(key, InsertAt(s, i, e))
           /\ Holds(InsertAt(s, i, e), s, e)
<1> DEFINE r == InsertAt(s, i, e)
           n == Len(s)
<1>0. /\ \A j \in DOMAIN s : IF j < i THEN key[s[j]] < key[e] ELSE key[s[j]] > key[e]
      /\ \A j, k \in DOMAIN s : j < k => key[s[j]] < key[s[k]]
  BY DEF Parts, InOrder
<1>1. n \in Nat /\ DOMAIN s = 1 .. n /\ i \in Nat /\ \A j \in 1 .. n : s[j] \in S
  BY LenProperties, ElementOfSeq
<1>2. /\ r \in Seq(S) /\ Len(r) = n + 1
      /\ \A j \in 1 .. n + 1 : r[j] = IF j < i THEN s[j] ELSE IF j = i THEN e ELSE s[j - 1]
  BY InsertAtShifts
<1> HIDE DEF r
<1>3. DOMAIN r = 1 .. n + 1
  BY <1>1, <1>2, LenProperties
<1>4. \A j \in 1 .. n + 1 : /\ j < i => j \in 1 .. n
                            /\ j > i => j - 1 \in 1 .. n /\ ~ (j - 1 < i)
  BY <1>1
<1>5. ASSUME NEW j \in 1 .. n + 1, NEW k \in 1 .. n + 1, j < k
      PROVE  key[r[j]] < key[r[k]]
  <2>1. CASE k < i
    <3>1. r[j] = s[j] /\ r[k] = s[k] /\ j \in 1 .. n /\ k \in 1 .. n
      BY <1>1, <1>2, <1>4, <1>5, <2>1
    <3> QED  BY <1>0, <1>1, <1>5, <3>1
  <2>2. CASE k = i
    <3>1. r[j] = s[j] /\ r[k] = e /\ j \in 1 .. n /\ j < i
      BY <1>1, <1>2, <1>4, <1>5, <2>2
    <3> QED  BY <1>0, <1>1, <3>1
  <2>3. CASE k > i /\ j < i
    <3>1. r[j] = s[j] /\ r[k] = s[k - 1] /\ j \in 1 .. n /\ k - 1 \in 1 .. n /\ ~ (k - 1 < i)
      BY <1>1, <1>2, <1>4, <2>3
    <3>2. key[s[j]] < key[e] /\ key[s[k - 1]] > key[e]
      BY <1>0, <1>1, <2>3, <3>1
    <3>3. key[s[j]] \in Int /\ key[s[k - 1]] \in Int /\ key[e] \in Int
      BY <1>0, <1>1, <3>1
    <3>4. \A x, y, z \in Int : x < y /\ z > y => x < z
      OBVIOUS
    <3>5. key[s[j]] < key[s[k - 1]]
      BY <3>2, <3>3, <3>4
    <3> QED  BY <3>1, <3>5
  <2>4. CASE k > i /\ j = i
    <3>1. r[j] = e /\ r[k] = s[k - 1] /\ k - 1 \in 1 .. n /\ ~ (k - 1 < i)
      BY <1>1, <1>2, <1>4, <2>4
    <3>2. key[s[k - 1]] > key[e] /\ key[s[k - 1]] \in Int /\ key[e] \in Int
      BY <1>0, <1>1, <3>1
    <3> QED  BY <3>1, <3>2
  <2>5. CASE k > i /\ j > i
    <3>1. r[j] = s[j - 1] /\ r[k] = s[k - 1] /\ j - 1 \in 1 .. n /\ k - 1 \in 1 .. n
      <4>1. ~ (j < i) /\ j # i /\ ~ (k < i) /\ k # i
        BY <1>1, <2>5
      <4> QED  BY <1>2, <1>4, <2>5, <4>1
    <3>2. j - 1 < k - 1
      BY <1>5
    <3> QED  BY <1>0, <1>1, <3>1, <3>2
  <2> QED  BY <1>1, <2>1, <2>2, <2>3, <2>4, <2>5
<1>6. ASSUME NEW j \in 1 .. n + 1, r[j] # e
      PROVE  \E k \in 1 .. n : r[j] = s[k]
  <2>1. j # i /\ (j < i \/ j > i)
    BY <1>1, <1>2, <1>6
  <2>2. CASE j < i
    <3>1. r[j] = s[j] /\ j \in 1 .. n
      BY <1>2, <1>4, <2>2
    <3> QED  BY <3>1
  <2>3. CASE j > i
    <3>1. r[j] = s[j - 1] /\ j - 1 \in 1 .. n
      BY <1>1, <1>2, <1>4, <2>3
    <3> QED  BY <3>1
  <2> QED  BY <2>1, <2>2, <2>3
<1>7. i \in 1 .. n + 1 /\ r[i] = e
  BY <1>1, <1>2
<1>8. ASSUME NEW k \in 1 .. n
      PROVE  \E j \in 1 .. n + 1 : r[j] = s[k]
  <2>1. CASE k < i
    <3>1. k \in 1 .. n + 1 /\ r[k] = s[k]
      BY <1>1, <1>2, <2>1
    <3> QED  BY <3>1
  <2>2. CASE ~ (k < i)
    <3>1. k + 1 \in 1 .. n + 1 /\ ~ (k + 1 < i) /\ k + 1 # i /\ (k + 1) - 1 = k
      BY <1>1, <2>2
    <3>2. r[k + 1] = s[k]
      BY <1>2, <3>1
    <3> QED  BY <3>1, <3>2
  <2> QED  BY <2>1, <2>2
<1>9. InOrder(key, r)
  BY <1>3, <1>5 DEF InOrder
<1>10. Holds(r, s, e)
  BY <1>1, <1>3, <1>6, <1>7, <1>8 DEF Holds
<1> QED  BY <1>2, <1>9, <1>10 DEF r

\* Where the loop that looks for the first of some indices stops.
LEMMA FirstOrStops ==
    ASSUME NEW n \in Nat, NEW I \in SUBSET (1 .. n)
    PROVE  LET i == IF I # {} THEN Min(I) ELSE 0
               f == IF i = 0 THEN n + 1 ELSE i
           IN  /\ f \in 1 .. n + 1
               /\ f # n + 1 => f \in I
               /\ \A j \in 1 .. n : j < f => j \notin I
<1>1. CASE I = {}
  BY <1>1
<1>2. CASE I # {}
  <2>1. I \in SUBSET Nat
    OBVIOUS
  <2>2. Min(I) \in I /\ \A j \in I : Min(I) <= j
    BY <1>2, <2>1, MinOfNaturals
  <2>3. PICK f \in 1 .. n : f = Min(I) /\ f \in I /\ \A j \in I : f <= j
    BY <2>2
  <2>4. \A j \in 1 .. n : j < f => j \notin I
    BY <2>3
  <2> QED  BY <1>2, <2>3, <2>4
<1> QED  BY <1>1, <1>2

\* KidPosition is the place before the first kid with a greater id.
LEMMA KidPositionStops ==
    ASSUME sorted \in Seq(ChildView), NEW view
    PROVE  LET i == KidPosition(view)
           IN  /\ i \in 1 .. Len(sorted) + 1
               /\ i # Len(sorted) + 1 => sorted[i].mandate_id > view.mandate_id
               /\ \A j \in 1 .. Len(sorted) : j < i => ~ (sorted[j].mandate_id > view.mandate_id)
<1> DEFINE later == {i \in 1 .. Len(sorted) : sorted[i].mandate_id > view.mandate_id}
           first == IF later # {} THEN Min(later) ELSE 0
<1>1. Len(sorted) \in Nat /\ later \in SUBSET (1 .. Len(sorted))
  BY LenProperties
<1>2. KidPosition(view) = IF first = 0 THEN Len(sorted) + 1 ELSE first
  BY DEF KidPosition, FirstOr, SelectInSeq
<1> HIDE DEF first
<1>3. LET f == IF first = 0 THEN Len(sorted) + 1 ELSE first
      IN  /\ f \in 1 .. Len(sorted) + 1
          /\ f # Len(sorted) + 1 => f \in later
          /\ \A j \in 1 .. Len(sorted) : j < f => j \notin later
  <2> HIDE DEF later
  <2> QED  BY <1>1, FirstOrStops DEF first
<1> QED  BY <1>2, <1>3

\* A price is merged in once, and the prices stay in ascending order.
LEMMA InsertPointKeeps ==
    ASSUME NEW points \in Seq(Nat), Ascending(points), NEW p \in Nat
    PROVE  LET merged == InsertPoint(points, p)
           IN  /\ merged \in Seq(Nat) /\ Ascending(merged)
               /\ Holds(merged, points, p)
<1> DEFINE merged == InsertPoint(points, p)
           higher == {i \in 1 .. Len(points) : points[i] > p}
           first  == IF higher # {} THEN Min(higher) ELSE 0
           i      == IF first = 0 THEN Len(points) + 1 ELSE first
           key    == [x \in Nat |-> x]
<1>1. /\ Len(points) \in Nat /\ DOMAIN points = 1 .. Len(points)
      /\ \A j \in 1 .. Len(points) : points[j] \in Nat
      /\ higher \in SUBSET (1 .. Len(points))
  BY LenProperties, ElementOfSeq
<1>2. CASE Contains(points, p)
  <2>1. merged = points
    BY <1>2 DEF InsertPoint
  <2>2. \E x \in DOMAIN points : points[x] = p
    BY <1>1, <1>2 DEF Contains
  <2> HIDE DEF merged
  <2> QED  BY <2>1, <2>2 DEF merged, Holds
<1>3. CASE ~ Contains(points, p)
  <2>1. merged = InsertAt(points, i, p)
    BY <1>3 DEF InsertPoint, FirstOr, SelectInSeq
  <2>2. /\ i \in 1 .. Len(points) + 1
        /\ i # Len(points) + 1 => i \in higher
        /\ \A j \in 1 .. Len(points) : j < i => j \notin higher
    <3> HIDE DEF higher
    <3> QED  BY <1>1, FirstOrStops
  <2> HIDE DEF i, higher
  <2>3. \A j \in 1 .. Len(points) : points[j] # p
    BY <1>3 DEF Contains
  <2>4. \A j \in DOMAIN points : IF j < i THEN points[j] < p ELSE points[j] > p
    <3> SUFFICES ASSUME NEW j \in 1 .. Len(points)
                 PROVE  IF j < i THEN points[j] < p ELSE points[j] > p
      BY <1>1
    <3>1. CASE j < i
      BY <1>1, <2>2, <2>3, <3>1 DEF higher
    <3>2. CASE j = i
      BY <1>1, <2>2, <3>2 DEF higher
    <3>3. CASE j > i
      <4>0. i \in 1 .. Len(points) /\ i # Len(points) + 1
        BY <1>1, <2>2, <3>3
      <4>1. i \in 1 .. Len(points) /\ points[i] > p
        BY <2>2, <4>0 DEF higher
      <4>2. points[i] < points[j]
        BY <1>1, <3>3, <4>1 DEF Ascending
      <4>3. points[i] \in Nat /\ points[j] \in Nat
        BY <1>1, <4>1
      <4>4. \A x, y, z \in Nat : x > z /\ x < y => y > z
        OBVIOUS
      <4>5. points[j] > p
        BY <4>1, <4>2, <4>3, <4>4
      <4> QED  BY <1>1, <2>2, <3>3, <4>5
    <3> QED  BY <1>1, <2>2, <3>1, <3>2, <3>3
  <2>5. \A x \in Nat : key[x] = x
    OBVIOUS
  <2> HIDE DEF key, merged
  <2>6. (\A x \in Nat : key[x] \in Int) /\ Parts(key, points, i, p) /\ InOrder(key, points)
    <3>1. \A j \in DOMAIN points : key[points[j]] = points[j]
      BY <1>1, <2>5
    <3> QED  BY <1>1, <2>4, <2>5, <3>1 DEF Ascending, Parts, InOrder
  <2>7. /\ InsertAt(points, i, p) \in Seq(Nat)
        /\ InOrder(key, InsertAt(points, i, p))
        /\ Holds(InsertAt(points, i, p), points, p)
    BY <2>2, <2>6, InsertKeepsOrder
  <2>8. \A j \in DOMAIN merged : merged[j] \in Nat /\ key[merged[j]] = merged[j]
    BY <2>1, <2>5, <2>7, LenProperties, ElementOfSeq
  <2>9. Ascending(merged)
    BY <2>1, <2>7, <2>8 DEF Ascending, InOrder
  <2> QED  BY <2>1, <2>7, <2>9 DEF merged
<1> QED  BY <1>2, <1>3

\* place lists T: it gives every element of T one place in S, and no place twice.
Lists(place, S, T) ==
    /\ place \in [S -> T]
    /\ \A x, y \in S : place[x] = place[y] => x = y
    /\ \A t \in T : \E x \in S : place[x] = t

\* A total may be taken over any list of its terms, in whatever order they are listed.
LEMMA TotalMoves ==
    ASSUME NEW S, IsFiniteSet(S), NEW T, NEW place, Lists(place, S, T),
           NEW f, NEW g, \A x \in S : f[x] \in Int /\ g[place[x]] = f[x]
    PROVE  Total(g, T) = Total(f, S)
<1> DEFINE image(s) == {place[x] : x \in s}
           Bad == {s \in SUBSET S : Total(g, image(s)) # Total(f, s)}
<1> USE DEF Lists
<1>0. image(S) = T
  OBVIOUS
<1> SUFFICES ASSUME Bad # {}  PROVE FALSE
  <2> HIDE DEF image
  <2> QED  BY <1>0 DEF Bad
<1>1. PICK s \in Bad : IsFiniteSet(s) /\ \A r \in Bad : r \subseteq s => r = s
  <2>1. Bad \subseteq SUBSET S
    OBVIOUS
  <2> HIDE DEF Bad
  <2> QED  BY <2>1, SmallestSubset
<1>2. s # {}
  <2>1. image({}) = {}
    OBVIOUS
  <2>2. Total(g, image({})) = Total(f, {})
    BY <2>1, TotalOfNone
  <2> HIDE DEF image
  <2> QED  BY <1>1, <2>2
<1>3. PICK c \in s : TRUE
  BY <1>2
<1>4. Total(f, s) = f[c] + Total(f, s \ {c})
  <2>1. \A x \in s : f[x] \in Int
    BY <1>1
  <2> QED  BY <1>1, <1>3, <2>1, TotalSplits
<1>5. Total(g, image(s)) = g[place[c]] + Total(g, image(s) \ {place[c]})
  <2>1. IsFiniteSet(image(s))
    <3> DEFINE onto == [x \in s |-> place[x]]
    <3>1. onto \in Surjection(s, image(s))
      BY DEF Surjection
    <3> HIDE DEF onto, image
    <3> QED  BY <1>1, <3>1, FS_Surjection
  <2>2. (\A t \in image(s) : g[t] \in Int) /\ place[c] \in image(s)
    BY <1>1, <1>3
  <2> HIDE DEF image
  <2> QED  BY <2>1, <2>2, TotalSplits
<1>6. image(s \ {c}) = image(s) \ {place[c]}
  BY <1>1, <1>3
<1>7. Total(g, image(s \ {c})) = Total(f, s \ {c})
  <2> HIDE DEF image
  <2> QED  BY <1>1, <1>3
<1>8. g[place[c]] = f[c] /\ Total(g, image(s)) # Total(f, s)
  BY <1>1, <1>3
<1> HIDE DEF image
<1> QED
  BY <1>4, <1>5, <1>6, <1>7, <1>8

-----------------------------------------------------------------------------
(* The kids are the eligible members                                       *)

\* The members the loops are called with.
LEMMA ViewsAreValid ==
    ASSUME views \in Views
    PROVE  /\ Len(views) \in Nat /\ DOMAIN views = 1 .. Len(views)
           /\ IsFiniteSet(Chosen) /\ Chosen \subseteq 1 .. Len(views)
           /\ \A j \in DOMAIN views : /\ views[j] \in ChildView
                                      /\ views[j].schedule \in Seq(SchedulePoint)
                                      /\ ValidSchedule(views[j].schedule)
                                      /\ CurveOf(views)[j] = views[j].schedule
           /\ \A i, j \in DOMAIN views : views[i].mandate_id = views[j].mandate_id => i = j
<1>1. /\ views \in Seq(ChildView)
      /\ \A i \in DOMAIN views : ValidSchedule(views[i].schedule)
      /\ \A i, j \in DOMAIN views : views[i].mandate_id = views[j].mandate_id => i = j
  BY ScanAssumption
<1>2. Len(views) \in Nat /\ DOMAIN views = 1 .. Len(views)
  BY <1>1, LenProperties
<1>3. \A j \in DOMAIN views : views[j] \in ChildView
  BY <1>1, <1>2, ElementOfSeq
<1>4. \A j \in DOMAIN views : views[j].schedule \in Seq(SchedulePoint)
  BY <1>3 DEF ChildView
<1>5. Chosen \in SUBSET (1 .. Len(views)) /\ IsFiniteSet(1 .. Len(views))
  BY <1>2, FS_Interval DEF Chosen
<1>6. IsFiniteSet(Chosen)
  BY <1>5, FS_Subset
<1>7. \A j \in DOMAIN views : CurveOf(views)[j] = views[j].schedule
  BY DEF CurveOf
<1> QED  BY <1>1, <1>2, <1>3, <1>4, <1>5, <1>6, <1>7

\* Sorted, each kid stands for one eligible member, and each eligible member is a kid.
LEMMA KidsArePlaced ==
    ASSUME views \in Views, Gathered(Len(views) + 1)
    PROVE  /\ Len(sorted) \in Nat /\ DOMAIN sorted = 1 .. Len(sorted) /\ IsFiniteSet(DOMAIN sorted)
           /\ \E place \in [DOMAIN sorted -> Chosen] :
                 /\ \A i \in DOMAIN sorted : sorted[i] = views[place[i]]
                 /\ \A i, j \in DOMAIN sorted : place[i] = place[j] => i = j
                 /\ \A k \in Chosen : \E i \in DOMAIN sorted : place[i] = k
<1>1. sorted \in Seq(ChildView)
  BY DEF Gathered
<1>2. Len(sorted) \in Nat /\ DOMAIN sorted = 1 .. Len(sorted) /\ IsFiniteSet(DOMAIN sorted)
  BY <1>1, LenProperties, FS_Interval
<1>3. \A i \in DOMAIN sorted : sorted[i].mandate_id \in Nat
  <2>1. \A i \in DOMAIN sorted : sorted[i] \in ChildView
    BY <1>1, <1>2, ElementOfSeq
  <2> QED  BY <2>1 DEF ChildView
<1>4. /\ \A i \in DOMAIN sorted : \E j \in Chosen : sorted[i] = views[j]
      /\ \A j \in Chosen : \E i \in DOMAIN sorted : sorted[i] = views[j]
  <2>1. \A j \in Chosen : j < Len(views) + 1
    BY ViewsAreValid
  <2> QED  BY <2>1 DEF Gathered
<1> DEFINE place == [i \in DOMAIN sorted |-> CHOOSE j \in Chosen : sorted[i] = views[j]]
<1>5. /\ place \in [DOMAIN sorted -> Chosen]
      /\ \A i \in DOMAIN sorted : sorted[i] = views[place[i]]
  BY <1>4
<1> HIDE DEF place
<1>6. ASSUME NEW i \in DOMAIN sorted, NEW j \in DOMAIN sorted, place[i] = place[j]
      PROVE  i = j
  <2>1. sorted[i] = sorted[j]
    BY <1>5, <1>6
  <2>2. sorted[i].mandate_id = sorted[j].mandate_id /\ sorted[i].mandate_id \in Nat
    BY <1>3, <2>1
  <2>3. ~ (i < j) /\ ~ (j < i)
    BY <1>3, <2>2 DEF Gathered
  <2> QED  BY <1>2, <2>3
<1>7. ASSUME NEW k \in Chosen
      PROVE  \E i \in DOMAIN sorted : place[i] = k
  <2>1. PICK i \in DOMAIN sorted : sorted[i] = views[k]
    BY <1>4
  <2>2. views[place[i]].mandate_id = views[k].mandate_id /\ place[i] \in Chosen
    BY <1>5, <2>1
  <2>3. place[i] = k
    BY <2>2, ViewsAreValid DEF Chosen
  <2> QED  BY <2>3
<1> QED  BY <1>2, <1>5, <1>6, <1>7

\* The curves of the kids are valid, and their prices are those of the members.
LEMMA KidsAreValid ==
    ASSUME views \in Views, Gathered(Len(views) + 1)
    PROVE  /\ \A i \in DOMAIN sorted : /\ sorted[i].schedule \in Seq(SchedulePoint)
                                       /\ ValidSchedule(sorted[i].schedule)
                                       /\ CurveOf(sorted)[i] = sorted[i].schedule
           /\ Points = UNION {{sorted[i].schedule[a].unit_price : a \in DOMAIN sorted[i].schedule} :
                                 i \in DOMAIN sorted}
<1>1. PICK place \in [DOMAIN sorted -> Chosen] :
         /\ \A i \in DOMAIN sorted : sorted[i] = views[place[i]]
         /\ \A k \in Chosen : \E i \in DOMAIN sorted : place[i] = k
  BY KidsArePlaced
<1>2. \A i \in DOMAIN sorted : /\ sorted[i].schedule \in Seq(SchedulePoint)
                               /\ ValidSchedule(sorted[i].schedule)
  <2>1. \A k \in Chosen : views[k].schedule \in Seq(SchedulePoint) /\ ValidSchedule(views[k].schedule)
    BY ViewsAreValid DEF Chosen
  <2> QED  BY <1>1, <2>1
<1>3. \A i \in DOMAIN sorted : CurveOf(sorted)[i] = sorted[i].schedule
  BY DEF CurveOf
<1> DEFINE prices(s) == {s[a].unit_price : a \in DOMAIN s}
<1>4. Points = UNION {prices(views[k].schedule) : k \in Chosen}
  <2>1. \A k \in Chosen : CurveOf(views)[k] = views[k].schedule
    BY ViewsAreValid DEF Chosen
  <2>2. Points = UNION {prices(CurveOf(views)[k]) : k \in Chosen}
    BY DEF Points, Breakpoints
  <2> HIDE DEF prices
  <2> QED  BY <2>1, <2>2
<1>5. UNION {prices(views[k].schedule) : k \in Chosen}
         = UNION {prices(sorted[i].schedule) : i \in DOMAIN sorted}
  <2> HIDE DEF prices
  <2>1. \A k \in Chosen : \E i \in DOMAIN sorted : views[k].schedule = sorted[i].schedule
    BY <1>1
  <2>2. \A i \in DOMAIN sorted : \E k \in Chosen : views[k].schedule = sorted[i].schedule
    BY <1>1
  <2> QED  BY <2>1, <2>2
<1> QED  BY <1>2, <1>3, <1>4, <1>5

\* What the kids order is what the members order, in whatever order they joined.
LEMMA SameOrder ==
    ASSUME views \in Views, Gathered(Len(views) + 1), NEW p \in Nat, NEW bps \in Nat
    PROVE  /\ TotalQty(DOMAIN sorted, CurveOf(sorted), p) = TotalQty(Chosen, CurveOf(views), p)
           /\ NetValue(DOMAIN sorted, CurveOf(sorted), p, bps)
                 = NetValue(Chosen, CurveOf(views), p, bps)
<1>1. PICK place \in [DOMAIN sorted -> Chosen] :
         /\ \A i \in DOMAIN sorted : sorted[i] = views[place[i]]
         /\ \A i, j \in DOMAIN sorted : place[i] = place[j] => i = j
         /\ \A k \in Chosen : \E i \in DOMAIN sorted : place[i] = k
  BY KidsArePlaced
<1>2. IsFiniteSet(DOMAIN sorted) /\ IsFiniteSet(Chosen)
  BY KidsArePlaced, ViewsAreValid
<1>3. ASSUME NEW i \in DOMAIN sorted
      PROVE  /\ CurveOf(sorted)[i] = CurveOf(views)[place[i]]
             /\ Demand(CurveOf(sorted)[i], p) \in Nat
  <2>1. CurveOf(sorted)[i] = sorted[i].schedule /\ sorted[i].schedule \in Seq(SchedulePoint)
    BY KidsAreValid
  <2>2. CurveOf(views)[place[i]] = views[place[i]].schedule
    BY ViewsAreValid DEF Chosen
  <2>3. p \in Int
    OBVIOUS
  <2>4. Demand(CurveOf(sorted)[i], p) \in Nat
    BY <2>1, <2>3, DemandType
  <2> QED  BY <1>1, <2>1, <2>2, <2>4
<1> DEFINE net(s)  == p * Demand(s, p) - FeeOf(p * Demand(s, p), bps)
           kids    == DOMAIN sorted
           qtys    == [k \in Chosen |-> Demand(CurveOf(views)[k], p)]
           kidQtys == [k \in kids |-> Demand(CurveOf(sorted)[k], p)]
           nets    == [k \in Chosen |-> net(CurveOf(views)[k])]
           kidNets == [k \in kids |-> net(CurveOf(sorted)[k])]
<1>4. \A i \in kids : net(CurveOf(sorted)[i]) \in Int
  <2> SUFFICES ASSUME NEW i \in kids  PROVE net(CurveOf(sorted)[i]) \in Int
    OBVIOUS
  <2>1. PICK q \in Nat : q = Demand(CurveOf(sorted)[i], p)
    BY <1>3
  <2>2. p * q - FeeOf(p * q, bps) \in Int
    BY DEF FeeOf, BPS_DENOM
  <2> QED  BY <2>1, <2>2
<1>5. /\ TotalQty(kids, CurveOf(sorted), p) = Total(kidQtys, kids)
      /\ TotalQty(Chosen, CurveOf(views), p) = Total(qtys, Chosen)
  BY <1>2, QtyIsTotal
<1>6. /\ NetValue(kids, CurveOf(sorted), p, bps) = Total(kidNets, kids)
      /\ NetValue(Chosen, CurveOf(views), p, bps) = Total(nets, Chosen)
  BY <1>2, NetIsTotal
<1>7. \A i \in kids : kidQtys[i] \in Int /\ qtys[place[i]] = kidQtys[i]
  BY <1>3
<1>8. \A i \in kids : kidNets[i] \in Int /\ nets[place[i]] = kidNets[i]
  <2> HIDE DEF net
  <2> QED  BY <1>3, <1>4
<1> HIDE DEF net, qtys, kidQtys, nets, kidNets, kids
<1>9. Lists(place, kids, Chosen) /\ IsFiniteSet(kids)
  BY <1>1, <1>2 DEF kids, Lists
<1>10. Total(qtys, Chosen) = Total(kidQtys, kids)
  BY <1>7, <1>9, TotalMoves
<1>11. Total(nets, Chosen) = Total(kidNets, kids)
  BY <1>8, <1>9, TotalMoves
<1> QED  BY <1>5, <1>6, <1>10, <1>11 DEF kids

-----------------------------------------------------------------------------
(* Each turn of a loop keeps ScanInv                                       *)

\* The arguments of the call do not change, nor does what is said of them alone.
LEMMA ArgumentsStay ==
    ASSUME UNCHANGED arguments
    PROVE  /\ views' = views /\ floor' = floor /\ fee' = fee
           /\ Chosen' = Chosen /\ Points' = Points /\ FiringPoints' = FiringPoints
           /\ \A p : OrderedQty(p)' = OrderedQty(p) /\ OrderedNet(p)' = OrderedNet(p)
BY DEF arguments, Chosen, Points, FiringPoints, OrderedQty, OrderedNet

\* What a loop after the sort leaves alone.
LEMMA GatheredStays ==
    ASSUME UNCHANGED views, UNCHANGED sorted
    PROVE  \A n : Gathered(n)' = Gathered(n)
BY DEF Gathered, Chosen

\* What the search and the allocation leave alone.
LEMMA PassedStays ==
    ASSUME UNCHANGED arguments, UNCHANGED breakpoints, UNCHANGED prev
    PROVE  \A n : Passed(n)' = Passed(n)
<1>1. Points' = Points /\ FiringPoints' = FiringPoints
  BY ArgumentsStay
<1> QED  BY <1>1 DEF Passed

\* Before the first turn.
LEMMA InitHolds ==
    ASSUME ScanInit
    PROVE  ScanInv
<1>1. views \in Views /\ Len(views) \in Nat /\ Chosen \subseteq 1 .. Len(views)
  BY ViewsAreValid DEF ScanInit
<1>2. Gathered(1)
  <2>1. sorted = << >> /\ sorted \in Seq(ChildView) /\ DOMAIN sorted = {}
    BY DEF ScanInit
  <2>2. \A j \in Chosen : ~ (j < 1)
    BY <1>1
  <2> QED  BY <2>1, <2>2 DEF Gathered
<1> QED  BY <1>1, <1>2 DEF ScanInit, ScanInv

\* An eligible view goes to its place among the kids.
LEMMA SortKidsKeeps ==
    ASSUME ScanInv, SortKids
    PROVE  ScanInv'
<1> DEFINE view == views[next]
           key  == [x \in ChildView |-> x.mandate_id]
           i    == KidPosition(view)
<1>1. /\ pc = "sort" /\ next \in 1 .. Len(views) /\ next \in Nat /\ Gathered(next)
      /\ views \in Views /\ Len(views) \in Nat
  BY ViewsAreValid DEF ScanInv, SortKids
<1>2. /\ \A j \in DOMAIN views : views[j] \in ChildView
      /\ \A j, k \in DOMAIN views : views[j].mandate_id = views[k].mandate_id => j = k
      /\ next \in DOMAIN views
      /\ Chosen \subseteq DOMAIN views /\ DOMAIN views \subseteq Nat
  BY <1>1, ViewsAreValid
<1>3. /\ sorted \in Seq(ChildView)
      /\ \A j \in DOMAIN sorted : \E k \in Chosen : k < next /\ sorted[j] = views[k]
      /\ \A k \in Chosen : k < next => \E j \in DOMAIN sorted : sorted[j] = views[k]
      /\ \A j, k \in DOMAIN sorted : j < k => sorted[j].mandate_id < sorted[k].mandate_id
  BY <1>1 DEF Gathered
<1>4. Len(sorted) \in Nat /\ DOMAIN sorted = 1 .. Len(sorted)
  BY <1>3, LenProperties
<1>5. \A j \in DOMAIN sorted : sorted[j] \in ChildView /\ sorted[j].mandate_id \in Nat
  <2>1. \A j \in DOMAIN sorted : sorted[j] \in ChildView
    BY <1>3, <1>4, ElementOfSeq
  <2> QED  BY <2>1 DEF ChildView
<1>6. UNCHANGED arguments /\ Chosen' = Chosen /\ views' = views
  BY ArgumentsStay DEF SortKids
<1>7. next' = next + 1 /\ next' \in 1 .. Len(views) + 1
  BY <1>1 DEF SortKids
<1>8. Gathered(next)'
  <2>1. CASE view.eligible
    <3>1. next \in Chosen /\ view \in ChildView /\ view.mandate_id \in Nat
      BY <1>2, <2>1 DEF Chosen, ChildView
    <3>2. /\ i \in 1 .. Len(sorted) + 1
          /\ i # Len(sorted) + 1 => sorted[i].mandate_id > view.mandate_id
          /\ \A j \in 1 .. Len(sorted) : j < i => ~ (sorted[j].mandate_id > view.mandate_id)
      BY <1>3, KidPositionStops
    <3>3. sorted' = InsertAt(sorted, i, view)
      BY <2>1 DEF SortKids
    <3>4. \A j \in DOMAIN sorted : sorted[j].mandate_id # view.mandate_id
      <4> SUFFICES ASSUME NEW j \in DOMAIN sorted, sorted[j].mandate_id = view.mandate_id
                   PROVE  FALSE
        OBVIOUS
      <4>1. PICK k \in Chosen : k < next /\ sorted[j] = views[k]
        BY <1>3
      <4>2. views[k].mandate_id = views[next].mandate_id
        BY <4>1
      <4>3. k = next
        BY <1>2, <4>2
      <4> QED  BY <1>1, <4>1, <4>3
    <3> HIDE DEF i, view
    <3>5. \A j \in DOMAIN sorted : IF j < i THEN sorted[j].mandate_id < view.mandate_id
                                            ELSE sorted[j].mandate_id > view.mandate_id
      <4> SUFFICES ASSUME NEW j \in 1 .. Len(sorted)
                   PROVE  IF j < i THEN sorted[j].mandate_id < view.mandate_id
                                   ELSE sorted[j].mandate_id > view.mandate_id
        BY <1>4
      <4>1. sorted[j].mandate_id \in Nat /\ sorted[j].mandate_id # view.mandate_id
        BY <1>4, <1>5, <3>4
      <4>2. CASE j < i
        <5>1. ~ (sorted[j].mandate_id > view.mandate_id)
          BY <3>2, <4>2
        <5> QED  BY <3>1, <4>1, <4>2, <5>1
      <4>3. CASE ~ (j < i)
        <5>1. i \in 1 .. Len(sorted) /\ i # Len(sorted) + 1
          BY <1>4, <3>2, <4>3
        <5>2. sorted[i].mandate_id > view.mandate_id /\ sorted[i].mandate_id \in Nat
          BY <1>4, <1>5, <3>2, <5>1
        <5>3. j = i \/ sorted[i].mandate_id < sorted[j].mandate_id
          BY <1>3, <1>4, <4>3, <5>1
        <5>4. \A x, y, z \in Nat : x > z /\ x < y => y > z
          OBVIOUS
        <5>5. sorted[j].mandate_id > view.mandate_id
          BY <3>1, <4>1, <5>2, <5>3, <5>4
        <5> QED  BY <4>3, <5>5
      <4> QED  BY <4>2, <4>3
    <3>6. \A x \in ChildView : key[x] = x.mandate_id /\ key[x] \in Int
      BY DEF ChildView
    <3> HIDE DEF key
    <3>7. Parts(key, sorted, i, view) /\ InOrder(key, sorted)
      BY <1>3, <1>5, <3>1, <3>5, <3>6 DEF Parts, InOrder
    <3>8. /\ sorted' \in Seq(ChildView)
          /\ InOrder(key, sorted')
          /\ Holds(sorted', sorted, view)
      BY <1>3, <3>1, <3>2, <3>3, <3>6, <3>7, InsertKeepsOrder
    <3>9. \A j \in DOMAIN sorted' : key[sorted'[j]] = sorted'[j].mandate_id
      BY <3>6, <3>8, LenProperties, ElementOfSeq
    <3>10. \A j, k \in DOMAIN sorted' : j < k => sorted'[j].mandate_id < sorted'[k].mandate_id
      BY <3>8, <3>9 DEF InOrder
    <3>11. \A j \in DOMAIN sorted' : \E k \in Chosen : k < next + 1 /\ sorted'[j] = views[k]
      <4> SUFFICES ASSUME NEW j \in DOMAIN sorted'
                   PROVE  \E k \in Chosen : k < next + 1 /\ sorted'[j] = views[k]
        OBVIOUS
      <4>1. CASE sorted'[j] = view
        BY <1>1, <3>1, <4>1 DEF view
      <4>2. CASE \E k \in DOMAIN sorted : sorted'[j] = sorted[k]
        <5>1. PICK k \in Chosen : k < next /\ sorted'[j] = views[k]
          BY <1>3, <4>2
        <5>2. k < next + 1
          BY <1>1, <1>2, <5>1
        <5> QED  BY <5>1, <5>2
      <4> QED  BY <3>8, <4>1, <4>2 DEF Holds
    <3>12. \A k \in Chosen : k < next + 1 => \E j \in DOMAIN sorted' : sorted'[j] = views[k]
      <4> SUFFICES ASSUME NEW k \in Chosen, k < next + 1
                   PROVE  \E j \in DOMAIN sorted' : sorted'[j] = views[k]
        OBVIOUS
      <4>1. k = next \/ k < next
        BY <1>1, <1>2
      <4>2. CASE k = next
        BY <3>8, <4>2 DEF Holds, view
      <4>3. CASE k < next
        <5>1. PICK j \in DOMAIN sorted : sorted[j] = views[k]
          BY <1>3, <4>3
        <5> QED  BY <3>8, <5>1 DEF Holds
      <4> QED  BY <4>1, <4>2, <4>3
    <3> QED  BY <1>6, <1>7, <3>8, <3>10, <3>11, <3>12 DEF Gathered
  <2>2. CASE ~ view.eligible
    <3>1. sorted' = sorted /\ next \notin Chosen
      BY <2>2 DEF SortKids, Chosen
    <3>2. \A k \in Chosen : k < next + 1 <=> k < next
      BY <1>1, <1>2, <3>1
    <3> QED  BY <1>3, <1>6, <1>7, <3>1, <3>2 DEF Gathered
  <2> QED  BY <2>1, <2>2
<1> QED  BY <1>1, <1>6, <1>7, <1>8 DEF ScanInv, SortKids, arguments, search

\* The last view has been sorted in.
LEMMA SortedKeeps ==
    ASSUME ScanInv, Sorted
    PROVE  ScanInv'
<1>1. /\ pc = "sort" /\ next \in 1 .. Len(views) + 1 /\ next > Len(views) /\ Gathered(next)
      /\ views \in Views /\ Len(views) \in Nat /\ breakpoints = << >> /\ point = 1
      /\ result = NoOutcome /\ prev = 0
  BY ViewsAreValid DEF ScanInv, Sorted
<1>2. next = Len(views) + 1
  BY <1>1
<1>3. Gathered(Len(views) + 1)
  BY <1>1, <1>2
<1>4. /\ UNCHANGED arguments /\ views' = views /\ sorted' = sorted /\ breakpoints' = << >>
      /\ point' = 1 /\ result' = NoOutcome /\ prev' = 0 /\ next' = 1
      /\ Points' = Points /\ FiringPoints' = FiringPoints
  BY <1>1, ArgumentsStay DEF Sorted, search
<1>5. Gathered(Len(views) + 1)'
  BY <1>3, <1>4, GatheredStays
<1>6. CASE sorted = << >>
  <2>1. Points = {}
    <3>1. DOMAIN sorted = {}
      BY <1>6
    <3> QED  BY <1>1, <1>3, <3>1, KidsAreValid
  <2>2. FiringPoints = {}
    BY <2>1 DEF FiringPoints, Firing, Points
  <2>3. pc' = "done" /\ Nothing'
    BY <1>4, <1>6, <2>2 DEF Nothing, Sorted
  <2> QED  BY <1>1, <1>4, <1>5, <2>3, ArgumentsStay DEF ScanInv
<1>7. CASE sorted # << >>
  <2>1. pc' = "merge"
    BY <1>7 DEF Sorted
  <2>2. Collected'
    <3>1. << >> \in Seq(Nat) /\ DOMAIN << >> = {}
      OBVIOUS
    <3>2. Len(sorted) \in Nat /\ DOMAIN sorted = 1 .. Len(sorted)
      BY <1>1, <1>3, KidsArePlaced
    <3>3. \A i \in DOMAIN sorted : \A a \in DOMAIN sorted[i].schedule : ~ (i < 1 \/ (i = 1 /\ a < 1))
      <4> SUFFICES ASSUME NEW i \in DOMAIN sorted, NEW a \in DOMAIN sorted[i].schedule
                   PROVE  ~ (i < 1) /\ ~ (a < 1)
        OBVIOUS
      <4>1. sorted[i].schedule \in Seq(SchedulePoint)
        BY <1>1, <1>3, KidsAreValid
      <4>2. DOMAIN sorted[i].schedule = 1 .. Len(sorted[i].schedule) /\ Len(sorted[i].schedule) \in Nat
        BY <4>1, LenProperties
      <4> QED  BY <3>2, <4>2
    <3> QED  BY <1>4, <3>1, <3>3 DEF Collected, Ascending
  <2>3. next' \in 1 .. Len(sorted') + 1
    <3>1. Len(sorted) \in Nat
      BY <1>1, <1>3, KidsArePlaced
    <3> QED  BY <1>4, <3>1
  <2> QED  BY <1>1, <1>4, <1>5, <2>1, <2>2, <2>3, ArgumentsStay DEF ScanInv
<1> QED  BY <1>6, <1>7

\* One more price has been merged in.
LEMMA MergePointKeeps ==
    ASSUME ScanInv, MergePoint
    PROVE  ScanInv'
<1> DEFINE kid   == sorted[next]
           price == kid.schedule[point].unit_price
<1>1. /\ pc = "merge" /\ next \in 1 .. Len(sorted) + 1 /\ next <= Len(sorted)
      /\ point \in Nat \ {0} /\ point <= Len(kid.schedule)
      /\ views \in Views /\ Gathered(Len(views) + 1) /\ Collected
  BY DEF ScanInv, MergePoint
<1>2. Len(sorted) \in Nat /\ DOMAIN sorted = 1 .. Len(sorted) /\ next \in DOMAIN sorted
  <2>1. Len(sorted) \in Nat /\ DOMAIN sorted = 1 .. Len(sorted)
    BY <1>1, KidsArePlaced
  <2> QED  BY <1>1, <2>1
<1>3. /\ UNCHANGED arguments /\ views' = views /\ sorted' = sorted /\ next' = next /\ pc' = pc
      /\ point' = point + 1 /\ result' = result /\ prev' = prev
      /\ Points' = Points /\ breakpoints' = InsertPoint(breakpoints, price)
  BY ArgumentsStay DEF MergePoint, search
<1>4. point \in DOMAIN kid.schedule /\ price \in Points /\ price \in Nat
  <2>1. kid.schedule \in Seq(SchedulePoint) /\ ValidSchedule(kid.schedule)
    BY <1>1, <1>2, KidsAreValid
  <2>2. point \in DOMAIN kid.schedule
    <3>1. Len(kid.schedule) \in Nat /\ DOMAIN kid.schedule = 1 .. Len(kid.schedule)
      BY <2>1, LenProperties
    <3> QED  BY <1>1, <3>1
  <2>3. price \in 1 .. MaxUnitPrice
    BY <2>1, <2>2 DEF ValidSchedule
  <2>4. price \in Points
    BY <1>1, <1>2, <2>2, KidsAreValid
  <2> QED  BY <2>2, <2>3, <2>4, ClearingAssumption
<1> HIDE DEF price
<1>5. /\ breakpoints' \in Seq(Nat) /\ Ascending(breakpoints')
      /\ Holds(breakpoints', breakpoints, price)
  BY <1>1, <1>3, <1>4, InsertPointKeeps DEF Collected
<1>6. \A x \in DOMAIN breakpoints' : breakpoints'[x] \in Points
  BY <1>1, <1>4, <1>5 DEF Collected, Holds
<1>7. ASSUME NEW i \in DOMAIN sorted, NEW a \in DOMAIN sorted[i].schedule,
             i < next \/ (i = next /\ a < point + 1)
      PROVE  \E x \in DOMAIN breakpoints' : breakpoints'[x] = sorted[i].schedule[a].unit_price
  <2>1. a \in Nat
    <3>1. sorted[i].schedule \in Seq(SchedulePoint)
      BY <1>1, KidsAreValid
    <3>2. DOMAIN sorted[i].schedule = 1 .. Len(sorted[i].schedule) /\ Len(sorted[i].schedule) \in Nat
      BY <3>1, LenProperties
    <3> QED  BY <3>2
  <2>2. CASE i = next /\ a = point
    BY <1>5, <2>2 DEF Holds, price
  <2>3. CASE i < next \/ (i = next /\ a < point)
    <3>1. PICK y \in DOMAIN breakpoints : breakpoints[y] = sorted[i].schedule[a].unit_price
      BY <1>1, <2>3 DEF Collected
    <3> QED  BY <1>5, <3>1 DEF Holds
  <2> QED  BY <1>1, <1>7, <2>1, <2>2, <2>3
<1>8. Collected'
  BY <1>3, <1>5, <1>6, <1>7 DEF Collected
<1>9. Gathered(Len(views) + 1)'
  BY <1>1, <1>3, GatheredStays
<1>10. point' \in Nat \ {0}
  BY <1>1, <1>3
<1> QED  BY <1>1, <1>3, <1>8, <1>9, <1>10, ArgumentsStay DEF ScanInv

\* The points of one kid have all been merged in.
LEMMA NextKidKeeps ==
    ASSUME ScanInv, NextKid
    PROVE  ScanInv'
<1>1. /\ pc = "merge" /\ next \in 1 .. Len(sorted) + 1 /\ next <= Len(sorted)
      /\ point > Len(sorted[next].schedule) /\ point \in Nat
      /\ views \in Views /\ Gathered(Len(views) + 1) /\ Collected
  BY DEF ScanInv, NextKid
<1>2. Len(sorted) \in Nat /\ DOMAIN sorted = 1 .. Len(sorted) /\ next \in Nat
  BY <1>1, KidsArePlaced
<1>3. /\ UNCHANGED arguments /\ views' = views /\ sorted' = sorted /\ next' = next + 1 /\ pc' = pc
      /\ point' = 1 /\ result' = result /\ prev' = prev
      /\ Points' = Points /\ breakpoints' = breakpoints
  BY ArgumentsStay DEF NextKid, search
<1>4. ASSUME NEW i \in DOMAIN sorted, NEW a \in DOMAIN sorted[i].schedule,
             i < next + 1 \/ (i = next + 1 /\ a < 1)
      PROVE  i < next \/ (i = next /\ a < point)
  <2>1. sorted[i].schedule \in Seq(SchedulePoint)
    BY <1>1, KidsAreValid
  <2>2. /\ DOMAIN sorted[i].schedule = 1 .. Len(sorted[i].schedule)
        /\ Len(sorted[i].schedule) \in Nat
    BY <2>1, LenProperties
  <2>3. i < next \/ i = next
    BY <1>2, <1>4, <2>2
  <2>4. CASE i = next
    BY <1>1, <2>2, <2>4
  <2> QED  BY <2>3, <2>4
<1>5. Collected'
  <2>1. \A i \in DOMAIN sorted : \A a \in DOMAIN sorted[i].schedule :
           i < next + 1 \/ (i = next + 1 /\ a < 1) =>
              \E x \in DOMAIN breakpoints : breakpoints[x] = sorted[i].schedule[a].unit_price
    BY <1>1, <1>4 DEF Collected
  <2> QED  BY <1>1, <1>3, <2>1 DEF Collected
<1>6. Gathered(Len(views) + 1)'
  BY <1>1, <1>3, GatheredStays
<1>7. next' \in 1 .. Len(sorted') + 1
  BY <1>1, <1>2, <1>3
<1> QED  BY <1>1, <1>3, <1>5, <1>6, <1>7, ArgumentsStay DEF ScanInv

\* The breakpoints are the prices of the eligible members, all of them.
LEMMA MergedKeeps ==
    ASSUME ScanInv, Merged
    PROVE  ScanInv'
<1>1. /\ pc = "merge" /\ next \in 1 .. Len(sorted) + 1 /\ next > Len(sorted)
      /\ views \in Views /\ Gathered(Len(views) + 1) /\ Collected /\ prev = 0
  BY DEF ScanInv, Merged
<1>2. Len(sorted) \in Nat /\ DOMAIN sorted = 1 .. Len(sorted)
  BY <1>1, KidsArePlaced
<1>3. /\ UNCHANGED arguments /\ views' = views /\ sorted' = sorted /\ next' = 1 /\ pc' = "scan"
      /\ result' = result /\ prev' = 0
      /\ Points' = Points /\ FiringPoints' = FiringPoints /\ breakpoints' = breakpoints
  BY <1>1, ArgumentsStay DEF Merged, search
<1>4. {breakpoints[x] : x \in DOMAIN breakpoints} = Points
  <2>1. ASSUME NEW q \in Points
        PROVE  \E x \in DOMAIN breakpoints : breakpoints[x] = q
    <3>1. PICK i \in DOMAIN sorted : \E a \in DOMAIN sorted[i].schedule :
                                        q = sorted[i].schedule[a].unit_price
      BY <1>1, KidsAreValid
    <3>2. PICK a \in DOMAIN sorted[i].schedule : q = sorted[i].schedule[a].unit_price
      BY <3>1
    <3>3. i < next
      BY <1>1, <1>2
    <3> QED  BY <1>1, <3>2, <3>3 DEF Collected
  <2> QED  BY <1>1, <2>1 DEF Collected
<1>5. Passed(next)'
  <2>1. breakpoints \in Seq(Nat) /\ Ascending(breakpoints) /\ Len(breakpoints) \in Nat
    BY <1>1, LenProperties DEF Collected
  <2>2. 1 \in 1 .. Len(breakpoints) + 1 /\ 1 .. 1 - 1 = {}
    BY <2>1
  <2> QED  BY <1>3, <1>4, <2>1, <2>2 DEF Passed
<1>6. Gathered(Len(views) + 1)'
  BY <1>1, <1>3, GatheredStays
<1> QED  BY <1>1, <1>3, <1>5, <1>6, ArgumentsStay DEF ScanInv

\* The breakpoint under the scan, and what is known of those below it.
LEMMA ScanFacts ==
    ASSUME ScanInv, pc \in {"scan", "bisect"}
    PROVE  /\ views \in Views /\ fee \in 0 .. BPS_DENOM /\ fee \in Nat /\ floor.threshold_value \in Nat
           /\ Gathered(Len(views) + 1) /\ Passed(next)
           /\ Len(breakpoints) \in Nat /\ DOMAIN breakpoints = 1 .. Len(breakpoints)
           /\ next \in Nat /\ prev \in Nat
           /\ \A x \in DOMAIN breakpoints :
                 /\ breakpoints[x] \in Nat \ {0} /\ breakpoints[x] \in Points
                 /\ breakpoints[x] <= MaxUnitPrice
           /\ next <= Len(breakpoints) =>
                 /\ next \in DOMAIN breakpoints
                 /\ prev < breakpoints[next]
                 /\ prev = 0 \/ prev \in Points
                 /\ \A q \in Points : q < breakpoints[next] => q <= prev
<1>1. /\ views \in Views /\ fee \in Fees /\ floor \in PoolFloors
      /\ Gathered(Len(views) + 1) /\ Passed(next)
  BY DEF ScanInv
<1>2. fee \in 0 .. BPS_DENOM /\ fee \in Nat /\ floor.threshold_value \in Nat
  <2>1. fee \in 0 .. BPS_DENOM /\ floor.threshold_value \in Nat
    BY <1>1, ScanAssumption
  <2> QED  BY <2>1 DEF BPS_DENOM
<1>3. /\ breakpoints \in Seq(Nat) /\ Ascending(breakpoints)
      /\ {breakpoints[x] : x \in DOMAIN breakpoints} = Points
      /\ next \in 1 .. Len(breakpoints) + 1
      /\ prev = IF next = 1 THEN 0 ELSE breakpoints[next - 1]
  BY <1>1 DEF Passed
<1>4. Len(breakpoints) \in Nat /\ DOMAIN breakpoints = 1 .. Len(breakpoints) /\ next \in Nat
  BY <1>3, LenProperties
<1>5. ASSUME NEW x \in DOMAIN breakpoints
      PROVE  /\ breakpoints[x] \in Nat \ {0} /\ breakpoints[x] \in Points
             /\ breakpoints[x] <= MaxUnitPrice
  <2>1. breakpoints[x] \in Points
    BY <1>3
  <2>2. PICK i \in DOMAIN sorted : \E a \in DOMAIN sorted[i].schedule :
                                      breakpoints[x] = sorted[i].schedule[a].unit_price
    BY <1>1, <2>1, KidsAreValid
  <2>3. PICK a \in DOMAIN sorted[i].schedule : breakpoints[x] = sorted[i].schedule[a].unit_price
    BY <2>2
  <2>4. breakpoints[x] \in 1 .. MaxUnitPrice
    BY <1>1, <2>3, KidsAreValid DEF ValidSchedule
  <2> QED  BY <2>1, <2>4, ClearingAssumption
<1>6. next # 1 => next - 1 \in DOMAIN breakpoints
  BY <1>3, <1>4
<1>7. prev \in Nat /\ (prev = 0 \/ prev \in Points)
  BY <1>3, <1>5, <1>6
<1>8. ASSUME next <= Len(breakpoints)
      PROVE  /\ next \in DOMAIN breakpoints
             /\ prev < breakpoints[next]
             /\ \A q \in Points : q < breakpoints[next] => q <= prev
  <2>1. next \in DOMAIN breakpoints
    BY <1>3, <1>4, <1>8
  <2>2. prev < breakpoints[next]
    <3>1. CASE next = 1
      BY <1>3, <1>5, <2>1, <3>1
    <3>2. CASE next # 1
      <4>1. next - 1 \in DOMAIN breakpoints /\ next - 1 < next
        BY <1>4, <1>6, <3>2
      <4> QED  BY <1>3, <2>1, <3>2, <4>1 DEF Ascending
    <3> QED  BY <3>1, <3>2
  <2>3. ASSUME NEW q \in Points, q < breakpoints[next]
        PROVE  q <= prev
    <3>1. PICK x \in DOMAIN breakpoints : breakpoints[x] = q
      BY <1>3
    <3>2. x < next
      <4> SUFFICES ASSUME ~ (x < next)  PROVE FALSE
        OBVIOUS
      <4>1. x = next \/ next < x
        BY <1>4, <2>1
      <4>2. next < x => breakpoints[next] < breakpoints[x]
        BY <1>3, <2>1 DEF Ascending
      <4>3. breakpoints[next] \in Nat /\ breakpoints[x] \in Nat
        BY <1>5, <2>1
      <4> QED  BY <2>3, <3>1, <4>1, <4>2, <4>3
    <3>3. next # 1 /\ (x = next - 1 \/ x < next - 1)
      BY <1>4, <3>2
    <3>4. x < next - 1 => breakpoints[x] < breakpoints[next - 1]
      BY <1>3, <1>6, <3>3 DEF Ascending
    <3>5. breakpoints[x] \in Nat /\ breakpoints[next - 1] \in Nat
      BY <1>5, <1>6, <3>3
    <3>6. prev = breakpoints[next - 1]
      BY <1>3, <3>3
    <3>7. breakpoints[x] = prev \/ breakpoints[x] < prev
      BY <3>3, <3>4, <3>6
    <3> QED  BY <3>1, <3>5, <3>6, <3>7
  <2> QED  BY <2>1, <2>2, <2>3
<1> QED  BY <1>1, <1>2, <1>4, <1>5, <1>7, <1>8

\* The test of the scan is that of Clear.
LEMMA FiresMeansFeasible ==
    ASSUME ScanInv, pc \in {"scan", "bisect"}, next <= Len(breakpoints)
    PROVE  Fires(breakpoints[next]) <=> breakpoints[next] \in FiringPoints
<1> DEFINE b == breakpoints[next]
<1>1. /\ views \in Views /\ fee \in Nat /\ Gathered(Len(views) + 1)
      /\ b \in Nat /\ b \in Points
  BY ScanFacts
<1> HIDE DEF b
<1>2. Qty(b) = OrderedQty(b) /\ Net(b) = OrderedNet(b)
  BY <1>1, SameOrder DEF Qty, Net, OrderedQty, OrderedNet
<1>3. b \in FiringPoints <=> OrderedQty(b) >= floor.threshold_qty /\ OrderedNet(b) >= floor.threshold_value
  BY <1>1 DEF FiringPoints, Firing, Points, Feasible, OrderedQty, OrderedNet
<1> QED  BY <1>2, <1>3 DEF Fires, b

\* A breakpoint that does not fire is passed over.
LEMMA SkipKeeps ==
    ASSUME ScanInv, Skip
    PROVE  ScanInv'
<1>1. pc = "scan" /\ next <= Len(breakpoints) /\ ~ Fires(breakpoints[next])
  BY DEF Skip
<1>2. /\ views \in Views /\ Gathered(Len(views) + 1) /\ Passed(next)
      /\ next \in Nat /\ next \in DOMAIN breakpoints
      /\ Len(breakpoints) \in Nat /\ DOMAIN breakpoints = 1 .. Len(breakpoints)
  BY <1>1, ScanFacts
<1>3. breakpoints[next] \notin FiringPoints
  BY <1>1, FiresMeansFeasible
<1>4. /\ UNCHANGED arguments /\ views' = views /\ sorted' = sorted /\ next' = next + 1 /\ pc' = pc
      /\ result' = result /\ prev' = breakpoints[next]
      /\ Points' = Points /\ FiringPoints' = FiringPoints /\ breakpoints' = breakpoints
  BY ArgumentsStay DEF Skip
<1>5. Passed(next)'
  <2>1. next' \in 1 .. Len(breakpoints) + 1 /\ next' # 1 /\ next' - 1 = next
    BY <1>1, <1>2, <1>4
  <2>2. \A x \in 1 .. next : x = next \/ x \in 1 .. next - 1
    BY <1>2
  <2>3. \A x \in 1 .. next : breakpoints[x] \notin FiringPoints
    BY <1>2, <1>3, <2>2 DEF Passed
  <2> QED  BY <1>2, <1>4, <2>1, <2>3 DEF Passed
<1>6. Gathered(Len(views) + 1)'
  BY <1>2, <1>4, GatheredStays
<1>7. result = NoOutcome
  BY <1>1 DEF ScanInv
<1> QED  BY <1>1, <1>4, <1>5, <1>6, <1>7, ArgumentsStay DEF ScanInv

\* The first breakpoint that fires bounds the search.
LEMMA HitKeeps ==
    ASSUME ScanInv, Hit
    PROVE  ScanInv'
<1> DEFINE b == breakpoints[next]
<1>1. pc = "scan" /\ next <= Len(breakpoints) /\ Fires(b)
  BY DEF Hit
<1>2. /\ views \in Views /\ Gathered(Len(views) + 1) /\ Passed(next)
      /\ next \in DOMAIN breakpoints /\ prev \in Nat /\ b \in Nat /\ prev < b
      /\ fee \in Nat
  BY <1>1, ScanFacts
<1>3. b \in FiringPoints
  BY <1>1, FiresMeansFeasible
<1>4. OrderedNet(b) >= floor.threshold_value
  BY <1>3 DEF FiringPoints, Firing, Feasible, OrderedNet
<1>5. /\ UNCHANGED arguments /\ views' = views /\ floor' = floor /\ sorted' = sorted /\ next' = next
      /\ pc' = "bisect" /\ lo' = prev + 1 /\ hi' = b
      /\ result' = result /\ prev' = prev /\ breakpoints' = breakpoints
      /\ Points' = Points /\ FiringPoints' = FiringPoints
      /\ \A p : OrderedNet(p)' = OrderedNet(p)
  BY ArgumentsStay DEF Hit
<1>6. Passed(next)'
  BY <1>2, <1>5, PassedStays
<1>7. Gathered(Len(views) + 1)'
  BY <1>2, <1>5, GatheredStays
<1>8. Searched'
  <2>1. lo' \in Nat /\ hi' \in Nat /\ prev < lo' /\ lo' <= hi' /\ hi' <= b /\ prev + 1 .. lo' - 1 = {}
    BY <1>2, <1>5
  <2>2. OrderedNet(hi)' >= floor.threshold_value
    BY <1>4, <1>5
  <2> QED  BY <1>2, <1>3, <1>5, <2>1, <2>2 DEF Searched
<1>9. result = NoOutcome
  BY <1>1 DEF ScanInv
<1> QED  BY <1>1, <1>5, <1>6, <1>7, <1>8, <1>9, ArgumentsStay DEF ScanInv

\* No breakpoint fires.
LEMMA ScannedInVainKeeps ==
    ASSUME ScanInv, ScannedInVain
    PROVE  ScanInv'
<1>1. pc = "scan" /\ next > Len(breakpoints) /\ result = NoOutcome
  BY DEF ScannedInVain, ScanInv
<1>2. /\ views \in Views /\ Gathered(Len(views) + 1) /\ Passed(next) /\ next \in Nat
      /\ Len(breakpoints) \in Nat /\ DOMAIN breakpoints = 1 .. Len(breakpoints)
  BY <1>1, ScanFacts
<1>3. FiringPoints = {}
  <2>1. FiringPoints \subseteq Points
    BY DEF FiringPoints, Firing, Points
  <2>2. \A x \in DOMAIN breakpoints : x \in 1 .. next - 1
    BY <1>1, <1>2
  <2>3. \A x \in DOMAIN breakpoints : breakpoints[x] \notin FiringPoints
    BY <1>2, <2>2 DEF Passed
  <2>4. \A q \in Points : \E x \in DOMAIN breakpoints : breakpoints[x] = q
    BY <1>2 DEF Passed
  <2> QED  BY <2>1, <2>3, <2>4
<1>4. /\ UNCHANGED arguments /\ views' = views /\ sorted' = sorted /\ pc' = "done" /\ result' = result
      /\ FiringPoints' = FiringPoints
  BY ArgumentsStay DEF ScannedInVain
<1>5. Gathered(Len(views) + 1)'
  BY <1>2, <1>4, GatheredStays
<1>6. Nothing'
  BY <1>1, <1>3, <1>4 DEF Nothing
<1> QED  BY <1>1, <1>4, <1>5, <1>6, ArgumentsStay DEF ScanInv

\* Half of the interval is given up, and the least price is not in it.
LEMMA BisectKeeps ==
    ASSUME ScanInv, Bisect
    PROVE  ScanInv'
<1> DEFINE mid == lo + (hi - lo) \div 2
           b   == breakpoints[next]
<1>1. pc = "bisect" /\ lo < hi /\ Searched /\ result = NoOutcome
  BY DEF Bisect, ScanInv
<1>2. /\ next \in DOMAIN breakpoints /\ b \in FiringPoints
      /\ lo \in Nat /\ hi \in Nat /\ prev < lo /\ lo <= hi /\ hi <= b
      /\ OrderedNet(hi) >= floor.threshold_value
      /\ \A p \in prev + 1 .. lo - 1 : ~ (OrderedNet(p) >= floor.threshold_value)
  BY <1>1 DEF Searched
<1>3. /\ views \in Views /\ fee \in 0 .. BPS_DENOM /\ fee \in Nat /\ floor.threshold_value \in Nat
      /\ Gathered(Len(views) + 1) /\ Passed(next)
      /\ prev \in Nat /\ b \in Nat
      /\ \A q \in Points : q < b => q <= prev
  <2>1. next <= Len(breakpoints)
    BY <1>1, <1>2, ScanFacts
  <2> QED  BY <1>1, <1>2, <2>1, ScanFacts
<1>4. mid \in Nat /\ lo <= mid /\ mid < hi
  <2>1. PICK d \in Nat : d = hi - lo /\ d > 0 /\ hi = lo + d
    BY <1>1, <1>2
  <2>2. d \div 2 \in Nat /\ d \div 2 < d
    BY <2>1
  <2> QED  BY <1>2, <2>1, <2>2
<1> HIDE DEF b, mid
<1>5. Net(mid) = OrderedNet(mid)
  BY <1>3, <1>4, SameOrder DEF Net, OrderedNet
<1>6. /\ UNCHANGED arguments /\ views' = views /\ floor' = floor /\ sorted' = sorted /\ next' = next
      /\ pc' = "bisect" /\ result' = result /\ prev' = prev /\ breakpoints' = breakpoints
      /\ Points' = Points /\ FiringPoints' = FiringPoints
      /\ \A p : OrderedNet(p)' = OrderedNet(p)
      /\ Narrow(mid)
  BY <1>1, ArgumentsStay DEF Bisect, mid
<1>7. Passed(next)'
  BY <1>3, <1>6, PassedStays
<1>8. Gathered(Len(views) + 1)'
  BY <1>3, <1>6, GatheredStays
<1>9. /\ next' \in DOMAIN breakpoints' /\ breakpoints'[next'] \in FiringPoints'
      /\ breakpoints'[next'] = b
  BY <1>2, <1>6 DEF b
<1>10. Searched'
  <2>1. CASE Net(mid) >= floor.threshold_value
    <3>1. hi' = mid /\ lo' = lo
      BY <1>6, <2>1 DEF Narrow
    <3>2. OrderedNet(hi)' >= floor.threshold_value
      BY <1>5, <1>6, <2>1, <3>1
    <3>3. hi' \in Nat /\ lo' <= hi' /\ hi' <= b
      BY <1>2, <1>3, <1>4, <3>1
    <3> QED  BY <1>2, <1>6, <1>9, <3>1, <3>2, <3>3 DEF Searched
  <2>2. CASE ~ (Net(mid) >= floor.threshold_value)
    <3>1. lo' = mid + 1 /\ hi' = hi
      BY <1>6, <2>2 DEF Narrow
    <3>2. ASSUME NEW p \in prev + 1 .. mid
          PROVE  ~ (OrderedNet(p) >= floor.threshold_value)
      <4>1. p \in Nat /\ p <= mid
        BY <1>3, <1>4
      <4>2. \A x \in Points : x < mid => x < p
        <5> SUFFICES ASSUME NEW x \in Points, x < mid  PROVE x < p
          OBVIOUS
        <5>1. x \in Int
          <6>1. \A k \in Chosen : ValidSchedule(CurveOf(views)[k])
            BY <1>3, ViewsAreValid DEF Chosen
          <6>2. Points \subseteq 1 .. MaxUnitPrice
            BY <6>1 DEF Points, Breakpoints, ValidSchedule
          <6> QED  BY <6>2, ClearingAssumption
        <5>2. x < b
          BY <1>2, <1>3, <1>4, <5>1
        <5>3. x <= prev
          BY <1>3, <5>2
        <5> QED  BY <1>3, <1>4, <5>1, <5>3
      <4>3. /\ OrderedNet(p) \in Int /\ OrderedNet(mid) \in Int
            /\ OrderedNet(p) <= OrderedNet(mid)
        <5>1. /\ IsFiniteSet(Chosen)
              /\ \A k \in Chosen : /\ CurveOf(views)[k] \in Seq(SchedulePoint)
                                   /\ ValidSchedule(CurveOf(views)[k])
          BY <1>3, ViewsAreValid DEF Chosen
        <5> QED  BY <1>3, <1>4, <4>1, <4>2, <5>1, OrderBetween DEF OrderedNet, Points
      <4> QED  BY <1>3, <1>5, <2>2, <4>3
    <3>3. lo' \in Nat /\ prev < lo' /\ lo' <= hi' /\ lo' - 1 = mid
      BY <1>2, <1>3, <1>4, <3>1
    <3>4. OrderedNet(hi)' >= floor.threshold_value
      BY <1>2, <1>6, <3>1
    <3> QED  BY <1>2, <1>6, <1>9, <3>1, <3>2, <3>3, <3>4 DEF Searched
  <2> QED  BY <2>1, <2>2
<1> QED  BY <1>1, <1>6, <1>7, <1>8, <1>10, ArgumentsStay DEF ScanInv

\* What is left of the interval is the price of Clear.
LEMMA FoundIsClear ==
    ASSUME ScanInv, pc = "bisect", lo >= hi
    PROVE  /\ lo \in 1 .. MaxUnitPrice
           /\ Clear(floor, Chosen, CurveOf(views), fee) = OutcomeAt(Chosen, CurveOf(views), lo)
<1> DEFINE first == breakpoints[next]
<1>1. /\ next \in DOMAIN breakpoints /\ first \in FiringPoints
      /\ lo \in Nat /\ hi \in Nat /\ prev < lo /\ lo = hi /\ lo <= first
      /\ OrderedNet(lo) >= floor.threshold_value
      /\ \A p \in prev + 1 .. lo - 1 : ~ (OrderedNet(p) >= floor.threshold_value)
  <2>1. Searched
    BY DEF ScanInv
  <2>2. lo = hi
    BY <2>1 DEF Searched
  <2> QED  BY <2>1, <2>2 DEF Searched
<1>2. /\ views \in Views /\ floor.threshold_value \in Nat
      /\ Gathered(Len(views) + 1) /\ Passed(next)
      /\ DOMAIN breakpoints = 1 .. Len(breakpoints) /\ next \in Nat
      /\ prev \in Nat /\ first \in Nat /\ first <= MaxUnitPrice /\ prev < first
      /\ prev = 0 \/ prev \in Points
      /\ \A q \in Points : q < first => q <= prev
      /\ \A x \in DOMAIN breakpoints : breakpoints[x] \in Nat
  <2>1. next <= Len(breakpoints)
    BY <1>1, ScanFacts
  <2> QED  BY <1>1, <2>1, ScanFacts
<1>3. Points \subseteq 1 .. MaxUnitPrice /\ \A q \in Points : q \in Nat
  <2>1. \A k \in Chosen : ValidSchedule(CurveOf(views)[k])
    BY <1>2, ViewsAreValid DEF Chosen
  <2>2. Points \subseteq 1 .. MaxUnitPrice
    BY <2>1 DEF Points, Breakpoints, ValidSchedule
  <2> QED  BY <2>2, ClearingAssumption
<1>4. lo \in 1 .. MaxUnitPrice
  BY <1>1, <1>2, ClearingAssumption
<1>5. \A c \in FiringPoints : first <= c
  <2> SUFFICES ASSUME NEW c \in FiringPoints  PROVE first <= c
    OBVIOUS
  <2>1. c \in Points
    BY DEF FiringPoints, Firing, Points
  <2>2. PICK x \in DOMAIN breakpoints : breakpoints[x] = c
    BY <1>2, <2>1 DEF Passed
  <2>3. ~ (x < next)
    BY <1>2, <2>2 DEF Passed
  <2>4. x = next \/ next < x
    BY <1>2, <2>3
  <2>5. next < x => breakpoints[next] < breakpoints[x]
    BY <1>1, <1>2 DEF Passed, Ascending
  <2> QED  BY <1>2, <2>2, <2>4, <2>5
<1>6. PICK b \in FiringPoints, price \in 1 .. MaxUnitPrice :
         /\ price <= b
         /\ \A x \in Points : x < b => x < price
         /\ OrderedNet(price) >= floor.threshold_value
         /\ Clear(floor, Chosen, CurveOf(views), fee) = OutcomeAt(Chosen, CurveOf(views), price)
         /\ \A c \in FiringPoints : b <= c
         /\ \A p \in Nat \ {0} :
               /\ p <= b /\ (\A x \in Points : x < b => x < p)
               /\ OrderedNet(p) >= floor.threshold_value
               => price <= p
  <2>1. \A k \in Chosen : /\ CurveOf(views)[k] \in Seq(SchedulePoint)
                          /\ ValidSchedule(CurveOf(views)[k])
    BY <1>2, ViewsAreValid DEF Chosen
  <2>2. Firing(floor, Chosen, CurveOf(views), fee) # {}
    BY <1>1 DEF FiringPoints
  <2> QED  BY <1>2, <2>1, <2>2, ClearingPrice DEF FiringPoints, Points, OrderedNet
<1>7. b = first
  <2>1. b <= first /\ first <= b
    BY <1>1, <1>5, <1>6
  <2>2. b \in Nat
    BY <1>3 DEF FiringPoints, Firing, Points
  <2> HIDE DEF first
  <2> QED  BY <1>2, <2>1, <2>2
<1> HIDE DEF first
<1>8. price <= lo
  <2>1. lo \in Nat \ {0} /\ lo <= b
    BY <1>1, <1>2, <1>7
  <2>2. \A x \in Points : x < b => x < lo
    <3> SUFFICES ASSUME NEW x \in Points, x < b  PROVE x < lo
      OBVIOUS
    <3>1. x <= prev /\ x \in Nat
      BY <1>2, <1>3, <1>7
    <3> QED  BY <1>1, <1>2, <3>1
  <2> QED  BY <1>1, <1>6, <2>1, <2>2
<1>9. prev < price
  <2>1. price \in Nat /\ price > 0
    BY <1>6, ClearingAssumption
  <2>2. CASE prev = 0
    BY <2>1, <2>2
  <2>3. CASE prev \in Points
    BY <1>2, <1>6, <1>7, <2>3
  <2> QED  BY <1>2, <2>2, <2>3
<1>10. price = lo
  <2> SUFFICES ASSUME price # lo  PROVE FALSE
    OBVIOUS
  <2>1. price \in prev + 1 .. lo - 1
    BY <1>1, <1>2, <1>6, <1>8, <1>9
  <2> QED  BY <1>1, <1>6, <2>1
<1> QED  BY <1>4, <1>6, <1>10

\* The price is found, and nothing has been allotted yet.
LEMMA FoundKeeps ==
    ASSUME ScanInv, Found
    PROVE  ScanInv'
<1>1. pc = "bisect" /\ lo >= hi /\ lo \in 1 .. MaxUnitPrice /\ lo \in Nat
  BY FoundIsClear, ClearingAssumption DEF Found
<1>2. views \in Views /\ Gathered(Len(views) + 1)
  BY <1>1, ScanFacts
<1>3. /\ UNCHANGED arguments /\ views' = views /\ floor' = floor /\ fee' = fee
      /\ sorted' = sorted /\ next' = 1 /\ pc' = "allocate"
      /\ result' = [NoOutcome EXCEPT !.fires = TRUE, !.clearing_price = lo]
      /\ Chosen' = Chosen
  BY ArgumentsStay DEF Found
<1>4. /\ result' \in ClearOutcomes
      /\ result'.fires = TRUE /\ result'.clearing_price = lo /\ result'.allocations = << >>
      /\ result'.total_qty = 0 /\ result'.gross_value = 0 /\ result'.total_fee = 0
  <2>1. << >> \in Seq([mandate_id : Nat, qty : Nat])
    OBVIOUS
  <2>2. result' = [fires |-> TRUE, clearing_price |-> lo, allocations |-> << >>,
                   total_qty |-> 0, gross_value |-> 0, total_fee |-> 0, net_value |-> 0]
    BY <1>3 DEF NoOutcome
  <2> QED  BY <1>1, <2>1, <2>2 DEF ClearOutcomes
<1>5. Shared(next)'
  <2>1. 1 .. 1 - 1 = {} /\ DOMAIN << >> = {}
    OBVIOUS
  <2>2. \A f : Total(f, 1 .. 1 - 1) = 0
    BY <2>1, TotalOfNone
  <2>3. Clear(floor', Chosen', CurveOf(views'), fee') = OutcomeAt(Chosen', CurveOf(views'), lo)
    BY <1>1, <1>3, FoundIsClear
  <2> QED  BY <1>1, <1>3, <1>4, <2>1, <2>2, <2>3 DEF Shared
<1>6. Gathered(Len(views) + 1)'
  BY <1>2, <1>3, GatheredStays
<1>7. next' \in 1 .. Len(sorted') + 1
  BY <1>2, <1>3, KidsArePlaced
<1> QED  BY <1>3, <1>5, <1>6, <1>7, ArgumentsStay DEF ScanInv

\* The total of the first n terms is that of those before the n-th, and the n-th.
LEMMA TotalNext ==
    ASSUME NEW n \in Nat \ {0}, NEW f, \A i \in 1 .. n : f[i] \in Int
    PROVE  /\ Total(f, 1 .. n) = Total(f, 1 .. n - 1) + f[n]
           /\ Total(f, 1 .. n - 1) \in Int /\ Total(f, 1 .. n) \in Int
<1>1. IsFiniteSet(1 .. n) /\ IsFiniteSet(1 .. n - 1)
  BY FS_Interval
<1>2. (1 .. n) \ {n} = 1 .. n - 1 /\ n \in 1 .. n
  OBVIOUS
<1>3. Total(f, 1 .. n) \in Int /\ Total(f, 1 .. n) = f[n] + Total(f, (1 .. n) \ {n})
  BY <1>1, <1>2, TotalSplits
<1>4. Total(f, 1 .. n - 1) \in Int
  <2>1. \A i \in 1 .. n - 1 : f[i] \in Int
    BY <1>2
  <2> QED  BY <1>1, <2>1, TotalSplits
<1>5. f[n] \in Int
  BY <1>2
<1>6. Total(f, 1 .. n) = f[n] + Total(f, 1 .. n - 1)
  BY <1>2, <1>3
<1> QED  BY <1>3, <1>4, <1>5, <1>6

\* What each kid is given at a price, and what it costs.
LEMMA ShareType ==
    ASSUME views \in Views, fee \in Fees, Gathered(Len(views) + 1), NEW p \in Nat
    PROVE  \A k \in DOMAIN sorted :
              /\ Demand(sorted[k].schedule, p) \in Nat /\ sorted[k].mandate_id \in Nat
              /\ Bought(p)[k] = Demand(sorted[k].schedule, p)
              /\ Legs(p)[k] = p * Demand(sorted[k].schedule, p) /\ Legs(p)[k] \in Nat
              /\ FeesOn(p)[k] = FeeOf(Legs(p)[k], fee) /\ FeesOn(p)[k] \in Nat
              /\ Demand(sorted[k].schedule, p) = 0 => Legs(p)[k] = 0 /\ FeesOn(p)[k] = 0
<1> SUFFICES ASSUME NEW k \in DOMAIN sorted
             PROVE  /\ Demand(sorted[k].schedule, p) \in Nat /\ sorted[k].mandate_id \in Nat
                    /\ Bought(p)[k] = Demand(sorted[k].schedule, p)
                    /\ Legs(p)[k] = p * Demand(sorted[k].schedule, p) /\ Legs(p)[k] \in Nat
                    /\ FeesOn(p)[k] = FeeOf(Legs(p)[k], fee) /\ FeesOn(p)[k] \in Nat
                    /\ Demand(sorted[k].schedule, p) = 0 => Legs(p)[k] = 0 /\ FeesOn(p)[k] = 0
  OBVIOUS
<1>1. Demand(sorted[k].schedule, p) \in Nat
  <2>1. sorted[k].schedule \in Seq(SchedulePoint) /\ p \in Int
    BY KidsAreValid
  <2> QED  BY <2>1, DemandType
<1>2. sorted[k].mandate_id \in Nat
  <2>1. sorted \in Seq(ChildView)
    BY DEF Gathered
  <2>2. sorted[k] \in ChildView
    BY <2>1, LenProperties, ElementOfSeq
  <2> QED  BY <2>2 DEF ChildView
<1>3. fee \in Nat
  <2>1. fee \in 0 .. BPS_DENOM
    BY ScanAssumption
  <2> QED  BY <2>1 DEF BPS_DENOM
<1>4. /\ Bought(p)[k] = Demand(sorted[k].schedule, p)
      /\ Legs(p)[k] = p * Demand(sorted[k].schedule, p)
      /\ FeesOn(p)[k] = FeeOf(Legs(p)[k], fee)
  BY DEF Bought, Legs, FeesOn
<1> DEFINE q == Demand(sorted[k].schedule, p)
<1> HIDE DEF q
<1>5. q \in Nat /\ p * q \in Nat /\ FeeOf(p * q, fee) \in Nat
  <2>1. q \in Nat
    BY <1>1 DEF q
  <2>2. \A x \in Nat : FeeOf(x, fee) \in Nat
    BY <1>3 DEF FeeOf, BPS_DENOM
  <2>3. p * q \in Nat
    BY <2>1
  <2> QED  BY <2>1, <2>2, <2>3
<1>6. q = 0 => p * q = 0 /\ FeeOf(p * q, fee) = 0
  BY <1>3 DEF FeeOf, BPS_DENOM
<1> QED  BY <1>1, <1>2, <1>4, <1>5, <1>6 DEF q

\* One more kid is given what it ordered.
LEMMA AllocateKeeps ==
    ASSUME ScanInv, Allocate
    PROVE  ScanInv'
<1> DEFINE p     == result.clearing_price
           given == result.allocations
           qty   == Demand(sorted[next].schedule, p)
           entry == Share(next, p)
<1>1. /\ pc = "allocate" /\ next \in 1 .. Len(sorted) + 1 /\ next <= Len(sorted)
      /\ views \in Views /\ fee \in Fees /\ Gathered(Len(views) + 1) /\ Shared(next)
  BY DEF Allocate, ScanInv
<1>2. Len(sorted) \in Nat /\ DOMAIN sorted = 1 .. Len(sorted)
  BY <1>1, KidsArePlaced
<1>3. next \in DOMAIN sorted /\ next \in Nat \ {0} /\ 1 .. next \subseteq DOMAIN sorted
  BY <1>1, <1>2
<1>4. /\ result \in ClearOutcomes /\ result.fires
      /\ p \in 1 .. MaxUnitPrice /\ p \in Nat
      /\ Clear(floor, Chosen, CurveOf(views), fee) = OutcomeAt(Chosen, CurveOf(views), p)
      /\ \A i \in DOMAIN given : \E k \in 1 .. next - 1 : given[i] = Share(k, p) /\ given[i].qty # 0
      /\ \A k \in 1 .. next - 1 : Demand(sorted[k].schedule, p) # 0 =>
            \E i \in DOMAIN given : given[i] = Share(k, p)
      /\ \A i, j \in DOMAIN given : i < j => given[i].mandate_id < given[j].mandate_id
      /\ result.total_qty   = Total(Bought(p), 1 .. next - 1)
      /\ result.gross_value = Total(Legs(p), 1 .. next - 1)
      /\ result.total_fee   = Total(FeesOn(p), 1 .. next - 1)
  BY <1>1, ClearingAssumption DEF Shared
<1>5. /\ UNCHANGED arguments /\ views' = views /\ floor' = floor /\ fee' = fee
      /\ sorted' = sorted /\ next' = next + 1 /\ pc' = pc /\ Chosen' = Chosen
      /\ result' = Allot(sorted[next], p)
  BY ArgumentsStay DEF Allocate
<1>6. /\ \A x \in Nat : Bought(x)' = Bought(x) /\ Legs(x)' = Legs(x) /\ FeesOn(x)' = FeesOn(x)
      /\ \A k, x : Share(k, x)' = Share(k, x)
  BY <1>5 DEF Bought, Legs, FeesOn, Share
<1>7. \A k \in DOMAIN sorted :
         /\ Demand(sorted[k].schedule, p) \in Nat /\ sorted[k].mandate_id \in Nat
         /\ Bought(p)[k] = Demand(sorted[k].schedule, p)
         /\ Legs(p)[k] = p * Demand(sorted[k].schedule, p) /\ Legs(p)[k] \in Nat
         /\ FeesOn(p)[k] = FeeOf(Legs(p)[k], fee) /\ FeesOn(p)[k] \in Nat
         /\ Demand(sorted[k].schedule, p) = 0 => Legs(p)[k] = 0 /\ FeesOn(p)[k] = 0
  BY <1>1, <1>4, ShareType
<1>8. /\ Total(Bought(p), 1 .. next) = Total(Bought(p), 1 .. next - 1) + qty
      /\ Total(Legs(p), 1 .. next) = Total(Legs(p), 1 .. next - 1) + p * qty
      /\ Total(FeesOn(p), 1 .. next) = Total(FeesOn(p), 1 .. next - 1) + FeeOf(p * qty, fee)
  <2>1. \A k \in 1 .. next : Bought(p)[k] \in Int /\ Legs(p)[k] \in Int /\ FeesOn(p)[k] \in Int
    BY <1>3, <1>7
  <2>2. /\ Bought(p)[next] = qty /\ Legs(p)[next] = p * qty
        /\ FeesOn(p)[next] = FeeOf(p * qty, fee)
    BY <1>3, <1>7
  <2> QED  BY <1>3, <2>1, <2>2, TotalNext
<1>9. /\ given \in Seq([mandate_id : Nat, qty : Nat]) /\ Len(given) \in Nat
      /\ DOMAIN given = 1 .. Len(given)
      /\ result.total_qty \in Int /\ result.gross_value \in Int /\ result.total_fee \in Int
  <2>1. given \in Seq([mandate_id : Nat, qty : Nat])
    BY <1>4 DEF ClearOutcomes
  <2> QED  BY <1>4, <2>1, LenProperties DEF ClearOutcomes
<1>10. Gathered(Len(views) + 1)'
  BY <1>1, <1>5, GatheredStays
<1>11. next' \in 1 .. Len(sorted') + 1 /\ next' - 1 = next
  BY <1>1, <1>2, <1>5
<1>12. \A k \in 1 .. next : k = next \/ k \in 1 .. next - 1
  BY <1>3
<1>13. 1 .. next - 1 \subseteq 1 .. next /\ next \in 1 .. next
  BY <1>3
<1>14. Shared(next)'
  <2>1. CASE qty = 0
    <3>1. result' = result
      BY <1>5, <2>1 DEF Allot
    <3>2. /\ result.total_qty   = Total(Bought(p), 1 .. next)
          /\ result.gross_value = Total(Legs(p), 1 .. next)
          /\ result.total_fee   = Total(FeesOn(p), 1 .. next)
      <4>1. p * qty = 0 /\ FeeOf(p * qty, fee) = 0
        BY <1>3, <1>7, <2>1
      <4> QED  BY <1>4, <1>8, <1>9, <2>1, <4>1
    <3>3. /\ \A i \in DOMAIN given : \E k \in 1 .. next : given[i] = Share(k, p) /\ given[i].qty # 0
          /\ \A k \in 1 .. next : Demand(sorted[k].schedule, p) # 0 =>
                \E i \in DOMAIN given : given[i] = Share(k, p)
      BY <1>4, <1>12, <1>13, <2>1
    <3> QED  BY <1>4, <1>5, <1>6, <1>11, <3>1, <3>2, <3>3 DEF Shared
  <2>2. CASE qty # 0
    <3> DEFINE more == Append(given, entry)
    <3>1. result' = [result EXCEPT !.allocations = more,
                                   !.total_qty   = @ + qty,
                                   !.gross_value = @ + p * qty,
                                   !.total_fee   = @ + FeeOf(p * qty, fee)]
      BY <1>5, <2>2 DEF Allot, Share
    <3>2. /\ entry \in [mandate_id : Nat, qty : Nat] /\ entry.qty = qty
          /\ entry.mandate_id = sorted[next].mandate_id
      BY <1>3, <1>7 DEF Share
    <3> HIDE DEF entry
    <3>3. /\ more \in Seq([mandate_id : Nat, qty : Nat]) /\ Len(more) = Len(given) + 1
          /\ \A i \in 1 .. Len(given) : more[i] = given[i]
          /\ more[Len(given) + 1] = entry
      BY <1>9, <3>2, AppendProperties
    <3> HIDE DEF more
    <3>4. DOMAIN more = 1 .. Len(given) + 1
      BY <3>3, LenProperties
    <3>5. /\ qty \in Int /\ p * qty \in Int /\ FeeOf(p * qty, fee) \in Int
      BY <1>3, <1>7
    <3>6. /\ result' \in ClearOutcomes
          /\ result'.fires = result.fires /\ result'.clearing_price = p
          /\ result'.allocations = more
          /\ result'.total_qty   = result.total_qty + qty
          /\ result'.gross_value = result.gross_value + p * qty
          /\ result'.total_fee   = result.total_fee + FeeOf(p * qty, fee)
      <4> HIDE DEF qty
      <4>1. result = [fires |-> result.fires, clearing_price |-> p, allocations |-> given,
                      total_qty |-> result.total_qty, gross_value |-> result.gross_value,
                      total_fee |-> result.total_fee, net_value |-> result.net_value]
        BY <1>4 DEF ClearOutcomes
      <4>2. result' = [fires |-> result.fires, clearing_price |-> p, allocations |-> more,
                       total_qty |-> result.total_qty + qty,
                       gross_value |-> result.gross_value + p * qty,
                       total_fee |-> result.total_fee + FeeOf(p * qty, fee),
                       net_value |-> result.net_value]
        BY <3>1, <4>1
      <4>3. result.fires \in BOOLEAN /\ result.net_value \in Int
        BY <1>4 DEF ClearOutcomes
      <4>4. /\ result.total_qty + qty \in Int /\ result.gross_value + p * qty \in Int
            /\ result.total_fee + FeeOf(p * qty, fee) \in Int
        <5>1. \A x, y \in Int : x + y \in Int
          OBVIOUS
        <5> QED  BY <1>9, <3>5, <5>1
      <4>5. result' \in ClearOutcomes
        BY <1>4, <3>3, <4>2, <4>3, <4>4 DEF ClearOutcomes
      <4> QED  BY <4>2, <4>5
    <3>7. \A i \in DOMAIN more : i = Len(given) + 1 \/ i \in DOMAIN given
      BY <1>9, <3>4
    <3>8. \A i \in DOMAIN more : \E k \in 1 .. next : more[i] = Share(k, p) /\ more[i].qty # 0
      <4> SUFFICES ASSUME NEW i \in DOMAIN more
                   PROVE  \E k \in 1 .. next : more[i] = Share(k, p) /\ more[i].qty # 0
        OBVIOUS
      <4>1. CASE i = Len(given) + 1
        BY <1>13, <2>2, <3>2, <3>3, <4>1 DEF entry
      <4>2. CASE i \in DOMAIN given
        BY <1>4, <1>9, <1>13, <3>3, <4>2
      <4> QED  BY <3>7, <4>1, <4>2
    <3>9. \A k \in 1 .. next : Demand(sorted[k].schedule, p) # 0 =>
             \E i \in DOMAIN more : more[i] = Share(k, p)
      <4> SUFFICES ASSUME NEW k \in 1 .. next, Demand(sorted[k].schedule, p) # 0
                   PROVE  \E i \in DOMAIN more : more[i] = Share(k, p)
        OBVIOUS
      <4>1. CASE k = next
        <5>1. Len(given) + 1 \in DOMAIN more
          BY <1>9, <3>4
        <5> QED  BY <3>3, <4>1, <5>1 DEF entry
      <4>2. CASE k \in 1 .. next - 1
        <5>1. PICK i \in DOMAIN given : given[i] = Share(k, p)
          BY <1>4, <4>2
        <5>2. i \in 1 .. Len(given) /\ i \in 1 .. Len(given) + 1
          BY <1>9
        <5>3. i \in DOMAIN more /\ more[i] = given[i]
          BY <3>3, <3>4, <5>2
        <5> QED  BY <5>1, <5>3
      <4> QED  BY <1>12, <4>1, <4>2
    <3>10. \A i, j \in DOMAIN more : i < j => more[i].mandate_id < more[j].mandate_id
      <4> SUFFICES ASSUME NEW i \in DOMAIN more, NEW j \in DOMAIN more, i < j
                   PROVE  more[i].mandate_id < more[j].mandate_id
        OBVIOUS
      <4>0. i \in 1 .. Len(given)
        BY <1>9, <3>4
      <4>1. i \in DOMAIN given /\ more[i] = given[i]
        BY <1>9, <3>3, <4>0
      <4>2. CASE j = Len(given) + 1
        <5>1. PICK k \in 1 .. next - 1 : given[i] = Share(k, p)
          BY <1>4, <4>1
        <5>2. k \in DOMAIN sorted /\ k < next
          BY <1>3
        <5>3. sorted[k].mandate_id < sorted[next].mandate_id
          BY <1>1, <1>3, <5>2 DEF Gathered
        <5>4. given[i].mandate_id = sorted[k].mandate_id
          BY <5>1 DEF Share
        <5> QED  BY <3>2, <3>3, <4>1, <4>2, <5>3, <5>4
      <4>3. CASE j \in DOMAIN given
        <5>1. more[j] = given[j]
          BY <1>9, <3>3, <4>3
        <5> QED  BY <1>4, <4>1, <4>3, <5>1
      <4> QED  BY <3>7, <4>2, <4>3
    <3>11. /\ result'.total_qty   = Total(Bought(p), 1 .. next)
           /\ result'.gross_value = Total(Legs(p), 1 .. next)
           /\ result'.total_fee   = Total(FeesOn(p), 1 .. next)
      BY <1>4, <1>8, <3>6
    <3> HIDE DEF qty, entry
    <3> QED  BY <1>4, <1>5, <1>6, <1>11, <3>6, <3>8, <3>9, <3>10, <3>11 DEF Shared
  <2> QED  BY <2>1, <2>2
<1> QED  BY <1>1, <1>5, <1>10, <1>11, <1>14, ArgumentsStay DEF ScanInv

\* The net value is added last.
LEMMA AllocatedKeeps ==
    ASSUME ScanInv, Allocated
    PROVE  ScanInv'
<1>1. /\ pc = "allocate" /\ next \in 1 .. Len(sorted) + 1 /\ next > Len(sorted)
      /\ views \in Views /\ fee \in Fees /\ Gathered(Len(views) + 1) /\ Shared(next)
  BY DEF Allocated, ScanInv
<1>2. Len(sorted) \in Nat
  BY <1>1, KidsArePlaced
<1>3. next = Len(sorted) + 1
  BY <1>1, <1>2
<1>4. Shared(Len(sorted) + 1)
  BY <1>1, <1>3
<1>5. /\ UNCHANGED arguments /\ views' = views /\ floor' = floor /\ fee' = fee
      /\ sorted' = sorted /\ pc' = "done" /\ Chosen' = Chosen
      /\ result' = [result EXCEPT !.net_value = result.gross_value - result.total_fee]
  BY ArgumentsStay DEF Allocated
<1>6. /\ result \in ClearOutcomes
      /\ result.gross_value \in Int /\ result.total_fee \in Int
  <2>1. result \in ClearOutcomes
    BY <1>1 DEF Shared
  <2> QED  BY <2>1 DEF ClearOutcomes
<1>7. /\ result' \in ClearOutcomes
      /\ result'.fires = result.fires /\ result'.clearing_price = result.clearing_price
      /\ result'.allocations = result.allocations
      /\ result'.total_qty = result.total_qty /\ result'.gross_value = result.gross_value
      /\ result'.total_fee = result.total_fee
      /\ result'.net_value = result.gross_value - result.total_fee
  <2>1. result.gross_value - result.total_fee \in Int
    BY <1>6
  <2> QED  BY <1>5, <1>6, <2>1 DEF ClearOutcomes
<1>8. /\ \A x : Bought(x)' = Bought(x) /\ Legs(x)' = Legs(x) /\ FeesOn(x)' = FeesOn(x)
      /\ \A k, x : Share(k, x)' = Share(k, x)
  BY <1>5 DEF Bought, Legs, FeesOn, Share
<1>9. Shared(Len(sorted) + 1)'
  BY <1>4, <1>5, <1>7, <1>8 DEF Shared
<1>10. Gathered(Len(views) + 1)'
  BY <1>1, <1>5, GatheredStays
<1> QED  BY <1>1, <1>5, <1>7, <1>9, <1>10, ArgumentsStay DEF ScanInv

\* A step that changes nothing.
LEMMA StutterKeeps ==
    ASSUME ScanInv, UNCHANGED scanVars
    PROVE  ScanInv'
<1>1. /\ UNCHANGED arguments /\ pc' = pc /\ next' = next /\ point' = point /\ sorted' = sorted
      /\ breakpoints' = breakpoints /\ prev' = prev /\ lo' = lo /\ hi' = hi /\ result' = result
  BY DEF scanVars, search
<1>2. /\ views' = views /\ floor' = floor /\ fee' = fee
      /\ Chosen' = Chosen /\ Points' = Points /\ FiringPoints' = FiringPoints
      /\ \A p : OrderedNet(p)' = OrderedNet(p)
  BY <1>1, ArgumentsStay
<1>3. \A n : Gathered(n)' = Gathered(n)
  BY <1>1, <1>2, GatheredStays
<1>4. \A n : Passed(n)' = Passed(n)
  BY <1>1, PassedStays
<1>5. Collected' = Collected
  BY <1>1, <1>2 DEF Collected
<1>6. Searched' = Searched
  <2>1. OrderedNet(hi)' = OrderedNet(hi)
    BY <1>1, <1>2
  <2> QED  BY <1>1, <1>2, <2>1 DEF Searched
<1>7. /\ \A x : Bought(x)' = Bought(x) /\ Legs(x)' = Legs(x) /\ FeesOn(x)' = FeesOn(x)
      /\ \A k, x : Share(k, x)' = Share(k, x)
  BY <1>1, <1>2 DEF Bought, Legs, FeesOn, Share
<1>8. \A n : Shared(n)' = Shared(n)
  BY <1>1, <1>2, <1>7 DEF Shared
<1>9. Nothing' = Nothing
  BY <1>1, <1>2 DEF Nothing
<1> QED  BY <1>1, <1>2, <1>3, <1>4, <1>5, <1>6, <1>8, <1>9 DEF ScanInv

\* What each loop has done so far, at every step of every call.
LEMMA ScanInvHolds == ScanSpec => []ScanInv
<1>1. ASSUME ScanInv, [ScanNext]_scanVars
      PROVE  ScanInv'
  <2>1. CASE UNCHANGED scanVars
    BY <1>1, <2>1, StutterKeeps
  <2>2. CASE ScanNext
    BY <1>1, <2>2, SortKidsKeeps, SortedKeeps, MergePointKeeps, NextKidKeeps, MergedKeeps,
       SkipKeeps, HitKeeps, ScannedInVainKeeps, BisectKeeps, FoundKeeps, AllocateKeeps,
       AllocatedKeeps DEF ScanNext
  <2> QED  BY <1>1, <2>1, <2>2
<1> QED  BY <1>1, InitHolds, PTL DEF ScanSpec

-----------------------------------------------------------------------------
(* What the loops return                                                   *)

\* The totals reported are those of the order at the price reported.
LEMMA TotalsOfTheOrder ==
    ASSUME views \in Views, fee \in Fees, Gathered(Len(views) + 1), NEW p \in Nat
    PROVE  /\ Total(Bought(p), DOMAIN sorted) = TotalQty(Chosen, CurveOf(views), p)
           /\ Total(Legs(p), DOMAIN sorted) = NetValue(Chosen, CurveOf(views), p, 0)
           /\ Total(Legs(p), DOMAIN sorted) - Total(FeesOn(p), DOMAIN sorted)
                 = NetValue(Chosen, CurveOf(views), p, fee)
<1> DEFINE kids == DOMAIN sorted
           curves == CurveOf(sorted)
           net(bps) == [k \in kids |-> p * Demand(curves[k], p)
                                          - FeeOf(p * Demand(curves[k], p), bps)]
           qtys == [k \in kids |-> Demand(curves[k], p)]
<1>1. IsFiniteSet(kids) /\ fee \in Nat
  <2>1. fee \in 0 .. BPS_DENOM
    BY ScanAssumption
  <2> QED  BY <2>1, KidsArePlaced DEF BPS_DENOM
<1>2. /\ \A k \in kids : /\ Bought(p)[k] = Demand(sorted[k].schedule, p)
                         /\ Demand(sorted[k].schedule, p) \in Nat
                         /\ Legs(p)[k] = p * Demand(sorted[k].schedule, p) /\ Legs(p)[k] \in Nat
                         /\ FeesOn(p)[k] = FeeOf(Legs(p)[k], fee) /\ FeesOn(p)[k] \in Nat
      /\ \A k \in kids : curves[k] = sorted[k].schedule
  BY ShareType, KidsAreValid
<1>3. /\ TotalQty(kids, curves, p) = Total(qtys, kids)
      /\ NetValue(kids, curves, p, 0) = Total(net(0), kids)
      /\ NetValue(kids, curves, p, fee) = Total(net(fee), kids)
  BY <1>1, QtyIsTotal, NetIsTotal
<1>4. /\ TotalQty(kids, curves, p) = TotalQty(Chosen, CurveOf(views), p)
      /\ NetValue(kids, curves, p, 0) = NetValue(Chosen, CurveOf(views), p, 0)
      /\ NetValue(kids, curves, p, fee) = NetValue(Chosen, CurveOf(views), p, fee)
  BY <1>1, SameOrder
<1>5. \A k \in kids : /\ qtys[k] = Bought(p)[k] /\ Bought(p)[k] \in Int
                      /\ net(0)[k] = Legs(p)[k] - FeeOf(Legs(p)[k], 0)
                      /\ net(fee)[k] = Legs(p)[k] - FeesOn(p)[k]
                      /\ Legs(p)[k] \in Int /\ FeesOn(p)[k] \in Int
  BY <1>2
<1>6. \A k \in kids : FeeOf(Legs(p)[k], 0) = 0
  <2>1. \A x \in Nat : FeeOf(x, 0) = 0
    BY DEF FeeOf, BPS_DENOM
  <2> QED  BY <1>2, <2>1
<1> HIDE DEF net, qtys, kids, curves
<1>7. Total(qtys, kids) = Total(Bought(p), kids)
  BY <1>1, <1>5, TotalAgrees
<1>8. Total(net(0), kids) = Total(Legs(p), kids)
  <2>1. \A k \in kids : Legs(p)[k] \in Int /\ net(0)[k] = Legs(p)[k]
    BY <1>5, <1>6
  <2> QED  BY <1>1, <2>1, TotalAgrees
<1>9. Total(Legs(p), kids) - Total(FeesOn(p), kids) = Total(net(fee), kids)
  <2>1. \A k \in kids : /\ net(fee)[k] \in Int /\ FeesOn(p)[k] \in Int
                        /\ Legs(p)[k] = net(fee)[k] + FeesOn(p)[k]
    BY <1>5
  <2>2. Total(Legs(p), kids) = Total(net(fee), kids) + Total(FeesOn(p), kids)
    BY <1>1, <2>1, TotalAdds
  <2>3. Total(net(fee), kids) \in Int /\ Total(FeesOn(p), kids) \in Int
    BY <1>1, <2>1, TotalSplits
  <2> QED  BY <2>2, <2>3
<1> QED  BY <1>3, <1>4, <1>7, <1>8, <1>9 DEF kids

\* A pool that does not fire is one that Clear does not fire.
LEMMA NothingMatches ==
    ASSUME ScanInv, pc = "done", Nothing
    PROVE  MatchesClear
<1>1. Clear(floor, Chosen, CurveOf(views), fee) = NoFire
  BY DEF Nothing, FiringPoints, Firing, Clear
<1>2. /\ ~ result.fires /\ result.clearing_price = 0 /\ result.allocations = << >>
      /\ DOMAIN result.allocations = {}
      /\ result.fires = FALSE
  BY DEF Nothing, NoOutcome
<1>3. NoFire.fires = FALSE /\ NoFire.clearing_price = 0 /\ DOMAIN NoFire.allocations = {}
  BY DEF NoFire
<1> QED  BY <1>1, <1>2, <1>3 DEF MatchesClear

\* The members that the loops serve, in the order of their ids, are those that Clear serves,
\* each with what it orders.
LEMMA SharedMatches ==
    ASSUME ScanInv, pc = "done", Shared(Len(sorted) + 1),
           result.net_value = result.gross_value - result.total_fee
    PROVE  MatchesClear
<1> DEFINE p        == result.clearing_price
           given    == result.allocations
           expected == Clear(floor, Chosen, CurveOf(views), fee)
           index(a) == CHOOSE i \in DOMAIN views : views[i].mandate_id = a.mandate_id
           ordered(k) == Demand(CurveOf(views)[k], p)
           buyers   == {k \in Chosen : ordered(k) # 0}
<1>1. /\ views \in Views /\ fee \in Fees /\ Gathered(Len(views) + 1)
      /\ Chosen \subseteq DOMAIN views
      /\ \A j \in Chosen : CurveOf(views)[j] = views[j].schedule
      /\ \A i, j \in DOMAIN views : views[i].mandate_id = views[j].mandate_id => i = j
  BY ViewsAreValid DEF ScanInv, Chosen
<1>2. /\ Len(sorted) \in Nat /\ DOMAIN sorted = 1 .. Len(sorted)
      /\ \E place \in [DOMAIN sorted -> Chosen] :
            /\ \A i \in DOMAIN sorted : sorted[i] = views[place[i]]
            /\ \A k \in Chosen : \E i \in DOMAIN sorted : place[i] = k
  BY <1>1, KidsArePlaced
<1>3. PICK place \in [DOMAIN sorted -> Chosen] :
            /\ \A i \in DOMAIN sorted : sorted[i] = views[place[i]]
            /\ \A k \in Chosen : \E i \in DOMAIN sorted : place[i] = k
  BY <1>2
<1>4. 1 .. (Len(sorted) + 1) - 1 = DOMAIN sorted
  BY <1>2
<1>5. /\ result \in ClearOutcomes /\ result.fires
      /\ p \in 1 .. MaxUnitPrice /\ p \in Nat
      /\ expected = OutcomeAt(Chosen, CurveOf(views), p)
      /\ \A i \in DOMAIN given : \E k \in DOMAIN sorted : given[i] = Share(k, p) /\ given[i].qty # 0
      /\ \A k \in DOMAIN sorted : Demand(sorted[k].schedule, p) # 0 =>
            \E i \in DOMAIN given : given[i] = Share(k, p)
      /\ \A i, j \in DOMAIN given : i < j => given[i].mandate_id < given[j].mandate_id
      /\ result.total_qty   = Total(Bought(p), DOMAIN sorted)
      /\ result.gross_value = Total(Legs(p), DOMAIN sorted)
      /\ result.total_fee   = Total(FeesOn(p), DOMAIN sorted)
  BY <1>4, ClearingAssumption DEF Shared
<1>6. /\ expected.fires = TRUE /\ expected.clearing_price = p
      /\ expected.allocations = [k \in buyers |-> ordered(k)]
      /\ DOMAIN expected.allocations = buyers
  BY <1>5 DEF OutcomeAt
<1>7. \A k \in DOMAIN sorted : /\ Share(k, p).mandate_id = views[place[k]].mandate_id
                               /\ Share(k, p).qty = ordered(place[k])
                               /\ Demand(sorted[k].schedule, p) = ordered(place[k])
                               /\ place[k] \in Chosen
  BY <1>1, <1>3 DEF Share
<1>8. \A k \in DOMAIN sorted : index(Share(k, p)) = place[k]
  <2> SUFFICES ASSUME NEW k \in DOMAIN sorted  PROVE index(Share(k, p)) = place[k]
    OBVIOUS
  <2>1. place[k] \in DOMAIN views /\ Share(k, p).mandate_id = views[place[k]].mandate_id
    BY <1>1, <1>7
  <2>2. \A i \in DOMAIN views : views[i].mandate_id = Share(k, p).mandate_id <=> i = place[k]
    BY <1>1, <2>1
  <2> QED  BY <2>1, <2>2
<1> HIDE DEF index, ordered, expected, p
<1>9. \A i \in DOMAIN given : /\ index(given[i]) \in buyers
                              /\ given[i].qty = ordered(index(given[i]))
  <2> SUFFICES ASSUME NEW i \in DOMAIN given
               PROVE  index(given[i]) \in buyers /\ given[i].qty = ordered(index(given[i]))
    OBVIOUS
  <2>1. PICK k \in DOMAIN sorted : given[i] = Share(k, p) /\ given[i].qty # 0
    BY <1>5
  <2> QED  BY <1>7, <1>8, <2>1
<1>10. \A k \in buyers : \E i \in DOMAIN given : index(given[i]) = k
  <2> SUFFICES ASSUME NEW k \in buyers
               PROVE  \E i \in DOMAIN given : index(given[i]) = k
    OBVIOUS
  <2>1. PICK n \in DOMAIN sorted : place[n] = k
    BY <1>3
  <2>2. PICK i \in DOMAIN given : given[i] = Share(n, p)
    BY <1>5, <1>7, <2>1
  <2> QED  BY <1>8, <2>1, <2>2
<1>11. {index(given[i]) : i \in DOMAIN given} = DOMAIN expected.allocations
  <2> HIDE DEF buyers
  <2> QED  BY <1>6, <1>9, <1>10
<1>12. \A i \in DOMAIN given : given[i].qty = expected.allocations[index(given[i])]
  BY <1>6, <1>9
<1>13. /\ result.total_qty = TotalQty(Chosen, CurveOf(views), p)
       /\ result.gross_value = NetValue(Chosen, CurveOf(views), p, 0)
       /\ result.net_value = NetValue(Chosen, CurveOf(views), p, fee)
  BY <1>1, <1>5, TotalsOfTheOrder
<1>14. result.fires = expected.fires
  BY <1>5, <1>6 DEF ClearOutcomes
<1>15. result.clearing_price = p
  BY DEF p
<1> QED  BY <1>5, <1>6, <1>11, <1>12, <1>13, <1>14, <1>15 DEF MatchesClear, expected, index

\* Every call of clear returns the outcome that the contract settles with, whatever the
\* order in which the members joined: the loops refine Clear.
THEOREM LoopsComputeClear == ScanSpec => []MatchesClear
<1>1. ScanInv => MatchesClear
  <2> SUFFICES ASSUME ScanInv  PROVE MatchesClear
    OBVIOUS
  <2>1. CASE pc # "done"
    BY <2>1 DEF MatchesClear
  <2>2. CASE pc = "done"
    BY <2>2, NothingMatches, SharedMatches DEF ScanInv
  <2> QED  BY <2>1, <2>2
<1> QED  BY <1>1, ScanInvHolds, PTL

\* Every call of clear that fires charges the least of all prices at which the order meets
\* both floors, and one that does not fire has met them at no price.
THEOREM LoopsFindLeastPrice == ScanSpec => []MinimalPrice
<1>1. ASSUME ScanInv, MatchesClear
      PROVE  MinimalPrice
  <2> SUFFICES ASSUME pc = "done"
               PROVE  LET prices == {p \in 1 .. MaxUnitPrice : Suffices(p)}
                      IN  /\ result.fires <=> prices # {}
                          /\ result.fires => result.clearing_price = Min(prices)
    BY DEF MinimalPrice
  <2> DEFINE outcome == Clear(floor, Chosen, CurveOf(views), fee)
             prices  == {p \in 1 .. MaxUnitPrice : Suffices(p)}
             all     == {p \in Nat \ {0} : Suffices(p)}
  <2>1. /\ floor.threshold_qty \in Nat /\ floor.threshold_value \in Nat
        /\ ~ (floor.threshold_qty = 0 /\ floor.threshold_value = 0)
        /\ fee \in 0 .. BPS_DENOM /\ fee \in Nat
    <3>1. floor \in PoolFloors /\ fee \in Fees
      BY <1>1 DEF ScanInv
    <3>2. fee \in 0 .. BPS_DENOM
      BY <3>1, ScanAssumption
    <3> QED  BY <3>1, <3>2, ScanAssumption DEF BPS_DENOM
  <2>2. /\ IsFiniteSet(Chosen)
        /\ \A k \in Chosen : /\ CurveOf(views)[k] \in Seq(SchedulePoint)
                             /\ ValidSchedule(CurveOf(views)[k])
    <3>1. views \in Views
      BY <1>1 DEF ScanInv
    <3> QED  BY <3>1, ViewsAreValid DEF Chosen
  <2>3. result.fires = outcome.fires /\ result.clearing_price = outcome.clearing_price
    BY <1>1 DEF MatchesClear
  <2>4. /\ outcome.fires <=> all # {}
        /\ outcome.fires => outcome.clearing_price = Min(all)
    BY <2>1, <2>2, ClearIsMinimal DEF Suffices
  <2>5. outcome.fires => outcome.clearing_price \in 1 .. MaxUnitPrice
    BY <2>1, <2>2, ClearMeetsFloors
  <2>6. prices \subseteq all /\ all \in SUBSET Nat
    BY ClearingAssumption
  <2> HIDE DEF outcome, all
  <2>7. CASE all = {}
    BY <2>3, <2>4, <2>6, <2>7
  <2>8. CASE all # {}
    <3>1. Min(all) \in all /\ \A q \in all : Min(all) <= q
      BY <2>6, <2>8, MinOfNaturals
    <3>2. Min(all) \in prices
      BY <2>4, <2>5, <2>8, <3>1 DEF all
    <3>3. prices # {} /\ prices \in SUBSET Nat
      BY <2>6, <3>2
    <3> HIDE DEF prices
    <3>4. Min(prices) \in prices /\ \A q \in prices : Min(prices) <= q
      BY <3>3, MinOfNaturals
    <3>5. Min(prices) <= Min(all) /\ Min(all) <= Min(prices)
      BY <2>6, <3>1, <3>2, <3>4
    <3>6. Min(prices) \in Nat /\ Min(all) \in Nat
      BY <2>6, <3>1, <3>3, <3>4
    <3>7. Min(prices) = Min(all)
      BY <3>5, <3>6
    <3> QED  BY <2>3, <2>4, <2>8, <3>2, <3>7 DEF prices
  <2> QED  BY <2>7, <2>8
<1> QED  BY <1>1, ScanInvHolds, LoopsComputeClear, PTL

-----------------------------------------------------------------------------
(* The loops end                                                           *)

\* The loops in the order in which they run, the last one first.
Stage ==
    CASE pc = "sort" -> 5 [] pc = "merge" -> 4 [] pc = "scan" -> 3
      [] pc = "bisect" -> 2 [] pc = "allocate" -> 1 [] pc = "done" -> 0

\* How many more turns the running loop may take, at most.
Turns ==
    CASE pc = "sort"     -> Len(views) + 1 - next
      [] pc = "merge"    -> (Len(sorted) + 1 - next) * (MaxSchedulePoints + 2)
                               + (MaxSchedulePoints + 1 - point)
      [] pc = "scan"     -> Len(breakpoints) + 1 - next
      [] pc = "bisect"   -> hi - lo
      [] pc = "allocate" -> Len(sorted) + 1 - next
      [] pc = "done"     -> 0

\* Either the running loop is left for a later one or it has fewer turns to take, the
\* search at most half as many.
CountDown ==
    \/ Stage' < Stage
    \/ /\ Stage' = Stage
       /\ Turns' < Turns
       /\ pc = "bisect" => 2 * Turns' <= Turns

\* A schedule has at most MaxSchedulePoints points, and the merge loop stays within it.
PointInv == pc \in {"sort", "merge"} => point \in 1 .. MaxSchedulePoints + 1

\* The merge loop moves on to the next kid after the last point of one.
LEMMA PointInvHolds == ScanSpec => []PointInv
<1>1. ScanInit => PointInv
  BY ClearingAssumption DEF ScanInit, PointInv
<1>2. ASSUME ScanInv, PointInv, [ScanNext]_scanVars
      PROVE  PointInv'
  <2>1. CASE MergePoint
    <3>1. /\ pc = "merge" /\ next \in 1 .. Len(sorted) + 1 /\ next <= Len(sorted)
          /\ point \in Nat \ {0} /\ point <= Len(sorted[next].schedule) /\ point' = point + 1
          /\ views \in Views /\ Gathered(Len(views) + 1)
      BY <1>2, <2>1 DEF ScanInv, MergePoint
    <3>2. next \in DOMAIN sorted
      <4>1. Len(sorted) \in Nat /\ DOMAIN sorted = 1 .. Len(sorted)
        BY <3>1, KidsArePlaced
      <4> QED  BY <3>1, <4>1
    <3>3. Len(sorted[next].schedule) \in 1 .. MaxSchedulePoints
      BY <3>1, <3>2, KidsAreValid DEF ValidSchedule
    <3> QED  BY <3>1, <3>3, ClearingAssumption DEF PointInv
  <2>2. CASE NextKid
    BY <2>2, ClearingAssumption DEF NextKid, PointInv
  <2>3. CASE SortKids
    BY <1>2, <2>3 DEF SortKids, PointInv
  <2>4. CASE Sorted
    BY <1>2, <2>4 DEF Sorted, PointInv
  <2>5. CASE Merged \/ ScannedInVain \/ Skip \/ Hit
    BY <1>2, <2>5 DEF Merged, ScannedInVain, Skip, Hit, PointInv
  <2>6. CASE Bisect \/ Found \/ Allocate \/ Allocated
    BY <1>2, <2>6 DEF Bisect, Found, Allocate, Allocated, PointInv
  <2>7. CASE UNCHANGED scanVars
    BY <1>2, <2>7 DEF scanVars, PointInv
  <2> QED  BY <1>2, <2>1, <2>2, <2>3, <2>4, <2>5, <2>6, <2>7 DEF ScanNext
<1> QED  BY <1>1, <1>2, ScanInvHolds, PTL DEF ScanSpec

\* The number of turns left is a number: no loop runs past its end.
LEMMA TurnsType ==
    ASSUME ScanInv, PointInv
    PROVE  Stage \in 0 .. 5 /\ Turns \in Nat
<1>1. /\ pc \in {"sort", "merge", "scan", "bisect", "allocate", "done"}
      /\ Stage \in 0 .. 5
  BY DEF ScanInv, Stage
<1>2. CASE pc = "sort"
  <2>1. next \in 1 .. Len(views) + 1 /\ Len(views) \in Nat
    BY <1>2, ViewsAreValid DEF ScanInv
  <2>2. Turns = Len(views) + 1 - next
    BY <1>2 DEF Turns
  <2> QED  BY <1>1, <1>2, <2>1, <2>2
<1>3. CASE pc = "merge"
  <2>1. /\ next \in 1 .. Len(sorted) + 1 /\ Len(sorted) \in Nat
        /\ point \in 1 .. MaxSchedulePoints + 1 /\ MaxSchedulePoints \in Nat
    BY <1>3, KidsArePlaced, ClearingAssumption DEF ScanInv, PointInv
  <2>2. Turns = (Len(sorted) + 1 - next) * (MaxSchedulePoints + 2) + (MaxSchedulePoints + 1 - point)
    BY <1>3 DEF Turns
  <2>3. /\ Len(sorted) + 1 - next \in Nat /\ MaxSchedulePoints + 2 \in Nat
        /\ MaxSchedulePoints + 1 - point \in Nat
    BY <2>1
  <2>4. \A x, y, z \in Nat : x * y + z \in Nat
    OBVIOUS
  <2>5. Turns \in Nat
    BY <2>2, <2>3, <2>4
  <2> QED  BY <1>1, <1>3, <2>5
<1>4. CASE pc = "scan"
  <2>1. next \in 1 .. Len(breakpoints) + 1 /\ Len(breakpoints) \in Nat
    BY <1>4, ScanFacts DEF Passed
  <2>2. Turns = Len(breakpoints) + 1 - next
    BY <1>4 DEF Turns
  <2> QED  BY <1>1, <1>4, <2>1, <2>2
<1>5. CASE pc = "bisect"
  <2>1. lo \in Nat /\ hi \in Nat /\ lo <= hi
    BY <1>5 DEF ScanInv, Searched
  <2>2. Turns = hi - lo
    BY <1>5 DEF Turns
  <2> QED  BY <1>1, <1>5, <2>1, <2>2
<1>6. CASE pc = "allocate"
  <2>1. next \in 1 .. Len(sorted) + 1 /\ Len(sorted) \in Nat
    BY <1>6, KidsArePlaced DEF ScanInv
  <2>2. Turns = Len(sorted) + 1 - next
    BY <1>6 DEF Turns
  <2> QED  BY <1>1, <1>6, <2>1, <2>2
<1>7. CASE pc = "done"
  <2>1. Turns = 0
    BY <1>7 DEF Turns
  <2> QED  BY <1>1, <1>7, <2>1
<1> QED  BY <1>1, <1>2, <1>3, <1>4, <1>5, <1>6, <1>7

\* Every step of a call brings its end nearer: a loop is left for a later one, which is
\* not entered again, or has a turn less to take, and the binary search halves what is
\* left.  Only a call that stops taking steps does not return.
THEOREM LoopsRunOut ==
    ScanSpec => /\ [](Stage \in 0 .. 5 /\ Turns \in Nat)
                /\ [][CountDown]_scanVars
<1>1. ScanInv /\ PointInv => Stage \in 0 .. 5 /\ Turns \in Nat
  BY TurnsType
<1>2. ASSUME ScanInv, ScanInv', PointInv, PointInv', ScanNext
      PROVE  CountDown
  <2>1. /\ Stage \in 0 .. 5 /\ Turns \in Nat
        /\ Stage' \in 0 .. 5 /\ Turns' \in Nat
    <3>1. Stage \in 0 .. 5 /\ Turns \in Nat
      BY <1>2, TurnsType
    <3>2. (ScanInv /\ PointInv => Stage \in 0 .. 5 /\ Turns \in Nat)'
      BY TurnsType, PTL
    <3> QED  BY <1>2, <3>1, <3>2
  <2>2. CASE SortKids
    <3>1. pc = "sort" /\ pc' = "sort" /\ next' = next + 1 /\ views' = views
          /\ next \in 1 .. Len(views) + 1 /\ Len(views) \in Nat
      BY <1>2, <2>2, ViewsAreValid DEF SortKids, ScanInv, arguments
    <3>2. Stage = 5 /\ Stage' = 5 /\ Turns = Len(views) + 1 - next /\ Turns' = Len(views) + 1 - (next + 1)
      BY <3>1 DEF Stage, Turns
    <3> QED  BY <3>1, <3>2 DEF CountDown
  <2>3. CASE Sorted \/ Merged \/ Hit \/ ScannedInVain \/ Found \/ Allocated
    <3>1. \/ pc = "sort" /\ pc' \in {"merge", "done"}
          \/ pc = "merge" /\ pc' = "scan"
          \/ pc = "scan" /\ pc' \in {"bisect", "done"}
          \/ pc = "bisect" /\ pc' = "allocate"
          \/ pc = "allocate" /\ pc' = "done"
      BY <2>3 DEF Sorted, Merged, Hit, ScannedInVain, Found, Allocated
    <3>2. Stage' < Stage
      BY <3>1 DEF Stage
    <3> QED  BY <3>2 DEF CountDown
  <2>4. CASE MergePoint \/ NextKid
    <3> DEFINE weight == MaxSchedulePoints + 2
               kids   == Len(sorted) - next
    <3>1. /\ pc = "merge" /\ pc' = "merge" /\ sorted' = sorted
          /\ next \in 1 .. Len(sorted) + 1 /\ Len(sorted) \in Nat /\ next <= Len(sorted)
          /\ point \in 1 .. MaxSchedulePoints + 1 /\ MaxSchedulePoints \in Nat
          /\ \/ next' = next /\ point' = point + 1
             \/ next' = next + 1 /\ point' = 1
      BY <1>2, <2>4, KidsArePlaced, ClearingAssumption
         DEF MergePoint, NextKid, ScanInv, PointInv
    <3>2. /\ Stage = 4 /\ Stage' = 4
          /\ Turns = (Len(sorted) + 1 - next) * weight + (MaxSchedulePoints + 1 - point)
          /\ Turns' = (Len(sorted) + 1 - next') * weight + (MaxSchedulePoints + 1 - point')
      BY <3>1 DEF Stage, Turns
    <3>3. kids \in Nat /\ Len(sorted) + 1 - next = kids + 1
      BY <3>1
    <3>4. (kids + 1) * weight = kids * weight + weight /\ weight \in Nat /\ kids * weight \in Nat
      <4>1. weight \in Nat
        BY <3>1
      <4>2. \A x, y \in Nat : (x + 1) * y = x * y + y /\ x * y \in Nat
        OBVIOUS
      <4> QED  BY <3>3, <4>1, <4>2
    <3> HIDE DEF kids
    <3>5. CASE next' = next /\ point' = point + 1
      BY <3>1, <3>2, <3>3, <3>4, <3>5 DEF CountDown
    <3>6. CASE next' = next + 1 /\ point' = 1
      <4>1. Len(sorted) + 1 - next' = kids
        BY <3>1, <3>6 DEF kids
      <4> QED  BY <3>1, <3>2, <3>3, <3>4, <3>6, <4>1 DEF CountDown
    <3> QED  BY <3>1, <3>5, <3>6
  <2>5. CASE Skip
    <3>1. pc = "scan" /\ pc' = "scan" /\ next' = next + 1 /\ breakpoints' = breakpoints
          /\ next \in Nat /\ Len(breakpoints) \in Nat
      BY <1>2, <2>5, ScanFacts DEF Skip
    <3>2. /\ Stage = 3 /\ Stage' = 3
          /\ Turns = Len(breakpoints) + 1 - next /\ Turns' = Len(breakpoints) + 1 - (next + 1)
      BY <3>1 DEF Stage, Turns
    <3> QED  BY <3>1, <3>2 DEF CountDown
  <2>6. CASE Bisect
    <3>1. pc = "bisect" /\ pc' = "bisect" /\ lo < hi /\ lo \in Nat /\ hi \in Nat
          /\ Narrow(lo + (hi - lo) \div 2)
      BY <1>2, <2>6 DEF Bisect, ScanInv, Searched
    <3>2. PICK d \in Nat : d = hi - lo /\ hi = lo + d /\ d > 0
      BY <3>1
    <3>3. PICK half \in Nat : half = d \div 2 /\ 2 * half <= d /\ d <= 2 * half + 1
      BY <3>2
    <3>4. \/ hi' = lo + half /\ lo' = lo
          \/ lo' = lo + half + 1 /\ hi' = hi
      <4>1. (hi - lo) \div 2 = half
        BY <3>2, <3>3
      <4> QED  BY <3>1, <3>2, <3>3, <4>1 DEF Narrow
    <3>5. /\ Stage = 2 /\ Stage' = 2
          /\ Turns = hi - lo /\ Turns' = hi' - lo'
      BY <3>1 DEF Stage, Turns
    <3>6. Turns = d /\ (Turns' = half \/ Turns' = d - half - 1)
      BY <3>1, <3>2, <3>4, <3>5
    <3>7. Turns' < Turns /\ 2 * Turns' <= Turns
      <4>1. half < d /\ 2 * (d - half - 1) <= d /\ d - half - 1 < d
        BY <3>2, <3>3
      <4>2. CASE Turns' = half
        BY <3>3, <3>6, <4>1, <4>2
      <4>3. CASE Turns' = d - half - 1
        BY <3>6, <4>1, <4>3
      <4> QED  BY <3>6, <4>2, <4>3
    <3> QED  BY <3>5, <3>7 DEF CountDown
  <2>7. CASE Allocate
    <3>1. pc = "allocate" /\ pc' = "allocate" /\ next' = next + 1 /\ sorted' = sorted
          /\ next \in 1 .. Len(sorted) + 1 /\ Len(sorted) \in Nat
      BY <1>2, <2>7, KidsArePlaced DEF Allocate, ScanInv
    <3>2. /\ Stage = 1 /\ Stage' = 1
          /\ Turns = Len(sorted) + 1 - next /\ Turns' = Len(sorted) + 1 - (next + 1)
      BY <3>1 DEF Stage, Turns
    <3> QED  BY <3>1, <3>2 DEF CountDown
  <2> QED  BY <1>2, <2>2, <2>3, <2>4, <2>5, <2>6, <2>7 DEF ScanNext
<1> QED  BY <1>1, <1>2, ScanInvHolds, PointInvHolds, PTL DEF ScanSpec

=============================================================================
