------------------------- MODULE RoyaltySplitProofs -------------------------
(***************************************************************************)
(* Proofs about RoyaltySplit, for every amount, every list of recipients   *)
(* and every total of basis points.                                        *)
(***************************************************************************)
EXTENDS RoyaltySplit, TLAPS, FiniteSetTheorems

\* The leftover is handed out in order: a recipient that has left the queue has one more
\* than its rounded-down share, and comes before all who are still in it.
InOrder ==
    /\ queue \subseteq Indexes
    /\ \A i \in Indexes : amounts[i] = IF i \in queue THEN floor[i] ELSE floor[i] + 1
    /\ \A i \in Indexes \ queue : \A j \in queue : Before(i, j)

\* The shares are the quotients and remainders of the scaled amounts.
Divided ==
    /\ totalAmount \in Nat \ {0}
    /\ \A i \in Indexes :
        /\ recipients[i].basisPoints \in Nat
        /\ floor[i] \in Nat /\ remainder[i] \in 0..TotalBps - 1
        /\ Scaled(i) = TotalBps * floor[i] + remainder[i]

Shaped ==
    /\ recipients \in Splits /\ totalAmount \in Amounts
    /\ pc \in {"start", "leftover", "done", "rejected"}
    /\ floor \in [Indexes -> Nat] /\ amounts \in [Indexes -> Nat]
    /\ remainder \in [Indexes -> 0..TotalBps - 1]

IndInv == Shaped /\ (pc \in {"leftover", "done"} => Divided /\ InOrder)

LEMMA DivisionOfNat ==
    ASSUME NEW a \in Nat, NEW b \in Nat \ {0}
    PROVE  a \div b \in Nat /\ a % b \in 0..b - 1 /\ a = b * (a \div b) + (a % b)
OBVIOUS

LEMMA ProductOfNat ==
    ASSUME NEW a \in Nat, NEW b \in Nat
    PROVE  a * b \in Nat
OBVIOUS

\* The index is a position in the list.
LEMMA IndexIsNat ==
    ASSUME recipients \in Splits, NEW i \in Indexes
    PROVE  i \in Nat
BY InputsAssumption DEF Indexes

LEMMA InitInvariant == Init => IndInv
BY BpsAssumption DEF Init, IndInv, Shaped, Indexes

\* Share divides, and hands out nothing yet.
LEMMA ShareDivides ==
    ASSUME IndInv, Share
    PROVE  IndInv'
<1> USE DEF IndInv, Shaped, Indexes
<1>1. totalAmount \in Nat \ {0} /\ totalAmount' = totalAmount /\ recipients' = recipients
  BY InputsAssumption DEF Share
<1>2. ASSUME NEW i \in Indexes
      PROVE  /\ recipients[i].basisPoints \in Nat /\ Scaled(i) \in Nat
             /\ Scaled(i) \div TotalBps \in Nat /\ Scaled(i) % TotalBps \in 0..TotalBps - 1
             /\ Scaled(i) = TotalBps * (Scaled(i) \div TotalBps) + (Scaled(i) % TotalBps)
  <2>1. recipients[i].basisPoints \in Nat
    BY BpsAssumption DEF Share, assertValidSplit
  <2>2. Scaled(i) \in Nat
    BY <1>1, <2>1, ProductOfNat DEF Scaled
  <2> QED
    BY <2>1, <2>2, DivisionOfNat, BpsAssumption
<1>3. /\ floor' = [i \in Indexes |-> Scaled(i) \div TotalBps]
      /\ remainder' = [i \in Indexes |-> Scaled(i) % TotalBps]
      /\ amounts' = floor' /\ queue' = Indexes /\ pc' = "leftover"
  BY DEF Share
<1>4. Shaped'
  BY <1>1, <1>2, <1>3
<1>5. \A i : Scaled(i)' = Scaled(i)
  BY <1>1 DEF Scaled
<1>6. Divided'
  BY <1>1, <1>2, <1>3, <1>5 DEF Divided
<1>7. InOrder'
  BY <1>1, <1>3 DEF InOrder
<1> QED
  BY <1>4, <1>6, <1>7

\* Whoever is handed a stroop comes before all who have to go on waiting.
LEMMA HandOutInOrder ==
    ASSUME IndInv, HandOut
    PROVE  IndInv'
<1> USE DEF IndInv, Shaped
<1>1. /\ pc = "leftover" /\ Divided /\ InOrder
      /\ UNCHANGED <<totalAmount, recipients, pc, floor, remainder>>
  BY DEF HandOut
<1>2. PICK k \in queue : /\ \A j \in queue \ {k} : Before(k, j)
                         /\ amounts' = [amounts EXCEPT ![k] = @ + 1]
                         /\ queue' = queue \ {k}
  BY DEF HandOut
<1>3. k \in Indexes /\ Indexes' = Indexes
  BY <1>1, <1>2 DEF InOrder, Indexes
<1>4. Shaped'
  BY <1>1, <1>2, <1>3
<1>5. Divided'
  BY <1>1, <1>3 DEF Divided, Scaled
<1>6. \A i, j : Before(i, j)' = Before(i, j)
  BY <1>1 DEF Before
<1>7. InOrder'
  <2>1. queue' \subseteq Indexes'
    BY <1>1, <1>2, <1>3 DEF InOrder
  <2>2. \A i \in Indexes : amounts'[i] = IF i \in queue' THEN floor'[i] ELSE floor'[i] + 1
    BY <1>1, <1>2, <1>3 DEF InOrder
  <2>3. \A i \in Indexes \ queue' : \A j \in queue' : Before(i, j)'
    BY <1>1, <1>2, <1>6 DEF InOrder
  <2> QED
    BY <1>3, <2>1, <2>2, <2>3 DEF InOrder
<1> QED
  BY <1>1, <1>4, <1>5, <1>7

LEMMA NextKeepsInvariant == IndInv /\ [Next]_vars => IndInv'
<1> SUFFICES ASSUME IndInv, [Next]_vars
             PROVE  IndInv'
  OBVIOUS
<1>1. ASSUME UNCHANGED <<totalAmount, recipients, floor, remainder, amounts, queue>>,
             pc' \in {"rejected"} \/ (pc' = "done" /\ pc = "leftover") \/ pc' = pc
      PROVE  IndInv'
  BY <1>1 DEF IndInv, Shaped, Divided, InOrder, Indexes, Scaled, Before
<1>2. CASE Reject \/ Return \/ UNCHANGED vars
  BY <1>1, <1>2 DEF Reject, Return, vars
<1>3. CASE Share
  BY <1>3, ShareDivides
<1>4. CASE HandOut
  BY <1>4, HandOutInOrder
<1> QED
  BY <1>2, <1>3, <1>4 DEF Next

\* For every payment and every split: each line item is the share rounded down or one
\* stroop more, and the stroops that rounding leaves over go to those who lost the most.
THEOREM LargestRemaindersFirst == Spec => []HardestRoundedFirst
<1>1. IndInv => HardestRoundedFirst
  <2> SUFFICES ASSUME IndInv, pc \in {"leftover", "done"}
               PROVE  HardestRoundedFirst
    BY DEF HardestRoundedFirst
  <2>1. \A i \in Indexes : floor[i] \in Nat /\ amounts[i] \in {floor[i], floor[i] + 1}
    BY DEF IndInv, Divided, InOrder
  <2>2. ASSUME NEW i \in Indexes, NEW j \in Indexes,
               amounts[i] > floor[i], amounts[j] = floor[j]
        PROVE  remainder[i] >= remainder[j]
    <3>1. i \notin queue /\ j \in queue
      BY <2>1, <2>2 DEF IndInv, InOrder
    <3>2. remainder[i] \in Nat /\ remainder[j] \in Nat
      BY BpsAssumption DEF IndInv, Divided
    <3> QED
      BY <3>1, <3>2 DEF IndInv, InOrder, Before
  <2> QED
    BY <2>1, <2>2 DEF HardestRoundedFirst
<1> QED
  BY <1>1, InitInvariant, NextKeepsInvariant, PTL DEF Spec

\* A larger share of the basis points is a larger scaled amount.
LEMMA ScaledGrows ==
    ASSUME NEW t \in Nat \ {0}, NEW a \in Nat, NEW b \in Nat, a > b
    PROVE  t * a > t * b
OBVIOUS

\* Of two numbers the larger has the larger quotient, or the same and a larger remainder.
LEMMA QuotientGrows ==
    ASSUME NEW d \in Nat \ {0}, NEW q \in Nat, NEW r \in 0..d - 1,
           NEW p \in Nat, NEW s \in 0..d - 1, d * q + r > d * p + s
    PROVE  q > p \/ (q = p /\ r > s)
<1>1. CASE q < p
  <2>1. d * (q + 1) <= d * p
    <3>1. p = q + 1 \/ p > q + 1
      BY <1>1
    <3> QED
      BY <3>1, ScaledGrows
  <2>2. d * (q + 1) = d * q + d
    OBVIOUS
  <2>3. d * q \in Nat /\ d * p \in Nat
    BY ProductOfNat
  <2> QED
    BY <2>1, <2>2, <2>3
<1>2. CASE q >= p
  <2>1. d * q \in Nat /\ d * p \in Nat
    BY ProductOfNat
  <2> QED
    BY <1>2, <2>1
<1> QED
  BY <1>1, <1>2

\* For every payment and every split: nobody with more basis points is paid less, neither
\* when the call returns nor while the leftover is being handed out.
THEOREM LargerSharePaidNoLess == Spec => []LargerShareNeverLess
<1>1. IndInv => LargerShareNeverLess
  <2> SUFFICES ASSUME IndInv, pc \in {"leftover", "done"}, NEW i \in Indexes, NEW j \in Indexes,
                      recipients[i].basisPoints > recipients[j].basisPoints
               PROVE  amounts[i] >= amounts[j]
    BY DEF LargerShareNeverLess
  <2>1. Divided /\ InOrder
    BY DEF IndInv
  <2>2. Scaled(i) > Scaled(j)
    BY <2>1, ScaledGrows DEF Divided, Scaled
  <2>3. /\ floor[i] \in Nat /\ floor[j] \in Nat
        /\ remainder[i] \in 0..TotalBps - 1 /\ remainder[j] \in 0..TotalBps - 1
        /\ Scaled(i) = TotalBps * floor[i] + remainder[i]
        /\ Scaled(j) = TotalBps * floor[j] + remainder[j]
    BY <2>1 DEF Divided
  <2>4. floor[i] > floor[j] \/ (floor[i] = floor[j] /\ remainder[i] > remainder[j])
    <3> DEFINE q == floor[i]  r == remainder[i]  p == floor[j]  s == remainder[j]
    <3>1. TotalBps * q + r > TotalBps * p + s
      BY <2>2, <2>3
    <3>2. q \in Nat /\ p \in Nat /\ r \in 0..TotalBps - 1 /\ s \in 0..TotalBps - 1
      BY <2>3
    <3> HIDE DEF q, r, p, s
    <3>3. q > p \/ (q = p /\ r > s)
      BY <3>1, <3>2, QuotientGrows, BpsAssumption
    <3> QED
      BY <3>3 DEF q, r, p, s
  <2>5. amounts[i] = IF i \in queue THEN floor[i] ELSE floor[i] + 1
    BY <2>1 DEF InOrder
  <2>6. amounts[j] = IF j \in queue THEN floor[j] ELSE floor[j] + 1
    BY <2>1 DEF InOrder
  <2>7. CASE floor[i] > floor[j]
    BY <2>3, <2>5, <2>6, <2>7
  <2>8. CASE floor[i] = floor[j] /\ remainder[i] > remainder[j]
    <3>1. i \in queue /\ j \notin queue => FALSE
      <4>1. i \in queue /\ j \notin queue => Before(j, i)
        BY <2>1 DEF InOrder
      <4>2. ~Before(j, i)
        BY <2>3, <2>8, BpsAssumption DEF Before
      <4> QED
        BY <4>1, <4>2
    <3> QED
      BY <2>3, <2>5, <2>6, <2>8, <3>1
  <2> QED
    BY <2>4, <2>7, <2>8
<1> QED
  BY <1>1, InitInvariant, NextKeepsInvariant, PTL DEF Spec

(***************************************************************************)
(* Sums.  SumFunctionOnSet is a fold: a function on the subsets of the     *)
(* domain, chosen to satisfy a recursive equation.  That there is such a   *)
(* function, and what it then says of sums, is proved by induction over    *)
(* the subsets of a finite set.                                            *)
(***************************************************************************)

Pick(s) == CHOOSE x \in s : TRUE
\* it[T] is the sum of f over T, for every subset T of S, by the recursion that picks one
\* element after another.
Summed(it, f, S) ==
    it = [s \in SUBSET S |-> IF s = {} THEN 0 ELSE f[Pick(s)] + it[s \ {Pick(s)}]]
Partial(f, S) == CHOOSE it : Summed(it, f, S)

\* What the fold of the community modules comes down to for a sum.
LEMMA SumIsPartial ==
   ASSUME NEW f, NEW S
   PROVE SumFunctionOnSet(f, S) = Partial(f, S)[S]
BY DEF SumFunctionOnSet, FoldFunctionOnSet, MapThenFoldSet, Partial, Summed, Pick

\* Strict inclusion between finite sets is well-founded.
LEMMA SmallestSubset ==
    ASSUME NEW S, NEW W, W # {}, W \subseteq FiniteSubsetsOf(S)
    PROVE  \E T \in W : \A U \in W : ~(U \subseteq T /\ U # T)
<1>1. PICK T \in W : \A U \in W : ~(<<U, T>> \in StrictSubsetOrdering(S))
  BY WFMin, FS_StrictSubsetOrderingWellFounded
<1> QED
  BY <1>1 DEF StrictSubsetOrdering, FiniteSubsetsOf

\* Induction: a set F of subsets of S that has every subset whose proper subsets it has, has
\* them all.
LEMMA FromSubsets ==
    ASSUME NEW S, IsFiniteSet(S), NEW F,
           \A T \in SUBSET S : (\A U \in SUBSET T : U # T => U \in F) => T \in F
    PROVE  \A T \in SUBSET S : T \in F
<1>1. PICK W : W = (SUBSET S) \ F
  OBVIOUS
<1>2. W \subseteq FiniteSubsetsOf(S)
  BY <1>1, FS_Subset DEF FiniteSubsetsOf
<1>3. CASE W # {}
  BY <1>1, <1>2, <1>3, SmallestSubset
<1> QED
  BY <1>1, <1>3

LEMMA PickIsIn ==
    ASSUME NEW s, s # {}
    PROVE  Pick(s) \in s
BY DEF Pick

\* Two functions that satisfy the equation agree where both are defined ...
LEMMA SumsAgree ==
    ASSUME NEW f, NEW S, IsFiniteSet(S), NEW R \in SUBSET S, NEW T \in SUBSET S, NEW g, NEW h,
           Summed(g, f, R), Summed(h, f, T)
    PROVE  \A s \in SUBSET (R \cap T) : g[s] = h[s]
<1> DEFINE F == {s \in SUBSET S : s \subseteq R \cap T => g[s] = h[s]}
<1>1. ASSUME NEW s \in SUBSET S, \A U \in SUBSET s : U # s => U \in F
      PROVE  s \in F
  <2> SUFFICES ASSUME s \subseteq R \cap T
               PROVE  g[s] = h[s]
    OBVIOUS
  <2>1. g[s] = (IF s = {} THEN 0 ELSE f[Pick(s)] + g[s \ {Pick(s)}])
    BY DEF Summed
  <2>2. h[s] = (IF s = {} THEN 0 ELSE f[Pick(s)] + h[s \ {Pick(s)}])
    BY DEF Summed
  <2>3. CASE s # {}
    <3>1. s \ {Pick(s)} \in SUBSET s /\ s \ {Pick(s)} # s
      BY <2>3, PickIsIn
    <3>2. g[s \ {Pick(s)}] = h[s \ {Pick(s)}]
      BY <1>1, <3>1
    <3> QED
      BY <2>1, <2>2, <3>2
  <2> QED
    BY <2>1, <2>2, <2>3
<1> HIDE DEF F
<1>2. \A s \in SUBSET S : s \in F
  BY <1>1, FromSubsets
<1> QED
  BY <1>2 DEF F

\* ... so there is one: it is put together from those of the proper subsets.
LEMMA PartialIsSummed ==
    ASSUME NEW f, NEW S, IsFiniteSet(S)
    PROVE  \A T \in SUBSET S : Summed(Partial(f, T), f, T)
<1> DEFINE F == {T \in SUBSET S : Summed(Partial(f, T), f, T)}
<1>1. ASSUME NEW T \in SUBSET S, \A U \in SUBSET T : U # T => U \in F
      PROVE  T \in F
  <2> DEFINE it == [s \in SUBSET T |-> IF s = {} THEN 0
                       ELSE f[Pick(s)] + Partial(f, s \ {Pick(s)})[s \ {Pick(s)}]]
  <2>1. ASSUME NEW s \in SUBSET T, s # {}
        PROVE  it[s \ {Pick(s)}] = Partial(f, s \ {Pick(s)})[s \ {Pick(s)}]
    <3>1. PICK r : r = s \ {Pick(s)}
      OBVIOUS
    <3>2. r \in SUBSET T /\ r # T
      BY <2>1, <3>1, PickIsIn
    <3>3. r \in F
      BY <1>1, <3>2
    <3>4. Summed(Partial(f, r), f, r)
      BY <3>3
    <3>5. Partial(f, r)[r] = IF r = {} THEN 0 ELSE f[Pick(r)] + Partial(f, r)[r \ {Pick(r)}]
      BY <3>4 DEF Summed
    <3>6. it[r] = IF r = {} THEN 0 ELSE f[Pick(r)] + Partial(f, r \ {Pick(r)})[r \ {Pick(r)}]
      BY <3>2
    <3>7. CASE r # {}
      <4>1. PICK q : q = r \ {Pick(r)}
        OBVIOUS
      <4>2. q \in SUBSET r /\ q # T /\ q \in SUBSET T
        BY <4>1, <3>2, <3>7, PickIsIn
      <4>3. Summed(Partial(f, q), f, q)
        BY <1>1, <4>2
      <4>4. Partial(f, r)[q] = Partial(f, q)[q]
        BY <3>2, <3>4, <4>2, <4>3, SumsAgree
      <4> QED
        BY <3>1, <3>5, <3>6, <3>7, <4>1, <4>4
    <3> QED
      BY <3>1, <3>5, <3>6, <3>7
  <2>2. Summed(it, f, T)
    BY <2>1 DEF Summed
  <2> QED
    BY <2>2 DEF Partial
<1> HIDE DEF F
<1>2. \A T \in SUBSET S : T \in F
  BY <1>1, FromSubsets
<1> QED
  BY <1>2 DEF F

\* The sum of no numbers, and of some: what the recursion says.
LEMMA SumOfNone ==
    ASSUME NEW f
    PROVE  SumFunctionOnSet(f, {}) = 0
<1>1. Summed(Partial(f, {}), f, {})
  BY PartialIsSummed, FS_EmptySet
<1>2. Partial(f, {})[{}] = 0
  BY <1>1 DEF Summed
<1> QED
  BY <1>2, SumIsPartial

LEMMA SumPicked ==
    ASSUME NEW f, NEW S, IsFiniteSet(S), S # {}
    PROVE  SumFunctionOnSet(f, S) = f[Pick(S)] + SumFunctionOnSet(f, S \ {Pick(S)})
<1>1. PICK r : r = S \ {Pick(S)}
  OBVIOUS
<1>2. r \in SUBSET S /\ S \in SUBSET S
  BY <1>1
<1>3. Summed(Partial(f, S), f, S) /\ Summed(Partial(f, r), f, r)
  BY <1>2, PartialIsSummed
<1>4. Partial(f, S)[S] = f[Pick(S)] + Partial(f, S)[r]
  BY <1>1, <1>3 DEF Summed
<1>5. \A s \in SUBSET (S \cap r) : Partial(f, S)[s] = Partial(f, r)[s]
  BY <1>2, <1>3, SumsAgree
<1>6. Partial(f, S)[r] = Partial(f, r)[r]
  BY <1>2, <1>5
<1> QED
  BY <1>1, <1>4, <1>6, SumIsPartial

\* A sum of integers is one.
LEMMA SumIsInt ==
    ASSUME NEW f, NEW S, IsFiniteSet(S), \A x \in S : f[x] \in Int
    PROVE  \A T \in SUBSET S : SumFunctionOnSet(f, T) \in Int
<1> DEFINE F == {T \in SUBSET S : SumFunctionOnSet(f, T) \in Int}
<1>1. ASSUME NEW T \in SUBSET S, \A U \in SUBSET T : U # T => U \in F
      PROVE  T \in F
  <2>1. CASE T = {}
    BY <2>1, SumOfNone
  <2>2. CASE T # {}
    <3>1. Pick(T) \in T /\ IsFiniteSet(T)
      BY <2>2, PickIsIn, FS_Subset
    <3>2. SumFunctionOnSet(f, T \ {Pick(T)}) \in Int
      BY <1>1, <3>1
    <3>3. SumFunctionOnSet(f, T) = f[Pick(T)] + SumFunctionOnSet(f, T \ {Pick(T)})
      BY <2>2, <3>1, SumPicked
    <3> QED
      BY <3>1, <3>2, <3>3
  <2> QED
    BY <2>1, <2>2
<1> HIDE DEF F
<1>2. \A T \in SUBSET S : T \in F
  BY <1>1, FromSubsets
<1> QED
  BY <1>2 DEF F

\* Whichever element is taken first, the sum is the same.
LEMMA SumWithout ==
    ASSUME NEW f, NEW S, IsFiniteSet(S), \A x \in S : f[x] \in Int
    PROVE  \A T \in SUBSET S : \A x \in T :
               SumFunctionOnSet(f, T) = f[x] + SumFunctionOnSet(f, T \ {x})
<1> DEFINE F == {T \in SUBSET S : \A x \in T :
                    SumFunctionOnSet(f, T) = f[x] + SumFunctionOnSet(f, T \ {x})}
<1>1. ASSUME NEW T \in SUBSET S, \A U \in SUBSET T : U # T => U \in F
      PROVE  T \in F
  <2> SUFFICES ASSUME NEW x \in T
               PROVE  SumFunctionOnSet(f, T) = f[x] + SumFunctionOnSet(f, T \ {x})
    OBVIOUS
  <2>1. PICK p : p = Pick(T) /\ p \in T
    BY PickIsIn
  <2>2. SumFunctionOnSet(f, T) = f[p] + SumFunctionOnSet(f, T \ {p})
    BY <2>1, SumPicked, FS_Subset
  <2>3. CASE p # x
    <3>1. T \ {p} \in F /\ T \ {x} \in F
      BY <1>1, <2>1
    <3>2. (T \ {p}) \ {x} = (T \ {x}) \ {p}
      OBVIOUS
    <3>3. SumFunctionOnSet(f, T \ {p}) = f[x] + SumFunctionOnSet(f, (T \ {p}) \ {x})
      BY <2>3, <3>1
    <3>4. SumFunctionOnSet(f, T \ {x}) = f[p] + SumFunctionOnSet(f, (T \ {p}) \ {x})
      BY <2>1, <2>3, <3>1, <3>2
    <3>5. /\ SumFunctionOnSet(f, (T \ {p}) \ {x}) \in Int
          /\ f[x] \in Int /\ f[p] \in Int
      BY <2>1, SumIsInt
    <3> QED
      BY <2>2, <3>3, <3>4, <3>5
  <2> QED
    BY <2>2, <2>3
<1> HIDE DEF F
<1>2. \A T \in SUBSET S : T \in F
  BY <1>1, FromSubsets
<1> QED
  BY <1>2 DEF F

LEMMA SumAgrees ==
    ASSUME NEW f, NEW g, NEW S, IsFiniteSet(S), \A x \in S : f[x] = g[x]
    PROVE  SumFunctionOnSet(f, S) = SumFunctionOnSet(g, S)
<1> DEFINE F == {T \in SUBSET S : SumFunctionOnSet(f, T) = SumFunctionOnSet(g, T)}
<1>1. ASSUME NEW T \in SUBSET S, \A U \in SUBSET T : U # T => U \in F
      PROVE  T \in F
  <2>1. CASE T = {}
    BY <2>1, SumOfNone
  <2>2. CASE T # {}
    <3>1. Pick(T) \in T /\ IsFiniteSet(T)
      BY <2>2, PickIsIn, FS_Subset
    <3>2. SumFunctionOnSet(f, T \ {Pick(T)}) = SumFunctionOnSet(g, T \ {Pick(T)})
      BY <1>1, <3>1
    <3>3. f[Pick(T)] = g[Pick(T)]
      BY <3>1
    <3> QED
      BY <2>2, <3>1, <3>2, <3>3, SumPicked
  <2> QED
    BY <2>1, <2>2
<1> HIDE DEF F
<1>2. \A T \in SUBSET S : T \in F
  BY <1>1, FromSubsets
<1> QED
  BY <1>2 DEF F

\* One more in one place is one more in all.
LEMMA SumOneMore ==
    ASSUME NEW S, IsFiniteSet(S), NEW f \in [S -> Int], NEW k \in S
    PROVE  SumFunction([f EXCEPT ![k] = @ + 1]) = SumFunction(f) + 1
<1>1. PICK g : g = [f EXCEPT ![k] = @ + 1]
  OBVIOUS
<1>2. g \in [S -> Int] /\ g[k] = f[k] + 1 /\ \A x \in S \ {k} : g[x] = f[x]
  BY <1>1
<1>3. SumFunctionOnSet(f, S \ {k}) = SumFunctionOnSet(g, S \ {k})
  BY <1>2, SumAgrees, FS_Subset
<1>4. /\ SumFunctionOnSet(f, S) = f[k] + SumFunctionOnSet(f, S \ {k})
      /\ SumFunctionOnSet(g, S) = g[k] + SumFunctionOnSet(g, S \ {k})
  BY <1>2, SumWithout
<1>5. SumFunctionOnSet(f, S \ {k}) \in Int /\ f[k] \in Int
  BY SumIsInt
<1>6. SumFunction(f) = SumFunctionOnSet(f, S) /\ SumFunction(g) = SumFunctionOnSet(g, S)
  BY <1>2 DEF SumFunction
<1> QED
  BY <1>1, <1>2, <1>3, <1>4, <1>5, <1>6

LEMMA Distributes ==
    ASSUME NEW a \in Int, NEW b \in Int, NEW c \in Int
    PROVE  a * (b + c) = a * b + a * c /\ a * b \in Int
OBVIOUS

\* a f = t g + h, summed up.
LEMMA SumOfDivision ==
    ASSUME NEW S, IsFiniteSet(S), NEW a \in Int, NEW t \in Int, NEW f, NEW g, NEW h,
           \A x \in S : f[x] \in Int /\ g[x] \in Int /\ h[x] \in Int /\ a * f[x] = t * g[x] + h[x]
    PROVE  a * SumFunctionOnSet(f, S) = t * SumFunctionOnSet(g, S) + SumFunctionOnSet(h, S)
<1> DEFINE Divides(T) == a * SumFunctionOnSet(f, T)
                         = t * SumFunctionOnSet(g, T) + SumFunctionOnSet(h, T)
           F == {T \in SUBSET S : Divides(T)}
<1>1. ASSUME NEW T \in SUBSET S, \A U \in SUBSET T : U # T => U \in F
      PROVE  T \in F
  <2>1. CASE T = {}
    BY <2>1, SumOfNone
  <2>2. CASE T # {}
    <3>1. PICK p, U : p = Pick(T) /\ U = T \ {p}
      OBVIOUS
    <3>2. p \in T /\ p \in S /\ IsFiniteSet(T) /\ U \in SUBSET T /\ U # T /\ U \in SUBSET S
      BY <2>2, <3>1, PickIsIn, FS_Subset
    <3>3. PICK x, y, z : x = SumFunctionOnSet(f, U) /\ y = SumFunctionOnSet(g, U) /\ z = SumFunctionOnSet(h, U)
      OBVIOUS
    <3>4. x \in Int /\ y \in Int /\ z \in Int
      BY <3>2, <3>3, SumIsInt
    <3>5. a * x = t * y + z
      BY <1>1, <3>2, <3>3
    <3>6. /\ SumFunctionOnSet(f, T) = f[p] + x
          /\ SumFunctionOnSet(g, T) = g[p] + y
          /\ SumFunctionOnSet(h, T) = h[p] + z
      BY <2>2, <3>1, <3>2, <3>3, SumPicked
    <3>7. /\ a * (f[p] + x) = a * f[p] + a * x /\ a * f[p] \in Int /\ a * x \in Int
          /\ t * (g[p] + y) = t * g[p] + t * y /\ t * g[p] \in Int /\ t * y \in Int
      BY <3>2, <3>4, Distributes
    <3>8. a * f[p] = t * g[p] + h[p] /\ h[p] \in Int
      BY <3>2
    <3> HIDE DEF F
    <3>9. a * (f[p] + x) = t * (g[p] + y) + (h[p] + z)
      BY <3>4, <3>5, <3>7, <3>8
    <3>10. Divides(T)
      BY <3>6, <3>9
    <3> QED
      BY <3>10 DEF F
  <2> QED
    BY <2>1, <2>2
<1> HIDE DEF F
<1>2. \A T \in SUBSET S : T \in F
  BY <1>1, FromSubsets
<1> QED
  BY <1>2 DEF F

\* A sum of numbers up to b.
LEMMA SumBetween ==
    ASSUME NEW S, IsFiniteSet(S), NEW b \in Nat, NEW f, \A x \in S : f[x] \in 0..b
    PROVE  SumFunctionOnSet(f, S) \in Nat /\ SumFunctionOnSet(f, S) <= b * Cardinality(S)
<1> DEFINE Bounded(T) == SumFunctionOnSet(f, T) \in Nat /\ SumFunctionOnSet(f, T) <= b * Cardinality(T)
           F == {T \in SUBSET S : Bounded(T)}
<1>1. ASSUME NEW T \in SUBSET S, \A U \in SUBSET T : U # T => U \in F
      PROVE  T \in F
  <2>1. CASE T = {}
    BY <2>1, SumOfNone, FS_EmptySet
  <2>2. CASE T # {}
    <3>1. PICK p, U : p = Pick(T) /\ U = T \ {p}
      OBVIOUS
    <3>2. p \in T /\ p \in S /\ IsFiniteSet(T) /\ U \in SUBSET T /\ U # T /\ U \in SUBSET S
      BY <2>2, <3>1, PickIsIn, FS_Subset
    <3>3. PICK x, n : x = SumFunctionOnSet(f, U) /\ n = Cardinality(U)
      OBVIOUS
    <3>4. n \in Nat /\ Cardinality(T) = n + 1
      BY <3>1, <3>2, <3>3, FS_RemoveElement, FS_Subset, FS_CardinalityType
    <3>5. x \in Nat /\ x <= b * n
      BY <1>1, <3>2, <3>3
    <3>6. SumFunctionOnSet(f, T) = f[p] + x
      BY <2>2, <3>1, <3>2, <3>3, SumPicked
    <3>7. b * (n + 1) = b * n + b * 1 /\ b * n \in Int /\ b * 1 = b
      BY <3>4, Distributes
    <3>8. f[p] \in Nat /\ f[p] <= b
      BY <3>2
    <3> HIDE DEF F
    <3>9. f[p] + x \in Nat /\ f[p] + x <= b * (n + 1)
      BY <3>5, <3>7, <3>8
    <3>10. Bounded(T)
      BY <3>4, <3>6, <3>9
    <3> QED
      BY <3>10 DEF F
  <2> QED
    BY <2>1, <2>2
<1> HIDE DEF F
<1>2. \A T \in SUBSET S : T \in F
  BY <1>1, FromSubsets
<1> QED
  BY <1>2 DEF F

(***************************************************************************)
(* What has been handed out and what is left over.                         *)
(***************************************************************************)

LEMMA IndexesFinite ==
    ASSUME recipients \in Splits
    PROVE  IsFiniteSet(Indexes)
<1>1. Indexes = 1..Len(recipients) /\ Len(recipients) \in Int
  BY InputsAssumption DEF Indexes
<1> QED
  BY <1>1, FS_Interval

\* The leftover is never more than the recipients who wait for a stroop of it.
LeftoverInv ==
    /\ shortfall \in Nat
    /\ pc \in {"leftover", "done"} =>
           /\ SumFunction(amounts) + shortfall = totalAmount
           /\ shortfall <= Cardinality(queue)
    /\ pc = "done" => shortfall = 0

\* t s is a sum of n remainders, each below t.
LEMMA QuotientOfSum ==
    ASSUME NEW t \in Nat \ {0}, NEW n \in Nat, NEW s \in Int, t * s >= 0, t * s <= (t - 1) * n
    PROVE  s \in Nat /\ s <= n
<1>1. ASSUME s < 0
      PROVE  FALSE
  <2>1. t * (-s) \in Nat /\ t * (-s) # 0
    <3>1. -s \in Nat \ {0}
      BY <1>1
    <3> QED
      BY <3>1, ScaledGrows, Distributes
  <2> QED
    BY <2>1
<1>2. ASSUME s > n
      PROVE  FALSE
  <2>1. t * s > t * n
    BY <1>1, <1>2, ScaledGrows
  <2>2. t * n = (t - 1) * n + n
    OBVIOUS
  <2>3. (t - 1) * n \in Int /\ t * n \in Int /\ t * s \in Int
    BY Distributes
  <2> QED
    BY <2>1, <2>2, <2>3
<1> QED
  BY <1>1, <1>2

\* All of the basis points together make the payment: what rounding leaves over is the sum
\* of the remainders.
LEMMA ShareLeavesOver ==
    ASSUME IndInv, Share
    PROVE  LeftoverInv'
<1>1. IndInv' /\ pc' = "leftover"
  BY ShareDivides DEF Share
<1>2. /\ totalAmount \in Nat \ {0} /\ totalAmount' = totalAmount
      /\ recipients' = recipients /\ recipients \in Splits /\ Indexes' = Indexes
      /\ queue' = Indexes /\ amounts' = floor'
      /\ floor' = [i \in Indexes |-> Scaled(i) \div TotalBps]
      /\ remainder' = [i \in Indexes |-> Scaled(i) % TotalBps]
      /\ shortfall' = totalAmount - SumFunction(floor')
  BY InputsAssumption DEF Share, IndInv, Shaped, Indexes
<1>3. IsFiniteSet(Indexes) /\ Cardinality(Indexes) \in Nat
  BY <1>2, IndexesFinite, FS_CardinalityType
<1>4. PICK bps : bps = [i \in Indexes |-> recipients[i].basisPoints]
  OBVIOUS
<1>5. \A i \in Indexes : /\ bps[i] \in Int /\ floor'[i] \in Int /\ remainder'[i] \in 0..TotalBps - 1
                         /\ totalAmount * bps[i] = TotalBps * floor'[i] + remainder'[i]
  BY <1>1, <1>2, <1>4 DEF IndInv, Divided, Scaled
<1>6. SumFunctionOnSet(bps, Indexes) = TotalBps
  <2>1. SumFunction(bps) = TotalBps
    BY <1>4 DEF Share, assertValidSplit, Indexes
  <2> QED
    BY <1>4, <2>1 DEF SumFunction
<1>7. PICK sum, left : sum = SumFunctionOnSet(floor', Indexes) /\ left = SumFunctionOnSet(remainder', Indexes)
  OBVIOUS
<1>8. SumFunction(floor') = sum /\ sum \in Int
  BY <1>2, <1>3, <1>5, <1>7, SumIsInt DEF SumFunction
<1>9. totalAmount * TotalBps = TotalBps * sum + left
  <2>1. TotalBps \in Int /\ totalAmount \in Int /\ \A i \in Indexes : remainder'[i] \in Int
    BY <1>2, <1>5, BpsAssumption
  <2> QED
    BY <1>3, <1>5, <1>6, <1>7, <2>1, SumOfDivision
<1>10. left \in Nat /\ left <= (TotalBps - 1) * Cardinality(Indexes)
  BY <1>3, <1>5, <1>7, SumBetween, BpsAssumption
<1>11. shortfall' = totalAmount - sum /\ shortfall' \in Int
  BY <1>2, <1>8
<1>12. TotalBps * shortfall' = left
  <2>1. TotalBps * (totalAmount - sum) = TotalBps * totalAmount - TotalBps * sum
    BY <1>2, <1>8, BpsAssumption
  <2>2. TotalBps * totalAmount = totalAmount * TotalBps /\ TotalBps * totalAmount \in Int
        /\ TotalBps * sum \in Int
    BY <1>2, <1>8, BpsAssumption, Distributes
  <2> QED
    BY <1>9, <1>10, <1>11, <2>1, <2>2
<1>13. shortfall' \in Nat /\ shortfall' <= Cardinality(Indexes)
  BY <1>3, <1>10, <1>11, <1>12, QuotientOfSum, BpsAssumption
<1> QED
  BY <1>1, <1>2, <1>8, <1>11, <1>13 DEF LeftoverInv

LEMMA HandOutOneLess ==
    ASSUME IndInv, LeftoverInv, HandOut
    PROVE  LeftoverInv'
<1>1. PICK k \in queue : /\ amounts' = [amounts EXCEPT ![k] = @ + 1]
                         /\ queue' = queue \ {k}
  BY DEF HandOut
<1>2. /\ pc = "leftover" /\ pc' = "leftover" /\ shortfall > 0 /\ shortfall' = shortfall - 1
      /\ totalAmount' = totalAmount
  BY DEF HandOut, LeftOver
<1>3. /\ IsFiniteSet(Indexes) /\ queue \subseteq Indexes /\ amounts \in [Indexes -> Int]
      /\ totalAmount \in Nat
  BY <1>2, IndexesFinite DEF IndInv, Shaped, InOrder, Divided
<1>4. SumFunction(amounts') = SumFunction(amounts) + 1
  BY <1>1, <1>3, SumOneMore
<1>5. SumFunction(amounts) \in Int
  BY <1>3, SumIsInt DEF SumFunction
<1>6. /\ Cardinality(queue') = Cardinality(queue) - 1
      /\ Cardinality(queue) \in Nat
  BY <1>1, <1>3, FS_RemoveElement, FS_Subset, FS_CardinalityType
<1> QED
  BY <1>2, <1>4, <1>5, <1>6 DEF LeftoverInv

\* For every payment and every split, "the line items always sum to exactly totalAmount": at
\* every turn of the loop over the leftover, and when the call returns.
THEOREM NothingLostToRounding == Spec => []NoStroopLost
<1>1. Init => LeftoverInv
  BY DEF Init, LeftoverInv
<1>2. IndInv /\ LeftoverInv /\ [Next]_vars => LeftoverInv'
  <2> SUFFICES ASSUME IndInv, LeftoverInv, [Next]_vars
               PROVE  LeftoverInv'
    OBVIOUS
  <2>1. CASE Reject \/ UNCHANGED vars
    BY <2>1 DEF Reject, vars, LeftoverInv
  <2>2. CASE Share
    BY <2>2, ShareLeavesOver
  <2>3. CASE HandOut
    BY <2>3, HandOutOneLess
  <2>4. CASE Return
    <3>1. shortfall = 0
      BY <2>4, FS_EmptySet DEF Return, LeftOver, LeftoverInv
    <3> QED
      BY <2>4, <3>1 DEF Return, LeftoverInv
  <2> QED
    BY <2>1, <2>2, <2>3, <2>4 DEF Next
<1>3. IndInv /\ LeftoverInv => NoStroopLost
  BY DEF IndInv, Shaped, LeftoverInv, NoStroopLost
<1> QED
  BY <1>1, <1>2, <1>3, InitInvariant, NextKeepsInvariant, PTL DEF Spec
=============================================================================
