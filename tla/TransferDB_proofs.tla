--------------------------- MODULE TransferDB_proofs ---------------------------
(***************************************************************************)
(* Proofs about TransferDB, for every set of accounts and sessions.        *)
(***************************************************************************)
EXTENDS TransferDB, FiniteSetTheorems, TLAPS

-----------------------------------------------------------------------------
(* Rounding                                                                *)

(* Facts of integer division that the solver finds only on their own.      *)
LEMMA DivNat == ASSUME NEW x \in Nat, NEW y \in Nat \ {0}
                PROVE  x \div y \in Nat
  OBVIOUS

(* A multiple of a cent is whole cents.                                    *)
LEMMA MultipleMod == ASSUME NEW q \in Int, NEW y \in Nat \ {0}
                     PROVE  (q * y) % y = 0
  OBVIOUS

(* Rounding an amount that is not negative gives whole cents that are not  *)
(* negative.                                                               *)
LEMMA RoundNat == ASSUME NEW v \in Nat
                  PROVE  Round(v) \in Nat /\ Round(v) % Scale = 0
  <1> DEFINE q == (2 * v + Scale) \div (2 * Scale)
  <1>1. Scale \in Nat \ {0}
    BY TransferDBAssumption
  <1>2. 2 * v + Scale \in Nat /\ 2 * Scale \in Nat \ {0}
    BY <1>1
  <1>3. q \in Nat
    BY <1>2, DivNat
  <1>4. Round(v) = q * Scale
    BY DEF Round
  <1> HIDE DEF q
  <1>5. q * Scale \in Nat
    BY <1>1, <1>3
  <1> QED
    BY <1>1, <1>3, <1>4, <1>5, MultipleMod

(***************************************************************************)
(* What rounding does to a balance in whole cents when an amount is taken  *)
(* from it or given to it.                                                 *)
(***************************************************************************)
LEMMA DivUnique ==
  ASSUME NEW y \in Nat \ {0}, NEW k \in Int, NEW r \in 0..(y - 1)
  PROVE  (k * y + r) \div y = k
  OBVIOUS

(* Quotient and remainder, in the form in which the other lemmas use them. *)
LEMMA DivMod ==
  ASSUME NEW y \in Nat \ {0}, NEW x \in Int
  PROVE  /\ x = (x \div y) * y + (x % y)
         /\ x % y \in 0..(y - 1) /\ x \div y \in Int
  OBVIOUS

(* Products with the unit, spread out: the solver treats them as opaque.   *)
LEMMA Distribute ==
  ASSUME NEW y \in Nat, NEW q \in Int, NEW k \in Int
  PROVE  /\ (q - k) * (2 * y) = 2 * (q * y) - k * (2 * y)
         /\ (q + k) * (2 * y) = 2 * (q * y) + k * (2 * y)
         /\ (q - k) * y = q * y - k * y
         /\ (q + k) * y = q * y + k * y
  OBVIOUS

(* What a debit and a credit of n really move, in whole cents.             *)
TakenBy(n) == ((2 * n + Scale - 1) \div (2 * Scale)) * Scale

GivenBy(n) == ((2 * n + Scale) \div (2 * Scale)) * Scale

(* Division with remainder by two cents' units, and whole cents.           *)
LEMMA Halves ==
  ASSUME NEW x \in Int
  PROVE  \E k \in Int : \E r \in 0..(2 * Scale - 1) :
           k = x \div (2 * Scale) /\ x = k * (2 * Scale) + r
  <1>1. 2 * Scale \in Nat \ {0}
    BY TransferDBAssumption
  <1>2. PICK y \in Nat \ {0} : y = 2 * Scale
    BY <1>1
  <1>3. /\ x = (x \div y) * y + (x % y)
        /\ x % y \in 0..(y - 1) /\ x \div y \in Int
    BY DivMod
  <1>4. \E k \in Int : \E r \in 0..(y - 1) : k = x \div y /\ x = k * y + r
    BY <1>3
  <1> QED
    BY <1>2, <1>4

(* Whole cents are a multiple of the unit.                                 *)
LEMMA Cents ==
  ASSUME NEW v \in Nat, v % Scale = 0
  PROVE  \E q \in Int : v = q * Scale
  <1>1. Scale \in Nat \ {0}
    BY TransferDBAssumption
  <1>2. v = (v \div Scale) * Scale + (v % Scale) /\ v \div Scale \in Int
    BY <1>1, DivMod
  <1>3. v = (v \div Scale) * Scale
    BY <1>1, <1>2
  <1> QED
    BY <1>2, <1>3

(* Rounding by way of quotient and remainder.                              *)
LEMMA RoundHalves ==
  ASSUME NEW v \in Nat, NEW k \in Int, NEW r \in 0..(2 * Scale - 1),
         2 * v + Scale = k * (2 * Scale) + r
  PROVE  Round(v) = k * Scale
  <1>1. 2 * Scale \in Nat \ {0}
    BY TransferDBAssumption
  <1>2. (k * (2 * Scale) + r) \div (2 * Scale) = k
    BY <1>1, DivUnique
  <1> QED
    BY <1>2 DEF Round

(* Storing a debited balance takes TakenBy from it, halves in favour of    *)
(* the account.                                                            *)
LEMMA RoundMinus ==
  ASSUME NEW v \in Nat, v % Scale = 0, NEW n \in Nat, v >= n
  PROVE  Round(v - n) = v - TakenBy(n)
  <1>1. Scale \in Nat \ {0}
    BY TransferDBAssumption
  <1>2. PICK q \in Int : v = q * Scale
    BY Cents
  <1>3. 2 * n + Scale - 1 \in Int
    BY <1>1
  <1>4. PICK k \in Int : \E r \in 0..(2 * Scale - 1) :
          /\ k = (2 * n + Scale - 1) \div (2 * Scale)
          /\ 2 * n + Scale - 1 = k * (2 * Scale) + r
    BY <1>3, Halves
  <1>5. PICK r \in 0..(2 * Scale - 1) : 2 * n + Scale - 1 = k * (2 * Scale) + r
    BY <1>4
  <1>6. PICK A \in Int, B \in Int, C \in Int :
          A = q * Scale /\ B = k * (2 * Scale) /\ C = (q - k) * (2 * Scale)
    BY <1>1
  <1>7. C = 2 * A - B
    BY <1>1, <1>6, Distribute
  <1>8. 2 * (v - n) + Scale = C + (2 * Scale - 1 - r)
    BY <1>1, <1>2, <1>5, <1>6, <1>7
  <1>9. v - n \in Nat /\ q - k \in Int /\ 2 * Scale - 1 - r \in 0..(2 * Scale - 1)
    BY <1>1
  <1>10. Round(v - n) = (q - k) * Scale
    BY <1>6, <1>8, <1>9, RoundHalves
  <1>11. (q - k) * Scale = v - k * Scale
    BY <1>1, <1>2, Distribute
  <1> QED
    BY <1>4, <1>10, <1>11 DEF TakenBy

(* Storing a credited balance gives GivenBy to it, halves in favour of the *)
(* account.                                                                *)
LEMMA RoundPlus ==
  ASSUME NEW v \in Nat, v % Scale = 0, NEW n \in Nat
  PROVE  Round(v + n) = v + GivenBy(n)
  <1>1. Scale \in Nat \ {0}
    BY TransferDBAssumption
  <1>2. PICK q \in Int : v = q * Scale
    BY Cents
  <1>3. 2 * n + Scale \in Int
    BY <1>1
  <1>4. PICK k \in Int : \E r \in 0..(2 * Scale - 1) :
          /\ k = (2 * n + Scale) \div (2 * Scale)
          /\ 2 * n + Scale = k * (2 * Scale) + r
    BY <1>3, Halves
  <1>5. PICK r \in 0..(2 * Scale - 1) : 2 * n + Scale = k * (2 * Scale) + r
    BY <1>4
  <1>6. PICK A \in Int, B \in Int, C \in Int :
          A = q * Scale /\ B = k * (2 * Scale) /\ C = (q + k) * (2 * Scale)
    BY <1>1
  <1>7. C = 2 * A + B
    BY <1>1, <1>6, Distribute
  <1>8. 2 * (v + n) + Scale = C + r
    BY <1>1, <1>2, <1>5, <1>6, <1>7
  <1>9. v + n \in Nat /\ q + k \in Int
    OBVIOUS
  <1>10. Round(v + n) = (q + k) * Scale
    BY <1>6, <1>8, <1>9, RoundHalves
  <1>11. (q + k) * Scale = v + k * Scale
    BY <1>1, <1>2, Distribute
  <1> QED
    BY <1>4, <1>10, <1>11 DEF GivenBy

(* Nothing is lost or won on an amount in whole cents.                     *)
LEMMA WholeAmount ==
  ASSUME NEW n \in Nat, n % Scale = 0
  PROVE  TakenBy(n) = n /\ GivenBy(n) = n
  <1>1. Scale \in Nat \ {0} /\ 2 * Scale \in Nat \ {0}
    BY TransferDBAssumption
  <1>2. PICK q \in Int : n = q * Scale
    BY Cents
  <1>3. 2 * n = q * (2 * Scale)
    BY <1>1, <1>2
  <1>4. Scale - 1 \in 0..(2 * Scale - 1) /\ Scale \in 0..(2 * Scale - 1)
    BY <1>1
  <1>5. /\ (q * (2 * Scale) + (Scale - 1)) \div (2 * Scale) = q
        /\ (q * (2 * Scale) + Scale) \div (2 * Scale) = q
    BY <1>1, <1>4, DivUnique
  <1>6. 2 * n + Scale - 1 = q * (2 * Scale) + (Scale - 1)
    BY <1>1, <1>3
  <1> QED
    BY <1>2, <1>3, <1>5, <1>6 DEF TakenBy, GivenBy

(* Both are whole numbers.                                                 *)
LEMMA RoundedTypes ==
  ASSUME NEW n \in Nat
  PROVE  TakenBy(n) \in Int /\ GivenBy(n) \in Int
  BY TransferDBAssumption DEF TakenBy, GivenBy

(***************************************************************************)
(* Moved row by row: what the transfer leaves in the source, in the        *)
(* destination and in every other row.                                     *)
(***************************************************************************)
Debited(b, j) == Round(b[j.src] - j.amount)

Credited(b, j) ==
  Round((IF j.dst = j.src THEN Debited(b, j) ELSE b[j.dst]) + j.amount)

(* The two updates of a transfer, written as one function.                 *)
LEMMA MovedRows ==
  ASSUME NEW b, DOMAIN b = Accounts, NEW j,
         j.src \in Accounts, j.dst \in Accounts
  PROVE  Moved(b, j) = [a \in Accounts |-> IF a = j.dst THEN Credited(b, j)
                                           ELSE IF a = j.src THEN Debited(b, j)
                                           ELSE b[a]]
  BY DEF Moved, Debited, Credited

(* A covered transfer leaves whole, non-negative cents in both rows.       *)
LEMMA MovedNat ==
  ASSUME NEW b \in [Accounts -> Nat], NEW j \in Job,
         j.src \in Accounts, j.dst \in Accounts, b[j.src] >= j.amount
  PROVE  /\ Debited(b, j) \in Nat /\ Debited(b, j) % Scale = 0
         /\ Credited(b, j) \in Nat /\ Credited(b, j) % Scale = 0
  <1>1. j.amount \in Nat
    BY TransferDBAssumption DEF Job
  <1>2. b[j.src] \in Nat /\ b[j.dst] \in Nat
    OBVIOUS
  <1>3. b[j.src] - j.amount \in Nat
    BY <1>1, <1>2
  <1>4. Debited(b, j) \in Nat /\ Debited(b, j) % Scale = 0
    BY <1>3, RoundNat DEF Debited
  <1>5. (IF j.dst = j.src THEN Debited(b, j) ELSE b[j.dst]) + j.amount \in Nat
    BY <1>1, <1>2, <1>4
  <1>6. Credited(b, j) \in Nat /\ Credited(b, j) % Scale = 0
    BY <1>5, RoundNat DEF Credited
  <1> QED
    BY <1>4, <1>6

(***************************************************************************)
(* A covered transfer adds to each row what it gives and takes from it     *)
(* what it takes, also when the two rows are one.                          *)
(***************************************************************************)
LEMMA MovedBy ==
  ASSUME NEW b \in [Accounts -> Nat], \A a \in Accounts : b[a] % Scale = 0,
         NEW j \in Job, j.src \in Accounts, j.dst \in Accounts, b[j.src] >= j.amount,
         NEW a \in Accounts
  PROVE  Moved(b, j)[a] = b[a] + ((IF j.dst = a THEN GivenBy(j.amount) ELSE 0)
                                  - (IF j.src = a THEN TakenBy(j.amount) ELSE 0))
  <1>1. j.amount \in Nat /\ TakenBy(j.amount) \in Int /\ GivenBy(j.amount) \in Int
    BY TransferDBAssumption, RoundedTypes DEF Job
  <1>2. b[j.src] \in Nat /\ b[j.dst] \in Nat /\ b[a] \in Nat
    OBVIOUS
  <1>3. Debited(b, j) = b[j.src] - TakenBy(j.amount)
    BY <1>1, <1>2, RoundMinus DEF Debited
  <1>4. Debited(b, j) \in Nat /\ Debited(b, j) % Scale = 0
    BY MovedNat
  <1>5. Credited(b, j) = (IF j.dst = j.src THEN Debited(b, j) ELSE b[j.dst])
                         + GivenBy(j.amount)
    BY <1>1, <1>2, <1>4, RoundPlus DEF Credited
  <1>6. Moved(b, j)[a] = IF a = j.dst THEN Credited(b, j)
                         ELSE IF a = j.src THEN Debited(b, j) ELSE b[a]
    BY MovedRows
  <1> QED
    BY <1>1, <1>2, <1>3, <1>5, <1>6
-----------------------------------------------------------------------------
(***************************************************************************)
(* Sums.  SumFunction of the community modules is a CHOOSE of a recursive  *)
(* function on subsets.  What a proof needs of it is how it changes when   *)
(* the function changes at one point.  The inductions are on well-founded  *)
(* orders, by a minimal counterexample.                                    *)
(***************************************************************************)

(* The element that the sum takes first.                                   *)
First(s) == CHOOSE x \in s : TRUE

(* g gives the sums of f over the sets of T.                               *)
Sums(g, f, T) ==
  \A s \in T : g[s] = IF s = {} THEN 0 ELSE f[First(s)] + g[s \ {First(s)}]

(* The element that CHOOSE picks belongs to the set.                       *)
LEMMA FirstIn == ASSUME NEW s, s # {} PROVE First(s) \in s
  BY Zenon DEF First

(* Every nonempty set of numbers has a least one.                          *)
LEMMA LeastNat ==
  ASSUME NEW N \in SUBSET Nat, N # {}
  PROVE  \E n \in N : \A m \in N : ~(m < n)
  <1>1. PICK n \in N : \A m \in N : ~(<<m, n>> \in OpToRel(<, Nat))
    BY NatLessThanWellFounded, WFMin
  <1>2. \A m \in N : m < n => <<m, n>> \in OpToRel(<, Nat)
    BY DEF OpToRel
  <1> QED
    BY <1>1, <1>2

(* The subsets of S with at most n elements.                               *)
Upto(S, n) == {s \in SUBSET S : Cardinality(s) <= n}

(* The equations of a sum over a finite set have a solution: one is built  *)
(* for subsets of up to n elements, and a least n without one cannot be.   *)
LEMMA SumsExist ==
  ASSUME NEW S, IsFiniteSet(S), NEW f \in [S -> Int]
  PROVE  \E g \in [SUBSET S -> Int] : Sums(g, f, SUBSET S)
  <1> DEFINE Def(n) == \E g \in [Upto(S, n) -> Int] : Sums(g, f, Upto(S, n))
             Bad == {n \in Nat : ~Def(n)}
  <1>1. \A s \in SUBSET S : IsFiniteSet(s) /\ Cardinality(s) \in Nat /\ Cardinality(s) <= Cardinality(S)
    BY FS_Subset, FS_CardinalityType
  <1>2. \A s \in SUBSET S : s # {} => /\ First(s) \in S
                                      /\ s \ {First(s)} \in SUBSET S
                                      /\ Cardinality(s \ {First(s)}) = Cardinality(s) - 1
    BY <1>1, FirstIn, FS_RemoveElement
  <1>3. Def(0)
    <2>1. Upto(S, 0) = {{}}
      BY <1>1, FS_EmptySet DEF Upto
    <2> DEFINE g == [s \in Upto(S, 0) |-> 0]
    <2>2. g \in [Upto(S, 0) -> Int] /\ Sums(g, f, Upto(S, 0))
      BY <2>1 DEF Sums
    <2> QED
      BY <2>2
  <1>4. ASSUME NEW n \in Nat, Def(n) PROVE Def(n + 1)
    <2>1. PICK h \in [Upto(S, n) -> Int] : Sums(h, f, Upto(S, n))
      BY <1>4
    <2> DEFINE g == [s \in Upto(S, n + 1) |->
                       IF s \in Upto(S, n) THEN h[s] ELSE f[First(s)] + h[s \ {First(s)}]]
    <2>2. \A s \in Upto(S, n + 1) : s # {} => First(s) \in S /\ s \ {First(s)} \in Upto(S, n)
      BY <1>1, <1>2 DEF Upto
    <2>3. Upto(S, n) \subseteq Upto(S, n + 1) /\ {} \in Upto(S, n)
      BY <1>1, FS_EmptySet DEF Upto
    <2>4. g \in [Upto(S, n + 1) -> Int]
      <3>1. ASSUME NEW s \in Upto(S, n + 1), s \notin Upto(S, n)
            PROVE  f[First(s)] + h[s \ {First(s)}] \in Int
        <4>1. f[First(s)] \in Int /\ h[s \ {First(s)}] \in Int
          BY <2>2, <2>3, <3>1
        <4> QED
          BY <4>1
      <3> QED
        BY <3>1
    <2>5. \A s \in Upto(S, n) : g[s] = h[s]
      BY <2>3
    <2>6. \A s \in Upto(S, n + 1) : s # {} => g[s] = f[First(s)] + g[s \ {First(s)}]
      <3> SUFFICES ASSUME NEW s \in Upto(S, n + 1), s # {}
                   PROVE  g[s] = f[First(s)] + g[s \ {First(s)}]
        OBVIOUS
      <3>1. g[s \ {First(s)}] = h[s \ {First(s)}]
        BY <2>2, <2>5
      <3>2. CASE s \in Upto(S, n)
        BY <2>1, <2>5, <3>1, <3>2 DEF Sums
      <3>3. CASE s \notin Upto(S, n)
        BY <3>1, <3>3
      <3> QED
        BY <3>2, <3>3
    <2>7. g[{}] = 0
      BY <2>1, <2>3, <2>5 DEF Sums
    <2>8. Sums(g, f, Upto(S, n + 1))
      BY <2>6, <2>7 DEF Sums
    <2> QED
      BY <2>4, <2>8
  <1>5. Def(Cardinality(S))
    <2> SUFFICES ASSUME ~Def(Cardinality(S)) PROVE FALSE
      OBVIOUS
    <2> HIDE DEF Def
    <2>1. Cardinality(S) \in Bad
      BY <1>1
    <2>2. PICK n \in Bad : \A m \in Bad : ~(m < n)
      BY <2>1, LeastNat
    <2>3. n # 0 /\ n \in Nat /\ n - 1 \in Nat
      BY <1>3, <2>2
    <2>4. Def(n - 1)
      BY <2>2, <2>3
    <2>5. Def((n - 1) + 1)
      BY <1>4, <2>3, <2>4
    <2>6. (n - 1) + 1 = n
      BY <2>3
    <2> QED
      BY <2>2, <2>5, <2>6
  <1>6. Upto(S, Cardinality(S)) = SUBSET S
    BY <1>1 DEF Upto
  <1> QED
    BY <1>5, <1>6

(* The recursive function behind the sum over S.                           *)
SumRec(f, S) ==
  CHOOSE iter : iter = [s \in SUBSET S |->
                          IF s = {} THEN 0 ELSE f[First(s)] + iter[s \ {First(s)}]]

(* The sum of the community modules is that recursive function at the      *)
(* whole set.                                                              *)
LEMMA SumIsRec == ASSUME NEW f, NEW S PROVE SumFunctionOnSet(f, S) = SumRec(f, S)[S]
  BY Zenon DEF SumFunctionOnSet, FoldFunctionOnSet, MapThenFoldSet, SumRec, First

(* It satisfies its equations, as a solution exists.                       *)
LEMMA SumRecSums ==
  ASSUME NEW S, IsFiniteSet(S), NEW f \in [S -> Int]
  PROVE  Sums(SumRec(f, S), f, SUBSET S)
  <1> DEFINE Eq(g) == g = [s \in SUBSET S |->
                             IF s = {} THEN 0 ELSE f[First(s)] + g[s \ {First(s)}]]
  <1>1. PICK g \in [SUBSET S -> Int] : Sums(g, f, SUBSET S)
    BY SumsExist
  <1>2. Eq(g)
    BY <1>1 DEF Sums
  <1>3. SumRec(f, S) = CHOOSE h : Eq(h)
    BY Zenon DEF SumRec
  <1> HIDE DEF Eq
  <1>4. Eq(SumRec(f, S))
    BY <1>2, <1>3, Zenon
  <1> USE DEF Eq
  <1>5. \A s \in SUBSET S : SumRec(f, S)[s] = [t \in SUBSET S |->
             IF t = {} THEN 0 ELSE f[First(t)] + SumRec(f, S)[t \ {First(t)}]][s]
    BY <1>4, Zenon
  <1> QED
    BY <1>5, Zenon DEF Sums


(* Induction over the subsets of a finite set, from the empty set up.      *)
LEMMA SubsetInduction ==
  ASSUME NEW S, IsFiniteSet(S), NEW G \in SUBSET SUBSET S, {} \in G,
         \A s \in SUBSET S : s # {} /\ s \ {First(s)} \in G => s \in G
  PROVE  G = SUBSET S
  <1> DEFINE Bad == (SUBSET S) \ G
  <1>0. IsWellFoundedOn(StrictSubsetOrdering(S), SUBSET S)
    BY FS_StrictSubsetOrderingWellFounded, FS_FiniteSubsetsOfFinite
  <1> SUFFICES ASSUME Bad # {} PROVE FALSE
    OBVIOUS
  <1>1. PICK s \in Bad : \A t \in Bad : ~(<<t, s>> \in StrictSubsetOrdering(S))
    <2>2. Bad \subseteq SUBSET S
      OBVIOUS
    <2> HIDE DEF Bad
    <2> QED
      BY <1>0, <2>2, WFMin
  <1>2. First(s) \in s
    BY FirstIn
  <1>3. <<s \ {First(s)}, s>> \in StrictSubsetOrdering(S)
    BY <1>2 DEF StrictSubsetOrdering
  <1> QED
    BY <1>1, <1>2, <1>3

(* Sums of integers are integers.                                          *)
LEMMA SumsInt ==
  ASSUME NEW S, IsFiniteSet(S), NEW f \in [S -> Int], NEW g, Sums(g, f, SUBSET S)
  PROVE  \A s \in SUBSET S : g[s] \in Int
  <1> DEFINE G == {s \in SUBSET S : g[s] \in Int}
  <1>1. {} \in G
    BY DEF Sums
  <1>2. ASSUME NEW s \in SUBSET S, s # {}, s \ {First(s)} \in G
        PROVE  s \in G
    <2>1. f[First(s)] \in Int
      BY <1>2, FirstIn
    <2>2. g[s] = f[First(s)] + g[s \ {First(s)}]
      BY <1>2 DEF Sums
    <2> QED
      BY <1>2, <2>1, <2>2
  <1>3. G = SUBSET S
    <2> HIDE DEF G
    <2>1. G \in SUBSET SUBSET S
      BY DEF G
    <2> QED
      BY <1>1, <1>2, <2>1, SubsetInduction
  <1> QED
    BY <1>3

(* Two sums whose functions differ at one point differ by that much.       *)
LEMMA SumsChange ==
  ASSUME NEW S, IsFiniteSet(S), NEW f \in [S -> Int], NEW h \in [S -> Int],
         NEW x \in S, \A y \in S \ {x} : h[y] = f[y],
         NEW F, Sums(F, f, SUBSET S), NEW H, Sums(H, h, SUBSET S)
  PROVE  H[S] = F[S] + (h[x] - f[x])
  <1> DEFINE G == {s \in SUBSET S : H[s] = F[s] + (IF x \in s THEN h[x] - f[x] ELSE 0)}
  <1>1. \A s \in SUBSET S : F[s] \in Int /\ H[s] \in Int
    BY SumsInt
  <1>2. {} \in G
    <2>1. F[{}] = 0 /\ H[{}] = 0
      BY DEF Sums
    <2> QED
      BY <2>1
  <1>3. ASSUME NEW s \in SUBSET S, s # {}, s \ {First(s)} \in G
        PROVE  s \in G
    <2>1. PICK y : y = First(s)
      OBVIOUS
    <2>2. PICK t : t = s \ {y}
      OBVIOUS
    <2>3. y \in s /\ y \in S
      BY <1>3, <2>1, FirstIn
    <2>4. F[s] = f[y] + F[t] /\ H[s] = h[y] + H[t]
      BY <1>3, <2>1, <2>2 DEF Sums
    <2>5. H[t] = F[t] + (IF x \in t THEN h[x] - f[x] ELSE 0)
      BY <1>3, <2>1, <2>2
    <2>6. /\ F[t] \in Int /\ H[t] \in Int
          /\ f[y] \in Int /\ h[y] \in Int /\ f[x] \in Int /\ h[x] \in Int
      BY <1>1, <2>2, <2>3
    <2>7. H[s] = F[s] + (IF x \in s THEN h[x] - f[x] ELSE 0)
      <3>1. CASE y = x
        <4>1. x \in s /\ x \notin t
          BY <2>2, <2>3, <3>1
        <4> QED
          BY <2>4, <2>5, <2>6, <3>1, <4>1
      <3>2. CASE y # x
        <4>1. (x \in s <=> x \in t) /\ h[y] = f[y]
          BY <2>2, <2>3, <3>2
        <4> QED
          BY <2>4, <2>5, <2>6, <4>1
      <3> QED
        BY <3>1, <3>2
    <2> QED
      BY <2>7
  <1>4. G = SUBSET S
    <2> HIDE DEF G
    <2>1. G \in SUBSET SUBSET S
      BY DEF G
    <2> QED
      BY <1>2, <1>3, <2>1, SubsetInduction
  <1>5. S \in G
    BY <1>4
  <1> QED
    BY <1>5

(* Changing a function at one point changes its sum by the difference.     *)
LEMMA SumChange ==
  ASSUME NEW S, IsFiniteSet(S), NEW f \in [S -> Int], NEW h \in [S -> Int],
         NEW x \in S, \A y \in S \ {x} : h[y] = f[y]
  PROVE  /\ SumFunction(f) \in Int
         /\ SumFunction(h) = SumFunction(f) + (h[x] - f[x])
  <1>1. SumFunction(f) = SumRec(f, S)[S] /\ SumFunction(h) = SumRec(h, S)[S]
    BY SumIsRec DEF SumFunction
  <1>2. Sums(SumRec(f, S), f, SUBSET S) /\ Sums(SumRec(h, S), h, SUBSET S)
    BY SumRecSums
  <1>3. SumRec(f, S)[S] \in Int
    BY <1>2, SumsInt
  <1> QED
    BY <1>1, <1>2, <1>3, SumsChange

(* The sum of zeros is zero.                                               *)
LEMMA SumZero ==
  ASSUME NEW S, IsFiniteSet(S), NEW f \in [S -> {0}]
  PROVE  SumFunction(f) = 0
  <1>1. PICK F : F = SumRec(f, S)
    OBVIOUS
  <1> DEFINE G == {s \in SUBSET S : F[s] = 0}
  <1>2. f \in [S -> Int]
    OBVIOUS
  <1>3. Sums(F, f, SUBSET S)
    BY <1>1, <1>2, SumRecSums
  <1>4. {} \in G
    BY <1>3 DEF Sums
  <1>5. ASSUME NEW s \in SUBSET S, s # {}, s \ {First(s)} \in G
        PROVE  s \in G
    <2>1. f[First(s)] = 0
      BY <1>5, FirstIn
    <2>2. F[s] = f[First(s)] + F[s \ {First(s)}]
      BY <1>3, <1>5 DEF Sums
    <2> QED
      BY <1>5, <2>1, <2>2
  <1>6. G = SUBSET S
    <2> HIDE DEF G
    <2>1. G \in SUBSET SUBSET S
      BY DEF G
    <2> QED
      BY <1>4, <1>5, <2>1, SubsetInduction
  <1>7. F[S] = 0
    BY <1>6
  <1> QED
    BY <1>1, <1>7, SumIsRec DEF SumFunction

(* What a covered transfer does to the sum of all balances.                *)
LEMMA MovedSum ==
  ASSUME IsFiniteSet(Accounts),
         NEW b \in [Accounts -> Nat], \A a \in Accounts : b[a] % Scale = 0,
         NEW j \in Job, j.src \in Accounts, j.dst \in Accounts, b[j.src] >= j.amount
  PROVE  /\ SumFunction(b) \in Int
         /\ SumFunction(Moved(b, j)) =
              SumFunction(b) + (GivenBy(j.amount) - TakenBy(j.amount))
  <1>1. j.amount \in Nat /\ TakenBy(j.amount) \in Int /\ GivenBy(j.amount) \in Int
    BY TransferDBAssumption, RoundedTypes DEF Job
  <1>2. PICK m : m = [a \in Accounts |-> IF a = j.src THEN b[a] - TakenBy(j.amount)
                                                     ELSE b[a]]
    OBVIOUS
  <1>3. b \in [Accounts -> Int] /\ m \in [Accounts -> Int]
    BY <1>1, <1>2
  <1>4. /\ SumFunction(b) \in Int
        /\ SumFunction(m) = SumFunction(b) + (m[j.src] - b[j.src])
    <2>1. \A a \in Accounts \ {j.src} : m[a] = b[a]
      BY <1>2
    <2> QED
      BY <1>3, <2>1, SumChange
  <1>5. PICK h : h = Moved(b, j)
    OBVIOUS
  <1>6. \A a \in Accounts : h[a] = b[a] + ((IF j.dst = a THEN GivenBy(j.amount) ELSE 0)
                                           - (IF j.src = a THEN TakenBy(j.amount) ELSE 0))
    BY <1>5, MovedBy
  <1>7. DOMAIN h = Accounts
    BY <1>5, MovedRows
  <1>8. \A a \in Accounts : h[a] = m[a] + (IF j.dst = a THEN GivenBy(j.amount) ELSE 0)
    BY <1>1, <1>2, <1>3, <1>6
  <1>9. h \in [Accounts -> Int]
    <2>1. \A a \in Accounts : h[a] \in Int
      BY <1>1, <1>3, <1>8
    <2>2. h = [a \in Accounts |-> h[a]]
      BY <1>5, MovedRows
    <2> QED
      BY <2>1, <2>2
  <1>10. SumFunction(m) \in Int /\ SumFunction(h) = SumFunction(m) + (h[j.dst] - m[j.dst])
    <2>1. \A a \in Accounts \ {j.dst} : h[a] = m[a]
      BY <1>3, <1>8
    <2> QED
      BY <1>3, <1>9, <2>1, SumChange
  <1>11. h[j.dst] - m[j.dst] = GivenBy(j.amount)
    BY <1>1, <1>3, <1>8
  <1>12. m[j.src] - b[j.src] = - TakenBy(j.amount)
    BY <1>1, <1>2
  <1> QED
    BY <1>1, <1>4, <1>5, <1>10, <1>11, <1>12

(* Every amount is a whole number of cents.                                *)
WholeCents == \A n \in Amounts : n % Scale = 0

-----------------------------------------------------------------------------
(* The inductive invariant                                                 *)

Inv == DBTypeOK /\ NoOverdraft /\ LockInv

(* Not overdrawn, a balance is a natural number.                           *)
LEMMA BalanceNat == ASSUME Inv PROVE balance \in [Accounts -> Nat]
  <1>1. balance \in [Accounts -> Int] /\ \A a \in Accounts : balance[a] >= 0
    BY DEF Inv, DBTypeOK, NoOverdraft
  <1> QED
    BY <1>1

(* The invariant holds at first, when no transaction is open.              *)
LEMMA InitInv == DBInit => Inv
  <1> SUFFICES ASSUME DBInit PROVE Inv
    OBVIOUS
  <1> USE TransferDBAssumption DEF DBInit
  <1>1. DBTypeOK
    BY DEF DBTypeOK, Stages, NoDraft
  <1>2. NoOverdraft
    BY DEF NoOverdraft
  <1>3. JobInv /\ SourceInv /\ DestInv /\ OwnerInv
    BY DEF JobInv, SourceInv, DestInv, OwnerInv, Open
  <1>4. DraftInv
    BY DEF DraftInv, Written, NoDraft
  <1> QED
    BY <1>1, <1>2, <1>3, <1>4 DEF Inv, LockInv

(* SELECT FOR UPDATE and the check of the balance establish the lock and   *)
(* the cover.                                                              *)
LEMMA LockSourceInv ==
  ASSUME Inv, NEW s \in Sessions, NEW j \in Job, LockSource(s, j)
  PROVE  Inv'
  <1> USE TransferDBAssumption DEF LockSource, SourceFree
  <1>1. DBTypeOK'
    BY DEF Inv, DBTypeOK, Stages
  <1>2. NoOverdraft'
    BY DEF Inv, NoOverdraft
  <1>3. JobInv'
    BY DEF Inv, LockInv, DBTypeOK, JobInv, Open
  <1>4. SourceInv'
    BY DEF Inv, LockInv, DBTypeOK, JobInv, SourceInv, Open
  <1>5. DestInv'
    BY DEF Inv, LockInv, DBTypeOK, JobInv, DestInv, Open
  <1>6. OwnerInv'
    BY DEF Inv, LockInv, DBTypeOK, OwnerInv
  <1>7. DraftInv'
    <2> SUFFICES ASSUME NEW t \in Sessions
                 PROVE  /\ DOMAIN draft'[t] = Written(t)'
                        /\ stage'[t] = "debited" =>
                            draft'[t][job'[t].src] = Round(balance'[job'[t].src] - job'[t].amount)
                        /\ stage'[t] \in {"credited", "recorded"} =>
                            \A a \in Written(t)' : draft'[t][a] = Moved(balance', job'[t])[a]
       BY DEF DraftInv
    <2>1. CASE t = s
      BY <2>1 DEF Inv, LockInv, DBTypeOK, DraftInv, Written
    <2>2. CASE t # s
      BY <2>2 DEF Inv, LockInv, DBTypeOK, DraftInv, Written
    <2> QED BY <2>1, <2>2
  <1> QED
    BY <1>1, <1>2, <1>3, <1>4, <1>5, <1>6, <1>7 DEF Inv, LockInv

(***************************************************************************)
(* UPDATE accounts on the source: what the session writes is the balance   *)
(* its lock froze, less the amount.                                        *)
(***************************************************************************)
LEMMA DebitInv ==
  ASSUME Inv, NEW s \in Sessions, job[s].dst \in Accounts, Debit(s)
  PROVE  Inv'
  <1> DEFINE src == job[s].src
             amount == job[s].amount
  <1> USE TransferDBAssumption
  <1>1. /\ stage[s] = "locked"
        /\ stage' = [stage EXCEPT ![s] = "debited"]
        /\ UNCHANGED <<balance, rowLock, job>>
    BY DEF Debit
  <1>2. job[s] \in Job /\ src \in Accounts /\ balance[src] >= amount
    BY <1>1 DEF Inv, LockInv, JobInv, SourceInv, Open
  <1>3. amount \in Nat /\ balance[src] \in Int /\ balance[src] - amount \in Nat
    <2>1. amount \in Nat
      BY <1>2 DEF Job
    <2>2. balance[src] \in Int
      BY <1>2 DEF Inv, DBTypeOK
    <2> QED
      BY <2>1, <2>2, <1>2
  <1>4. DOMAIN draft[s] = {} /\ Matching(src) = {src}
    <2>1. Written(s) = {}
      BY <1>1 DEF Written
    <2> QED
      BY <2>1, <1>2 DEF Inv, LockInv, DraftInv, Matching
  <1>5. Row(s, src) = balance[src]
    BY <1>4 DEF Row
  <1>6. draft' = [draft EXCEPT ![s] = [a \in {src} |-> Round(balance[src] - amount)]]
    <2>1. balance[src] + (-amount) = balance[src] - amount
      BY <1>3
    <2>2. draft' = [draft EXCEPT ![s] =
              [a \in {src} |-> IF a \in {src} THEN Round(Row(s, a) + (-amount))
                                              ELSE draft[s][a]]]
      BY <1>4 DEF Debit, UpdateRows
    <2>3. [a \in {src} |-> IF a \in {src} THEN Round(Row(s, a) + (-amount))
                                              ELSE draft[s][a]]
          = [a \in {src} |-> Round(balance[src] - amount)]
      BY <1>5, <2>1
    <2> QED BY <2>2, <2>3
  <1>7. Round(balance[src] - amount) \in Nat
    BY <1>3, RoundNat
  <1>8. DBTypeOK'
    <2>1. ASSUME NEW t \in Sessions
          PROVE  /\ DOMAIN draft'[t] \subseteq Accounts
                 /\ draft'[t] \in [DOMAIN draft'[t] -> Int]
      BY <1>2, <1>6, <1>7 DEF Inv, DBTypeOK
    <2> QED
      BY <1>1, <1>6, <2>1 DEF Inv, DBTypeOK, Stages
  <1>9. NoOverdraft'
    BY <1>1 DEF Inv, NoOverdraft
  <1>10. JobInv' /\ SourceInv' /\ DestInv'
    BY <1>1 DEF Inv, LockInv, DBTypeOK, JobInv, SourceInv, DestInv, Open
  <1>11. OwnerInv'
    BY <1>1 DEF Inv, LockInv, DBTypeOK, OwnerInv
  <1>12. DraftInv'
    <2> SUFFICES ASSUME NEW t \in Sessions
                 PROVE  /\ DOMAIN draft'[t] = Written(t)'
                        /\ stage'[t] = "debited" =>
                            draft'[t][job'[t].src] = Round(balance'[job'[t].src] - job'[t].amount)
                        /\ stage'[t] \in {"credited", "recorded"} =>
                            \A a \in Written(t)' : draft'[t][a] = Moved(balance', job'[t])[a]
       BY DEF DraftInv
    <2>1. CASE t = s
      <3>1. Written(t)' = {src}
        BY <2>1, <1>1, <1>2 DEF Inv, DBTypeOK, Written
      <3> QED
        BY <2>1, <3>1, <1>1, <1>6 DEF Inv, DBTypeOK
    <2>2. CASE t # s
      BY <2>2, <1>1, <1>6 DEF Inv, LockInv, DBTypeOK, DraftInv, Written
    <2> QED BY <2>1, <2>2
  <1> QED
    BY <1>8, <1>9, <1>10, <1>11, <1>12 DEF Inv, LockInv

(***************************************************************************)
(* UPDATE accounts on the destination, which the session locks here if it  *)
(* has not locked it as the source.                                        *)
(***************************************************************************)
LEMMA CreditInv ==
  ASSUME Inv, NEW s \in Sessions, Credit(s)
  PROVE  Inv'
  <1> DEFINE j == job[s]
             src == job[s].src
             dst == job[s].dst
  <1> USE TransferDBAssumption
  <1>1. /\ stage[s] = "debited"
        /\ stage' = [stage EXCEPT ![s] = "credited"]
        /\ UNCHANGED <<balance, job>>
    BY DEF Credit
  <1>2. j \in Job /\ src \in Accounts /\ dst \in Accounts /\ balance[src] >= j.amount
    BY <1>1 DEF Inv, LockInv, JobInv, SourceInv, Open
  <1>3. Matching(dst) = {dst}
    BY <1>2 DEF Matching
  <1>4. /\ rowLock[dst] \in {NoSession, s}
        /\ rowLock' = [rowLock EXCEPT ![dst] = s]
    BY <1>2, <1>3 DEF Credit, Inv, DBTypeOK
  <1>5. DOMAIN draft[s] = {src} /\ draft[s][src] = Debited(balance, j)
    <2>1. Written(s) = {src}
      BY <1>1, <1>2 DEF Written
    <2> QED
      BY <2>1, <1>1 DEF Inv, LockInv, DraftInv, Debited
  <1>6. Row(s, dst) = IF dst = src THEN Debited(balance, j) ELSE balance[dst]
    BY <1>5 DEF Row
  <1>7. draft' = [draft EXCEPT ![s] =
                    [a \in {src, dst} |-> IF a = dst THEN Credited(balance, j)
                                                    ELSE Debited(balance, j)]]
    <2>1. draft' = [draft EXCEPT ![s] =
              [a \in {src} \cup {dst} |-> IF a \in {dst} THEN Round(Row(s, a) + j.amount)
                                                         ELSE draft[s][a]]]
      BY <1>3, <1>5 DEF Credit, UpdateRows
    <2>2. [a \in {src} \cup {dst} |-> IF a \in {dst} THEN Round(Row(s, a) + j.amount)
                                                    ELSE draft[s][a]]
          = [a \in {src, dst} |-> IF a = dst THEN Credited(balance, j)
                                             ELSE Debited(balance, j)]
      BY <1>5, <1>6 DEF Credited
    <2> QED BY <2>1, <2>2
  <1>8. Debited(balance, j) \in Nat /\ Credited(balance, j) \in Nat
    BY <1>2, BalanceNat, MovedNat
  <1>9. DBTypeOK'
    <2>1. ASSUME NEW t \in Sessions
          PROVE  /\ DOMAIN draft'[t] \subseteq Accounts
                 /\ draft'[t] \in [DOMAIN draft'[t] -> Int]
      BY <1>2, <1>7, <1>8 DEF Inv, DBTypeOK
    <2> QED
      BY <1>1, <1>2, <1>4, <1>7, <2>1 DEF Inv, DBTypeOK, Stages
  <1>10. NoOverdraft'
    BY <1>1 DEF Inv, NoOverdraft
  <1>11. JobInv'
    BY <1>1 DEF Inv, LockInv, DBTypeOK, JobInv, Open
  <1>12. SourceInv'
    BY <1>1, <1>2, <1>4 DEF Inv, LockInv, DBTypeOK, JobInv, SourceInv, Open
  <1>13. DestInv'
    BY <1>1, <1>2, <1>4 DEF Inv, LockInv, DBTypeOK, JobInv, DestInv, Open
  <1>14. OwnerInv'
    BY <1>1, <1>2, <1>4 DEF Inv, LockInv, DBTypeOK, OwnerInv
  <1>15. DraftInv'
    <2> SUFFICES ASSUME NEW t \in Sessions
                 PROVE  /\ DOMAIN draft'[t] = Written(t)'
                        /\ stage'[t] = "debited" =>
                            draft'[t][job'[t].src] = Round(balance'[job'[t].src] - job'[t].amount)
                        /\ stage'[t] \in {"credited", "recorded"} =>
                            \A a \in Written(t)' : draft'[t][a] = Moved(balance', job'[t])[a]
       BY DEF DraftInv
    <2>1. CASE t = s
      <3>1. Written(t)' = {src, dst}
        BY <2>1, <1>1, <1>2 DEF Inv, DBTypeOK, Written
      <3>2. \A a \in {src, dst} :
              Moved(balance, j)[a] = IF a = dst THEN Credited(balance, j)
                                               ELSE Debited(balance, j)
        BY <1>2, MovedRows DEF Inv, DBTypeOK
      <3> QED
        BY <2>1, <3>1, <3>2, <1>1, <1>7 DEF Inv, DBTypeOK
    <2>2. CASE t # s
      BY <2>2, <1>1, <1>7 DEF Inv, LockInv, DBTypeOK, DraftInv, Written
    <2> QED BY <2>1, <2>2
  <1> QED
    BY <1>9, <1>10, <1>11, <1>12, <1>13, <1>14, <1>15 DEF Inv, LockInv

(* The row of transactions touches neither balances nor locks.             *)
LEMMA RecordInv ==
  ASSUME Inv, NEW s \in Sessions, Record(s)
  PROVE  Inv'
  <1> USE TransferDBAssumption DEF Record
  <1>1. DBTypeOK'
    BY DEF Inv, DBTypeOK, Stages
  <1>2. NoOverdraft'
    BY DEF Inv, NoOverdraft
  <1>3. JobInv' /\ SourceInv' /\ DestInv'
    BY DEF Inv, LockInv, DBTypeOK, JobInv, SourceInv, DestInv, Open
  <1>4. OwnerInv'
    BY DEF Inv, LockInv, DBTypeOK, OwnerInv
  <1>5. DraftInv'
    <2>1. \A t \in Sessions : Written(t)' = Written(t)
      BY DEF Inv, DBTypeOK, Written
    <2> QED
      BY <2>1 DEF Inv, LockInv, DBTypeOK, DraftInv
  <1> QED
    BY <1>1, <1>2, <1>3, <1>4, <1>5 DEF Inv, LockInv

(***************************************************************************)
(* Ending transactions frees exactly the rows they own, so whatever the    *)
(* other sessions rely on stays, if the rows those own keep their          *)
(* balances.                                                               *)
(***************************************************************************)
LEMMA EndInv ==
  ASSUME Inv, NEW S \in SUBSET Sessions, EndTransactions(S),
         balance' \in [Accounts -> Nat],
         \A a \in Accounts : balance'[a] % Scale = 0,
         \A a \in Accounts : rowLock[a] \notin S => balance'[a] = balance[a]
  PROVE  Inv'
  <1> USE TransferDBAssumption
  <1>1. /\ rowLock' = [a \in Accounts |->
                         IF rowLock[a] \in S THEN NoSession ELSE rowLock[a]]
        /\ draft' = [s \in Sessions |-> IF s \in S THEN NoDraft ELSE draft[s]]
        /\ stage' = [s \in Sessions |-> IF s \in S THEN "idle" ELSE stage[s]]
        /\ job' = [s \in Sessions |-> IF s \in S THEN NoJob ELSE job[s]]
    BY DEF EndTransactions
  <1>2. DBTypeOK'
    <2>1. ASSUME NEW t \in Sessions
          PROVE  /\ DOMAIN draft'[t] \subseteq Accounts
                 /\ draft'[t] \in [DOMAIN draft'[t] -> Int]
      BY <1>1 DEF Inv, DBTypeOK, NoDraft
    <2>2. balance' \in [Accounts -> Int]
      OBVIOUS
    <2>3. /\ rowLock' \in [Accounts -> Sessions \cup {NoSession}]
          /\ stage' \in [Sessions -> Stages]
          /\ job' \in [Sessions -> Job \cup {NoJob}]
      BY <1>1 DEF Inv, DBTypeOK, Stages
    <2> QED
      BY <1>1, <2>1, <2>2, <2>3 DEF DBTypeOK
  <1>3. NoOverdraft'
    BY DEF NoOverdraft
  <1>4. JobInv'
    BY <1>1 DEF Inv, LockInv, DBTypeOK, JobInv, Open
  <1>5. OwnerInv'
    BY <1>1 DEF Inv, LockInv, DBTypeOK, OwnerInv
  <1>6. SourceInv'
    BY <1>1 DEF Inv, LockInv, DBTypeOK, JobInv, SourceInv, Open
  <1>7. DestInv'
    BY <1>1 DEF Inv, LockInv, DBTypeOK, JobInv, DestInv, Open
  <1>8. DraftInv'
    <2> SUFFICES ASSUME NEW t \in Sessions
                 PROVE  /\ DOMAIN draft'[t] = Written(t)'
                        /\ stage'[t] = "debited" =>
                            draft'[t][job'[t].src] = Round(balance'[job'[t].src] - job'[t].amount)
                        /\ stage'[t] \in {"credited", "recorded"} =>
                            \A a \in Written(t)' : draft'[t][a] = Moved(balance', job'[t])[a]
       BY DEF DraftInv
    <2>1. CASE t \in S
      <3>1. stage'[t] = "idle" /\ draft'[t] = NoDraft
        BY <1>1, <2>1
      <3>2. Written(t)' = {}
        BY <3>1 DEF Written
      <3> QED
        BY <3>1, <3>2 DEF NoDraft
    <2>2. CASE t \notin S
      <3>1. stage'[t] = stage[t] /\ draft'[t] = draft[t] /\ job'[t] = job[t]
        BY <1>1, <2>2
      <3>2. Written(t)' = Written(t)
        BY <3>1 DEF Written
      <3>3. Open(t) => /\ job[t].src \in Accounts
                       /\ stage[t] # "locked" => job[t].dst \in Accounts
                       /\ balance'[job[t].src] = balance[job[t].src]
        BY <2>2 DEF Inv, LockInv, JobInv, SourceInv
      <3>4. CASE stage[t] \in {"credited", "recorded"}
        <4>1. balance'[job[t].dst] = balance[job[t].dst]
          BY <2>2, <3>3, <3>4 DEF Inv, LockInv, DestInv, Open
        <4>2. /\ Debited(balance', job[t]) = Debited(balance, job[t])
              /\ Credited(balance', job[t]) = Credited(balance, job[t])
          BY <3>3, <3>4, <4>1 DEF Debited, Credited, Open
        <4>3. \A a \in {job[t].src, job[t].dst} :
                Moved(balance', job[t])[a] = Moved(balance, job[t])[a]
          BY <3>3, <3>4, <4>2, MovedRows DEF Open, Inv, DBTypeOK
        <4>4. Written(t) \subseteq {job[t].src, job[t].dst}
          BY DEF Written
        <4> QED
          BY <3>1, <3>2, <3>4, <4>3, <4>4 DEF Inv, LockInv, DraftInv
      <3>5. CASE stage[t] \notin {"credited", "recorded"}
        BY <3>1, <3>2, <3>3, <3>5 DEF Inv, LockInv, DraftInv, Open
      <3> QED BY <3>4, <3>5
    <2> QED BY <2>1, <2>2
  <1> QED
    BY <1>2, <1>3, <1>4, <1>5, <1>6, <1>7, <1>8 DEF Inv, LockInv

(* A rollback gives up locks and drafts.                                   *)
LEMMA RollbackInv ==
  ASSUME Inv, NEW S \in SUBSET Sessions, Rollback(S)
  PROVE  Inv'
  <1>1. EndTransactions(S) /\ balance' = balance
    BY DEF Rollback
  <1>2. balance' \in [Accounts -> Nat]
    BY <1>1, BalanceNat
  <1>3. \A a \in Accounts : balance'[a] % Scale = 0
    BY <1>1 DEF Inv, DBTypeOK
  <1> QED
    BY <1>1, <1>2, <1>3, EndInv

(***************************************************************************)
(* What a commit publishes is the whole transfer, applied to the balances  *)
(* committed just before.                                                  *)
(***************************************************************************)
LEMMA CommitMoves ==
  ASSUME Inv, NEW s \in Sessions, Commit(s)
  PROVE  /\ job[s] \in Job /\ job[s].src \in Accounts /\ job[s].dst \in Accounts
         /\ balance[job[s].src] >= job[s].amount
         /\ rowLock[job[s].src] = s /\ rowLock[job[s].dst] = s
         /\ balance' = Moved(balance, job[s])
  <1>1. stage[s] = "recorded" /\ balance' = [a \in Accounts |-> Row(s, a)]
    BY DEF Commit
  <1>2. /\ job[s] \in Job /\ job[s].src \in Accounts /\ job[s].dst \in Accounts
        /\ balance[job[s].src] >= job[s].amount
        /\ rowLock[job[s].src] = s /\ rowLock[job[s].dst] = s
    BY <1>1 DEF Inv, LockInv, JobInv, SourceInv, DestInv, Open
  <1>3. Written(s) = {job[s].src, job[s].dst}
    BY <1>1, <1>2 DEF Written
  <1>4. DOMAIN draft[s] = {job[s].src, job[s].dst}
    BY <1>3 DEF Inv, LockInv, DraftInv
  <1>5. \A a \in {job[s].src, job[s].dst} : draft[s][a] = Moved(balance, job[s])[a]
    BY <1>1, <1>3 DEF Inv, LockInv, DraftInv
  <1>6. DOMAIN balance = Accounts
    BY DEF Inv, DBTypeOK
  <1>7. Moved(balance, job[s]) =
           [a \in Accounts |-> IF a = job[s].dst THEN Credited(balance, job[s])
                               ELSE IF a = job[s].src THEN Debited(balance, job[s])
                               ELSE balance[a]]
    BY <1>2, <1>6, MovedRows
  <1>8. \A a \in Accounts : Row(s, a) = Moved(balance, job[s])[a]
    BY <1>4, <1>5, <1>7 DEF Row
  <1>9. balance' = Moved(balance, job[s])
    BY <1>1, <1>7, <1>8
  <1> QED
    BY <1>2, <1>9

(* A commit stores drafts of rows that nobody else may have written.       *)
LEMMA CommitInv ==
  ASSUME Inv, NEW s \in Sessions, Commit(s)
  PROVE  Inv'
  <1> DEFINE j == job[s]
  <1>1. EndTransactions({s})
    BY DEF Commit
  <1>2. /\ j \in Job /\ j.src \in Accounts /\ j.dst \in Accounts
        /\ balance[j.src] >= j.amount
        /\ rowLock[j.src] = s /\ rowLock[j.dst] = s
        /\ balance' = Moved(balance, j)
    BY CommitMoves
  <1>3. balance \in [Accounts -> Nat] /\ \A a \in Accounts : balance[a] % Scale = 0
    BY BalanceNat DEF Inv, DBTypeOK
  <1>4. balance' = [a \in Accounts |-> IF a = j.dst THEN Credited(balance, j)
                                       ELSE IF a = j.src THEN Debited(balance, j)
                                       ELSE balance[a]]
    BY <1>2, <1>3, MovedRows
  <1>5. /\ Debited(balance, j) \in Nat /\ Debited(balance, j) % Scale = 0
        /\ Credited(balance, j) \in Nat /\ Credited(balance, j) % Scale = 0
    BY <1>2, <1>3, MovedNat
  <1>6. balance' \in [Accounts -> Nat]
    BY <1>3, <1>4, <1>5
  <1>7. \A a \in Accounts : balance'[a] % Scale = 0
    BY <1>3, <1>4, <1>5
  <1>8. \A a \in Accounts : rowLock[a] \notin {s} => balance'[a] = balance[a]
    BY <1>2, <1>4
  <1> QED
    BY <1>1, <1>6, <1>7, <1>8, EndInv

(***************************************************************************)
(* Which transactions a step leaves open, and for which transfers: a       *)
(* transaction is opened by LockSource, for its own session, goes on with  *)
(* the writing statements and is closed when it ends.                      *)
(***************************************************************************)
LEMMA LockOpens ==
  ASSUME Inv, NEW s \in Sessions, NEW j, LockSource(s, j)
  PROVE  /\ Open(s)' /\ stage'[s] = "locked" /\ job'[s] = j
         /\ \A t \in Sessions \ {s} : job'[t] = job[t] /\ stage'[t] = stage[t]
  BY DEF Inv, DBTypeOK, LockSource, Open

(* A statement after the first belongs to an open transaction, which stays *)
(* open.                                                                   *)
LEMMA StatementOpens ==
  ASSUME Inv, NEW s \in Sessions, Debit(s) \/ Credit(s) \/ Record(s)
  PROVE  /\ UNCHANGED job
         /\ Open(s) /\ stage'[s] \notin {"idle", "locked"}
         /\ \A t \in Sessions \ {s} : stage'[t] = stage[t]
  BY DEF Inv, DBTypeOK, Debit, Credit, Record, Open

(* Transactions that end are closed; the others stay where they are.       *)
LEMMA EndCloses ==
  ASSUME NEW S, EndTransactions(S)
  PROVE  /\ \A t \in Sessions \cap S : ~Open(t)'
         /\ \A t \in Sessions \ S : job'[t] = job[t] /\ stage'[t] = stage[t]
  BY DEF EndTransactions, Open

LEMMA NextInv == Inv /\ [DBNext]_dbVars => Inv'
  <1> SUFFICES ASSUME Inv, [DBNext]_dbVars PROVE Inv'
    OBVIOUS
  <1>1. ASSUME NEW s \in Sessions, NEW j \in Job, LockSource(s, j)
        PROVE  Inv'
    BY <1>1, LockSourceInv
  <1>2. ASSUME NEW s \in Sessions, job[s].dst \in Accounts, Debit(s) PROVE Inv'
    BY <1>2, DebitInv
  <1>3. ASSUME NEW s \in Sessions, Credit(s) PROVE Inv'
    BY <1>3, CreditInv
  <1>4. ASSUME NEW s \in Sessions, Record(s) PROVE Inv'
    BY <1>4, RecordInv
  <1>5. ASSUME NEW s \in Sessions, Commit(s) PROVE Inv'
    BY <1>5, CommitInv
  <1>6. ASSUME NEW s \in Sessions, DeadlockVictim(s) PROVE Inv'
    BY <1>6, RollbackInv DEF DeadlockVictim
  <1>7. ASSUME NEW S \in SUBSET Sessions, Rollback(S) PROVE Inv'
    BY <1>7, RollbackInv
  <1>8. CASE UNCHANGED dbVars
    BY <1>8 DEF dbVars, Inv, DBTypeOK, NoOverdraft, LockInv, JobInv, SourceInv,
                DestInv, DraftInv, OwnerInv, Written, Open
  <1> QED
    BY <1>1, <1>2, <1>3, <1>4, <1>5, <1>6, <1>7, <1>8 DEF DBNext

LEMMA InvHolds == DBSpec => []Inv
  BY InitInv, NextInv, PTL DEF DBSpec
-----------------------------------------------------------------------------
(***************************************************************************)
(* Every reachable state is well typed and every committed balance is a    *)
(* whole number of cents.                                                  *)
(***************************************************************************)
THEOREM TypeCorrect == DBSpec => []DBTypeOK
  <1>1. Inv => DBTypeOK
    BY DEF Inv
  <1> QED
    BY <1>1, InvHolds, PTL

(***************************************************************************)
(* No number of concurrent transfers, of any amounts, between any accounts *)
(* and failing at any statement, overdraws an account.                     *)
(***************************************************************************)
THEOREM NeverOverdrawn == DBSpec => []NoOverdraft
  <1>1. Inv => NoOverdraft
    BY DEF Inv
  <1> QED
    BY <1>1, InvHolds, PTL

(***************************************************************************)
(* The row locks protect what the transaction read: until it ends, nobody  *)
(* changes the balance it checked or the rows it wrote.                    *)
(***************************************************************************)
THEOREM LocksProtect == DBSpec => []LockInv
  <1>1. Inv => LockInv
    BY DEF Inv
  <1> QED
    BY <1>1, InvHolds, PTL

(***************************************************************************)
(* Isolation and atomicity: the committed balances change by one whole     *)
(* covered transfer at a time.                                             *)
(***************************************************************************)
THEOREM TransfersAtomic == DBSpec => OnlyTransfers
  <1> DEFINE A == \E j \in Job : /\ j.src \in Accounts
                                 /\ j.dst \in Accounts
                                 /\ balance[j.src] >= j.amount
                                 /\ balance' = Moved(balance, j)
  <1>1. Inv /\ [DBNext]_dbVars => [A]_balance
    <2> SUFFICES ASSUME Inv, [DBNext]_dbVars, balance' # balance PROVE A
      OBVIOUS
    <2>1. PICK s \in Sessions : Commit(s)
      BY DEF DBNext, dbVars, LockSource, Debit, Credit, Record, DeadlockVictim, Rollback
    <2>2. /\ job[s] \in Job /\ job[s].src \in Accounts /\ job[s].dst \in Accounts
          /\ balance[job[s].src] >= job[s].amount
          /\ balance' = Moved(balance, job[s])
      BY <2>1, CommitMoves
    <2> QED
      BY <2>2
  <1> QED
    BY <1>1, InvHolds, PTL DEF DBSpec, OnlyTransfers

(***************************************************************************)
(* Money is neither created nor destroyed by concurrent, failing and       *)
(* interrupted transfers of whole cents.  The assumption is needed: the    *)
(* two UPDATEs round, and half a cent is given but not taken.              *)
(***************************************************************************)
THEOREM MoneyConserved ==
  ASSUME IsFiniteSet(Accounts), WholeCents
  PROVE  DBSpec => []Conservation
  <1>1. DBInit => Conservation
    BY DEF DBInit, Conservation
  <1>2. Inv /\ Conservation /\ [DBNext]_dbVars => Conservation'
    <2> SUFFICES ASSUME Inv, Conservation, [DBNext]_dbVars, balance' # balance
                 PROVE  SumFunction(balance') = SumFunction(balance)
      BY DEF Conservation
    <2>1. PICK s \in Sessions : Commit(s)
      BY DEF DBNext, dbVars, LockSource, Debit, Credit, Record, DeadlockVictim, Rollback
    <2>2. PICK j : j = job[s]
      OBVIOUS
    <2>3. /\ j \in Job /\ j.src \in Accounts /\ j.dst \in Accounts
          /\ balance[j.src] >= j.amount
          /\ balance' = Moved(balance, j)
      BY <2>1, <2>2, CommitMoves
    <2>4. balance \in [Accounts -> Nat] /\ \A a \in Accounts : balance[a] % Scale = 0
      BY BalanceNat DEF Inv, DBTypeOK
    <2>5. GivenBy(j.amount) = TakenBy(j.amount) /\ GivenBy(j.amount) \in Int
      BY <2>3, TransferDBAssumption, WholeAmount, RoundedTypes DEF Job, WholeCents
    <2>6. /\ SumFunction(balance) \in Int
          /\ SumFunction(Moved(balance, j)) =
               SumFunction(balance) + (GivenBy(j.amount) - TakenBy(j.amount))
      BY <2>3, <2>4, MovedSum
    <2> QED
      BY <2>3, <2>5, <2>6
  <1> QED
    BY <1>1, <1>2, InvHolds, PTL DEF DBSpec
=============================================================================
