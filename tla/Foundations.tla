---------------------------- MODULE Foundations ----------------------------
(***************************************************************************)
(* What the proofs of the other modules need of mathematics: remainders,   *)
(* induction and recursion, sums.                                          *)
(*                                                                         *)
(* The library's induction theorems take a predicate as a parameter; here  *)
(* the set of the values that have a property stands for it.               *)
(***************************************************************************)
EXTENDS Integers, FiniteSets, Functions, WellFoundedInduction,
        FiniteSetTheorems, TLAPS

-----------------------------------------------------------------------------
(* Remainders *)

(* Quotient and remainder, and that no other numbers are.                  *)
LEMMA Division ==
  ASSUME NEW n \in Int, NEW w \in Nat \ {0}
  PROVE  /\ n \div w \in Int /\ n % w \in 0 .. w - 1
         /\ n = w * (n \div w) + (n % w)
BY Z3

LEMMA DivisionUnique ==
  ASSUME NEW w \in Nat \ {0}, NEW q \in Int, NEW r \in 0 .. w - 1
  PROVE  (w * q + r) % w = r /\ (w * q + r) \div w = q
<1>. DEFINE n == w * q + r
            p == n \div w
            t == n % w
<1>1. n \in Int
  OBVIOUS
<1>2. p \in Int /\ t \in 0 .. w - 1 /\ n = w * p + t
  BY <1>1, Division
<1>. HIDE DEF p, t
<1>3. w * (q - p) = t - r
  BY <1>2
<1>4. q - p < 1
  <2>1. SUFFICES ASSUME q - p >= 1 PROVE FALSE
    BY <1>2
  <2>2. w * (q - p) >= w
    BY <1>2, <2>1
  <2>. QED  BY <1>2, <1>3, <2>2
<1>5. p - q < 1
  <2>1. SUFFICES ASSUME p - q >= 1 PROVE FALSE
    BY <1>2
  <2>2. w * (p - q) >= w
    BY <1>2, <2>1
  <2>3. w * (p - q) = r - t
    BY <1>2
  <2>. QED  BY <1>2, <2>2, <2>3
<1>6. p = q
  BY <1>2, <1>4, <1>5
<1>7. t = r
  BY <1>2, <1>6
<1>. QED  BY <1>6, <1>7 DEF p, t

(* A sum may be reduced before or after a term is added.                   *)
LEMMA RemainderOfSum ==
  ASSUME NEW w \in Nat \ {0}, NEW a \in Int, NEW b \in Int
  PROVE  ((a % w) + b) % w = (a + b) % w
<1>. DEFINE q == a \div w
            r == a % w
            k == (r + b) \div w
            t == (r + b) % w
<1>1. q \in Int /\ r \in 0 .. w - 1 /\ a = w * q + r
  BY Division
<1>. HIDE DEF q, r
<1>2. r + b \in Int
  BY <1>1
<1>3. k \in Int /\ t \in 0 .. w - 1 /\ r + b = w * k + t
  BY <1>2, Division
<1>. HIDE DEF k, t
<1>4. a + b = w * (q + k) + t
  BY <1>1, <1>3
<1>5. (w * (q + k) + t) % w = t
  BY <1>1, <1>3, DivisionUnique
<1>. QED  BY <1>4, <1>5 DEF r, t

LEMMA RemainderOfLess ==
  ASSUME NEW w \in Nat \ {0}, NEW r \in 0 .. w - 1
  PROVE  r % w = r
<1>1. w * 0 + r = r
  OBVIOUS
<1>. QED  BY <1>1, DivisionUnique

(* The start of the next of k rows of n cells is not beyond the last one.  *)
LEMMA NextRow ==
  ASSUME NEW n \in Nat \ {0}, NEW k \in Nat, NEW c \in Nat, c < n * k
  PROVE  ((c \div n) + 1) * n \in Nat /\ ((c \div n) + 1) * n <= n * k
<1>. DEFINE r == c \div n
<1>1. r \in Nat /\ n * r <= c
  BY Z3
<1>. HIDE DEF r
<1>2. r < k
  <2>1. SUFFICES ASSUME r >= k PROVE FALSE
    BY <1>1
  <2>2. n * r >= n * k
    BY <1>1, <2>1
  <2>. QED  BY <1>1, <2>2
<1>3. (r + 1) * n <= n * k /\ (r + 1) * n \in Nat
  BY <1>1, <1>2
<1>. QED  BY <1>3 DEF r

-----------------------------------------------------------------------------
(* Induction and recursion *)

(* A set that has 0, and with each number the next, has them all.          *)
LEMMA SetInduction ==
  ASSUME NEW T, 0 \in T, \A n \in Nat : n \in T => n + 1 \in T
  PROVE  Nat \subseteq T
<1>. DEFINE R == OpToRel(<, Nat)
            U == Nat \ T
<1>1. IsWellFoundedOn(R, Nat)
  BY NatLessThanWellFounded
<1>2. \A x, y \in Nat : <<x, y>> \in R <=> x < y
  BY DEF OpToRel
<1>. SUFFICES ASSUME U # {} PROVE FALSE
  OBVIOUS
<1>. HIDE DEF R
<1>3. \E x \in U : \A y \in U : <<y, x>> \notin R
  <2>1. U \subseteq Nat
    OBVIOUS
  <2>. HIDE DEF U
  <2>. QED  BY <1>1, <2>1, WFMin
<1>4. PICK x \in U : \A y \in U : <<y, x>> \notin R
  BY <1>3
<1>5. x \in Nat /\ x # 0 /\ x - 1 \in Nat
  OBVIOUS
<1>6. x - 1 \in T
  <2>1. x - 1 < x
    BY <1>5
  <2>2. <<x - 1, x>> \in R
    BY <1>2, <1>5, <2>1
  <2>. QED  BY <1>4, <1>5, <2>2
<1>7. (x - 1) + 1 \in T
  BY <1>5, <1>6
<1>. QED  BY <1>5, <1>7

(* The same for the numbers from a to b.                                   *)
LEMMA IntervalInduction ==
  ASSUME NEW a \in Int, NEW b \in Int, NEW T, a \in T,
         \A k \in a .. b - 1 : k \in T => k + 1 \in T
  PROVE  a .. b \subseteq T
<1>. DEFINE U == {n \in Nat : a + n <= b => a + n \in T}
<1>1. 0 \in U
  OBVIOUS
<1>2. ASSUME NEW n \in Nat, n \in U PROVE n + 1 \in U
  <2>1. ASSUME a + (n + 1) <= b PROVE a + (n + 1) \in T
    <3>1. a + n \in a .. b - 1 /\ a + n <= b
      BY <2>1
    <3>2. a + n \in T
      BY <1>2, <3>1
    <3>3. (a + n) + 1 \in T
      BY <3>1, <3>2
    <3>. QED  BY <3>3
  <2>. QED  BY <2>1
<1>3. Nat \subseteq U
  <2>. HIDE DEF U
  <2>. QED  BY <1>1, <1>2, SetInduction
<1>4. ASSUME NEW k \in a .. b PROVE k \in T
  <2>1. k - a \in Nat /\ a + (k - a) = k /\ a + (k - a) <= b
    OBVIOUS
  <2>2. k - a \in U
    BY <1>3, <2>1
  <2>. QED  BY <2>1, <2>2
<1>. QED  BY <1>4

(* A function on 0 .. n may be defined by its value at 0 and a step.  (A   *)
(* lemma with so many parameters can only be used if its parts have names.) *)
StepsUpTo(n, S, step)    == \A k \in 1 .. n, s \in S : step[k][s] \in S
RecursFrom(f, n, a, step) ==
  \A k \in 0 .. n : f[k] = IF k = 0 THEN a ELSE step[k][f[k - 1]]

LEMMA PrimitiveRecursion ==
  ASSUME NEW n \in Nat, NEW S, NEW a \in S, NEW step, StepsUpTo(n, S, step)
  PROVE  \E f \in [0 .. n -> S] : RecursFrom(f, n, a, step)
<1>. USE DEF StepsUpTo, RecursFrom
<1>. DEFINE Approximates(f, m) ==
       \A k \in 0 .. m : f[k] = IF k = 0 THEN a ELSE step[k][f[k - 1]]
     T == {m \in 0 .. n : \E f \in [0 .. m -> S] : Approximates(f, m)}
<1>1. 0 \in T
  <2>. DEFINE f == [k \in 0 .. 0 |-> a]
  <2>1. f \in [0 .. 0 -> S] /\ Approximates(f, 0)
    OBVIOUS
  <2>2. 0 \in 0 .. n
    OBVIOUS
  <2>. HIDE DEF f
  <2>. QED  BY <2>1, <2>2
<1>2. ASSUME NEW m \in 0 .. n - 1, m \in T PROVE m + 1 \in T
  <2>1. PICK f \in [0 .. m -> S] : Approximates(f, m)
    BY <1>2
  <2>. DEFINE g ==
         [k \in 0 .. m + 1 |-> IF k = m + 1 THEN step[k][f[m]] ELSE f[k]]
  <2>2. step[m + 1][f[m]] \in S
    <3>1. m + 1 \in 1 .. n /\ m \in 0 .. m
      OBVIOUS
    <3>. QED  BY <3>1
  <2>3. g \in [0 .. m + 1 -> S]
    BY <2>2
  <2>4. ASSUME NEW k \in 0 .. m + 1
        PROVE  g[k] = IF k = 0 THEN a ELSE step[k][g[k - 1]]
    <3>1. CASE k = m + 1
      <4>1. k # 0 /\ k - 1 = m /\ m \in 0 .. m + 1 /\ m # m + 1
        BY <3>1
      <4>2. g[m] = f[m]
        BY <4>1
      <4>. QED  BY <3>1, <4>1, <4>2
    <3>2. CASE k # m + 1
      <4>1. k \in 0 .. m
        BY <3>2
      <4>2. f[k] = IF k = 0 THEN a ELSE step[k][f[k - 1]]
        BY <2>1, <4>1
      <4>3. k # 0 => /\ k - 1 \in 0 .. m + 1 /\ k - 1 # m + 1
                     /\ g[k - 1] = f[k - 1]
        BY <4>1
      <4>. QED  BY <3>2, <4>1, <4>2, <4>3
    <3>. QED  BY <3>1, <3>2
  <2>5. m + 1 \in 0 .. n
    OBVIOUS
  <2>. HIDE DEF g
  <2>. QED  BY <2>3, <2>4, <2>5
<1>3. 0 .. n \subseteq T
  <2>. HIDE DEF T
  <2>. QED  BY <1>1, <1>2, IntervalInduction
<1>4. n \in T
  BY <1>3
<1>. QED  BY <1>4

(* The same with a step that goes back further than to the one before.     *)
GoesBack(n, prev) == \A k \in 1 .. n : prev[k] \in 0 .. k - 1
RecursBack(f, n, a, step, prev) ==
  \A k \in 0 .. n : f[k] = IF k = 0 THEN a ELSE step[k][f[prev[k]]]

LEMMA BackwardRecursion ==
  ASSUME NEW n \in Nat, NEW S, NEW a \in S, NEW step, StepsUpTo(n, S, step),
         NEW prev, GoesBack(n, prev)
  PROVE  \E f \in [0 .. n -> S] : RecursBack(f, n, a, step, prev)
<1>. USE DEF StepsUpTo, RecursBack, GoesBack
<1>. DEFINE Approximates(f, m) ==
       \A k \in 0 .. m : f[k] = IF k = 0 THEN a ELSE step[k][f[prev[k]]]
     T == {m \in 0 .. n : \E f \in [0 .. m -> S] : Approximates(f, m)}
<1>1. 0 \in T
  <2>. DEFINE f == [k \in 0 .. 0 |-> a]
  <2>1. f \in [0 .. 0 -> S] /\ Approximates(f, 0)
    OBVIOUS
  <2>2. 0 \in 0 .. n
    OBVIOUS
  <2>. HIDE DEF f
  <2>. QED  BY <2>1, <2>2
<1>2. ASSUME NEW m \in 0 .. n - 1, m \in T PROVE m + 1 \in T
  <2>1. PICK f \in [0 .. m -> S] : Approximates(f, m)
    BY <1>2
  <2>. DEFINE g ==
         [k \in 0 .. m + 1 |-> IF k = m + 1 THEN step[k][f[prev[k]]] ELSE f[k]]
  <2>2. step[m + 1][f[prev[m + 1]]] \in S /\ prev[m + 1] \in 0 .. m
    <3>1. m + 1 \in 1 .. n /\ m + 1 - 1 = m
      OBVIOUS
    <3>2. prev[m + 1] \in 0 .. m
      BY <3>1
    <3>3. f[prev[m + 1]] \in S
      BY <3>2
    <3>. QED  BY <3>1, <3>2, <3>3
  <2>3. g \in [0 .. m + 1 -> S]
    BY <2>2
  <2>4. ASSUME NEW k \in 0 .. m + 1
        PROVE  g[k] = IF k = 0 THEN a ELSE step[k][g[prev[k]]]
    <3>1. CASE k = m + 1
      <4>1. /\ k # 0 /\ prev[k] \in 0 .. m + 1 /\ prev[k] # m + 1
            /\ prev[k] \in 0 .. m
        BY <2>2, <3>1
      <4>2. g[prev[k]] = f[prev[k]]
        BY <4>1
      <4>. QED  BY <3>1, <4>1, <4>2
    <3>2. CASE k # m + 1
      <4>1. k \in 0 .. m
        BY <3>2
      <4>2. f[k] = IF k = 0 THEN a ELSE step[k][f[prev[k]]]
        BY <2>1, <4>1
      <4>3. k # 0 => /\ prev[k] \in 0 .. m + 1 /\ prev[k] # m + 1
                     /\ g[prev[k]] = f[prev[k]]
        <5>1. ASSUME k # 0 PROVE prev[k] \in 0 .. k - 1
          <6>1. k \in 1 .. n
            BY <4>1, <5>1
          <6>. QED  BY <6>1
        <5>2. k # 0 => prev[k] \in 0 .. m + 1 /\ prev[k] # m + 1
          BY <4>1, <5>1
        <5>. QED  BY <5>2
      <4>4. g[k] = f[k]
        BY <3>2
      <4>5. f[k] = IF k = 0 THEN a ELSE step[k][g[prev[k]]]
        BY <4>2, <4>3, Zenon
      <4>. HIDE DEF g
      <4>. QED  BY <4>4, <4>5
    <3>. QED  BY <3>1, <3>2
  <2>5. m + 1 \in 0 .. n
    OBVIOUS
  <2>. HIDE DEF g
  <2>. QED  BY <2>3, <2>4, <2>5
<1>3. 0 .. n \subseteq T
  <2>. HIDE DEF T
  <2>1. 0 \in Int /\ n \in Int
    OBVIOUS
  <2>. QED  BY <1>1, <1>2, <2>1, IntervalInduction, Zenon
<1>4. n \in T
  BY <1>3
<1>. QED  BY <1>4

(* The subsets of a finite set: what holds of the empty set, and of a set  *)
(* when it holds of those with one element less, holds of all.             *)
LEMMA SubsetInduction ==
  ASSUME NEW S, IsFiniteSet(S), NEW T, {} \in T,
         \A s \in SUBSET S :
           s # {} /\ (\A x \in s : s \ {x} \in T) => s \in T
  PROVE  SUBSET S \subseteq T
<1>. DEFINE U ==
       {n \in Nat : \A s \in SUBSET S : Cardinality(s) = n => s \in T}
<1>1. ASSUME NEW s \in SUBSET S
      PROVE  IsFiniteSet(s) /\ Cardinality(s) \in Nat
  BY FS_Subset, FS_CardinalityType
<1>2. 0 \in U
  BY <1>1, FS_EmptySet
<1>3. ASSUME NEW n \in Nat, n \in U PROVE n + 1 \in U
  <2>1. ASSUME NEW s \in SUBSET S, Cardinality(s) = n + 1 PROVE s \in T
    <3>1. s # {}
      <4>1. Cardinality({}) # n + 1
        BY FS_EmptySet
      <4>. QED  BY <2>1, <4>1
    <3>2. ASSUME NEW x \in s PROVE s \ {x} \in T
      <4>1. Cardinality(s \ {x}) = Cardinality(s) - 1
        BY <1>1, FS_RemoveElement
      <4>2. Cardinality(s \ {x}) = n /\ s \ {x} \in SUBSET S
        BY <2>1, <4>1
      <4>. QED  BY <1>3, <4>2
    <3>. QED  BY <3>1, <3>2
  <2>. QED  BY <2>1
<1>4. Nat \subseteq U
  <2>. HIDE DEF U
  <2>. QED  BY <1>2, <1>3, SetInduction
<1>. QED  BY <1>1, <1>4

(* A function on the subsets of a finite set may be defined by its value   *)
(* for the empty set and a step that takes away one element.            *)
Picks(S, pick) == \A s \in SUBSET S : s # {} => pick[s] \in s
StepsIn(S, V, step) == \A s \in SUBSET S, v \in V : s # {} => step[s][v] \in V
Recurs(it, S, base, pick, step) ==
  \A s \in SUBSET S :
    it[s] = IF s = {} THEN base ELSE step[s][it[s \ {pick[s]}]]

LEMMA SubsetRecursion ==
  ASSUME NEW S, IsFiniteSet(S), NEW V, NEW base \in V, NEW pick, NEW step,
         Picks(S, pick), StepsIn(S, V, step)
  PROVE  \E it \in [SUBSET S -> V] : Recurs(it, S, base, pick, step)
<1>. USE DEF Picks, StepsIn, Recurs
<1>. DEFINE Small(n) == {s \in SUBSET S : Cardinality(s) <= n}
            Approximates(it, n) ==
              \A s \in Small(n) :
                it[s] = IF s = {} THEN base ELSE step[s][it[s \ {pick[s]}]]
            T == {n \in Nat : \E it \in [Small(n) -> V] : Approximates(it, n)}
<1>1. ASSUME NEW s \in SUBSET S
      PROVE  IsFiniteSet(s) /\ Cardinality(s) \in Nat
  BY FS_Subset, FS_CardinalityType
<1>2. ASSUME NEW s \in SUBSET S, s # {}
      PROVE  /\ s \ {pick[s]} \in SUBSET S
             /\ Cardinality(s \ {pick[s]}) = Cardinality(s) - 1
  BY <1>1, <1>2, FS_RemoveElement
<1>3. 0 \in T
  <2>. DEFINE it == [s \in Small(0) |-> base]
  <2>1. \A s \in Small(0) : s = {}
    BY <1>1, FS_EmptySet
  <2>2. it \in [Small(0) -> V] /\ Approximates(it, 0)
    BY <2>1
  <2>. HIDE DEF it
  <2>. QED  BY <2>2
<1>4. ASSUME NEW n \in Nat, n \in T PROVE n + 1 \in T
  <2>1. PICK it \in [Small(n) -> V] : Approximates(it, n)
    BY <1>4
  <2>2. ASSUME NEW s \in Small(n + 1), s # {}
        PROVE  s \in SUBSET S /\ s \ {pick[s]} \in Small(n)
    <3>1. s \in SUBSET S /\ Cardinality(s) <= n + 1
      BY <2>2
    <3>. QED  BY <1>1, <1>2, <2>2, <3>1
  <2>3. Small(n) \subseteq Small(n + 1)
    BY <1>1
  <2>. DEFINE next(s) == IF s = {} THEN base ELSE step[s][it[s \ {pick[s]}]]
              jt == [s \in Small(n + 1) |-> next(s)]
  <2>4. jt \in [Small(n + 1) -> V]
    <3>1. ASSUME NEW s \in Small(n + 1) PROVE next(s) \in V
      BY <2>2
    <3>. HIDE DEF next
    <3>. QED  BY <3>1
  <2>5. ASSUME NEW s \in Small(n) PROVE jt[s] = it[s]
    BY <2>1, <2>3
  <2>6. Approximates(jt, n + 1)
    <3>1. ASSUME NEW s \in Small(n + 1)
          PROVE  jt[s] = IF s = {} THEN base ELSE step[s][jt[s \ {pick[s]}]]
      <4>1. jt[s] = next(s)
        OBVIOUS
      <4>. HIDE DEF jt
      <4>. QED  BY <2>2, <2>5, <4>1
    <3>. HIDE DEF jt
    <3>. QED  BY <3>1
  <2>. HIDE DEF jt, Small
  <2>. QED  BY <2>4, <2>6
<1>5. Nat \subseteq T
  <2>. HIDE DEF T
  <2>. QED  BY <1>3, <1>4, SetInduction
<1>6. Cardinality(S) \in T
  BY <1>1, <1>5
<1>7. Small(Cardinality(S)) = SUBSET S
  <2>1. \A s \in SUBSET S : Cardinality(s) <= Cardinality(S)
    BY FS_Subset
  <2>. QED  BY <2>1
<1>. HIDE DEF Small
<1>. QED  BY <1>6, <1>7

-----------------------------------------------------------------------------
(* Sums over finite sets.  Total is how SumFunctionOnSet adds: it takes    *)
(* the elements of the set in an order that is not known.                  *)
Pick(s) == CHOOSE x \in s : TRUE

Totals(f, S, sum) ==
  sum = [s \in SUBSET S |->
           IF s = {} THEN 0 ELSE f[Pick(s)] + sum[s \ {Pick(s)}]]

LEMMA SumIsTotal ==
  \A f, S : SumFunctionOnSet(f, S) = (CHOOSE sum : Totals(f, S, sum))[S]
BY DEF SumFunctionOnSet, FoldFunctionOnSet, MapThenFoldSet, Totals, Pick

LEMMA PickIn == \A s : s # {} => Pick(s) \in s
BY DEF Pick

LEMMA TotalsExist ==
  ASSUME NEW S, IsFiniteSet(S), NEW f, \A x \in S : f[x] \in Int
  PROVE  \E sum \in [SUBSET S -> Int] : Totals(f, S, sum)
<1>. DEFINE pick == [s \in SUBSET S |-> Pick(s)]
            step == [s \in SUBSET S |-> [n \in Int |-> f[Pick(s)] + n]]
<1>1. Picks(S, pick)
  BY PickIn DEF Picks
<1>2. ASSUME NEW s \in SUBSET S, NEW n \in Int, s # {}
      PROVE  step[s][n] \in Int /\ step[s][n] = f[Pick(s)] + n
  <2>1. f[Pick(s)] \in Int
    BY <1>2, PickIn
  <2>. QED  BY <2>1
<1>3. StepsIn(S, Int, step)
  <2>. HIDE DEF step
  <2>. QED  BY <1>2 DEF StepsIn
<1>4. PICK sum \in [SUBSET S -> Int] : Recurs(sum, S, 0, pick, step)
  <2>. DEFINE zero == 0
  <2>1. zero \in Int
    OBVIOUS
  <2>. HIDE DEF pick, step, zero
  <2>2. \E sum \in [SUBSET S -> Int] : Recurs(sum, S, zero, pick, step)
    BY <1>1, <1>3, <2>1, SubsetRecursion
  <2>. QED  BY <2>2 DEF zero
<1>5. ASSUME NEW s \in SUBSET S
      PROVE  sum[s] = IF s = {} THEN 0 ELSE f[Pick(s)] + sum[s \ {Pick(s)}]
  <2>1. sum[s \ {Pick(s)}] \in Int /\ pick[s] = Pick(s)
    OBVIOUS
  <2>. HIDE DEF pick, step
  <2>. QED  BY <1>2, <1>4, <2>1 DEF Recurs
<1>. HIDE DEF pick, step
<1>. QED  BY <1>5 DEF Totals

(* Whichever set the sum is meant for, its values are the same.            *)
LEMMA TotalsAgree ==
  ASSUME NEW S, IsFiniteSet(S), NEW f, NEW R \in SUBSET S,
         NEW g, NEW h, Totals(f, S, g), Totals(f, R, h)
  PROVE  \A s \in SUBSET R : g[s] = h[s]
<1>. DEFINE T == {s \in SUBSET R : g[s] = h[s]}
<1>1. {} \in T
  BY DEF Totals
<1>2. ASSUME NEW s \in SUBSET R, s # {}, \A x \in s : s \ {x} \in T
      PROVE  s \in T
  <2>1. Pick(s) \in s
    BY <1>2, PickIn
  <2>2. s \ {Pick(s)} \in T
    BY <1>2, <2>1
  <2>. QED  BY <1>2, <2>1, <2>2 DEF Totals
<1>3. IsFiniteSet(R)
  BY FS_Subset
<1>4. SUBSET R \subseteq T
  <2>. HIDE DEF T
  <2>. QED  BY <1>1, <1>2, <1>3, SubsetInduction
<1>. QED  BY <1>4

(* The sum of a finite set, and how an element contributes to it.          *)
LEMMA SumFacts ==
  ASSUME NEW S, IsFiniteSet(S), NEW f, \A x \in S : f[x] \in Int
  PROVE  /\ SumFunctionOnSet(f, {}) = 0
         /\ SumFunctionOnSet(f, S) \in Int
         /\ \A x \in S :
              SumFunctionOnSet(f, S) = f[x] + SumFunctionOnSet(f, S \ {x})
<1>. DEFINE Sum(s) == SumFunctionOnSet(f, s)
<1>1. PICK sum \in [SUBSET S -> Int] : Totals(f, S, sum)
  BY TotalsExist
<1>2. ASSUME NEW s \in SUBSET S PROVE Sum(s) = sum[s]
  <2>1. IsFiniteSet(s) /\ \A x \in s : f[x] \in Int
    BY FS_Subset
  <2>2. \E h : Totals(f, s, h)
    BY <2>1, TotalsExist
  <2>3. Totals(f, s, CHOOSE h : Totals(f, s, h))
    BY <2>2
  <2>4. sum[s] = (CHOOSE h : Totals(f, s, h))[s]
    <3>1. s \in SUBSET s
      OBVIOUS
    <3>2. \A k : Totals(f, s, k) => \A r \in SUBSET s : sum[r] = k[r]
      BY <1>1, TotalsAgree
    <3>. QED  BY <2>3, <3>1, <3>2
  <2>. QED  BY <2>4, SumIsTotal
<1>3. \A s \in SUBSET S :
        sum[s] = IF s = {} THEN 0 ELSE f[Pick(s)] + sum[s \ {Pick(s)}]
  BY <1>1 DEF Totals
<1>. DEFINE T == {s \in SUBSET S : \A x \in s : sum[s] = f[x] + sum[s \ {x}]}
<1>4. ASSUME NEW s \in SUBSET S, s # {}, \A x \in s : s \ {x} \in T
      PROVE  s \in T
  <2>. DEFINE c == Pick(s)
  <2>1. c \in s
    BY <1>4, PickIn
  <2>. HIDE DEF c
  <2>2. sum[s] = f[c] + sum[s \ {c}]
    BY <1>3, <1>4 DEF c
  <2>3. ASSUME NEW x \in s, x # c PROVE sum[s] = f[x] + sum[s \ {x}]
    <3>1. sum[s \ {c}] = f[x] + sum[(s \ {c}) \ {x}]
      BY <1>4, <2>1, <2>3
    <3>2. sum[s \ {x}] = f[c] + sum[(s \ {x}) \ {c}]
      BY <1>4, <2>1, <2>3
    <3>3. (s \ {c}) \ {x} = (s \ {x}) \ {c}
      OBVIOUS
    <3>4. /\ f[x] \in Int /\ f[c] \in Int
          /\ sum[(s \ {x}) \ {c}] \in Int
      BY <2>1
    <3>5. sum[s] = f[c] + (f[x] + sum[(s \ {x}) \ {c}])
      BY <2>2, <3>1, <3>3
    <3>6. f[x] + sum[s \ {x}] = f[x] + (f[c] + sum[(s \ {x}) \ {c}])
      BY <3>2
    <3>7. \A k, m, n \in Int : k + (m + n) = m + (k + n)
      OBVIOUS
    <3>8. f[c] + (f[x] + sum[(s \ {x}) \ {c}])
            = f[x] + (f[c] + sum[(s \ {x}) \ {c}])
      BY <3>4, <3>7
    <3>. QED  BY <3>5, <3>6, <3>8
  <2>. QED  BY <2>2, <2>3
<1>5. {} \in T
  OBVIOUS
<1>6. SUBSET S \subseteq T
  <2>. HIDE DEF T
  <2>. QED  BY <1>4, <1>5, SubsetInduction
<1>7. \A x \in S : sum[S] = f[x] + sum[S \ {x}]
  BY <1>6
<1>8. {} \in SUBSET S /\ S \in SUBSET S /\ \A x \in S : S \ {x} \in SUBSET S
  OBVIOUS
<1>9. sum[{}] = 0
  BY <1>3, <1>8
<1>. QED  BY <1>2, <1>7, <1>8, <1>9
=============================================================================
