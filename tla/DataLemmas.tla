------------------------------ MODULE DataLemmas ------------------------------
(* Facts about numbers, finite sets and sums that the proofs of several
   components need.  Where an argument is by induction, it takes a least
   counterexample from a set, as the theorems of the library do.            *)
EXTENDS Enumeration, Integers, Sequences, Functions, FiniteSetTheorems, WellFoundedInduction, TLAPS

(* Any set of subsets of a finite set has one that contains no other.       *)
LEMMA MinimalSubset ==
  ASSUME NEW S, IsFiniteSet(S), NEW T \in SUBSET (SUBSET S), T # {}
  PROVE  \E least \in T : \A other \in T : other \subseteq least => other = least
<1>1. IsWellFoundedOn(StrictSubsetOrdering(S), SUBSET S)
  BY FS_StrictSubsetOrderingWellFounded, FS_FiniteSubsetsOfFinite
<1>2. PICK least \in T : \A other \in T : <<other, least>> \notin StrictSubsetOrdering(S)
  BY <1>1, WFMin
<1>. QED BY <1>2 DEF StrictSubsetOrdering

LEMMA FirstNumbers ==
  ASSUME NEW n \in Nat
  PROVE  IsFiniteSet(1 .. n) /\ Cardinality(1 .. n) = n
<1>1. 1 \in Int /\ n \in Int /\ (1 > n => n = 0) /\ n - 1 + 1 = n
  OBVIOUS
<1>. QED BY <1>1, FS_Interval

(* What a function makes of a finite set is finite and no larger. *)
LEMMA Image ==
  ASSUME NEW S, IsFiniteSet(S), NEW f, DOMAIN f = S
  PROVE  LET T == {f[x] : x \in S} IN IsFiniteSet(T) /\ Cardinality(T) <= Cardinality(S)
<1>. DEFINE T == {f[x] : x \in S}  g == [x \in S |-> f[x]]
<1>1. g \in Surjection(S, T)
  BY DEF Surjection
<1>. HIDE DEF T, g
<1>2. IsFiniteSet(T) /\ Cardinality(T) <= Cardinality(S)
  BY <1>1, FS_Surjection
<1>. QED BY <1>2 DEF T

(* Any set of naturals has a least one. *)
LEMMA LeastNat ==
  ASSUME NEW T \in SUBSET Nat, T # {}
  PROVE  \E least \in T : \A other \in T : least <= other
<1>. DEFINE Segments == {1 .. n : n \in T}
<1>1. Segments \subseteq FiniteSubsetsOf(Nat) /\ Segments # {}
  <2>1. \A n \in T : IsFiniteSet(1 .. n) /\ 1 .. n \subseteq Nat
    BY FS_Interval
  <2>. QED BY <2>1 DEF FiniteSubsetsOf
<1>2. PICK s \in Segments : \A r \in Segments : <<r, s>> \notin StrictSubsetOrdering(Nat)
  <2>. HIDE DEF Segments
  <2>. QED BY <1>1, FS_StrictSubsetOrderingWellFounded, WFMin
<1>3. PICK least \in T : s = 1 .. least
  OBVIOUS
<1>4. ASSUME NEW other \in T, other < least PROVE FALSE
  <2>1. /\ 1 .. other \subseteq 1 .. least /\ 1 .. least \subseteq Nat
        /\ least \in 1 .. least /\ least \notin 1 .. other
    BY <1>4
  <2>2. <<1 .. other, 1 .. least>> \in StrictSubsetOrdering(Nat)
    BY <2>1 DEF StrictSubsetOrdering
  <2>. QED BY <1>2, <1>3, <2>2
<1>. QED BY <1>4

(* A set of numbers up to n has a greatest one. *)
LEMMA GreatestUpTo ==
  ASSUME NEW n \in Nat, NEW T \in SUBSET (1 .. n), T # {}
  PROVE  \E most \in T : \A other \in T : other <= most
<1>. DEFINE Gaps == {n - k : k \in T}
<1>1. Gaps \in SUBSET Nat /\ Gaps # {}
  <2>1. \A k \in T : n - k \in Nat
    OBVIOUS
  <2>2. Gaps # {}
    BY Zenon
  <2>. QED BY <2>1, <2>2
<1>2. PICK gap \in Gaps : \A other \in Gaps : gap <= other
  <2>. HIDE DEF Gaps
  <2>. QED BY <1>1, LeastNat
<1>3. PICK most \in T : gap = n - most
  OBVIOUS
<1>4. ASSUME NEW other \in T PROVE other <= most
  <2>1. n - other \in Gaps
    OBVIOUS
  <2>. HIDE DEF Gaps
  <2>. QED BY <1>2, <1>3, <2>1
<1>. QED BY <1>4

-------------------------------------------------------------------------------
(* Remainders *)

LEMMA Division ==
  ASSUME NEW w \in Nat \ {0}, NEW n \in Int
  PROVE  n = w * (n \div w) + (n % w) /\ n \div w \in Int /\ n % w \in 0 .. w - 1
OBVIOUS

(* A counter that wraps shows no more growth than there was. *)
LEMMA RemainderGap ==
  ASSUME NEW w \in Nat \ {0}, NEW from \in Nat, NEW to \in Nat, from <= to
  PROVE  (to % w) - (from % w) <= to - from
<1>. DEFINE a == to \div w  b == from \div w  x == to % w  y == from % w
<1>1. /\ to = w * a + x /\ a \in Int /\ x \in 0 .. w - 1
      /\ from = w * b + y /\ b \in Int /\ y \in 0 .. w - 1
  BY Division
<1>. HIDE DEF a, b, x, y
<1>2. CASE a >= b
  <2>1. w * (a - b) >= 0
    BY <1>1, <1>2
  <2>. QED BY <1>1, <2>1 DEF x, y
<1>3. CASE a < b
  <2>1. w * (b - a - 1) >= 0
    BY <1>1, <1>3
  <2>2. w * a <= w * b - w
    BY <1>1, <2>1
  <2>. QED BY <1>1, <2>2 DEF x, y
<1>. QED BY <1>1, <1>2, <1>3

(* The remainder of a number and a multiple is that of the number. *)
LEMMA RemainderOf ==
  ASSUME NEW w \in Nat \ {0}, NEW n \in Int, NEW k \in Int, n - w * k \in 0 .. w - 1
  PROVE  n % w = n - w * k
<1>. DEFINE a == n \div w  x == n % w
<1>1. n = w * a + x /\ a \in Int /\ x \in 0 .. w - 1
  BY Division
<1>. HIDE DEF a, x
<1>2. a = k
  <2>1. CASE a < k
    <3>1. w * (k - a - 1) >= 0
      BY <1>1, <2>1
    <3>2. w * a <= w * k - w
      BY <1>1, <3>1
    <3>. QED BY <1>1, <3>2
  <2>2. CASE a > k
    <3>1. w * (a - k - 1) >= 0
      BY <1>1, <2>2
    <3>2. w * k <= w * a - w
      BY <1>1, <3>1
    <3>. QED BY <1>1, <3>2
  <2>. QED BY <1>1, <2>1, <2>2
<1>. QED BY <1>1, <1>2 DEF x

-------------------------------------------------------------------------------
(* Sums over a finite set *)

Pick(s) == CHOOSE x \in s : TRUE

(* iter[s]: the sum over s, of which Pick(s) is added last. *)
Sums(iter, f, S) ==
  /\ iter \in [SUBSET S -> Int]
  /\ iter = [s \in SUBSET S |-> IF s = {} THEN 0 ELSE f[Pick(s)] + iter[s \ {Pick(s)}]]

(* The sums over all subsets exist. *)
LEMMA SumsExist ==
  ASSUME NEW S, IsFiniteSet(S), NEW f \in [S -> Int]
  PROVE  \E iter : Sums(iter, f, S)
<1>. DEFINE Small(n) == {s \in SUBSET S : Cardinality(s) <= n}
            Value(s, g) == IF s = {} THEN 0 ELSE f[Pick(s)] + g[s \ {Pick(s)}]
            Partial(n) == \E g \in [Small(n) -> Int] :
                            g = [s \in Small(n) |-> Value(s, g)]
<1>sizes. ASSUME NEW s \in SUBSET S
          PROVE  /\ Cardinality(s) \in Nat /\ IsFiniteSet(s)
                 /\ s # {} => /\ Pick(s) \in s /\ f[Pick(s)] \in Int
                              /\ Cardinality(s \ {Pick(s)}) = Cardinality(s) - 1
                              /\ s \ {Pick(s)} \in SUBSET S
  <2>1. IsFiniteSet(s) /\ Cardinality(s) \in Nat
    BY FS_Subset, FS_CardinalityType
  <2>2. s # {} => Pick(s) \in s
    BY DEF Pick
  <2>3. s # {} => Cardinality(s \ {Pick(s)}) = Cardinality(s) - 1
    BY <2>1, <2>2, FS_RemoveElement
  <2>. QED BY <2>1, <2>2, <2>3
<1>1. Partial(0)
  <2>1. ASSUME NEW s \in Small(0) PROVE s = {}
    <3>1. s \in SUBSET S /\ Cardinality(s) <= 0
      OBVIOUS
    <3>2. Cardinality(s) \in Nat /\ IsFiniteSet(s)
      BY <3>1, <1>sizes
    <3>3. Cardinality(s) = 0
      BY <3>1, <3>2
    <3>. QED BY <3>2, <3>3, FS_EmptySet
  <2>2. [s \in Small(0) |-> 0] = [s \in Small(0) |-> Value(s, [t \in Small(0) |-> 0])]
    BY <2>1
  <2>3. [s \in Small(0) |-> 0] \in [Small(0) -> Int]
    OBVIOUS
  <2>. QED BY <2>2, <2>3
<1>2. ASSUME NEW n \in Nat, Partial(n) PROVE Partial(n + 1)
  <2>1. PICK g \in [Small(n) -> Int] : g = [s \in Small(n) |-> Value(s, g)]
    BY <1>2
  <2>. DEFINE h == [s \in Small(n + 1) |-> Value(s, g)]
  <2>2. ASSUME NEW s \in Small(n + 1), s # {}
        PROVE  s \ {Pick(s)} \in Small(n) /\ f[Pick(s)] \in Int
    BY <1>sizes, <2>2
  <2>3. ASSUME NEW s \in Small(n) PROVE s \in Small(n + 1) /\ h[s] = g[s]
    <3>1. s \in Small(n + 1)
      <4>1. s \in SUBSET S /\ Cardinality(s) <= n
        OBVIOUS
      <4>2. Cardinality(s) \in Nat
        BY <4>1, <1>sizes
      <4>3. Cardinality(s) <= n + 1
        BY <4>1, <4>2
      <4>. QED BY <4>1, <4>3
    <3>2. g[s] = Value(s, g)
      BY <2>1
    <3>. QED BY <3>1, <3>2
  <2>4. h \in [Small(n + 1) -> Int]
    BY <2>2
  <2>5. \A s \in Small(n + 1) : Value(s, h) = Value(s, g)
    BY <2>2, <2>3
  <2>6. h = [s \in Small(n + 1) |-> Value(s, h)]
    BY <2>5
  <2>. QED BY <2>4, <2>6
<1>3. \A n \in Nat : Partial(n)
  <2>. HIDE DEF Partial
  <2>. DEFINE Without == {n \in Nat : ~Partial(n)}
  <2>1. ASSUME Without # {} PROVE FALSE
    <3>1. PICK n \in Without : \A m \in Without : n <= m
      BY <2>1, LeastNat
    <3>2. n # 0
      BY <1>1
    <3>3. n - 1 \in Nat /\ n - 1 \notin Without
      BY <3>1, <3>2
    <3>4. Partial(n - 1 + 1)
      BY <1>2, <3>3
    <3>5. n - 1 + 1 = n
      OBVIOUS
    <3>. QED BY <3>4, <3>5
  <2>. QED BY <2>1
<1>4. Partial(Cardinality(S))
  BY <1>3, FS_CardinalityType
<1>5. Small(Cardinality(S)) = SUBSET S
  BY FS_Subset
<1>. QED BY <1>4, <1>5 DEF Sums

(* SumFunction is the sum over the whole domain. *)
LEMMA SumIsLast ==
  ASSUME NEW S, IsFiniteSet(S), NEW f \in [S -> Int]
  PROVE  \E iter : Sums(iter, f, S) /\ SumFunction(f) = iter[S]
<1>. DEFINE Recursion(iter) ==
       iter = [s \in SUBSET S |-> IF s = {} THEN 0 ELSE f[Pick(s)] + iter[s \ {Pick(s)}]]
<1>1. SumFunction(f) = (CHOOSE iter : Recursion(iter))[S]
  <2>1. SumFunction(f) = (CHOOSE iter : iter = [s \in SUBSET DOMAIN f |->
                      IF s = {} THEN 0 ELSE f[Pick(s)] + iter[s \ {Pick(s)}]])[DOMAIN f]
    BY DEF SumFunction, SumFunctionOnSet, FoldFunctionOnSet, MapThenFoldSet, Pick
  <2>2. DOMAIN f = S
    OBVIOUS
  <2>. QED BY <2>1, <2>2
<1>. DEFINE sums == CHOOSE iter : Recursion(iter)
<1>2. Recursion(sums)
  <2>. HIDE DEF Recursion
  <2>1. PICK known : Sums(known, f, S)
    BY SumsExist
  <2>2. Recursion(known)
    BY <2>1 DEF Sums, Recursion
  <2>. QED BY <2>2
<1>. HIDE DEF sums
<1>3. ASSUME NEW s \in SUBSET S PROVE sums[s] \in Int
  <2>. DEFINE Odd == {t \in SUBSET S : sums[t] \notin Int}
  <2>1. ASSUME Odd # {} PROVE FALSE
    <3>1. PICK t \in Odd : \A other \in Odd : other \subseteq t => other = t
      <4>1. Odd \in SUBSET (SUBSET S)
        OBVIOUS
      <4>. HIDE DEF Odd
      <4>. QED BY <2>1, <4>1, MinimalSubset
    <3>2. t # {}
      BY <1>2
    <3>3. Pick(t) \in t
      BY <3>2 DEF Pick
    <3>4. t \ {Pick(t)} \in SUBSET S /\ t \ {Pick(t)} \notin Odd
      BY <3>1, <3>3
    <3>5. sums[t] = f[Pick(t)] + sums[t \ {Pick(t)}]
      BY <1>2, <3>2
    <3>. QED BY <3>3, <3>4, <3>5
  <2>. QED BY <2>1
<1>4. Sums(sums, f, S)
  BY <1>2, <1>3 DEF Sums
<1>. QED BY <1>1, <1>4 DEF sums

(* What is known of every element is known of the sums: if each difference of
   two terms is at most that of two others, so is the difference of the sums.  *)
LEMMA SumGap ==
  ASSUME NEW S, IsFiniteSet(S),
         NEW f \in [S -> Int], NEW g \in [S -> Int], NEW p \in [S -> Int], NEW q \in [S -> Int],
         \A x \in S : f[x] - g[x] <= p[x] - q[x]
  PROVE  /\ SumFunction(f) - SumFunction(g) <= SumFunction(p) - SumFunction(q)
         /\ SumFunction(f) \in Int /\ SumFunction(g) \in Int /\ SumFunction(p) \in Int /\ SumFunction(q) \in Int
<1>1. PICK F : Sums(F, f, S) /\ SumFunction(f) = F[S]
  BY SumIsLast
<1>2. PICK G : Sums(G, g, S) /\ SumFunction(g) = G[S]
  BY SumIsLast
<1>3. PICK P : Sums(P, p, S) /\ SumFunction(p) = P[S]
  BY SumIsLast
<1>4. PICK Q : Sums(Q, q, S) /\ SumFunction(q) = Q[S]
  BY SumIsLast
<1>5. ASSUME NEW iter, NEW h, Sums(iter, h, S), NEW s \in SUBSET S
      PROVE  /\ iter[s] \in Int
             /\ s = {} => iter[s] = 0
             /\ s # {} => iter[s] = h[Pick(s)] + iter[s \ {Pick(s)}]
  BY <1>5 DEF Sums
<1>. DEFINE Odd == {s \in SUBSET S : ~(F[s] - G[s] <= P[s] - Q[s])}
<1>6. ASSUME Odd # {} PROVE FALSE
  <2>1. PICK s \in Odd : \A other \in Odd : other \subseteq s => other = s
    <3>1. Odd \in SUBSET (SUBSET S)
      OBVIOUS
    <3>. HIDE DEF Odd
    <3>. QED BY <1>6, <3>1, MinimalSubset
  <2>2. s \in SUBSET S /\ ~(F[s] - G[s] <= P[s] - Q[s])
    OBVIOUS
  <2>3. s # {}
    <3>1. ASSUME s = {} PROVE F[s] = 0 /\ G[s] = 0 /\ P[s] = 0 /\ Q[s] = 0
      <4>1. F[s] = 0
        BY <1>1, <1>5, <2>2, <3>1
      <4>2. G[s] = 0
        BY <1>2, <1>5, <2>2, <3>1
      <4>3. P[s] = 0
        BY <1>3, <1>5, <2>2, <3>1
      <4>4. Q[s] = 0
        BY <1>4, <1>5, <2>2, <3>1
      <4>. QED BY <4>1, <4>2, <4>3, <4>4
    <3>. QED BY <2>2, <3>1
  <2>. DEFINE x == Pick(s)  t == s \ {x}
  <2>4. x \in s /\ x \in S
    BY <2>2, <2>3 DEF Pick
  <2>5. t \in SUBSET S /\ F[t] - G[t] <= P[t] - Q[t]
    BY <2>1, <2>2, <2>4
  <2>6. /\ f[x] \in Int /\ g[x] \in Int /\ p[x] \in Int /\ q[x] \in Int
        /\ f[x] - g[x] <= p[x] - q[x]
    BY <2>4
  <2>7. /\ F[s] = f[x] + F[t] /\ F[t] \in Int
        /\ G[s] = g[x] + G[t] /\ G[t] \in Int
        /\ P[s] = p[x] + P[t] /\ P[t] \in Int
        /\ Q[s] = q[x] + Q[t] /\ Q[t] \in Int
    <3>1. F[s] = f[x] + F[t] /\ F[t] \in Int
      BY <1>1, <1>5, <2>2, <2>3, <2>5, ZenonT(40)
    <3>2. G[s] = g[x] + G[t] /\ G[t] \in Int
      BY <1>2, <1>5, <2>2, <2>3, <2>5, ZenonT(40)
    <3>3. P[s] = p[x] + P[t] /\ P[t] \in Int
      BY <1>3, <1>5, <2>2, <2>3, <2>5, ZenonT(40)
    <3>4. Q[s] = q[x] + Q[t] /\ Q[t] \in Int
      BY <1>4, <1>5, <2>2, <2>3, <2>5, ZenonT(40)
    <3>. QED BY <3>1, <3>2, <3>3, <3>4
  <2>. HIDE DEF x, t
  <2>. QED BY <2>2, <2>5, <2>6, <2>7
<1>7. F[S] - G[S] <= P[S] - Q[S]
  BY <1>6
<1>8. F[S] \in Int
  BY <1>1, <1>5
<1>9. G[S] \in Int
  BY <1>2, <1>5
<1>10. P[S] \in Int
  BY <1>3, <1>5
<1>11. Q[S] \in Int
  BY <1>4, <1>5
<1>. HIDE DEF Odd
<1>. QED BY <1>1, <1>2, <1>3, <1>4, <1>7, <1>8, <1>9, <1>10, <1>11

(* A sum is linear. *)
IsCombination(S, a, b, f, g, h) ==
  /\ a \in Int /\ b \in Int /\ f \in [S -> Int] /\ g \in [S -> Int] /\ h \in [S -> Int]
  /\ \A x \in S : h[x] = a * f[x] + b * g[x]

LEMMA SumLinear ==
  ASSUME NEW S, IsFiniteSet(S), NEW a, NEW b, NEW f, NEW g, NEW h, IsCombination(S, a, b, f, g, h)
  PROVE  /\ SumFunction(h) = a * SumFunction(f) + b * SumFunction(g)
         /\ SumFunction(f) \in Int /\ SumFunction(g) \in Int /\ SumFunction(h) \in Int
<1>. /\ a \in Int /\ b \in Int /\ f \in [S -> Int] /\ g \in [S -> Int] /\ h \in [S -> Int]
     /\ \A x \in S : h[x] = a * f[x] + b * g[x]
  BY DEF IsCombination
<1>1. PICK F : Sums(F, f, S) /\ SumFunction(f) = F[S]
  BY SumIsLast
<1>2. PICK G : Sums(G, g, S) /\ SumFunction(g) = G[S]
  BY SumIsLast
<1>3. PICK H : Sums(H, h, S) /\ SumFunction(h) = H[S]
  BY SumIsLast
<1>5. ASSUME NEW s \in SUBSET S
      PROVE  /\ F[s] \in Int /\ G[s] \in Int /\ H[s] \in Int
             /\ s = {} => F[s] = 0 /\ G[s] = 0 /\ H[s] = 0
             /\ s # {} => /\ F[s] = f[Pick(s)] + F[s \ {Pick(s)}]
                          /\ G[s] = g[Pick(s)] + G[s \ {Pick(s)}]
                          /\ H[s] = h[Pick(s)] + H[s \ {Pick(s)}]
  <2>1. F[s] \in Int /\ (s = {} => F[s] = 0) /\ (s # {} => F[s] = f[Pick(s)] + F[s \ {Pick(s)}])
    BY <1>1 DEF Sums
  <2>2. G[s] \in Int /\ (s = {} => G[s] = 0) /\ (s # {} => G[s] = g[Pick(s)] + G[s \ {Pick(s)}])
    BY <1>2 DEF Sums
  <2>3. H[s] \in Int /\ (s = {} => H[s] = 0) /\ (s # {} => H[s] = h[Pick(s)] + H[s \ {Pick(s)}])
    BY <1>3 DEF Sums
  <2>. QED BY <2>1, <2>2, <2>3
<1>. DEFINE Odd == {s \in SUBSET S : H[s] # a * F[s] + b * G[s]}
<1>6. ASSUME Odd # {} PROVE FALSE
  <2>1. PICK s \in Odd : \A other \in Odd : other \subseteq s => other = s
    <3>1. Odd \in SUBSET (SUBSET S)
      OBVIOUS
    <3>. HIDE DEF Odd
    <3>. QED BY <1>6, <3>1, MinimalSubset
  <2>2. s \in SUBSET S /\ H[s] # a * F[s] + b * G[s]
    OBVIOUS
  <2>3. s # {}
    <3>1. ASSUME s = {} PROVE FALSE
      <4>1. F[s] = 0 /\ G[s] = 0 /\ H[s] = 0
        BY <1>5, <2>2, <3>1
      <4>2. a * 0 = 0 /\ b * 0 = 0
        OBVIOUS
      <4>. QED BY <2>2, <4>1, <4>2
    <3>. QED BY <3>1
  <2>. DEFINE x == Pick(s)  t == s \ {x}
  <2>4. x \in s /\ x \in S
    BY <2>2, <2>3 DEF Pick
  <2>5. t \in SUBSET S /\ H[t] = a * F[t] + b * G[t]
    BY <2>1, <2>2, <2>4
  <2>6. f[x] \in Int /\ g[x] \in Int /\ h[x] = a * f[x] + b * g[x]
    BY <2>4
  <2>7. F[s] = f[x] + F[t] /\ G[s] = g[x] + G[t] /\ H[s] = h[x] + H[t]
    BY <1>5, <2>2, <2>3
  <2>8. F[t] \in Int /\ G[t] \in Int
    BY <1>5, <2>5
  <2>. HIDE DEF x, t
  <2>9. a * F[s] = a * f[x] + a * F[t] /\ b * G[s] = b * g[x] + b * G[t]
    BY <2>6, <2>7, <2>8
  <2>10. a * f[x] \in Int /\ a * F[t] \in Int /\ b * g[x] \in Int /\ b * G[t] \in Int
    BY <2>6, <2>8
  <2>. QED BY <2>2, <2>5, <2>6, <2>7, <2>9, <2>10
<1>7. H[S] = a * F[S] + b * G[S]
  BY <1>6
<1>8. F[S] \in Int /\ G[S] \in Int /\ H[S] \in Int
  BY <1>5
<1>. HIDE DEF Odd
<1>. QED BY <1>1, <1>2, <1>3, <1>7, <1>8

(* No term is more than the sum of all. *)
LEMMA SumAtLeast ==
  ASSUME NEW S, IsFiniteSet(S), NEW f \in [S -> Nat]
  PROVE  SumFunction(f) \in Nat /\ \A x \in S : f[x] <= SumFunction(f)
<1>1. PICK F : Sums(F, f, S) /\ SumFunction(f) = F[S]
  BY SumIsLast
<1>2. ASSUME NEW s \in SUBSET S
      PROVE  /\ F[s] \in Int
             /\ s = {} => F[s] = 0
             /\ s # {} => F[s] = f[Pick(s)] + F[s \ {Pick(s)}]
  BY <1>1 DEF Sums
<1>. DEFINE Odd == {s \in SUBSET S : ~(F[s] >= 0 /\ \A x \in s : f[x] <= F[s])}
<1>3. ASSUME Odd # {} PROVE FALSE
  <2>1. PICK s \in Odd : \A other \in Odd : other \subseteq s => other = s
    <3>1. Odd \in SUBSET (SUBSET S)
      OBVIOUS
    <3>. HIDE DEF Odd
    <3>. QED BY <1>3, <3>1, MinimalSubset
  <2>2. s \in SUBSET S /\ ~(F[s] >= 0 /\ \A x \in s : f[x] <= F[s])
    OBVIOUS
  <2>3. s # {}
    BY <1>2, <2>2
  <2>. DEFINE top == Pick(s)  t == s \ {top}
  <2>4. top \in s /\ top \in S
    BY <2>2, <2>3 DEF Pick
  <2>5. t \in SUBSET S /\ F[t] >= 0 /\ \A x \in t : f[x] <= F[t]
    BY <2>1, <2>2, <2>4
  <2>6. f[top] \in Nat /\ F[s] = f[top] + F[t] /\ F[t] \in Int
    BY <1>2, <2>2, <2>3, <2>4, <2>5
  <2>7. \A x \in s : x = top \/ x \in t
    OBVIOUS
  <2>8. \A x \in s : f[x] \in Nat
    BY <2>2
  <2>. HIDE DEF top, t
  <2>. QED BY <2>2, <2>5, <2>6, <2>7, <2>8
<1>4. F[S] >= 0 /\ \A x \in S : f[x] <= F[S]
  BY <1>3
<1>. HIDE DEF Odd
<1>5. F[S] \in Int
  BY <1>2
<1>. QED BY <1>1, <1>4, <1>5

(* The terms may be added in any order. *)
PartSum(f, s) == SumFunction([x \in s |-> f[x]])

LEMMA PartSumIs ==
  ASSUME NEW S, IsFiniteSet(S), NEW f \in [S -> Int]
  PROVE  /\ SumFunction(f) = PartSum(f, S)
         /\ \A s \in SUBSET S :
              /\ PartSum(f, s) \in Int /\ (s = {} => PartSum(f, s) = 0)
              /\ \A x \in s : PartSum(f, s) = f[x] + PartSum(f, s \ {x})
<1>1. PICK F : Sums(F, f, S)
  BY SumIsLast
<1>2. ASSUME NEW s \in SUBSET S
      PROVE  /\ F[s] \in Int
             /\ s = {} => F[s] = 0
             /\ s # {} => F[s] = f[Pick(s)] + F[s \ {Pick(s)}]
  BY <1>1 DEF Sums
<1>3. ASSUME NEW s \in SUBSET S PROVE PartSum(f, s) = F[s]
  <2>. DEFINE g == [x \in s |-> f[x]]
  <2>1. g \in [s -> Int] /\ IsFiniteSet(s) /\ \A x \in s : g[x] = f[x]
    BY FS_Subset
  <2>2. PartSum(f, s) = SumFunction(g)
    BY DEF PartSum
  <2>. HIDE DEF g
  <2>3. PICK G : Sums(G, g, s) /\ SumFunction(g) = G[s]
    BY <2>1, SumIsLast
  <2>4. ASSUME NEW t \in SUBSET s
        PROVE  /\ t = {} => G[t] = 0
               /\ t # {} => G[t] = g[Pick(t)] + G[t \ {Pick(t)}]
    BY <2>3 DEF Sums
  <2>. DEFINE Odd == {t \in SUBSET s : G[t] # F[t]}
  <2>5. ASSUME Odd # {} PROVE FALSE
    <3>1. PICK t \in Odd : \A other \in Odd : other \subseteq t => other = t
      <4>1. Odd \in SUBSET (SUBSET s)
        OBVIOUS
      <4>. HIDE DEF Odd
      <4>. QED BY <2>1, <2>5, <4>1, MinimalSubset
    <3>2. t \in SUBSET s /\ t \in SUBSET S /\ G[t] # F[t]
      OBVIOUS
    <3>3. t # {}
      BY <1>2, <2>4, <3>2
    <3>. DEFINE x == Pick(t)  u == t \ {x}
    <3>4. x \in t /\ x \in s
      BY <3>2, <3>3 DEF Pick
    <3>5. u \in SUBSET s /\ G[u] = F[u]
      BY <3>1, <3>2, <3>4
    <3>6. G[t] = g[x] + G[u] /\ F[t] = f[x] + F[u] /\ g[x] = f[x]
      BY <1>2, <2>1, <2>4, <3>2, <3>3, <3>4
    <3>. HIDE DEF x, u
    <3>. QED BY <3>2, <3>5, <3>6
  <2>6. G[s] = F[s]
    BY <2>5
  <2>. QED BY <2>2, <2>3, <2>6
<1>. DEFINE Odd == {s \in SUBSET S : \E x \in s : F[s] # f[x] + F[s \ {x}]}
<1>4. ASSUME Odd # {} PROVE FALSE
  <2>1. PICK s \in Odd : \A other \in Odd : other \subseteq s => other = s
    <3>1. Odd \in SUBSET (SUBSET S)
      OBVIOUS
    <3>. HIDE DEF Odd
    <3>. QED BY <1>4, <3>1, MinimalSubset
  <2>2. s \in SUBSET S /\ \E x \in s : F[s] # f[x] + F[s \ {x}]
    OBVIOUS
  <2>3. PICK x \in s : F[s] # f[x] + F[s \ {x}]
    BY <2>2
  <2>. DEFINE top == Pick(s)
  <2>4. top \in s /\ F[s] = f[top] + F[s \ {top}]
    BY <1>2, <2>2 DEF Pick
  <2>5. top # x
    BY <2>3, <2>4
  <2>. HIDE DEF top
  <2>6. ASSUME NEW y \in s, NEW z \in s, y # z
        PROVE  F[s \ {y}] = f[z] + F[(s \ {y}) \ {z}]
    <3>1. s \ {y} \in SUBSET S /\ s \ {y} \subseteq s /\ s \ {y} # s /\ z \in s \ {y}
      BY <2>2, <2>6
    <3>2. s \ {y} \notin Odd
      <4>. HIDE DEF Odd
      <4>. QED BY <2>1, <3>1
    <3>. QED BY <3>1, <3>2
  <2>7. F[s \ {top}] = f[x] + F[(s \ {top}) \ {x}] /\ F[s \ {x}] = f[top] + F[(s \ {x}) \ {top}]
    BY <2>4, <2>5, <2>6
  <2>8. (s \ {top}) \ {x} = (s \ {x}) \ {top} /\ (s \ {x}) \ {top} \in SUBSET S
    BY <2>2
  <2>. DEFINE rest == F[(s \ {x}) \ {top}]
  <2>9. rest \in Int /\ f[x] \in Int /\ f[top] \in Int
    BY <1>2, <2>2, <2>4, <2>8
  <2>10. F[s] = f[top] + (f[x] + rest) /\ F[s \ {x}] = f[top] + rest
    BY <2>4, <2>7, <2>8
  <2>. HIDE DEF rest
  <2>11. F[s] = f[x] + F[s \ {x}]
    BY <2>9, <2>10
  <2>. QED BY <2>3, <2>11
<1>5. ASSUME NEW s \in SUBSET S, NEW x \in s PROVE PartSum(f, s) = f[x] + PartSum(f, s \ {x})
  <2>1. F[s] = f[x] + F[s \ {x}]
    BY <1>4
  <2>2. s \ {x} \in SUBSET S
    OBVIOUS
  <2>. QED BY <1>3, <2>1, <2>2
<1>6. SumFunction(f) = PartSum(f, S)
  <2>1. f = [x \in S |-> f[x]]
    OBVIOUS
  <2>. QED BY <2>1 DEF PartSum
<1>. HIDE DEF Odd
<1>. QED BY <1>2, <1>3, <1>5, <1>6

LEMMA SumOfNone == ASSUME NEW f, DOMAIN f = {} PROVE SumFunction(f) = 0
<1>1. PICK g : g = [x \in {} |-> 0]
  OBVIOUS
<1>2. g \in [{} -> Int] /\ {} \in SUBSET {}
  BY <1>1
<1>3. SumFunction(g) = PartSum(g, {}) /\ PartSum(g, {}) = 0
  BY <1>2, FS_EmptySet, PartSumIs
<1>4. SumFunction(f) = SumFunction([x \in {} |-> 0])
  BY DEF SumFunction, SumFunctionOnSet, FoldFunctionOnSet, MapThenFoldSet
<1>. QED BY <1>1, <1>3, <1>4

LEMMA SumOfOne ==
  ASSUME NEW x, NEW f \in [{x} -> Int]
  PROVE  SumFunction(f) = f[x]
<1>1. IsFiniteSet({x}) /\ {x} \in SUBSET {x} /\ {} \in SUBSET {x} /\ x \in {x} /\ {x} \ {x} = {}
  BY FS_Singleton
<1>2. SumFunction(f) = PartSum(f, {x}) /\ PartSum(f, {x}) = f[x] + PartSum(f, {x} \ {x})
  BY <1>1, PartSumIs
<1>3. PartSum(f, {x} \ {x}) = 0 /\ f[x] \in Int
  BY <1>1, PartSumIs
<1>4. SumFunction(f) = f[x] + 0
  BY <1>2, <1>3
<1>. QED BY <1>3, <1>4

LEMMA SumOfTwo ==
  ASSUME NEW x, NEW y, x # y, NEW f \in [{x, y} -> Int]
  PROVE  SumFunction(f) = f[x] + f[y]
<1>1. /\ {x, y} \in SUBSET {x, y} /\ {y} \in SUBSET {x, y} /\ {} \in SUBSET {x, y}
      /\ {x, y} \ {x} = {y} /\ {y} \ {y} = {} /\ f[x] \in Int /\ f[y] \in Int
  OBVIOUS
<1>2. IsFiniteSet({x, y})
  <2>1. {x, y} = {x} \cup {y} /\ IsFiniteSet({x}) /\ IsFiniteSet({y})
    BY FS_Singleton
  <2>. QED BY <2>1, FS_AddElement
<1>3. SumFunction(f) = PartSum(f, {x, y}) /\ PartSum(f, {x, y}) = f[x] + PartSum(f, {x, y} \ {x})
  BY <1>1, <1>2, PartSumIs
<1>4. PartSum(f, {y}) = f[y] + PartSum(f, {y} \ {y}) /\ PartSum(f, {y} \ {y}) = 0
  BY <1>1, <1>2, PartSumIs
<1>5. SumFunction(f) = f[x] + (f[y] + 0)
  BY <1>1, <1>3, <1>4
<1>. QED BY <1>1, <1>5

IsTriple(S, x, y, z) == S = {x, y, z} /\ x # y /\ x # z /\ y # z

LEMMA SumOfThree ==
  ASSUME NEW S, NEW x, NEW y, NEW z, IsTriple(S, x, y, z), NEW f \in [S -> Int]
  PROVE  SumFunction(f) = f[x] + (f[y] + f[z])
<1>1. /\ S \in SUBSET S /\ {y, z} \in SUBSET S /\ {z} \in SUBSET S
      /\ S \ {x} = {y, z} /\ {y, z} \ {y} = {z} /\ {z} \ {z} = {}
      /\ f[x] \in Int /\ f[y] \in Int /\ f[z] \in Int /\ x \in S /\ {} \in SUBSET S
  BY DEF IsTriple
<1>2. IsFiniteSet(S)
  <2>1. S = ({x} \cup {y}) \cup {z} /\ IsFiniteSet({x})
    BY FS_Singleton DEF IsTriple
  <2>2. IsFiniteSet({x} \cup {y})
    BY <2>1, FS_AddElement
  <2>. QED BY <2>1, <2>2, FS_AddElement
<1>3. SumFunction(f) = PartSum(f, S) /\ PartSum(f, S) = f[x] + PartSum(f, S \ {x})
  BY <1>1, <1>2, PartSumIs
<1>4. PartSum(f, {y, z}) = f[y] + PartSum(f, {z}) /\ PartSum(f, {z}) = f[z] + 0
  <2>1. \A s \in SUBSET S : y \in s => PartSum(f, s) = f[y] + PartSum(f, s \ {y})
    BY <1>2, PartSumIs
  <2>2. PartSum(f, {z}) = f[z] + PartSum(f, {z} \ {z}) /\ PartSum(f, {}) = 0
    BY <1>1, <1>2, PartSumIs
  <2>. QED BY <1>1, <2>1, <2>2
<1>5. SumFunction(f) = f[x] + (f[y] + (f[z] + 0))
  BY <1>1, <1>3, <1>4
<1>. QED BY <1>1, <1>5

(* A sum is between as many times the least and the greatest term. *)
Within(S, f, lo, hi) ==
  /\ IsFiniteSet(S) /\ f \in [S -> Int] /\ lo \in Int /\ hi \in Int
  /\ \A x \in S : lo <= f[x] /\ f[x] <= hi

LEMMA SumBounds ==
  ASSUME NEW S, NEW f, NEW lo, NEW hi, Within(S, f, lo, hi)
  PROVE  /\ SumFunction(f) \in Int
         /\ lo * Cardinality(S) <= SumFunction(f) /\ SumFunction(f) <= hi * Cardinality(S)
<1>0. /\ IsFiniteSet(S) /\ f \in [S -> Int] /\ lo \in Int /\ hi \in Int
      /\ \A x \in S : lo <= f[x] /\ f[x] <= hi
  BY DEF Within
<1>. DEFINE Between(s) == lo * Cardinality(s) <= PartSum(f, s) /\ PartSum(f, s) <= hi * Cardinality(s)
            Odd == {s \in SUBSET S : ~Between(s)}
<1>1. ASSUME Odd # {} PROVE FALSE
  <2>1. PICK s \in Odd : \A other \in Odd : other \subseteq s => other = s
    <3>1. Odd \in SUBSET (SUBSET S)
      OBVIOUS
    <3>. HIDE DEF Odd
    <3>. QED BY <1>0, <1>1, <3>1, MinimalSubset
  <2>2. s \in SUBSET S /\ ~Between(s) /\ IsFiniteSet(s)
    BY <1>0, FS_Subset
  <2>3. s # {}
    <3>1. ASSUME s = {} PROVE FALSE
      <4>1. Cardinality(s) = 0 /\ PartSum(f, s) = 0
        BY <1>0, <2>2, <3>1, FS_EmptySet, PartSumIs
      <4>. QED BY <1>0, <2>2, <4>1
    <3>. QED BY <3>1
  <2>4. PICK x \in s : TRUE
    BY <2>3
  <2>. DEFINE t == s \ {x}  k == Cardinality(t)
  <2>5. t \in SUBSET S /\ t \subseteq s /\ t # s /\ x \in S
    BY <2>2, <2>4
  <2>6. Between(t)
    <3>1. t \notin Odd
      <4>. HIDE DEF Odd, t
      <4>. QED BY <2>1, <2>5
    <3>. QED BY <2>5, <3>1
  <2>7. Cardinality(s) \in Nat /\ k \in Nat /\ Cardinality(s) = k + 1
    <3>1. Cardinality(s) \in Nat
      BY <2>2, FS_CardinalityType
    <3>2. IsFiniteSet(t) /\ k = Cardinality(s) - 1
      BY <2>2, <2>4, FS_RemoveElement
    <3>3. k \in Nat
      BY <3>2, FS_CardinalityType
    <3>. HIDE DEF k
    <3>. QED BY <3>1, <3>2, <3>3
  <2>8. PartSum(f, s) = f[x] + PartSum(f, t) /\ PartSum(f, t) \in Int /\ f[x] \in Int
        /\ lo <= f[x] /\ f[x] <= hi
    BY <1>0, <2>2, <2>4, <2>5, PartSumIs
  <2>. HIDE DEF t, k
  <2>9. lo * (k + 1) = lo * k + lo /\ hi * (k + 1) = hi * k + hi /\ lo * k \in Int /\ hi * k \in Int
    BY <1>0, <2>7
  <2>10. lo * k <= PartSum(f, t) /\ PartSum(f, t) <= hi * k
    BY <2>6 DEF k
  <2>11. Between(s)
    BY <1>0, <2>7, <2>8, <2>9, <2>10
  <2>. QED BY <2>2, <2>11
<1>2. Between(S)
  BY <1>1
<1>3. SumFunction(f) = PartSum(f, S) /\ PartSum(f, S) \in Int
  BY <1>0, PartSumIs
<1>. QED BY <1>2, <1>3

(* Without negative terms, a part of a sum is at most the whole. *)
LEMMA PartsGrow ==
  ASSUME NEW S, IsFiniteSet(S), NEW f \in [S -> Nat], NEW U \in SUBSET S
  PROVE  PartSum(f, U) <= SumFunction(f)
<1>. DEFINE Odd == {s \in SUBSET S : U \subseteq s /\ ~(PartSum(f, U) <= PartSum(f, s))}
<1>1. f \in [S -> Int]
  OBVIOUS
<1>2. ASSUME Odd # {} PROVE FALSE
  <2>1. PICK s \in Odd : \A other \in Odd : other \subseteq s => other = s
    <3>1. Odd \in SUBSET (SUBSET S)
      OBVIOUS
    <3>. HIDE DEF Odd
    <3>. QED BY <1>2, <3>1, MinimalSubset
  <2>2. s \in SUBSET S /\ U \subseteq s /\ ~(PartSum(f, U) <= PartSum(f, s))
    OBVIOUS
  <2>3. PartSum(f, U) \in Int /\ PartSum(f, s) \in Int
    BY <1>1, <2>2, PartSumIs
  <2>4. PICK x \in s : x \notin U
    <3>1. s # U
      BY <2>2, <2>3
    <3>. QED BY <2>2, <3>1
  <2>5. s \ {x} \in SUBSET S /\ U \subseteq s \ {x} /\ s \ {x} \subseteq s /\ s \ {x} # s /\ f[x] \in Nat
    BY <2>2, <2>4
  <2>6. PartSum(f, U) <= PartSum(f, s \ {x})
    <3>1. s \ {x} \notin Odd
      <4>. HIDE DEF Odd
      <4>. QED BY <2>1, <2>5
    <3>. QED BY <2>5, <3>1
  <2>7. PartSum(f, s) = f[x] + PartSum(f, s \ {x}) /\ PartSum(f, s \ {x}) \in Int
    BY <1>1, <2>2, <2>5, PartSumIs
  <2>. QED BY <2>2, <2>3, <2>5, <2>6, <2>7
<1>3. PartSum(f, U) <= PartSum(f, S)
  BY <1>2
<1>. QED BY <1>1, <1>3, PartSumIs

(* The average of numbers within bounds, by whole numbers, is within them. *)
LEMMA Divided ==
  ASSUME NEW a \in Nat, NEW b \in Nat \ {0}, NEW lo \in Int, NEW hi \in Int,
         lo * b <= a, a <= hi * b
  PROVE  a \div b \in lo .. hi
<1>. DEFINE q == a \div b  r == a % b
<1>1. a = b * q + r /\ q \in Int /\ r \in 0 .. b - 1
  BY Division
<1>. HIDE DEF q, r
<1>2. ASSUME q > hi PROVE FALSE
  <2>1. b * (q - hi - 1) >= 0
    BY <1>1, <1>2
  <2>2. b * q >= hi * b + b
    BY <1>1, <2>1
  <2>. QED BY <1>1, <2>2
<1>3. ASSUME q < lo PROVE FALSE
  <2>1. b * (lo - q - 1) >= 0
    BY <1>1, <1>3
  <2>2. lo * b >= b * q + b
    BY <1>1, <2>1
  <2>. QED BY <1>1, <2>2
<1>. QED BY <1>1, <1>2, <1>3 DEF q

(* A weighted sum is between those with the least and the greatest weight. *)
Weighed(S, t, w, lo, hi) ==
  /\ IsFiniteSet(S) /\ t \in [S -> Nat] /\ w \in [S -> Nat] /\ lo \in Nat /\ hi \in Nat
  /\ \A x \in S : t[x] > 0 => lo <= w[x] /\ w[x] <= hi

LEMMA SumWeighted ==
  ASSUME NEW S, NEW t, NEW w, NEW lo, NEW hi, Weighed(S, t, w, lo, hi)
  PROVE  LET sum == SumFunction([x \in S |-> w[x] * t[x]])
         IN sum \in Nat /\ lo * SumFunction(t) <= sum /\ sum <= hi * SumFunction(t)
<1>1. /\ IsFiniteSet(S) /\ t \in [S -> Nat] /\ w \in [S -> Nat] /\ lo \in Nat /\ hi \in Nat
      /\ \A x \in S : t[x] > 0 => lo <= w[x] /\ w[x] <= hi
  BY DEF Weighed
<1>. DEFINE f == [x \in S |-> w[x] * t[x]]  low == [x \in S |-> lo * t[x]]
            high == [x \in S |-> hi * t[x]]  none == [x \in S |-> 0]
<1>2. \A a, b, c \in Nat : /\ a * b \in Nat
                           /\ b = 0 => a * b = c * b
                           /\ a <= c => a * b <= c * b
  <2>. SUFFICES ASSUME NEW a \in Nat, NEW b \in Nat, NEW c \in Nat
                PROVE  /\ a * b \in Nat
                       /\ b = 0 => a * b = c * b
                       /\ a <= c => a * b <= c * b
    OBVIOUS
  <2>1. a * b \in Nat /\ c * b \in Nat
    OBVIOUS
  <2>2. b = 0 => a * b = c * b
    OBVIOUS
  <2>3. ASSUME a <= c PROVE a * b <= c * b
    <3>1. (c - a) * b >= 0
      BY <2>3
    <3>2. (c - a) * b = c * b - a * b
      OBVIOUS
    <3>. QED BY <2>1, <3>1, <3>2
  <2>. QED BY <2>1, <2>2, <2>3
<1>3. ASSUME NEW x \in S
      PROVE  w[x] * t[x] \in Nat /\ lo * t[x] <= w[x] * t[x] /\ w[x] * t[x] <= hi * t[x]
  <2>1. t[x] \in Nat /\ w[x] \in Nat
    BY <1>1
  <2>2. w[x] * t[x] \in Nat /\ lo * t[x] \in Nat /\ hi * t[x] \in Nat
    BY <1>1, <1>2, <2>1
  <2>3. CASE t[x] = 0
    <3>1. lo * t[x] = w[x] * t[x] /\ hi * t[x] = w[x] * t[x]
      BY <1>1, <1>2, <2>1, <2>3
    <3>. QED BY <2>2, <3>1
  <2>4. CASE t[x] > 0
    <3>1. lo <= w[x] /\ w[x] <= hi
      BY <1>1, <2>4
    <3>. QED BY <1>1, <1>2, <2>1, <2>2, <3>1
  <2>. QED BY <2>1, <2>3, <2>4
<1>4. /\ f \in [S -> Nat] /\ f \in [S -> Int] /\ none \in [S -> Int] /\ t \in [S -> Int]
      /\ low \in [S -> Int] /\ high \in [S -> Int]
  <2>1. \A x \in S : lo * t[x] \in Int /\ hi * t[x] \in Int
    BY <1>1
  <2>. QED BY <1>1, <1>3, <2>1
<1>5. \A x \in S : /\ low[x] - none[x] <= f[x] - none[x] /\ f[x] - none[x] <= high[x] - none[x]
                   /\ low[x] = lo * t[x] + 0 * t[x] /\ high[x] = hi * t[x] + 0 * t[x]
  <2>. SUFFICES ASSUME NEW x \in S
                PROVE  /\ low[x] - none[x] <= f[x] - none[x] /\ f[x] - none[x] <= high[x] - none[x]
                       /\ low[x] = lo * t[x] + 0 * t[x] /\ high[x] = hi * t[x] + 0 * t[x]
    OBVIOUS
  <2>. DEFINE a == lo * t[x]  b == w[x] * t[x]  c == hi * t[x]  d == 0 * t[x]
  <2>1. a \in Nat /\ b \in Nat /\ c \in Nat /\ d = 0 /\ a <= b /\ b <= c
    <3>1. t[x] \in Nat
      BY <1>1
    <3>2. a \in Nat /\ c \in Nat /\ d = 0
      BY <1>1, <1>2, <3>1
    <3>. QED BY <1>3, <3>2
  <2>2. low[x] = a /\ f[x] = b /\ high[x] = c /\ none[x] = 0
    OBVIOUS
  <2>. HIDE DEF a, b, c, d, low, high, f, none
  <2>3. low[x] = a + d /\ high[x] = c + d
    BY <2>1, <2>2
  <2>4. low[x] - none[x] <= f[x] - none[x] /\ f[x] - none[x] <= high[x] - none[x]
    BY <2>1, <2>2
  <2>. QED BY <2>3, <2>4 DEF a, c, d
<1>. HIDE DEF f, low, high, none
<1>6. SumFunction(t) \in Nat /\ SumFunction(f) \in Nat
  BY <1>1, <1>4, SumAtLeast
<1>7. SumFunction(low) = lo * SumFunction(t) + 0 * SumFunction(t)
  <2>1. IsCombination(S, lo, 0, t, t, low)
    BY <1>1, <1>4, <1>5 DEF IsCombination
  <2>. QED BY <1>1, <2>1, SumLinear
<1>8. SumFunction(high) = hi * SumFunction(t) + 0 * SumFunction(t)
  <2>1. IsCombination(S, hi, 0, t, t, high)
    BY <1>1, <1>4, <1>5 DEF IsCombination
  <2>. QED BY <1>1, <2>1, SumLinear
<1>9. /\ SumFunction(low) - SumFunction(none) <= SumFunction(f) - SumFunction(none)
      /\ SumFunction(low) \in Int /\ SumFunction(none) \in Int
  <2>1. \A x \in S : low[x] - none[x] <= f[x] - none[x]
    BY <1>5
  <2>. QED BY <1>1, <1>4, <2>1, SumGap
<1>10. /\ SumFunction(f) - SumFunction(none) <= SumFunction(high) - SumFunction(none)
       /\ SumFunction(high) \in Int
  <2>1. \A x \in S : f[x] - none[x] <= high[x] - none[x]
    BY <1>5
  <2>. QED BY <1>1, <1>4, <2>1, SumGap
<1>11. SumFunction(low) <= SumFunction(f) /\ SumFunction(f) <= SumFunction(high)
  BY <1>6, <1>9, <1>10
<1>12. SumFunction(low) = lo * SumFunction(t) /\ SumFunction(high) = hi * SumFunction(t)
  BY <1>1, <1>6, <1>7, <1>8
<1>. QED BY <1>6, <1>11, <1>12 DEF f

(* To count elements is to add one for each. *)
LEMMA SumCounts ==
  ASSUME NEW S, IsFiniteSet(S), NEW T \in SUBSET S
  PROVE  SumFunction([x \in S |-> IF x \in T THEN 1 ELSE 0]) = Cardinality(T)
<1>. DEFINE f == [x \in S |-> IF x \in T THEN 1 ELSE 0]
            Odd == {s \in SUBSET S : PartSum(f, s) # Cardinality(s \cap T)}
<1>1. f \in [S -> Int] /\ \A x \in S : f[x] = IF x \in T THEN 1 ELSE 0
  OBVIOUS
<1>. HIDE DEF f
<1>2. ASSUME Odd # {} PROVE FALSE
  <2>1. PICK s \in Odd : \A other \in Odd : other \subseteq s => other = s
    <3>1. Odd \in SUBSET (SUBSET S)
      OBVIOUS
    <3>. HIDE DEF Odd
    <3>. QED BY <1>2, <3>1, MinimalSubset
  <2>2. s \in SUBSET S /\ PartSum(f, s) # Cardinality(s \cap T)
    OBVIOUS
  <2>3. s # {}
    <3>1. ASSUME s = {} PROVE FALSE
      <4>1. PartSum(f, s) = 0 /\ s \cap T = {}
        BY <1>1, <2>2, <3>1, PartSumIs
      <4>. QED BY <2>2, <4>1, FS_EmptySet
    <3>. QED BY <3>1
  <2>4. PICK x \in s : TRUE
    BY <2>3
  <2>. DEFINE r == s \ {x}
  <2>5. r \in SUBSET S /\ r \subseteq s /\ r # s /\ x \in S
    BY <2>2
  <2>6. PartSum(f, r) = Cardinality(r \cap T)
    <3>1. r \notin Odd
      <4>. HIDE DEF Odd, r
      <4>. QED BY <2>1, <2>5
    <3>. QED BY <2>5, <3>1
  <2>7. PartSum(f, s) = f[x] + PartSum(f, r) /\ PartSum(f, r) \in Int
    BY <1>1, <2>2, <2>5, PartSumIs
  <2>8. IsFiniteSet(s \cap T)
    BY <2>2, FS_Subset
  <2>9. CASE x \in T
    <3>. DEFINE U == s \cap T
    <3>1. x \in U /\ r \cap T = U \ {x} /\ IsFiniteSet(U)
      BY <2>8, <2>9
    <3>. HIDE DEF r, U
    <3>2. Cardinality(r \cap T) = Cardinality(U) - 1
      BY <3>1, FS_RemoveElement
    <3>3. f[x] = 1 /\ Cardinality(U) \in Nat
      BY <1>1, <2>5, <2>9, <3>1, FS_CardinalityType
    <3>4. PartSum(f, s) # Cardinality(U)
      BY <2>2 DEF U
    <3>. QED BY <2>6, <2>7, <3>2, <3>3, <3>4
  <2>10. CASE x \notin T
    <3>1. r \cap T = s \cap T /\ f[x] = 0
      BY <1>1, <2>5, <2>10
    <3>2. PartSum(f, r) # PartSum(f, s)
      BY <2>2, <2>6, <3>1, Zenon
    <3>. HIDE DEF r
    <3>. QED BY <2>7, <3>1, <3>2
  <2>. QED BY <2>9, <2>10
<1>3. PartSum(f, S) = Cardinality(S \cap T) /\ S \cap T = T
  BY <1>2
<1>. QED BY <1>1, <1>3, PartSumIs DEF f

(* Terms that each have one of their own that is no less sum up to no more.   *)
Matched(T, S, f, g, own) ==
  /\ f \in [T -> Nat] /\ g \in [S -> Nat] /\ own \in [T -> S]
  /\ \A x, y \in T : own[x] = own[y] => x = y
  /\ \A x \in T : f[x] <= g[own[x]]

LEMMA SumMatched ==
  ASSUME NEW T, IsFiniteSet(T), NEW S, IsFiniteSet(S), NEW f, NEW g, NEW own, Matched(T, S, f, g, own)
  PROVE  SumFunction(f) <= SumFunction(g)
<1>. /\ f \in [T -> Nat] /\ g \in [S -> Nat] /\ own \in [T -> S]
     /\ \A x, y \in T : own[x] = own[y] => x = y
     /\ \A x \in T : f[x] <= g[own[x]]
  BY DEF Matched
<1>1. f \in [T -> Int] /\ g \in [S -> Int]
  OBVIOUS
<1>. DEFINE Owns(t) == {own[x] : x \in t}
            Odd == {t \in SUBSET T : ~(PartSum(f, t) <= PartSum(g, Owns(t)))}
<1>2. ASSUME Odd # {} PROVE FALSE
  <2>1. PICK t \in Odd : \A other \in Odd : other \subseteq t => other = t
    <3>1. Odd \in SUBSET (SUBSET T)
      OBVIOUS
    <3>. HIDE DEF Odd
    <3>. QED BY <1>2, <3>1, MinimalSubset
  <2>2. t \in SUBSET T /\ ~(PartSum(f, t) <= PartSum(g, Owns(t))) /\ Owns(t) \in SUBSET S
    OBVIOUS
  <2>3. t # {}
    <3>1. ASSUME t = {} PROVE FALSE
      <4>1. Owns(t) = {}
        BY <3>1
      <4>2. PartSum(f, t) = 0 /\ PartSum(g, Owns(t)) = 0
        <5>. HIDE DEF Owns
        <5>. QED BY <1>1, <2>2, <3>1, <4>1, PartSumIs
      <4>. QED BY <2>2, <4>2
    <3>. QED BY <3>1
  <2>4. PICK x \in t : TRUE
    BY <2>3
  <2>. DEFINE u == t \ {x}
  <2>5. u \in SUBSET T /\ u \subseteq t /\ u # t /\ x \in T /\ own[x] \in Owns(t)
    BY <2>2, <2>4
  <2>6. Owns(t) \ {own[x]} = Owns(u)
    BY <2>2, <2>4, <2>5
  <2>7. PartSum(f, u) <= PartSum(g, Owns(u))
    <3>1. u \notin Odd
      <4>. HIDE DEF Odd, u
      <4>. QED BY <2>1, <2>5
    <3>. QED BY <2>5, <3>1
  <2>. HIDE DEF Owns
  <2>8. PartSum(f, t) = f[x] + PartSum(f, u) /\ PartSum(f, u) \in Int /\ f[x] \in Int
    BY <1>1, <2>2, <2>4, <2>5, PartSumIs
  <2>9. PartSum(g, Owns(t)) = g[own[x]] + PartSum(g, Owns(u)) /\ PartSum(g, Owns(u)) \in Int
        /\ g[own[x]] \in Int
    <3>1. Owns(u) \in SUBSET S /\ own[x] \in S
      BY <2>2, <2>5 DEF Owns
    <3>2. PartSum(g, Owns(t)) = g[own[x]] + PartSum(g, Owns(t) \ {own[x]})
      BY <1>1, <2>2, <2>5, PartSumIs
    <3>3. PartSum(g, Owns(u)) \in Int
      BY <1>1, <3>1, PartSumIs
    <3>. QED BY <1>1, <2>6, <3>1, <3>2, <3>3
  <2>10. f[x] <= g[own[x]]
    BY <2>5
  <2>. QED BY <2>2, <2>7, <2>8, <2>9, <2>10
<1>3. PartSum(f, T) <= PartSum(g, Owns(T))
  BY <1>2
<1>4. Owns(T) \in SUBSET S
  OBVIOUS
<1>. HIDE DEF Owns, Odd
<1>5. PartSum(g, Owns(T)) <= SumFunction(g)
  BY <1>4, PartsGrow
<1>6. SumFunction(f) = PartSum(f, T) /\ PartSum(f, T) \in Int /\ PartSum(g, Owns(T)) \in Int
      /\ SumFunction(g) \in Int
  <2>1. T \in SUBSET T /\ S \in SUBSET S
    OBVIOUS
  <2>. QED BY <1>1, <1>4, <2>1, PartSumIs
<1>. QED BY <1>3, <1>5, <1>6

(* What is put in disjoint parts is counted part by part. *)
Parted(L, R, own) ==
  /\ own \in [L -> SUBSET R] /\ \A r \in R : \E l \in L : r \in own[l]
  /\ \A l, k \in L : l # k => own[l] \cap own[k] = {}

LEMMA SumOfParts ==
  ASSUME NEW L, IsFiniteSet(L), NEW R, IsFiniteSet(R), NEW own, Parted(L, R, own)
  PROVE  SumFunction([l \in L |-> Cardinality(own[l])]) = Cardinality(R)
<1>. DEFINE f == [l \in L |-> Cardinality(own[l])]  All(s) == UNION {own[l] : l \in s}
            Odd == {s \in SUBSET L : PartSum(f, s) # Cardinality(All(s))}
<1>1. /\ own \in [L -> SUBSET R] /\ All(L) = R
      /\ \A l, k \in L : l # k => own[l] \cap own[k] = {}
  BY DEF Parted
<1>2. \A l \in L : IsFiniteSet(own[l]) /\ Cardinality(own[l]) \in Nat
  BY <1>1, FS_Subset, FS_CardinalityType
<1>3. f \in [L -> Int] /\ \A l \in L : f[l] = Cardinality(own[l])
  BY <1>2
<1>. HIDE DEF f
<1>4. ASSUME Odd # {} PROVE FALSE
  <2>1. PICK s \in Odd : \A other \in Odd : other \subseteq s => other = s
    <3>1. Odd \in SUBSET (SUBSET L)
      OBVIOUS
    <3>. HIDE DEF Odd
    <3>. QED BY <1>4, <3>1, MinimalSubset
  <2>2. s \in SUBSET L /\ PartSum(f, s) # Cardinality(All(s))
    OBVIOUS
  <2>3. s # {}
    <3>1. ASSUME s = {} PROVE FALSE
      <4>1. All(s) = {}
        BY <3>1
      <4>2. Cardinality(All(s)) = 0
        BY <4>1, FS_EmptySet
      <4>3. PartSum(f, s) = 0
        BY <1>3, <2>2, <3>1, PartSumIs
      <4>. QED BY <2>2, <4>2, <4>3
    <3>. QED BY <3>1
  <2>4. PICK l \in s : TRUE
    BY <2>3
  <2>. DEFINE t == s \ {l}
  <2>5. t \in SUBSET L /\ t \subseteq s /\ t # s /\ l \in L
    BY <2>2, <2>4
  <2>6. PartSum(f, t) = Cardinality(All(t))
    <3>1. t \notin Odd
      <4>. HIDE DEF Odd, t
      <4>. QED BY <2>1, <2>5
    <3>. QED BY <2>5, <3>1
  <2>7. All(s) = own[l] \cup All(t) /\ own[l] \cap All(t) = {} /\ All(t) \in SUBSET R
    BY <1>1, <2>2, <2>4, <2>5
  <2>8. PartSum(f, s) = f[l] + PartSum(f, t)
    BY <1>3, <2>2, <2>4, PartSumIs
  <2>. HIDE DEF t, All
  <2>9. IsFiniteSet(All(t)) /\ Cardinality(All(t)) \in Nat
    BY <2>7, FS_Subset, FS_CardinalityType
  <2>10. Cardinality(All(s)) = Cardinality(own[l]) + Cardinality(All(t)) - Cardinality({})
    BY <1>2, <2>5, <2>7, <2>9, FS_Union
  <2>11. Cardinality(All(s)) = Cardinality(own[l]) + Cardinality(All(t))
    BY <1>2, <2>5, <2>9, <2>10, FS_EmptySet
  <2>. QED BY <1>3, <2>2, <2>5, <2>6, <2>8, <2>11
<1>5. PartSum(f, L) = Cardinality(All(L))
  BY <1>4
<1>6. SumFunction(f) = PartSum(f, L)
  BY <1>3, PartSumIs
<1>. QED BY <1>1, <1>5, <1>6 DEF f

-------------------------------------------------------------------------------
(* Places *)

(* As many different places as there are elements are all taken. *)
LEMMA EveryPlaceTaken ==
  ASSUME NEW S, IsFiniteSet(S), NEW r \in [S -> 1 .. Cardinality(S)],
         \A x, y \in S : r[x] = r[y] => x = y
  PROVE  \A n \in 1 .. Cardinality(S) : \E x \in S : r[x] = n
<1>. DEFINE size == Cardinality(S)  T == 1 .. size
<1>1. size \in Nat
  BY FS_CardinalityType
<1>2. IsFiniteSet(T) /\ Cardinality(T) = size
  <2>. HIDE DEF size
  <2>. QED BY <1>1, FS_Interval
<1>3. r \in Injection(S, T)
  BY DEF Injection, IsInjective
<1>. HIDE DEF T
<1>4. r \in Surjection(S, T)
  BY <1>2, <1>3, FS_Injection
<1>. QED BY <1>4 DEF Surjection, T

(* Of two numbers the smaller one has the smaller place. *)
LEMMA PlacesGrow ==
  ASSUME NEW S \in SUBSET Nat, IsFiniteSet(S), NEW i \in Nat, NEW j \in S, i < j
  PROVE  CountTo(S, i) < CountTo(S, j)
<1>. DEFINE A == {k \in S : k <= i}  B == {k \in S : k <= j}
<1>1. A \in SUBSET B /\ B \in SUBSET S /\ j \in B /\ j \notin A
  <2>1. \A k \in S : k \in Nat /\ (k <= i => k <= j)
    OBVIOUS
  <2>2. j \in Nat /\ j <= j /\ ~(j <= i)
    OBVIOUS
  <2>. QED BY <2>1, <2>2, Zenon
<1>. HIDE DEF A, B
<1>2. IsFiniteSet(B) /\ IsFiniteSet(A) /\ Cardinality(A) <= Cardinality(B)
      /\ Cardinality(A) # Cardinality(B)
  BY <1>1, FS_Subset
<1>3. Cardinality(A) \in Nat /\ Cardinality(B) \in Nat
  BY <1>2, FS_CardinalityType
<1>. QED BY <1>2, <1>3 DEF CountTo, A, B

LEMMA PlaceInRange ==
  ASSUME NEW S \in SUBSET Nat, IsFiniteSet(S), NEW i \in S
  PROVE  CountTo(S, i) \in 1 .. Cardinality(S)
<1>. DEFINE A == {k \in S : k <= i}
<1>1. A \in SUBSET S /\ i \in A
  OBVIOUS
<1>. HIDE DEF A
<1>2. IsFiniteSet(A) /\ Cardinality(A) <= Cardinality(S)
  BY <1>1, FS_Subset
<1>3. Cardinality(A) # 0
  BY <1>1, <1>2, FS_EmptySet
<1>4. Cardinality(A) \in Nat /\ Cardinality(S) \in Nat
  BY <1>2, FS_CardinalityType
<1>. QED BY <1>2, <1>3, <1>4 DEF CountTo, A

(* InOrder lists each number of the set once, a smaller one before a greater. *)
LEMMA InOrderIs ==
  ASSUME NEW S \in SUBSET Nat, IsFiniteSet(S)
  PROVE  LET order == InOrder(S)  size == Cardinality(S) IN
         /\ size \in Nat /\ DOMAIN order = 1 .. size
         /\ \A n \in 1 .. size : order[n] \in S /\ CountTo(S, order[n]) = n
         /\ \A i \in S : CountTo(S, i) \in 1 .. size /\ order[CountTo(S, i)] = i
         /\ \A m, n \in 1 .. size : m < n => order[m] < order[n]
<1>. DEFINE order == InOrder(S)  size == Cardinality(S)  place == [i \in S |-> CountTo(S, i)]
<1>1. size \in Nat
  BY FS_CardinalityType
<1>2. \A i \in S : CountTo(S, i) \in 1 .. size
  BY PlaceInRange
<1>3. \A i, j \in S : CountTo(S, i) = CountTo(S, j) => i = j
  <2>1. SUFFICES ASSUME NEW i \in S, NEW j \in S, CountTo(S, i) = CountTo(S, j), i < j
                 PROVE  FALSE
    OBVIOUS
  <2>2. CountTo(S, i) < CountTo(S, j) /\ CountTo(S, i) \in 1 .. size
    BY <1>2, <2>1, PlacesGrow
  <2>. QED BY <1>1, <2>1, <2>2
<1>4. place \in [S -> 1 .. size] /\ \A i \in S : place[i] = CountTo(S, i)
  BY <1>2
<1>5. \A n \in 1 .. size : \E i \in S : place[i] = n
  <2>. HIDE DEF place
  <2>1. \A x, y \in S : place[x] = place[y] => x = y
    BY <1>3, <1>4, Zenon
  <2>. QED BY <1>4, <2>1, EveryPlaceTaken
<1>6. \A n \in 1 .. size : \E i \in S : CountTo(S, i) = n
  <2>. HIDE DEF place
  <2>. QED BY <1>4, <1>5
<1>7. DOMAIN order = 1 .. size
  BY DEF InOrder
<1>8. ASSUME NEW n \in 1 .. size PROVE order[n] \in S /\ CountTo(S, order[n]) = n
  <2>1. order[n] = CHOOSE i \in S : CountTo(S, i) = n
    BY DEF InOrder
  <2>2. \E i \in S : CountTo(S, i) = n
    BY <1>6
  <2>. HIDE DEF order
  <2>. QED BY <2>1, <2>2
<1>. HIDE DEF order
<1>9. ASSUME NEW i \in S PROVE order[CountTo(S, i)] = i
  BY <1>2, <1>3, <1>8
<1>10. ASSUME NEW m \in 1 .. size, NEW n \in 1 .. size, m < n PROVE order[m] < order[n]
  <2>1. order[m] \in S /\ order[n] \in S /\ CountTo(S, order[m]) = m /\ CountTo(S, order[n]) = n
    BY <1>8
  <2>2. order[n] < order[m] => n < m
    BY <2>1, PlacesGrow
  <2>3. m # n /\ m \in Nat /\ n \in Nat
    BY <1>1, <1>10
  <2>4. order[m] \in Nat /\ order[n] \in Nat /\ order[m] # order[n]
    <3>. HIDE DEF size
    <3>. QED BY <2>1, <2>3
  <2>. HIDE DEF size
  <2>. QED BY <1>1, <1>10, <2>2, <2>3, <2>4
<1>. QED BY <1>1, <1>2, <1>7, <1>8, <1>9, <1>10 DEF order

(* A number greater than all comes last and moves none of them. *)
LEMMA CountNext ==
  ASSUME NEW S \in SUBSET Nat, IsFiniteSet(S), NEW last \in Nat, \A i \in S : i < last
  PROVE  /\ IsFiniteSet(S \cup {last}) /\ Cardinality(S \cup {last}) = Cardinality(S) + 1
         /\ \A i \in S : CountTo(S \cup {last}, i) = CountTo(S, i)
         /\ CountTo(S \cup {last}, last) = Cardinality(S) + 1
<1>. DEFINE T == S \cup {last}  size == Cardinality(S)
<1>1. last \notin S /\ T \in SUBSET Nat
  OBVIOUS
<1>2. IsFiniteSet(T) /\ Cardinality(T) = size + 1
  BY <1>1, FS_AddElement
<1>3. ASSUME NEW i \in S PROVE CountTo(T, i) = CountTo(S, i)
  <2>1. {j \in T : j <= i} = {j \in S : j <= i}
    BY <1>1
  <2>. HIDE DEF T
  <2>. QED BY <2>1 DEF CountTo
<1>4. CountTo(T, last) = size + 1
  <2>1. \A j \in T : j <= last
    OBVIOUS
  <2>2. {j \in T : j <= last} = T
    <3>. HIDE DEF T
    <3>. QED BY <2>1
  <2>. HIDE DEF T
  <2>. QED BY <1>2, <2>2 DEF CountTo
<1>. QED BY <1>2, <1>3, <1>4

LEMMA CountGreatest ==
  ASSUME NEW S, NEW most \in S, \A i \in S : i <= most
  PROVE  CountTo(S, most) = Cardinality(S)
<1>1. {j \in S : j <= most} = S
  OBVIOUS
<1>. QED BY <1>1 DEF CountTo

LEMMA PickedIs ==
  ASSUME NEW list, NEW S \in SUBSET Nat, IsFiniteSet(S)
  PROVE  LET size == Cardinality(S)  order == InOrder(S) IN
         /\ size \in Nat /\ DOMAIN Picked(list, S) = 1 .. size /\ Len(Picked(list, S)) = size
         /\ \A n \in 1 .. size : Picked(list, S)[n] = list[order[n]]
<1>1. Cardinality(S) \in Nat /\ DOMAIN InOrder(S) = 1 .. Cardinality(S)
  BY InOrderIs
<1>2. Picked(list, S) = [n \in 1 .. Cardinality(S) |-> list[InOrder(S)[n]]]
  BY <1>1 DEF Picked
<1>. QED BY <1>1, <1>2

(* One number more, beyond all others, is one place more. *)
SameUpTo(list, longer, n, S) ==
  n \in Nat /\ S \in SUBSET (1 .. n) /\ \A i \in S : longer[i] = list[i]

LEMMA PickedNext ==
  ASSUME NEW list, NEW longer, NEW n, NEW S, SameUpTo(list, longer, n, S)
  PROVE  /\ Picked(longer, S) = Picked(list, S)
         /\ Picked(longer, S \cup {n + 1}) = Append(Picked(list, S), longer[n + 1])
<1>. DEFINE T == S \cup {n + 1}  size == Cardinality(S)  short == InOrder(S)  long == InOrder(T)
<1>. n \in Nat /\ S \in SUBSET (1 .. n) /\ \A i \in S : longer[i] = list[i]
  BY DEF SameUpTo
<1>1. S \in SUBSET Nat /\ IsFiniteSet(S) /\ n + 1 \in Nat /\ \A i \in S : i < n + 1
  <2>1. S \in SUBSET Nat /\ n + 1 \in Nat /\ \A i \in S : i < n + 1
    OBVIOUS
  <2>2. IsFiniteSet(S)
    BY FirstNumbers, FS_Subset
  <2>. QED BY <2>1, <2>2
<1>2. /\ size \in Nat /\ DOMAIN Picked(list, S) = 1 .. size /\ Len(Picked(list, S)) = size
      /\ \A k \in 1 .. size : Picked(list, S)[k] = list[short[k]]
  BY <1>1, PickedIs
<1>3. /\ IsFiniteSet(T) /\ Cardinality(T) = size + 1 /\ T \in SUBSET Nat
      /\ \A i \in S : CountTo(T, i) = CountTo(S, i)
      /\ CountTo(T, n + 1) = size + 1
  BY <1>1, CountNext
<1>4. /\ DOMAIN short = 1 .. size
      /\ \A k \in 1 .. size : short[k] \in S /\ CountTo(S, short[k]) = k
  BY <1>1, InOrderIs
<1>. HIDE DEF T, size, short, long
<1>5. DOMAIN long = 1 .. size + 1 /\ \A i \in T : long[CountTo(T, i)] = i
  BY <1>3, InOrderIs DEF long
<1>6. \A i \in S : i \in T
  BY DEF T
<1>7. n + 1 \in T
  BY DEF T
<1>8. \A k \in 1 .. size : long[k] = short[k]
  BY <1>3, <1>4, <1>5, <1>6
<1>9. long[size + 1] = n + 1
  BY <1>3, <1>5, <1>7
<1>10. Picked(longer, S) = Picked(list, S)
  BY <1>4 DEF Picked, short
<1>11. Picked(longer, T) = [k \in 1 .. size + 1 |-> longer[long[k]]]
  BY <1>5 DEF Picked, long
<1>12. Picked(list, S) = [k \in 1 .. size |-> list[short[k]]]
  BY <1>4 DEF Picked, short
<1>13. \A k \in 1 .. size : longer[long[k]] = list[short[k]]
  BY <1>4, <1>8
<1>14. Picked(longer, T) = Append(Picked(list, S), longer[n + 1])
  <2>1. Append(Picked(list, S), longer[n + 1]) =
          [k \in 1 .. size + 1 |-> IF k = size + 1 THEN longer[n + 1] ELSE Picked(list, S)[k]]
    BY <1>2
  <2>2. \A k \in 1 .. size + 1 : k = size + 1 \/ k \in 1 .. size
    BY <1>2
  <2>3. \A k \in 1 .. size + 1 :
          longer[long[k]] = IF k = size + 1 THEN longer[n + 1] ELSE Picked(list, S)[k]
    BY <1>2, <1>9, <1>13, <2>2
  <2>. QED BY <1>11, <2>1, <2>3
<1>. QED BY <1>10, <1>14 DEF T
===============================================================================
