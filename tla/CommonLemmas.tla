----------------------------- MODULE CommonLemmas -----------------------------
(***************************************************************************)
(* Facts that proofs about several modules rest on: the remainder of a     *)
(* division, for rings and wrapping counters; counting up to a number, the *)
(* induction that facts about recursive functions need; what Kept keeps;   *)
(* sequences joined, and without one of their elements.                    *)
(***************************************************************************)
EXTENDS Selection, SequencesExt, WellFoundedInduction, TLAPS

-----------------------------------------------------------------------------
(* Remainders *)

\* Division with remainder: the quotient and the remainder exist and rebuild the
\* dividend.  Every index into a ring of src/LockFreeQueue.h is such a remainder.
LEMMA DivisionWithRemainder ==
  ASSUME NEW a \in Int, NEW b \in Nat \ {0}
  PROVE  /\ a % b \in 0..b - 1
         /\ a \div b \in Int
         /\ a = b * (a \div b) + (a % b)
OBVIOUS

\* The remainder is the only number below the divisor that rebuilds the dividend.
LEMMA RemainderIsUnique ==
  ASSUME NEW a \in Int, NEW b \in Nat \ {0},
         NEW q \in Int, NEW r \in 0..b - 1, a = b * q + r
  PROVE  a % b = r
OBVIOUS

\* Adding a multiple of the divisor leaves the remainder as it is.
LEMMA RemainderOfShift ==
  ASSUME NEW a \in Int, NEW b \in Nat \ {0}, NEW k \in Int
  PROVE  (a + b * k) % b = a % b
<1>1. a % b \in 0..b - 1 /\ a \div b \in Int /\ a = b * (a \div b) + (a % b)
  BY DivisionWithRemainder
<1>2. a + b * k = b * (a \div b + k) + (a % b)
  BY <1>1
<1>3. a + b * k \in Int /\ a \div b + k \in Int
  BY <1>1
<1> QED BY <1>1, <1>2, <1>3, RemainderIsUnique

\* A number below the divisor is its own remainder.
LEMMA SmallRemainder ==
  ASSUME NEW b \in Nat \ {0}, NEW r \in 0..b - 1
  PROVE  r % b = r
OBVIOUS

\* Two numbers less than the divisor apart have different remainders: the slots
\* of a ring that are in use at one time are different slots.
LEMMA NearNumbersDiffer ==
  ASSUME NEW x \in Int, NEW y \in Int, NEW b \in Nat \ {0}, x < y, y - x < b
  PROVE  x % b # y % b
<1> SUFFICES ASSUME x % b = y % b PROVE FALSE
  OBVIOUS
<1> DEFINE p == x \div b
           q == y \div b
           r == x % b
<1>1. p \in Int /\ q \in Int /\ r \in 0..b - 1 /\ x = b * p + r /\ y = b * q + r
  BY DivisionWithRemainder
<1> HIDE DEF p, q, r
<1>2. y - x = b * (q - p)
  BY <1>1
<1>3. CASE q - p \in Int /\ q - p >= 1
  BY <1>1, <1>2, <1>3
<1>4. CASE q - p \in Int /\ q - p <= 0
  BY <1>1, <1>2, <1>4
<1> QED BY <1>1, <1>3, <1>4

\* The successor of an index steps to the next one or wraps to zero.
LEMMA RemainderOfSuccessor ==
  ASSUME NEW b \in Nat \ {0}, NEW r \in 0..b - 1
  PROVE  (r + 1) % b = IF r = b - 1 THEN 0 ELSE r + 1
<1>1. CASE r = b - 1
  <2>1. r + 1 = b * 1 + 0 /\ 0 \in 0..b - 1 /\ r + 1 \in Int
    BY <1>1
  <2> QED BY <2>1, <1>1, RemainderIsUnique
<1>2. CASE r # b - 1
  BY <1>2, SmallRemainder
<1> QED BY <1>1, <1>2

\* Counting on by one moves the remainder to the next one or back to zero.
LEMMA RemainderOfNext ==
  ASSUME NEW a \in Int, NEW b \in Nat \ {0}
  PROVE  (a + 1) % b = IF a % b = b - 1 THEN 0 ELSE (a % b) + 1
<1> DEFINE r == a % b
           q == a \div b
<1>1. r \in 0..b - 1 /\ q \in Int /\ a = b * q + r
  BY DivisionWithRemainder
<1> HIDE DEF r, q
<1>2. ((r + 1) + b * q) % b = (r + 1) % b
  <2>1. r + 1 \in Int
    BY <1>1
  <2> QED BY ONLY <1>1, <2>1, b \in Nat \ {0}, RemainderOfShift
<1>3. (r + 1) + b * q = a + 1
  BY <1>1
<1>4. (r + 1) % b = IF r = b - 1 THEN 0 ELSE r + 1
  BY <1>1, RemainderOfSuccessor
<1> QED BY <1>2, <1>3, <1>4 DEF r

-----------------------------------------------------------------------------
(* Counting *)

\* A set of numbers has a smallest element.
LEMMA SmallestNumber ==
  ASSUME NEW M, M \subseteq Nat, M # {}
  PROVE  \E m \in M : \A k \in M : m <= k
<1>1. IsWellFoundedOn(OpToRel(<, Nat), Nat)
  BY NatLessThanWellFounded
<1>2. PICK m \in M : \A k \in M : <<k, m>> \notin OpToRel(<, Nat)
  BY <1>1, WFMin
<1>3. \A k \in M : ~(k < m)
  BY <1>2 DEF OpToRel
<1> QED BY <1>3

\* What holds of 0, and of the next number whenever of a number, holds up to n.
LEMMA Counting ==
  ASSUME NEW n \in Nat, NEW P, 0 \in P,
         \A k \in 0..n - 1 : k \in P => k + 1 \in P
  PROVE  \A k \in 0..n : k \in P
<1> DEFINE M == {k \in 0..n : k \notin P}
<1> SUFFICES ASSUME M # {} PROVE FALSE
  OBVIOUS
<1>1. PICK m \in M : \A k \in M : m <= k
  <2> HIDE DEF M
  <2>1. M \subseteq Nat
    BY DEF M
  <2> QED BY <2>1, SmallestNumber
<1>2. m \in 0..n /\ m # 0 /\ m \notin P
  OBVIOUS
<1>3. m - 1 \in 0..n - 1 /\ m - 1 \in 0..n
  BY <1>2
<1>4. m - 1 \in P
  BY <1>1, <1>3
<1> QED BY <1>2, <1>3, <1>4

-----------------------------------------------------------------------------
(* Kept *)

\* f[n] is what the loop has kept of the first n elements of s.
Keeps(f, s, S) ==
  /\ f[0] = <<>>
  /\ \A n \in 1..Len(s) :
       f[n] = IF s[n] \in S THEN Append(f[n - 1], s[n]) ELSE f[n - 1]

\* There is such a function, and Kept is its last value.
LEMMA KeptBySteps ==
  ASSUME NEW A, NEW s \in Seq(A), NEW S
  PROVE  \E f \in [0..Len(s) -> Seq(A)] : Keeps(f, s, S) /\ Kept(s, S) = f[Len(s)]
<1> DEFINE Step(f, n) == IF n = 0 THEN <<>>
                         ELSE IF s[n] \in S THEN Append(f[n - 1], s[n]) ELSE f[n - 1]
           Upto(m) == {f \in [0..m -> Seq(A)] : \A n \in 0..m : f[n] = Step(f, n)}
           P == {m \in 0..Len(s) : Upto(m) # {}}
<1>1. 0 \in P
  <2>1. [n \in 0..0 |-> <<>>] \in Upto(0)
    OBVIOUS
  <2>2. 0 \in 0..Len(s)
    OBVIOUS
  <2> HIDE DEF Upto
  <2> QED BY <2>1, <2>2
<1>2. ASSUME NEW m \in 0..Len(s) - 1, m \in P PROVE m + 1 \in P
  <2>1. PICK f \in Upto(m) : TRUE
    BY <1>2
  <2>2. m + 1 \in 1..Len(s) /\ m \in 0..m /\ s[m + 1] \in A
    OBVIOUS
  <2> DEFINE v == IF s[m + 1] \in S THEN Append(f[m], s[m + 1]) ELSE f[m]
             g == [n \in 0..m + 1 |-> IF n = m + 1 THEN v ELSE f[n]]
  <2>3. v \in Seq(A)
    BY <2>1, <2>2
  <2>4. \A n \in 0..m : g[n] = f[n]
    OBVIOUS
  <2>5. g \in [0..m + 1 -> Seq(A)]
    <3> HIDE DEF v
    <3> QED BY <2>1, <2>3
  <2>6. ASSUME NEW n \in 0..m + 1 PROVE g[n] = Step(g, n)
    <3>1. CASE n = m + 1
      <4>1. g[n] = v /\ g[n - 1] = f[m] /\ n # 0
        BY <3>1, <2>2, <2>4
      <4> QED BY <4>1, <3>1
    <3>2. CASE n # m + 1
      <4>1. n \in 0..m /\ (n # 0 => n - 1 \in 0..m)
        BY <3>2
      <4>2. f[n] = Step(f, n)
        BY <4>1, <2>1
      <4>3. g[n] = f[n] /\ (n # 0 => g[n - 1] = f[n - 1])
        BY <4>1, <2>4
      <4> HIDE DEF g
      <4> QED BY <4>2, <4>3
    <3> QED BY <3>1, <3>2
  <2>7. g \in Upto(m + 1)
    <3> HIDE DEF g, Step
    <3> QED BY <2>5, <2>6
  <2>8. m + 1 \in 0..Len(s)
    OBVIOUS
  <2> HIDE DEF Upto, g
  <2> QED BY <2>7, <2>8
<1>3. Len(s) \in P
  <2>1. Len(s) \in Nat /\ Len(s) \in 0..Len(s)
    OBVIOUS
  <2> HIDE DEF P
  <2> QED BY <1>1, <1>2, <2>1, Counting
<1>4. PICK f \in [0..Len(s) -> Seq(A)] : \A n \in 0..Len(s) : f[n] = Step(f, n)
  BY <1>3
<1> DEFINE body(h) == [n \in 0..Len(s) |-> IF n = 0 THEN <<>>
                         ELSE IF s[n] \in S THEN Append(h[n - 1], s[n]) ELSE h[n - 1]]
           k == CHOOSE h : h = body(h)
<1>5. f = body(f)
  BY <1>4
<1>6. k = body(k)
  <2> HIDE DEF body
  <2> QED BY <1>5
<1>7. \A n \in 0..Len(s) : k[n] = f[n]
  <2> HIDE DEF k
  <2> DEFINE Q == {n \in 0..Len(s) : k[n] = f[n]}
  <2>1. 0 \in Q
    BY <1>4, <1>6
  <2>2. ASSUME NEW n \in 0..Len(s) - 1, n \in Q PROVE n + 1 \in Q
    <3>1. n + 1 \in 0..Len(s) /\ n + 1 # 0 /\ (n + 1) - 1 = n
      OBVIOUS
    <3>2. k[n + 1] = IF s[n + 1] \in S THEN Append(k[n], s[n + 1]) ELSE k[n]
      BY <1>6, <3>1
    <3>3. f[n + 1] = IF s[n + 1] \in S THEN Append(f[n], s[n + 1]) ELSE f[n]
      BY <1>4, <3>1
    <3> QED BY <2>2, <3>1, <3>2, <3>3
  <2>3. Len(s) \in Nat
    OBVIOUS
  <2> HIDE DEF Q
  <2>4. \A n \in 0..Len(s) : n \in Q
    BY <2>1, <2>2, <2>3, Counting
  <2> QED BY <2>4 DEF Q
<1>8. Kept(s, S) = k[Len(s)]
  BY DEF Kept
<1>9. ASSUME NEW n \in 1..Len(s)
      PROVE  f[n] = IF s[n] \in S THEN Append(f[n - 1], s[n]) ELSE f[n - 1]
  <2>1. n \in 0..Len(s) /\ n # 0
    OBVIOUS
  <2>2. f[n] = Step(f, n)
    BY <1>4, <2>1
  <2> QED BY <2>1, <2>2
<1>10. f[0] = <<>> /\ Len(s) \in 0..Len(s)
  BY <1>4
<1> HIDE DEF k
<1> QED BY <1>7, <1>8, <1>9, <1>10 DEF Keeps

\* What is kept is a sequence of the same elements, and no longer.
LEMMA KeptTyped ==
  ASSUME NEW A, NEW s \in Seq(A), NEW S
  PROVE  Kept(s, S) \in Seq(A) /\ Len(Kept(s, S)) <= Len(s)
<1>1. PICK f \in [0..Len(s) -> Seq(A)] : Keeps(f, s, S) /\ Kept(s, S) = f[Len(s)]
  BY KeptBySteps
<1> USE DEF Keeps
<1> DEFINE P == {n \in 0..Len(s) : Len(f[n]) <= n}
<1>2. 0 \in P
  BY <1>1
<1>3. ASSUME NEW n \in 0..Len(s) - 1, n \in P PROVE n + 1 \in P
  <2>1. /\ n + 1 \in 1..Len(s) /\ n + 1 \in 0..Len(s) /\ (n + 1) - 1 = n
        /\ f[n] \in Seq(A) /\ s[n + 1] \in A
    OBVIOUS
  <2>2. f[n + 1] = Append(f[n], s[n + 1]) \/ f[n + 1] = f[n]
    BY <1>1, <2>1
  <2>3. Len(f[n + 1]) <= n + 1
    BY <1>3, <2>1, <2>2
  <2> QED BY <2>1, <2>3
<1>4. Len(s) \in Nat /\ Len(s) \in 0..Len(s)
  OBVIOUS
<1> HIDE DEF P
<1>5. Len(s) \in P
  BY <1>2, <1>3, <1>4, Counting
<1> QED BY <1>1, <1>4, <1>5 DEF P

\* Nothing else is kept.
LEMMA KeptIsIn ==
  ASSUME NEW A, NEW s \in Seq(A), NEW S
  PROVE  \A k \in 1..Len(Kept(s, S)) : Kept(s, S)[k] \in S
<1>1. PICK f \in [0..Len(s) -> Seq(A)] : Keeps(f, s, S) /\ Kept(s, S) = f[Len(s)]
  BY KeptBySteps
<1> USE DEF Keeps
<1> DEFINE P == {n \in 0..Len(s) : \A k \in 1..Len(f[n]) : f[n][k] \in S}
<1>2. 0 \in P
  BY <1>1
<1>3. ASSUME NEW n \in 0..Len(s) - 1, n \in P PROVE n + 1 \in P
  <2>1. /\ n + 1 \in 1..Len(s) /\ n + 1 \in 0..Len(s) /\ (n + 1) - 1 = n
        /\ f[n] \in Seq(A) /\ s[n + 1] \in A
    OBVIOUS
  <2>2. (s[n + 1] \in S /\ f[n + 1] = Append(f[n], s[n + 1])) \/ f[n + 1] = f[n]
    BY <1>1, <2>1
  <2>3. \A k \in 1..Len(f[n + 1]) : f[n + 1][k] \in S
    BY <1>3, <2>1, <2>2
  <2> QED BY <2>1, <2>3
<1>4. Len(s) \in Nat /\ Len(s) \in 0..Len(s)
  OBVIOUS
<1> HIDE DEF P
<1>5. Len(s) \in P
  BY <1>2, <1>3, <1>4, Counting
<1> QED BY <1>1, <1>5 DEF P

\* What is kept of increasing numbers increases.
LEMMA KeptIncreases ==
  ASSUME NEW s \in Seq(Int), NEW S, \A j, k \in 1..Len(s) : j < k => s[j] < s[k]
  PROVE  \A j, k \in 1..Len(Kept(s, S)) : j < k => Kept(s, S)[j] < Kept(s, S)[k]
<1>1. PICK f \in [0..Len(s) -> Seq(Int)] : Keeps(f, s, S) /\ Kept(s, S) = f[Len(s)]
  BY KeptBySteps
<1> USE DEF Keeps
<1> DEFINE Good(n) == /\ \A j, k \in 1..Len(f[n]) : j < k => f[n][j] < f[n][k]
                      /\ \A j \in 1..Len(f[n]), k \in n + 1..Len(s) : f[n][j] < s[k]
           P == {n \in 0..Len(s) : Good(n)}
<1>2. 0 \in P
  BY <1>1
<1>3. ASSUME NEW n \in 0..Len(s) - 1, n \in P PROVE n + 1 \in P
  <2>1. /\ n + 1 \in 1..Len(s) /\ n + 1 \in 0..Len(s) /\ (n + 1) - 1 = n
        /\ f[n] \in Seq(Int) /\ s[n + 1] \in Int /\ n + 1 \in n + 1..Len(s)
        /\ \A k \in (n + 1) + 1..Len(s) :
             k \in n + 1..Len(s) /\ k \in 1..Len(s) /\ s[k] \in Int /\ n + 1 < k
    OBVIOUS
  <2>2. Good(n)
    BY <1>3
  <2>3. CASE f[n + 1] = f[n]
    BY <2>1, <2>2, <2>3
  <2>4. CASE f[n + 1] = Append(f[n], s[n + 1])
    <3>1. /\ Len(f[n + 1]) = Len(f[n]) + 1 /\ f[n + 1][Len(f[n]) + 1] = s[n + 1]
          /\ \A k \in 1..Len(f[n]) : f[n + 1][k] = f[n][k]
      BY <2>1, <2>4
    <3>2. \A j, k \in 1..Len(f[n + 1]) : j < k => f[n + 1][j] < f[n + 1][k]
      <4> SUFFICES ASSUME NEW j \in 1..Len(f[n + 1]), NEW k \in 1..Len(f[n + 1]), j < k
                   PROVE  f[n + 1][j] < f[n + 1][k]
        OBVIOUS
      <4>1. j \in 1..Len(f[n])
        BY <2>1, <3>1
      <4>2. CASE k = Len(f[n]) + 1
        BY <2>1, <2>2, <3>1, <4>1, <4>2
      <4>3. CASE k # Len(f[n]) + 1
        <5>1. k \in 1..Len(f[n])
          BY <2>1, <3>1, <4>3
        <5> QED BY <2>2, <3>1, <4>1, <5>1
      <4> QED BY <4>2, <4>3
    <3>3. ASSUME NEW j \in 1..Len(f[n + 1]), NEW k \in (n + 1) + 1..Len(s)
          PROVE  f[n + 1][j] < s[k]
      <4>1. k \in n + 1..Len(s) /\ k \in 1..Len(s) /\ n + 1 < k
        BY <2>1
      <4>2. CASE j = Len(f[n]) + 1
        BY <2>1, <3>1, <4>1, <4>2
      <4>3. CASE j # Len(f[n]) + 1
        <5>1. j \in 1..Len(f[n])
          BY <2>1, <3>1, <4>3
        <5> QED BY <2>2, <3>1, <4>1, <5>1
      <4> QED BY <4>2, <4>3
    <3> QED BY <2>1, <3>2, <3>3
  <2>5. f[n + 1] = f[n] \/ f[n + 1] = Append(f[n], s[n + 1])
    BY <1>1, <2>1
  <2> HIDE DEF Good
  <2> QED BY <2>1, <2>3, <2>4, <2>5
<1>4. Len(s) \in Nat /\ Len(s) \in 0..Len(s)
  OBVIOUS
<1> HIDE DEF P, Good
<1>5. Len(s) \in P
  BY <1>2, <1>3, <1>4, Counting
<1> QED BY <1>1, <1>5 DEF P, Good

\* As long as all elements are kept they stay where they are.
LEMMA KeptPrefix ==
  ASSUME NEW A, NEW s \in Seq(A), NEW S, NEW m \in 0..Len(s),
         \A k \in 1..m : s[k] \in S
  PROVE  m <= Len(Kept(s, S)) /\ \A k \in 1..m : Kept(s, S)[k] = s[k]
<1>1. PICK f \in [0..Len(s) -> Seq(A)] : Keeps(f, s, S) /\ Kept(s, S) = f[Len(s)]
  BY KeptBySteps
<1> USE DEF Keeps
<1> DEFINE Done(n) == IF n <= m THEN n ELSE m
           Good(n) == /\ Done(n) <= Len(f[n])
                      /\ n <= m => Len(f[n]) = n
                      /\ \A k \in 1..Done(n) : f[n][k] = s[k]
           P == {n \in 0..Len(s) : Good(n)}
<1>2. 0 \in P
  BY <1>1
<1>3. ASSUME NEW n \in 0..Len(s) - 1, n \in P PROVE n + 1 \in P
  <2>1. /\ n + 1 \in 1..Len(s) /\ n + 1 \in 0..Len(s) /\ (n + 1) - 1 = n
        /\ f[n] \in Seq(A) /\ s[n + 1] \in A /\ m \in Nat
    OBVIOUS
  <2>2. f[n + 1] = Append(f[n], s[n + 1]) \/ (f[n + 1] = f[n] /\ m < n + 1)
    <3>1. f[n + 1] = IF s[n + 1] \in S THEN Append(f[n], s[n + 1]) ELSE f[n]
      BY <1>1, <2>1
    <3>2. n + 1 <= m => s[n + 1] \in S
      BY <2>1
    <3> HIDE DEF Good, P
    <3> QED BY <2>1, <3>1, <3>2
  <2>3. Good(n)
    BY <1>3
  <2>4. CASE f[n + 1] = f[n] /\ m < n + 1
    BY <2>1, <2>3, <2>4
  <2>5. CASE f[n + 1] = Append(f[n], s[n + 1])
    <3>1. Len(f[n + 1]) = Len(f[n]) + 1
      BY <2>1, <2>5
    <3>2. \A k \in 1..Done(n) : f[n + 1][k] = s[k]
      BY <2>1, <2>3, <2>5
    <3>3. ASSUME n + 1 <= m PROVE f[n + 1][n + 1] = s[n + 1]
      BY <2>1, <2>3, <2>5, <3>3
    <3> QED BY <2>1, <2>3, <3>1, <3>2, <3>3
  <2> HIDE DEF Good
  <2> QED BY <2>1, <2>2, <2>4, <2>5
<1>4. Len(s) \in Nat /\ Len(s) \in 0..Len(s)
  OBVIOUS
<1> HIDE DEF P, Good
<1>5. Len(s) \in P
  BY <1>2, <1>3, <1>4, Counting
<1>6. Good(Len(s)) /\ Done(Len(s)) = m
  BY <1>5, <1>4 DEF P
<1> QED BY <1>1, <1>6 DEF Good

\* Where there is nothing to keep nothing is kept.
LEMMA NoneKept ==
  ASSUME NEW A, NEW s \in Seq(A), NEW S, \A k \in 1..Len(s) : s[k] \notin S
  PROVE  Kept(s, S) = <<>>
<1>1. PICK f \in [0..Len(s) -> Seq(A)] : Keeps(f, s, S) /\ Kept(s, S) = f[Len(s)]
  BY KeptBySteps
<1> USE DEF Keeps
<1> DEFINE P == {n \in 0..Len(s) : f[n] = <<>>}
<1>2. 0 \in P
  BY <1>1
<1>3. ASSUME NEW n \in 0..Len(s) - 1, n \in P PROVE n + 1 \in P
  <2>1. n + 1 \in 1..Len(s) /\ n + 1 \in 0..Len(s) /\ (n + 1) - 1 = n
    OBVIOUS
  <2>2. f[n + 1] = f[n]
    BY <1>1, <2>1
  <2> QED BY <1>3, <2>1, <2>2
<1>4. Len(s) \in Nat /\ Len(s) \in 0..Len(s)
  OBVIOUS
<1> HIDE DEF P
<1>5. Len(s) \in P
  BY <1>2, <1>3, <1>4, Counting
<1> QED BY <1>1, <1>5 DEF P

-----------------------------------------------------------------------------
(* Sequences *)

\* One sequence behind another.
LEMMA Joined ==
  ASSUME NEW A, NEW s \in Seq(A), NEW t \in Seq(A)
  PROVE  /\ s \o t \in Seq(A)
         /\ Len(s \o t) = Len(s) + Len(t)
         /\ \A k \in 1..Len(s) : (s \o t)[k] = s[k]
         /\ \A k \in 1..Len(t) : (s \o t)[Len(s) + k] = t[k]
<1>1. /\ s \o t \in Seq(A)
      /\ Len(s \o t) = Len(s) + Len(t)
      /\ \A k \in 1..Len(s) + Len(t) :
           (s \o t)[k] = IF k <= Len(s) THEN s[k] ELSE t[k - Len(s)]
  OBVIOUS
<1>2. Len(s) \in Nat /\ Len(t) \in Nat
  OBVIOUS
<1>3. ASSUME NEW k \in 1..Len(t) PROVE (s \o t)[Len(s) + k] = t[k]
  <2>1. Len(s) + k \in 1..Len(s) + Len(t) /\ ~(Len(s) + k <= Len(s)) /\ (Len(s) + k) - Len(s) = k
    BY <1>2
  <2> QED BY <1>1, <2>1
<1>4. \A k \in 1..Len(s) : k \in 1..Len(s) + Len(t) /\ k <= Len(s)
  BY <1>2
<1> QED BY <1>1, <1>3, <1>4

\* The first elements of a sequence.
LEMMA Begun ==
  ASSUME NEW A, NEW s \in Seq(A), NEW n \in 0..Len(s)
  PROVE  /\ SubSeq(s, 1, n) \in Seq(A) /\ Len(SubSeq(s, 1, n)) = n
         /\ \A k \in 1..n : SubSeq(s, 1, n)[k] = s[k]
OBVIOUS

\* What is behind the element that is taken out moves up by one.
LEMMA Removed ==
  ASSUME NEW A, NEW s \in Seq(A), NEW n \in 1..Len(s)
  PROVE  /\ RemoveAt(s, n) \in Seq(A)
         /\ Len(RemoveAt(s, n)) = Len(s) - 1
         /\ \A k \in 1..Len(s) - 1 : RemoveAt(s, n)[k] = IF k < n THEN s[k] ELSE s[k + 1]
<1> DEFINE before == SubSeq(s, 1, n - 1)
           behind == SubSeq(s, n + 1, Len(s))
<1>1. before \in Seq(A) /\ Len(before) = n - 1 /\ \A k \in 1..n - 1 : before[k] = s[k]
  OBVIOUS
<1>2. behind \in Seq(A) /\ Len(behind) = Len(s) - n
      /\ \A k \in 1..Len(s) - n : behind[k] = s[n + k]
  OBVIOUS
<1>3. RemoveAt(s, n) = before \o behind
  BY DEF RemoveAt
<1>4. n \in Nat /\ Len(s) \in Nat /\ 1 <= n /\ n <= Len(s)
  OBVIOUS
<1> HIDE DEF before, behind
<1>5. /\ before \o behind \in Seq(A)
      /\ Len(before \o behind) = Len(before) + Len(behind)
      /\ \A k \in 1..Len(before) + Len(behind) :
           (before \o behind)[k] = IF k <= Len(before) THEN before[k] ELSE behind[k - Len(before)]
  <2>1. before \in Seq(A) /\ behind \in Seq(A)
    BY <1>1, <1>2
  <2> QED BY ONLY <2>1
<1>6. Len(before) + Len(behind) = Len(s) - 1
  BY <1>1, <1>2, <1>4
<1>7. ASSUME NEW k \in 1..Len(s) - 1
      PROVE  (before \o behind)[k] = IF k < n THEN s[k] ELSE s[k + 1]
  <2>1. k \in Nat /\ 1 <= k /\ k <= Len(s) - 1
    BY <1>4
  <2>2. CASE k < n
    <3>1. k \in 1..n - 1 /\ k <= Len(before)
      BY <1>1, <1>4, <2>1, <2>2
    <3>2. (before \o behind)[k] = before[k]
      BY <1>5, <1>6, <3>1
    <3> QED BY <1>1, <2>2, <3>1, <3>2
  <2>3. CASE k >= n
    <3>1. k - (n - 1) \in 1..Len(s) - n /\ n + (k - (n - 1)) = k + 1 /\ ~(k <= n - 1)
      BY <1>4, <2>1, <2>3
    <3>2. (before \o behind)[k] = behind[k - (n - 1)]
      BY <1>1, <1>5, <1>6, <3>1
    <3> QED BY <1>2, <1>4, <2>1, <2>3, <3>1, <3>2
  <2>4. k < n \/ k >= n
    BY ONLY <1>4, <2>1
  <2> QED BY <2>2, <2>3, <2>4, Zenon
<1> QED BY <1>3, <1>5, <1>6, <1>7
===============================================================================
