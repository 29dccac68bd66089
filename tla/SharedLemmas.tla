---------------------------- MODULE SharedLemmas ----------------------------
(***************************************************************************)
(* What the proofs about several components need of the operators they are *)
(* built from: places in a ring, induction and recursion over the natural  *)
(* numbers, and the elements of a sequence of sequences.                   *)
(***************************************************************************)
EXTENDS Integers, SequencesExt, FiniteSetTheorems, SequenceTheorems,
        WellFoundedInduction, TLAPS

-----------------------------------------------------------------------------
(***************************************************************************)
(* Rings.                                                                  *)
(***************************************************************************)

\* The successor in a ring of n, without the modulus.
LEMMA NextMod ==
  ASSUME NEW n \in Nat \ {0}, NEW i \in 0 .. n - 1
  PROVE  (i + 1) % n = IF i + 1 = n THEN 0 ELSE i + 1
OBVIOUS

\* Once around the ring.
LEMMA RingMod ==
  ASSUME NEW n \in Nat \ {0}, NEW x \in 0 .. 2 * n - 1
  PROVE  x % n = IF x < n THEN x ELSE x - n
<1>1. CASE x < n
  <2>1. x % n = x
    BY <1>1
  <2> QED
    BY <1>1, <2>1
<1>2. CASE x >= n
  <2>1. x = n + (x - n) /\ x - n \in 0 .. n - 1
    BY <1>2
  <2>2. x % n = x - n
    BY <2>1
  <2> QED
    BY <1>2, <2>2
<1> QED
  BY <1>1, <1>2

\* One step further in a batch of k.
LEMMA BatchStep ==
  ASSUME NEW k \in Nat \ {0}, NEW c \in Nat
  PROVE  /\ c % k \in 0 .. k - 1
         /\ (c + 1) % k = IF c % k = k - 1 THEN 0 ELSE (c % k) + 1
<1> DEFINE q == c \div k
           r == c % k
<1>1. q \in Nat /\ r \in 0 .. k - 1 /\ c = k * q + r
  OBVIOUS
<1> HIDE DEF q, r
<1>2. CASE r = k - 1
  <2>1. c + 1 = k * (q + 1)
    BY <1>1, <1>2
  <2>2. (k * (q + 1)) % k = 0
    BY <1>1
  <2> QED
    BY <1>1, <1>2, <2>1, <2>2 DEF r
<1>3. CASE r # k - 1
  <2>1. c + 1 = k * q + (r + 1) /\ r + 1 \in 0 .. k - 1
    BY <1>1, <1>3
  <2>2. (k * q + (r + 1)) % k = r + 1
    BY <1>1, <2>1
  <2> QED
    BY <1>1, <1>3, <2>1, <2>2 DEF r
<1> QED
  BY <1>2, <1>3

\* How far the counter is into its batch.
LEMMA BatchMod ==
  ASSUME NEW b \in Nat \ {0}, NEW n \in 0 .. 2 * b - 1
  PROVE  n % b = 0 <=> n = 0 \/ n = b
<1>1. CASE n < b
  <2>1. n % b = n
    BY <1>1
  <2> QED
    BY <1>1, <2>1
<1>2. CASE n >= b
  <2>1. n = b + (n - b) /\ n - b \in 0 .. b - 1
    BY <1>2
  <2>2. n % b = n - b
    BY <2>1
  <2> QED
    BY <2>1, <2>2
<1> QED
  BY <1>1, <1>2

\* Fewer than n steps from a place in a ring of n lead to different places.
LEMMA RingApart ==
  ASSUME NEW n \in Nat \ {0}, NEW s \in 0 .. n, NEW a \in 0 .. n - 1, NEW b \in 0 .. n - 1,
         (s + a) % n = (s + b) % n
  PROVE  a = b
<1>1. s + a \in 0 .. 2 * n - 1 /\ s + b \in 0 .. 2 * n - 1
  OBVIOUS
<1>2. /\ (s + a) % n = IF s + a < n THEN s + a ELSE (s + a) - n
      /\ (s + b) % n = IF s + b < n THEN s + b ELSE (s + b) - n
  BY <1>1, RingMod
<1> QED
  BY <1>2

-----------------------------------------------------------------------------
(***************************************************************************)
(* Induction and recursion over the natural numbers.                       *)
(***************************************************************************)

\* Induction, for a set instead of a predicate: of the intervals 0 .. n with n
\* missing from S one would be the least, 0 .. x; but then x - 1 is missing too.
LEMMA NatSetInduction ==
  ASSUME NEW S, 0 \in S, \A n \in Nat : n \in S => n + 1 \in S
  PROVE Nat \subseteq S
<1> SUFFICES ASSUME Nat \ S # {} PROVE FALSE
  OBVIOUS
<1> DEFINE R == StrictSubsetOrdering(Nat)
           T == {0 .. n : n \in Nat \ S}
<1>1. IsWellFoundedOn(R, FiniteSubsetsOf(Nat))
  BY FS_StrictSubsetOrderingWellFounded
<1>2. T \subseteq FiniteSubsetsOf(Nat) /\ T # {}
  <2>1. \A n \in Nat : 0 .. n \in FiniteSubsetsOf(Nat)
    <3> TAKE n \in Nat
    <3>1. IsFiniteSet(0 .. n)
      BY FS_Interval
    <3> QED BY <3>1 DEF FiniteSubsetsOf
  <2> QED BY <2>1
<1>3. PICK X \in T : \A Y \in T : ~(<<Y, X>> \in R)
  <2> HIDE DEF R, T
  <2> QED BY <1>1, <1>2, WFMin
<1>4. PICK x \in Nat \ S : X = 0 .. x
  OBVIOUS
<1>5. x - 1 \in Nat \ S
  BY SMT
<1>6. <<0 .. x - 1, 0 .. x>> \in R
  BY <1>5 DEF StrictSubsetOrdering
<1> QED
  BY <1>3, <1>4, <1>5, <1>6

\* Induction up to k.
LEMMA RangeInduction ==
  ASSUME NEW S, NEW k \in Nat, 0 \in S, \A n \in 1 .. k : n - 1 \in S => n \in S
  PROVE  0 .. k \subseteq S
<1> DEFINE D == {n \in Nat : n <= k => n \in S}
<1>1. 0 \in D
  OBVIOUS
<1>2. ASSUME NEW n \in Nat, n \in D PROVE n + 1 \in D
  <2> SUFFICES ASSUME n + 1 <= k PROVE n + 1 \in S
    OBVIOUS
  <2>1. n \in S /\ n + 1 \in 1 .. k /\ (n + 1) - 1 = n
    BY <1>2
  <2> QED
    BY <2>1
<1> HIDE DEF D
<1>3. Nat \subseteq D
  BY <1>1, <1>2, NatSetInduction
<1> QED
  BY <1>3 DEF D

\* f is defined by recursion up to k; step[<<n, y>>] is what it makes of y in its
\* n-th step.
Stepping(S, k) == [(1 .. k) \X S -> S]
Recurses(S, x, k, step, f) ==
  /\ f \in [0 .. k -> S] /\ f[0] = x
  /\ \A n \in 1 .. k : f[n] = step[<<n, f[n - 1]>>]

\* Every recursion up to k defines a function.
LEMMA Recursion ==
  ASSUME NEW S, NEW x \in S, NEW k \in Nat, NEW step \in Stepping(S, k)
  PROVE  \E f : Recurses(S, x, k, step, f)
<1> DEFINE Good(m) == {f \in [0 .. m -> S] :
                         f[0] = x /\ \A n \in 1 .. m : f[n] = step[<<n, f[n - 1]>>]}
           D == {m \in Nat : m <= k => Good(m) # {}}
<1>1. 0 \in D
  <2>1. [n \in 0 .. 0 |-> x] \in Good(0)
    OBVIOUS
  <2> QED
    BY <2>1
<1>2. ASSUME NEW m \in 1 .. k, m - 1 \in D PROVE m \in D
  <2>1. PICK f : f \in Good(m - 1)
    BY <1>2
  <2>2. /\ f \in [0 .. m - 1 -> S] /\ f[0] = x
        /\ \A n \in 1 .. m - 1 : f[n] = step[<<n, f[n - 1]>>]
    BY <2>1
  <2> DEFINE last == step[<<m, f[m - 1]>>]
             g    == [n \in 0 .. m |-> IF n = m THEN last ELSE f[n]]
  <2>3. last \in S
    <3>1. m \in 1 .. k /\ f[m - 1] \in S
      BY <2>2
    <3> QED
      BY <3>1 DEF Stepping
  <2>4. \A n \in 0 .. m : n # m => n \in 0 .. m - 1
    OBVIOUS
  <2> HIDE DEF last
  <2>5. g \in [0 .. m -> S]
    BY <2>2, <2>3, <2>4
  <2>6. 0 \in 0 .. m /\ 0 # m
    OBVIOUS
  <2>7. g[0] = x
    BY <2>2, <2>6
  <2>8. ASSUME NEW n \in 1 .. m PROVE g[n] = step[<<n, g[n - 1]>>]
    <3>1. n - 1 \in 0 .. m /\ n - 1 # m /\ n \in 0 .. m
      OBVIOUS
    <3>2. g[n - 1] = f[n - 1]
      BY <3>1
    <3>3. CASE n = m
      <4>1. g[n] = last
        BY <3>1, <3>3
      <4> HIDE DEF g
      <4> QED
        BY <3>2, <3>3, <4>1 DEF last
    <3>4. CASE n # m
      <4>1. g[n] = f[n] /\ n \in 1 .. m - 1
        BY <3>1, <3>4
      <4> HIDE DEF g
      <4> QED
        BY <2>2, <3>2, <4>1
    <3> QED
      BY <3>3, <3>4
  <2> HIDE DEF g
  <2>9. g \in Good(m)
    BY <2>5, <2>7, <2>8
  <2> QED
    BY <2>9
<1> HIDE DEF D
<1>3. 0 .. k \subseteq D
  BY <1>1, <1>2, RangeInduction
<1>4. k \in D
  BY <1>3
<1>5. Good(k) # {}
  BY <1>4 DEF D
<1> QED
  BY <1>5 DEF Recurses

\* And so does a recursion without end: the functions up to k agree with each other.
Iterates(S, x, step, f) ==
  f \in [Nat -> S] /\ f[0] = x /\ \A n \in Nat : f[n + 1] = step[f[n]]

LEMMA NatRecursion ==
  ASSUME NEW S, NEW x \in S, NEW step \in [S -> S]
  PROVE  \E f : Iterates(S, x, step, f)
<1> DEFINE Good(m) == {f \in [0 .. m -> S] :
                         f[0] = x /\ \A n \in 1 .. m : f[n] = step[f[n - 1]]}
           g(m) == CHOOSE f : f \in Good(m)
           h == [m \in Nat |-> g(m)[m]]
<1>1. ASSUME NEW m \in Nat PROVE g(m) \in Good(m)
  <2> DEFINE upTo == [p \in (1 .. m) \X S |-> step[p[2]]]
  <2>1. upTo \in Stepping(S, m)
    BY DEF Stepping
  <2>2. \A n \in 1 .. m, y \in S : upTo[<<n, y>>] = step[y]
    OBVIOUS
  <2> HIDE DEF upTo
  <2>3. PICK f : Recurses(S, x, m, upTo, f)
    BY <2>1, Recursion
  <2>4. \A n \in 1 .. m : f[n] = step[f[n - 1]]
    <3> TAKE n \in 1 .. m
    <3>1. f[n - 1] \in S /\ f[n] = upTo[<<n, f[n - 1]>>]
      BY <2>3 DEF Recurses
    <3> QED
      BY <2>2, <3>1
  <2>5. f \in Good(m)
    BY <2>3, <2>4 DEF Recurses
  <2> HIDE DEF Good
  <2> QED
    BY <2>5
<1>2. ASSUME NEW m \in Nat PROVE g(m + 1)[m] = g(m)[m]
  <2> DEFINE u == g(m)
             v == g(m + 1)
             D == {n \in 0 .. m : u[n] = v[n]}
  <2>1. u \in Good(m) /\ v \in Good(m + 1)
    <3> HIDE DEF Good, g
    <3>1. m + 1 \in Nat
      OBVIOUS
    <3> QED
      BY <1>1, <3>1
  <2> HIDE DEF u, v, g
  <2>2. 0 \in D
    BY <2>1
  <2>3. ASSUME NEW n \in 1 .. m, n - 1 \in D PROVE n \in D
    <3>1. u[n] = step[u[n - 1]] /\ v[n] = step[v[n - 1]] /\ u[n - 1] = v[n - 1]
      BY <2>1, <2>3
    <3> QED
      BY <3>1
  <2> HIDE DEF D
  <2>4. 0 .. m \subseteq D
    BY <2>2, <2>3, RangeInduction
  <2>5. m \in D
    BY <2>4
  <2> QED
    BY <2>5 DEF D, u, v
<1>3. ASSUME NEW m \in Nat
      PROVE  g(m)[m] \in S /\ g(m + 1)[m + 1] = step[g(m)[m]]
  <2>1. g(m) \in Good(m) /\ g(m + 1) \in Good(m + 1) /\ g(m + 1)[m] = g(m)[m]
    <3> HIDE DEF Good, g
    <3>1. m + 1 \in Nat
      OBVIOUS
    <3> QED
      BY <1>1, <1>2, <3>1
  <2> HIDE DEF g
  <2>2. m \in 0 .. m /\ m + 1 \in 1 .. m + 1 /\ (m + 1) - 1 = m
    OBVIOUS
  <2>3. g(m)[m] \in S /\ g(m + 1)[m + 1] = step[g(m + 1)[(m + 1) - 1]]
    BY <2>1, <2>2
  <2> QED
    BY <2>1, <2>2, <2>3
<1>4. g(0)[0] = x
  <2>1. g(0) \in Good(0)
    BY <1>1
  <2> HIDE DEF g
  <2> QED
    BY <2>1
<1> HIDE DEF g
<1>5. h \in [Nat -> S] /\ h[0] = x /\ \A n \in Nat : h[n + 1] = step[h[n]]
  BY <1>3, <1>4
<1> HIDE DEF h
<1> QED
  BY <1>5 DEF Iterates

\* A set of places has a least one: of the sets of places below each of them one
\* is contained in no other, and then nothing is below.
LEMMA LeastPlace ==
  ASSUME NEW k \in Nat, NEW I \in SUBSET (1 .. k), I # {}
  PROVE  Min(I) \in I
<1> DEFINE R == StrictSubsetOrdering(1 .. k)
           below(x) == {j \in I : j < x}
           T == {below(x) : x \in I}
<1>1. IsWellFoundedOn(R, FiniteSubsetsOf(1 .. k))
  BY FS_StrictSubsetOrderingWellFounded
<1>2. T \subseteq FiniteSubsetsOf(1 .. k) /\ T # {}
  <2>1. \A x \in I : below(x) \subseteq 1 .. k /\ IsFiniteSet(below(x))
    <3> TAKE x \in I
    <3>1. IsFiniteSet(1 .. k)
      BY FS_Interval
    <3>2. below(x) \subseteq 1 .. k
      OBVIOUS
    <3> QED
      BY <3>1, <3>2, FS_Subset
  <2> QED
    BY <2>1 DEF FiniteSubsetsOf
<1>3. PICK X \in T : \A Y \in T : ~(<<Y, X>> \in R)
  <2> HIDE DEF R, T
  <2> QED
    BY <1>1, <1>2, WFMin
<1>4. PICK x \in I : X = below(x)
  OBVIOUS
<1>5. \A y \in I : x =< y
  <2> SUFFICES ASSUME NEW y \in I, y < x PROVE FALSE
    OBVIOUS
  <2>1. \A j \in I : j < y => j < x
    OBVIOUS
  <2>2. ~(y < y) /\ y < x
    OBVIOUS
  <2>3. below(y) \subseteq below(x) /\ y \in below(x) /\ y \notin below(y)
    BY <2>1, <2>2
  <2>4. below(x) \subseteq 1 .. k
    OBVIOUS
  <2> HIDE DEF below
  <2>5. <<below(y), below(x)>> \in R
    BY <2>3, <2>4 DEF StrictSubsetOrdering
  <2>6. below(y) \in T
    OBVIOUS
  <2> HIDE DEF R, T
  <2> QED
    BY <1>3, <1>4, <2>5, <2>6
<1> QED
  BY <1>5 DEF Min

-----------------------------------------------------------------------------
(***************************************************************************)
(* The elements of a sequence of sequences, one after the other.  Nothing  *)
(* but its recursive definition is known of FlattenSeq, so that it is read *)
(* off a function f, with f[i] for the first i sequences.                  *)
(***************************************************************************)

\* The sequences of n sequences.
Lists(S, n) == {q \in Seq(Seq(S)) : Len(q) = n}

LEMMA ListType ==
  ASSUME NEW S, NEW n \in Nat, NEW q \in Lists(S, n)
  PROVE  \A i \in 1 .. n : q[i] \in Seq(S)
BY DEF Lists

\* f[i] is what the first i sequences of q hold, one after the other.
Partial(S, q, n, f) ==
  /\ f \in [0 .. n -> Seq(S)]
  /\ f[0] = << >>
  /\ \A i \in 1 .. n : f[i] = f[i - 1] \o q[i]

\* The recursion step by step, with the types.
Steps(S, q, n, f) ==
  \A i \in 1 .. n : /\ f[i] \in Seq(S) /\ f[i - 1] \in Seq(S) /\ q[i] \in Seq(S)
                    /\ f[i] = f[i - 1] \o q[i]

LEMMA PartialSteps ==
  ASSUME NEW S, NEW n \in Nat, NEW q \in Lists(S, n), NEW f, Partial(S, q, n, f)
  PROVE  Steps(S, q, n, f)
<1> SUFFICES ASSUME NEW i \in 1 .. n
             PROVE  /\ f[i] \in Seq(S) /\ f[i - 1] \in Seq(S) /\ q[i] \in Seq(S)
                    /\ f[i] = f[i - 1] \o q[i]
  BY DEF Steps
<1>1. i \in 0 .. n /\ i - 1 \in 0 .. n
  OBVIOUS
<1>2. f \in [0 .. n -> Seq(S)] /\ f[i] = f[i - 1] \o q[i]
  BY DEF Partial
<1>3. f[i] \in Seq(S) /\ f[i - 1] \in Seq(S)
  BY <1>1, <1>2
<1> QED
  BY <1>2, <1>3, ListType

LEMMA PartialUnique ==
  ASSUME NEW S, NEW q, NEW n \in Nat, NEW f, NEW g, Partial(S, q, n, f), Partial(S, q, n, g)
  PROVE  f[n] = g[n]
<1> DEFINE D == {i \in Nat : i <= n => f[i] = g[i]}
<1>1. 0 \in D
  BY DEF Partial
<1>2. ASSUME NEW i \in Nat, i \in D PROVE i + 1 \in D
  <2> SUFFICES ASSUME i + 1 <= n PROVE f[i + 1] = g[i + 1]
    OBVIOUS
  <2>1. i + 1 \in 1 .. n /\ (i + 1) - 1 = i /\ f[i] = g[i]
    BY <1>2
  <2> QED
    BY <2>1 DEF Partial
<1> HIDE DEF D
<1>3. Nat \subseteq D
  BY <1>1, <1>2, NatSetInduction
<1> QED
  BY <1>3 DEF D

\* The functions that the recursion of FlattenSeq allows, cut off at n.
Recursive(S, q, n) ==
  {h \in [1 .. n -> Seq(S)] :
     \A i \in 1 .. n : h[i] = IF i = 1 THEN q[i] ELSE h[i - 1] \o q[i]}

LEMMA RecursiveExists ==
  ASSUME NEW S, NEW l \in Nat, NEW q \in Lists(S, l)
  PROVE  Recursive(S, q, l) # {}
<1> DEFINE D == {n \in Nat : n <= l => Recursive(S, q, n) # {}}
<1>1. 0 \in D
  <2>1. [i \in 1 .. 0 |-> << >>] \in Recursive(S, q, 0)
    BY DEF Recursive
  <2> QED
    BY <2>1
<1>2. ASSUME NEW n \in Nat, n \in D PROVE n + 1 \in D
  <2> SUFFICES ASSUME n + 1 <= l PROVE Recursive(S, q, n + 1) # {}
    OBVIOUS
  <2>1. PICK h : h \in Recursive(S, q, n)
    BY <1>2
  <2>2. /\ h \in [1 .. n -> Seq(S)]
        /\ \A i \in 1 .. n : h[i] = IF i = 1 THEN q[i] ELSE h[i - 1] \o q[i]
    BY <2>1 DEF Recursive
  <2> DEFINE last == IF n = 0 THEN q[1] ELSE h[n] \o q[n + 1]
             g == [i \in 1 .. n + 1 |-> IF i = n + 1 THEN last ELSE h[i]]
  <2>3. last \in Seq(S)
    <3>1. q[1] \in Seq(S) /\ q[n + 1] \in Seq(S)
      BY ListType
    <3>2. n # 0 => h[n] \in Seq(S)
      BY <2>2
    <3> QED
      BY <3>1, <3>2, ConcatProperties
  <2>4. \A i \in 1 .. n + 1 : g[i] = IF i = 1 THEN q[i] ELSE g[i - 1] \o q[i]
    <3> TAKE i \in 1 .. n + 1
    <3>1. CASE i = n + 1
      BY <3>1
    <3>2. CASE i \in 1 .. n
      <4>1. g[i] = h[i]
        BY <3>2
      <4>2. i # 1 => i - 1 \in 1 .. n /\ g[i - 1] = h[i - 1]
        BY <3>2
      <4> QED
        BY <2>2, <3>2, <4>1, <4>2
    <3> QED
      BY <3>1, <3>2
  <2>5. \A i \in 1 .. n + 1 : i # n + 1 => i \in 1 .. n
    OBVIOUS
  <2> HIDE DEF last
  <2>6. g \in [1 .. n + 1 -> Seq(S)]
    BY <2>2, <2>3, <2>5
  <2> HIDE DEF g
  <2> QED
    BY <2>4, <2>6 DEF Recursive
<1> HIDE DEF D
<1>3. Nat \subseteq D
  BY <1>1, <1>2, NatSetInduction
<1>4. l \in D
  BY <1>3
<1> QED
  BY <1>4 DEF D

LEMMA FlattenPartial ==
  ASSUME NEW S, NEW n \in Nat, NEW q \in Lists(S, n)
  PROVE  \E f : Partial(S, q, n, f) /\ f[n] = FlattenSeq(q)
<1> DEFINE c == CHOOSE h : h = [i \in 1 .. n |-> IF i = 1 THEN q[i] ELSE h[i - 1] \o q[i]]
           f == [i \in 0 .. n |-> IF i = 0 THEN << >> ELSE c[i]]
<1>1. \A i \in 1 .. n : q[i] \in Seq(S)
  BY ListType
<1>2. PICK h \in [1 .. n -> Seq(S)] :
         \A i \in 1 .. n : h[i] = IF i = 1 THEN q[i] ELSE h[i - 1] \o q[i]
  BY RecursiveExists DEF Recursive
<1>3. h = [i \in 1 .. n |-> IF i = 1 THEN q[i] ELSE h[i - 1] \o q[i]]
  <2> DEFINE step(i) == IF i = 1 THEN q[i] ELSE h[i - 1] \o q[i]
  <2>1. \A i \in 1 .. n : h[i] = step(i)
    BY <1>2
  <2> HIDE DEF step
  <2>2. h = [i \in 1 .. n |-> step(i)]
    BY <1>2, <2>1
  <2> QED
    BY <2>2 DEF step
<1>4. c = [i \in 1 .. n |-> IF i = 1 THEN q[i] ELSE c[i - 1] \o q[i]]
  BY <1>3, Zenon
<1>5. n # 0 => FlattenSeq(q) = c[n]
  BY DEF FlattenSeq, Lists
<1>6. n = 0 => FlattenSeq(q) = << >>
  BY DEF FlattenSeq, Lists
<1> HIDE DEF c
<1>7. \A i \in 1 .. n : c[i] = IF i = 1 THEN q[i] ELSE c[i - 1] \o q[i]
  BY <1>4
<1>8. \A i \in 1 .. n : c[i] \in Seq(S)
  <2> DEFINE D == {i \in Nat : i \in 1 .. n => c[i] \in Seq(S)}
  <2>1. 0 \in D
    OBVIOUS
  <2>2. ASSUME NEW i \in Nat, i \in D PROVE i + 1 \in D
    <3> SUFFICES ASSUME i + 1 \in 1 .. n PROVE c[i + 1] \in Seq(S)
      OBVIOUS
    <3>1. CASE i = 0
      <4>1. i + 1 = 1 /\ 1 \in 1 .. n
        BY <3>1
      <4>2. c[1] = q[1] /\ q[1] \in Seq(S)
        BY <1>1, <1>7, <4>1
      <4> QED
        BY <4>1, <4>2
    <3>2. CASE i # 0
      <4>1. i \in 1 .. n /\ (i + 1) - 1 = i /\ i + 1 # 1
        BY <1>1, <3>2
      <4>2. c[i] \in Seq(S) /\ q[i + 1] \in Seq(S)
        BY <1>1, <2>2, <4>1
      <4>3. c[i + 1] = c[i] \o q[i + 1]
        BY <1>7, <4>1
      <4> QED
        BY <4>2, <4>3, ConcatProperties
    <3> QED
      BY <3>1, <3>2
  <2> HIDE DEF D
  <2>3. Nat \subseteq D
    BY <2>1, <2>2, NatSetInduction
  <2> QED
    BY <1>1, <2>3 DEF D
<1>9. f \in [0 .. n -> Seq(S)] /\ f[0] = << >>
  <2>1. \A i \in 0 .. n : i # 0 => i \in 1 .. n
    OBVIOUS
  <2>2. << >> \in Seq(S)
    OBVIOUS
  <2> QED
    BY <1>1, <1>8, <2>1, <2>2
<1>10. \A i \in 1 .. n : f[i] = f[i - 1] \o q[i]
  <2> TAKE i \in 1 .. n
  <2>1. f[i] = c[i] /\ i - 1 \in 0 .. n
    OBVIOUS
  <2>2. CASE i = 1
    <3>1. c[i] = q[i] /\ f[i - 1] = << >>
      BY <1>7, <1>9, <2>2
    <3>2. << >> \o q[i] = q[i]
      BY <1>1, ConcatEmptySeq
    <3> HIDE DEF f
    <3> QED
      BY <2>1, <3>1, <3>2
  <2>3. CASE i # 1
    <3>1. c[i] = c[i - 1] \o q[i]
      BY <1>7, <2>3
    <3>2. f[i - 1] = c[i - 1]
      BY <2>1, <2>3
    <3> HIDE DEF f
    <3> QED
      BY <2>1, <3>1, <3>2
  <2> QED
    BY <2>2, <2>3
<1>11. f[n] = FlattenSeq(q)
  BY <1>1, <1>5, <1>6
<1> HIDE DEF f
<1> QED
  BY <1>9, <1>10, <1>11 DEF Partial

LEMMA PartialIsFlatten ==
  ASSUME NEW S, NEW n \in Nat, NEW q \in Lists(S, n), NEW f, Partial(S, q, n, f)
  PROVE  f[n] = FlattenSeq(q)
BY FlattenPartial, PartialUnique

LEMMA FlattenType ==
  ASSUME NEW S, NEW n \in Nat, NEW q \in Lists(S, n)
  PROVE  FlattenSeq(q) \in Seq(S)
<1>1. PICK f : Partial(S, q, n, f) /\ f[n] = FlattenSeq(q)
  BY FlattenPartial
<1>2. n \in 0 .. n
  OBVIOUS
<1> QED
  BY <1>1, <1>2 DEF Partial

LEMMA AppendConcat ==
  ASSUME NEW S, NEW m \in S
  PROVE  \A u, v \in Seq(S) : Append(u \o v, m) = u \o Append(v, m)
OBVIOUS

\* r is q with m at the end of the j-th sequence, behind which all are empty.
Extended(q, r, n, j, m) ==
  /\ r[j] = Append(q[j], m)
  /\ \A i \in 1 .. n : i # j => r[i] = q[i]
  /\ \A i \in 1 .. n : i > j => q[i] = << >>

\* An element put at the end of the last sequence that is not empty, or of one
\* behind it, is the last of all.
LEMMA FlattenAppend ==
  ASSUME NEW S, NEW n \in Nat, NEW q \in Lists(S, n), NEW r \in Lists(S, n),
         NEW j \in 1 .. n, NEW m \in S, Extended(q, r, n, j, m)
  PROVE  FlattenSeq(r) = Append(FlattenSeq(q), m)
<1>1. PICK f : Partial(S, q, n, f) /\ Steps(S, q, n, f) /\ f[n] = FlattenSeq(q)
  BY FlattenPartial, PartialSteps
<1> DEFINE at(i) == IF i < j THEN f[i] ELSE Append(f[i], m)
           g == [i \in 0 .. n |-> at(i)]
<1>2. n \in Nat /\ j \in 1 .. n
  OBVIOUS
<1>3. f \in [0 .. n -> Seq(S)] /\ f[0] = << >>
  BY <1>1 DEF Partial
<1>4. at(0) = << >> /\ \A i \in 0 .. n : at(i) \in Seq(S)
  <2> QED
    BY <1>2, <1>3
<1>5. ASSUME NEW i \in 1 .. n PROVE at(i) = at(i - 1) \o r[i]
  <2>1. /\ f[i] \in Seq(S) /\ f[i - 1] \in Seq(S) /\ q[i] \in Seq(S)
        /\ f[i] = f[i - 1] \o q[i]
    BY <1>1, Zenon DEF Steps
  <2>2. i \in Int /\ j \in Int
    BY <1>2
  <2>3. CASE i < j
    <3>1. at(i) = f[i] /\ at(i - 1) = f[i - 1]
      BY <2>2, <2>3
    <3>2. r[i] = q[i]
      BY <2>2, <2>3 DEF Extended
    <3> QED
      BY <2>1, <3>1, <3>2, Zenon
  <2>4. CASE i = j
    <3>1. at(i) = Append(f[i], m) /\ at(i - 1) = f[i - 1]
      BY <2>2, <2>4
    <3>2. r[i] = Append(q[i], m)
      BY <2>4 DEF Extended
    <3>3. Append(f[i - 1] \o q[i], m) = f[i - 1] \o Append(q[i], m)
      <4>1. \A u, v \in Seq(S) : Append(u \o v, m) = u \o Append(v, m)
        BY AppendConcat, Zenon
      <4> QED
        BY <2>1, <4>1, Zenon
    <3> QED
      BY <2>1, <3>1, <3>2, <3>3, Zenon
  <2>5. CASE i > j
    <3>1. r[i] = << >> /\ q[i] = << >>
      BY <2>2, <2>5 DEF Extended
    <3>2. at(i) = Append(f[i], m) /\ at(i - 1) = Append(f[i - 1], m)
      BY <2>2, <2>5
    <3>3. f[i] = f[i - 1]
      BY <2>1, <3>1, ConcatEmptySeq
    <3>4. Append(f[i - 1], m) \in Seq(S)
      BY <2>1
    <3>5. Append(f[i - 1], m) \o << >> = Append(f[i - 1], m)
      BY <3>4, ConcatEmptySeq
    <3> QED
      BY <3>1, <3>2, <3>3, <3>5, Zenon
  <2>6. i < j \/ i = j \/ i > j
    BY <2>2
  <2> QED
    BY <2>3, <2>4, <2>5, <2>6, Zenon
<1>6. at(n) = Append(f[n], m)
  BY <1>2
<1> HIDE DEF at
<1>7. Partial(S, r, n, g)
  <2>1. g \in [0 .. n -> Seq(S)] /\ g[0] = << >>
    BY <1>2, <1>4
  <2>2. \A i \in 1 .. n : g[i] = g[i - 1] \o r[i]
    <3> TAKE i \in 1 .. n
    <3>1. g[i] = at(i) /\ g[i - 1] = at(i - 1)
      BY <1>2
    <3> QED
      BY <1>5, <3>1, Zenon
  <2> HIDE DEF g
  <2> QED
    BY <2>1, <2>2 DEF Partial
<1>8. g[n] = FlattenSeq(r)
  BY <1>7, PartialIsFlatten
<1>9. g[n] = at(n)
  BY <1>2
<1> QED
  BY <1>1, <1>2, <1>6, <1>8, <1>9

\* r is q with its first sequence emptied.
Emptied(q, r, n) == r[1] = << >> /\ \A i \in 1 .. n : i # 1 => r[i] = q[i]

\* Emptying the first sequence drops its elements.
LEMMA FlattenDropFirst ==
  ASSUME NEW S, NEW n \in Nat, n # 0, NEW q \in Lists(S, n), NEW r \in Lists(S, n),
         Emptied(q, r, n)
  PROVE  FlattenSeq(q) = q[1] \o FlattenSeq(r)
<1>1. PICK f : Partial(S, r, n, f) /\ Steps(S, r, n, f) /\ f[n] = FlattenSeq(r)
  BY FlattenPartial, PartialSteps
<1> DEFINE at(i) == IF i = 0 THEN << >> ELSE q[1] \o f[i]
           g == [i \in 0 .. n |-> at(i)]
<1>2. n \in Nat /\ n # 0 /\ q[1] \in Seq(S)
  <2>1. 1 \in 1 .. n
    OBVIOUS
  <2> QED
    BY <2>1, ListType
<1>3. f \in [0 .. n -> Seq(S)] /\ f[0] = << >>
  BY <1>1, <1>2 DEF Partial
<1>4. at(0) = << >> /\ \A i \in 0 .. n : at(i) \in Seq(S)
  <2>1. ASSUME NEW i \in 0 .. n PROVE at(i) \in Seq(S)
    <3>1. f[i] \in Seq(S)
      BY <1>3
    <3> QED
      BY <1>2, <3>1, ConcatProperties
  <2> QED
    BY <2>1
<1>5. ASSUME NEW i \in 1 .. n PROVE at(i) = at(i - 1) \o q[i]
  <2>1. /\ f[i] \in Seq(S) /\ f[i - 1] \in Seq(S) /\ r[i] \in Seq(S)
        /\ f[i] = f[i - 1] \o r[i]
    BY <1>1, Zenon DEF Steps
  <2>2. i \in Int /\ i # 0
    BY <1>2
  <2>3. CASE i = 1
    <3>1. at(i) = q[1] \o f[i] /\ at(i - 1) = << >>
      BY <2>2, <2>3
    <3>2. f[i] = << >> \o << >>
      BY <1>3, <2>1, <2>3 DEF Emptied
    <3>3. f[i] = << >>
      BY <3>2
    <3>4. q[1] \o << >> = q[1] /\ << >> \o q[1] = q[1]
      BY <1>2, ConcatEmptySeq
    <3> QED
      BY <2>3, <3>1, <3>3, <3>4, Zenon
  <2>4. CASE i # 1
    <3>1. at(i) = q[1] \o f[i] /\ at(i - 1) = q[1] \o f[i - 1]
      <4>1. i # 0 /\ i - 1 # 0
        BY <2>2, <2>4
      <4> QED
        BY <4>1, Zenon
    <3>2. r[i] = q[i]
      BY <2>4 DEF Emptied
    <3>3. q[1] \o (f[i - 1] \o r[i]) = (q[1] \o f[i - 1]) \o r[i]
      <4>1. \A t, u, v \in Seq(S) : t \o (u \o v) = (t \o u) \o v
        BY ConcatAssociative
      <4> QED
        BY <1>2, <2>1, <4>1, Zenon
    <3> QED
      BY <2>1, <3>1, <3>2, <3>3, Zenon
  <2> QED
    BY <2>3, <2>4
<1>6. at(n) = q[1] \o f[n]
  BY <1>2
<1> HIDE DEF at
<1>7. Partial(S, q, n, g)
  <2>1. g \in [0 .. n -> Seq(S)] /\ g[0] = << >>
    BY <1>2, <1>4
  <2>2. \A i \in 1 .. n : g[i] = g[i - 1] \o q[i]
    <3> TAKE i \in 1 .. n
    <3>1. g[i] = at(i) /\ g[i - 1] = at(i - 1)
      BY <1>2
    <3> QED
      BY <1>5, <3>1, Zenon
  <2> HIDE DEF g
  <2> QED
    BY <2>1, <2>2 DEF Partial
<1>8. g[n] = FlattenSeq(q)
  BY <1>7, PartialIsFlatten
<1>9. g[n] = at(n)
  BY <1>2
<1> QED
  BY <1>1, <1>2, <1>6, <1>8, <1>9

\* r is q with its first sequence, an empty one, at the end.
Rotated(q, r, n) ==
  /\ q[1] = << >> /\ r[n] = << >>
  /\ \A i \in 1 .. n - 1 : r[i] = q[i + 1]

\* An empty sequence may go from the front to the end.
LEMMA FlattenRotate ==
  ASSUME NEW S, NEW n \in Nat, n # 0, NEW q \in Lists(S, n), NEW r \in Lists(S, n),
         Rotated(q, r, n)
  PROVE  FlattenSeq(r) = FlattenSeq(q)
<1>1. PICK f : Partial(S, q, n, f) /\ Steps(S, q, n, f) /\ f[n] = FlattenSeq(q)
  BY FlattenPartial, PartialSteps
<1> DEFINE at(i) == IF i < n THEN f[i + 1] ELSE f[n]
           g == [i \in 0 .. n |-> at(i)]
<1>2. n \in Nat /\ n # 0
  OBVIOUS
<1>3. f \in [0 .. n -> Seq(S)] /\ f[0] = << >>
  BY <1>1 DEF Partial
<1>4. f[1] = << >>
  <2>1. 1 \in 1 .. n
    BY <1>2
  <2>2. f[1] \in Seq(S) /\ f[1 - 1] \in Seq(S) /\ q[1] \in Seq(S) /\ f[1] = f[1 - 1] \o q[1]
    BY <1>1, <2>1, Zenon DEF Steps
  <2>3. 1 - 1 = 0
    OBVIOUS
  <2>4. q[1] = << >>
    BY DEF Rotated
  <2> QED
    BY <1>3, <2>2, <2>3, <2>4
<1>5. at(0) = << >> /\ \A i \in 0 .. n : at(i) \in Seq(S)
  <2> QED
    BY <1>2, <1>3, <1>4
<1>6. ASSUME NEW i \in 1 .. n PROVE at(i) = at(i - 1) \o r[i]
  <2>1. i \in Int /\ (i - 1) + 1 = i
    BY <1>2
  <2>2. CASE i < n
    <3>1. i + 1 \in 1 .. n /\ (i + 1) - 1 = i
      BY <1>2, <2>1, <2>2
    <3>2. f[i + 1] = f[(i + 1) - 1] \o q[i + 1]
      BY <1>1, <3>1, Zenon DEF Steps
    <3>3. at(i) = f[i + 1] /\ at(i - 1) = f[(i - 1) + 1]
      BY <1>2, <2>1, <2>2
    <3>4. r[i] = q[i + 1]
      BY <1>2, <2>1, <2>2 DEF Rotated
    <3> HIDE DEF at
    <3> QED
      BY <2>1, <3>1, <3>2, <3>3, <3>4
  <2>3. CASE i = n
    <3>1. at(i) = f[n] /\ at(i - 1) = f[(i - 1) + 1]
      BY <1>2, <2>1, <2>3
    <3>2. f[n] \in Seq(S) /\ r[i] = << >>
      BY <1>2, <1>3, <2>3 DEF Rotated
    <3>3. f[n] \o << >> = f[n]
      BY <3>2, ConcatEmptySeq
    <3> HIDE DEF at
    <3> QED
      BY <2>1, <2>3, <3>1, <3>2, <3>3
  <2>4. i < n \/ i = n
    BY <1>2
  <2> QED
    BY <2>2, <2>3, <2>4, Zenon
<1>7. at(n) = f[n]
  BY <1>2
<1> HIDE DEF at
<1>8. Partial(S, r, n, g)
  <2>1. g \in [0 .. n -> Seq(S)] /\ g[0] = << >>
    BY <1>2, <1>5
  <2>2. \A i \in 1 .. n : g[i] = g[i - 1] \o r[i]
    <3> TAKE i \in 1 .. n
    <3>1. g[i] = at(i) /\ g[i - 1] = at(i - 1)
      BY <1>2
    <3> QED
      BY <1>6, <3>1, Zenon
  <2> HIDE DEF g
  <2> QED
    BY <2>1, <2>2 DEF Partial
<1>9. g[n] = FlattenSeq(r)
  BY <1>8, PartialIsFlatten
<1>10. g[n] = at(n)
  BY <1>2
<1> QED
  BY <1>1, <1>2, <1>7, <1>9, <1>10

LEMMA FlattenEmpty ==
  ASSUME NEW S, NEW n \in Nat, NEW q \in Lists(S, n), \A i \in 1 .. n : q[i] = << >>
  PROVE  FlattenSeq(q) = << >>
<1> DEFINE f == [i \in 0 .. n |-> << >>]
<1>1. << >> \in Seq(S) /\ << >> \o << >> = << >>
  OBVIOUS
<1>2. f \in [0 .. n -> Seq(S)] /\ f[0] = << >> /\ f[n] = << >>
  BY <1>1
<1>3. ASSUME NEW i \in 1 .. n PROVE f[i] = f[i - 1] \o q[i]
  <2>1. f[i] = << >> /\ f[i - 1] = << >>
    OBVIOUS
  <2> QED
    BY <1>1, <2>1, Zenon
<1> HIDE DEF f
<1>4. Partial(S, q, n, f)
  BY <1>2, <1>3 DEF Partial
<1> QED
  BY <1>2, <1>4, PartialIsFlatten

\* With an element in one of them there is an element in all.
LEMMA FlattenNonempty ==
  ASSUME NEW S, NEW n \in Nat, NEW q \in Lists(S, n), NEW j \in 1 .. n, q[j] # << >>
  PROVE  FlattenSeq(q) # << >>
<1>1. PICK f : Partial(S, q, n, f) /\ Steps(S, q, n, f) /\ f[n] = FlattenSeq(q)
  BY FlattenPartial, PartialSteps
<1> DEFINE D == {i \in Nat : i \in j .. n => f[i] # << >>}
<1>2. n \in Nat /\ j \in 1 .. n
  OBVIOUS
<1>3. 0 \in D
  BY <1>2
<1>4. ASSUME NEW i \in Nat, i \in D PROVE i + 1 \in D
  <2> SUFFICES ASSUME i + 1 \in j .. n PROVE f[i + 1] # << >>
    OBVIOUS
  <2>1. i + 1 \in 1 .. n /\ (i + 1) - 1 = i
    BY <1>2
  <2>2. /\ f[(i + 1) - 1] \in Seq(S) /\ q[i + 1] \in Seq(S)
        /\ f[i + 1] = f[(i + 1) - 1] \o q[i + 1]
    BY <1>1, <2>1, Zenon DEF Steps
  <2>3. f[i] # << >> \/ q[i + 1] # << >>
    <3>1. CASE i + 1 = j
      BY <3>1
    <3>2. CASE i + 1 # j
      <4>1. i \in j .. n
        BY <1>2, <3>2
      <4> QED
        BY <1>4, <4>1
    <3> QED
      BY <3>1, <3>2
  <2>4. f[i] \in Seq(S) /\ f[i + 1] = f[i] \o q[i + 1]
    BY <2>1, <2>2
  <2>5. f[i + 1] = << >> <=> f[i] = << >> /\ q[i + 1] = << >>
    <3>1. f[i] \in Seq(S) /\ q[i + 1] \in Seq(S)
      BY <2>2, <2>4
    <3>2. f[i] \o q[i + 1] = << >> <=> f[i] = << >> /\ q[i + 1] = << >>
      BY <3>1, ConcatEqualIffEmpty
    <3> QED
      BY <2>4, <3>2
  <2> QED
    BY <2>3, <2>5
<1> HIDE DEF D
<1>5. Nat \subseteq D
  BY <1>3, <1>4, NatSetInduction
<1>6. n \in D /\ n \in j .. n
  BY <1>2, <1>5
<1> QED
  BY <1>1, <1>6 DEF D

\* Two sequences of sequences, one behind the other.
LEMMA FlattenConcat ==
  ASSUME NEW S, NEW m \in Nat, NEW n \in Nat, NEW u \in Lists(S, m), NEW v \in Lists(S, n)
  PROVE  FlattenSeq(u \o v) = FlattenSeq(u) \o FlattenSeq(v)
<1> DEFINE q == u \o v
<1>0. u \in Seq(Seq(S)) /\ Len(u) = m /\ v \in Seq(Seq(S)) /\ Len(v) = n
  BY DEF Lists
<1>1. q \in Lists(S, m + n)
  <2>1. u \o v \in Seq(Seq(S)) /\ Len(u \o v) = m + n
    BY <1>0, ConcatProperties
  <2> QED
    BY <2>1 DEF Lists
<1>2. \A i \in 1 .. m + n : q[i] = IF i <= m THEN u[i] ELSE v[i - m]
  BY <1>0, ConcatProperties
<1> HIDE DEF q
<1>3. PICK f : Partial(S, u, m, f) /\ Steps(S, u, m, f) /\ f[m] = FlattenSeq(u)
  BY FlattenPartial, PartialSteps
<1>4. PICK g : Partial(S, v, n, g) /\ Steps(S, v, n, g) /\ g[n] = FlattenSeq(v)
  BY FlattenPartial, PartialSteps
<1>5. /\ f \in [0 .. m -> Seq(S)] /\ f[0] = << >>
      /\ g \in [0 .. n -> Seq(S)] /\ g[0] = << >>
  BY <1>3, <1>4 DEF Partial
<1> DEFINE at(i) == IF i <= m THEN f[i] ELSE f[m] \o g[i - m]
           h == [i \in 0 .. m + n |-> at(i)]
<1> HIDE DEF h
<1>6. f[m] \in Seq(S) /\ g[n] \in Seq(S)
  BY <1>5
<1>7. at(0) = << >>
  BY <1>5
<1>7a. ASSUME NEW i \in 0 .. m + n PROVE at(i) \in Seq(S)
  <2>1. CASE i <= m
    BY <1>5, <2>1
  <2>2. CASE i > m
    <3>1. i - m \in 0 .. n
      BY <2>2
    <3>2. g[i - m] \in Seq(S)
      BY <1>5, <3>1
    <3>3. f[m] \o g[i - m] \in Seq(S)
      BY <1>6, <3>2, ConcatProperties
    <3> QED
      BY <2>2, <3>3
  <2> QED
    BY <2>1, <2>2
<1>8. ASSUME NEW i \in 1 .. m + n PROVE at(i) = at(i - 1) \o q[i]
  <2>1. CASE i <= m
    <3>1. i \in 1 .. m /\ at(i) = f[i] /\ at(i - 1) = f[i - 1] /\ q[i] = u[i]
      BY <1>2, <2>1
    <3>2. f[i] = f[i - 1] \o u[i]
      BY <1>3, <3>1, Zenon DEF Steps
    <3> QED
      BY <3>1, <3>2, Zenon
  <2>2. CASE i > m
    <3> DEFINE j == i - m
    <3>1. j \in 1 .. n /\ at(i) = f[m] \o g[j]
      <4>1. j \in 1 .. n /\ ~(i <= m)
        BY <2>2
      <4> QED
        BY <4>1
    <3>1a. q[i] = v[j]
      BY <1>2, <2>2
    <3>2. at(i - 1) = f[m] \o g[j - 1]
      <4>1. CASE j = 1
        <5>1. i - 1 = m /\ j - 1 = 0
          BY <4>1
        <5>2. at(i - 1) = f[m] /\ f[m] \o << >> = f[m]
          BY <1>6, <5>1, ConcatEmptySeq
        <5> QED
          BY <1>5, <5>1, <5>2
      <4>2. CASE j # 1
        <5>1. ~(i - 1 <= m) /\ (i - 1) - m = j - 1
          BY <2>2, <4>2
        <5> HIDE DEF j
        <5> QED
          BY <5>1
      <4> QED
        BY <4>1, <4>2
    <3> HIDE DEF j, at
    <3>3. g[j] = g[j - 1] \o v[j] /\ g[j - 1] \in Seq(S) /\ v[j] \in Seq(S)
      BY <1>4, <3>1, Zenon DEF Steps
    <3>4. f[m] \o (g[j - 1] \o v[j]) = (f[m] \o g[j - 1]) \o v[j]
      <4>1. \A t, y, z \in Seq(S) : t \o (y \o z) = (t \o y) \o z
        BY ConcatAssociative, SMTT(30)
      <4> QED
        BY <1>6, <3>3, <4>1, Zenon
    <3> QED
      BY <3>1, <3>1a, <3>2, <3>3, <3>4, Zenon
  <2>3. i <= m \/ i > m
    OBVIOUS
  <2> HIDE DEF at
  <2> QED
    BY <2>1, <2>2, <2>3
<1>9. at(m + n) = f[m] \o g[n]
  <2>1. CASE n = 0
    <3>1. at(m + n) = f[m] /\ f[m] \o << >> = f[m]
      BY <1>6, <2>1, ConcatEmptySeq
    <3> QED
      BY <1>5, <2>1, <3>1
  <2>2. CASE n # 0
    <3>1. ~(m + n <= m) /\ (m + n) - m = n
      BY <2>2
    <3> QED
      BY <3>1
  <2> QED
    BY <2>1, <2>2
<1> HIDE DEF at
<1>10. Partial(S, q, m + n, h)
  <2>1. h \in [0 .. m + n -> Seq(S)] /\ h[0] = << >>
    BY <1>7, <1>7a DEF h
  <2>2. ASSUME NEW i \in 1 .. m + n PROVE h[i] = h[i - 1] \o q[i]
    <3>1. h[i] = at(i) /\ h[i - 1] = at(i - 1)
      BY DEF h
    <3> QED
      BY <1>8, <3>1
  <2> QED
    BY <2>1, <2>2 DEF Partial
<1>11. h[m + n] = FlattenSeq(q)
  <2>1. m + n \in Nat
    OBVIOUS
  <2> QED
    BY <1>1, <1>10, <2>1, PartialIsFlatten
<1>12. h[m + n] = at(m + n)
  BY DEF h
<1> QED
  BY <1>1, <1>3, <1>4, <1>9, <1>11, <1>12 DEF q
=============================================================================
