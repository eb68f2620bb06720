---------------------------- MODULE ReceiptsProofs ----------------------------
(***************************************************************************)
(* Theorems about receipts, for any number of payments, linkers and anchor *)
(* runs, any batch sizes, and any evictions: a receipt proves its payment, *)
(* the chain of anchors holds, and nobody's payment is covered by another. *)
(***************************************************************************)
EXTENDS Receipts, FiniteSetTheorems, SequenceTheorems, TLAPS

-----------------------------------------------------------------------------
(* Numbers and sequences *)

\* A set of numbers has a least one.
LEMMA LeastNumber ==
  ASSUME NEW T, T \subseteq Nat, T # {}
  PROVE  \E x \in T : \A y \in T : x <= y
<1> DEFINE R == OpToRel(<, Nat)
<1>1. IsWellFoundedOn(R, Nat)
  BY NatLessThanWellFounded
<1>2. ASSUME NEW x \in Nat, NEW y \in Nat, y < x PROVE <<y, x>> \in R
  <2>1. <<y, x>> \in Nat \X Nat /\ <<y, x>>[1] < <<y, x>>[2]
    BY <1>2
  <2> QED BY <2>1, Zenon DEF OpToRel
<1> HIDE DEF R
<1>3. PICK x \in T : \A y \in T : ~ (<<y, x>> \in R)
  BY <1>1, WFMin
<1>4. ASSUME NEW y \in T PROVE x <= y
  <2>1. x \in Nat /\ y \in Nat /\ ~ (<<y, x>> \in R)
    BY <1>3
  <2>2. ~ (y < x)
    BY <1>2, <2>1
  <2> QED BY <2>1, <2>2
<1> QED BY <1>4

\* A set that counting up from 0 never leaves has every number.
LEMMA CountingUp ==
  ASSUME NEW G, 0 \in G, \A n \in Nat : n \in G => n + 1 \in G
  PROVE  \A n \in Nat : n \in G
<1> SUFFICES ASSUME Nat \ G # {} PROVE FALSE
  OBVIOUS
<1>1. PICK n \in Nat \ G : \A m \in Nat \ G : n <= m
  BY LeastNumber
<1>2. n # 0 /\ n - 1 \in Nat /\ n - 1 \in G
  <2>1. n # 0
    OBVIOUS
  <2>2. n - 1 \in Nat /\ ~ (n <= n - 1)
    BY <2>1
  <2> QED BY <1>1, <2>1, <2>2
<1>3. (n - 1) + 1 = n
  BY <1>2
<1> QED BY <1>2, <1>3

\* A sequence, whatever it holds.
IsSeq(s) == \E T : s \in Seq(T)

LEMMA SeqFacts ==
  ASSUME NEW s, IsSeq(s)
  PROVE  /\ Len(s) \in Nat /\ DOMAIN s = 1..Len(s)
         /\ s = << >> <=> Len(s) = 0
<1>1. PICK T : s \in Seq(T)
  BY DEF IsSeq
<1>2. Len(s) \in Nat /\ DOMAIN s = 1..Len(s)
  BY <1>1, LenProperties
<1>3. s # << >> => Len(s) # 0
  BY <1>1, EmptySeq
<1>4. Len(<< >>) = 0
  BY EmptySeq
<1> QED BY <1>2, <1>3, <1>4

\* A function from 1..n is a sequence of length n.
LEMMA FunctionIsSeq ==
  ASSUME NEW n \in Nat, NEW T, NEW s \in [1..n -> T]
  PROVE  IsSeq(s) /\ Len(s) = n
<1>1. s \in Seq(T) /\ Len(s) = n
  OBVIOUS
<1> QED BY <1>1 DEF IsSeq

\* Two sequences are the same if they hold the same.
LEMMA SameSeq ==
  ASSUME NEW s, NEW t, IsSeq(s), IsSeq(t), Len(s) = Len(t), \A k \in 1..Len(s) : s[k] = t[k]
  PROVE  s = t
<1>1. PICK T : s \in Seq(T)
  BY DEF IsSeq
<1>2. PICK U : t \in Seq(U)
  BY DEF IsSeq
<1>3. s \in [1..Len(s) -> T \cup U] /\ t \in [1..Len(s) -> T \cup U]
  BY <1>1, <1>2
<1> QED BY <1>3

LEMMA AppendIs ==
  ASSUME NEW s, IsSeq(s), NEW e
  PROVE  /\ IsSeq(Append(s, e)) /\ Len(Append(s, e)) = Len(s) + 1
         /\ Append(s, e)[Len(s) + 1] = e
         /\ \A k \in 1..Len(s) : Append(s, e)[k] = s[k]
<1>1. PICK T : s \in Seq(T)
  BY DEF IsSeq
<1> DEFINE U == T \cup {e}
<1>2. s \in Seq(U) /\ e \in U
  BY <1>1
<1> HIDE DEF U
<1>3. /\ Append(s, e) \in Seq(U) /\ Len(Append(s, e)) = Len(s) + 1
      /\ Append(s, e)[Len(s) + 1] = e
      /\ \A k \in 1..Len(s) : Append(s, e)[k] = s[k]
  BY <1>2, AppendProperties
<1> QED BY <1>3 DEF IsSeq

LEMMA EmptyIs == IsSeq(<< >>) /\ Len(<< >>) = 0
<1>1. << >> \in Seq({}) /\ Len(<< >>) = 0
  BY EmptySeq
<1> QED BY <1>1 DEF IsSeq

-----------------------------------------------------------------------------
(* The least first *)

Ascends(s) == \A j, k \in 1..Len(s) : j < k => s[j] < s[k]
Holds(s, S) == /\ \A k \in 1..Len(s) : s[k] \in S
               /\ \A x \in S : \E k \in 1..Len(s) : s[k] = x

\* What ascends through the same numbers is the same.
LEMMA AscendsOnce ==
  ASSUME NEW S \in SUBSET Nat, NEW s, NEW t, IsSeq(s), IsSeq(t),
         Ascends(s), Ascends(t), Holds(s, S), Holds(t, S), Len(s) <= Len(t)
  PROVE  s = t
<1>0. Len(s) \in Nat /\ Len(t) \in Nat
  BY SeqFacts
<1>1. \A k \in 1..Len(s) : s[k] = t[k]
  <2> SUFFICES ASSUME {k \in 1..Len(s) : s[k] # t[k]} # {} PROVE FALSE
    OBVIOUS
  <2>1. PICK k \in 1..Len(s) : s[k] # t[k] /\ \A j \in 1..Len(s) : s[j] # t[j] => k <= j
    <3> DEFINE T == {k \in 1..Len(s) : s[k] # t[k]}
    <3>1. T \subseteq Nat
      BY <1>0
    <3>2. PICK k \in T : \A j \in T : k <= j
      BY <3>1, LeastNumber
    <3> QED BY <3>2
  <2>a. k \in 1..Len(t)
    BY <1>0
  <2>b. s[k] \in S /\ t[k] \in S
    BY <2>a DEF Holds
  <2>2. k \in 1..Len(t) /\ s[k] \in Nat /\ t[k] \in Nat
    BY <2>a, <2>b
  <2>3. \A j \in 1..Len(s) : j < k => s[j] = t[j]
    BY <1>0, <2>1
  <2>4. PICK i \in 1..Len(t) : t[i] = s[k]
    BY <2>b DEF Holds
  <2>5. PICK j \in 1..Len(s) : s[j] = t[k]
    BY <2>b DEF Holds
  <2>6. i \in Nat /\ j \in Nat /\ k \in Nat /\ t[i] \in Nat /\ s[j] \in Nat
    BY <1>0, <2>2, <2>4, <2>5
  <2>7. CASE s[k] < t[k]
    <3>1. i < k
      BY <2>2, <2>4, <2>6, <2>7 DEF Ascends
    <3>2. s[i] = t[i] /\ i \in 1..Len(s)
      BY <1>0, <2>3, <2>6, <3>1
    <3>3. s[i] < s[k]
      BY <3>1, <3>2 DEF Ascends
    <3> QED BY <2>2, <2>4, <3>2, <3>3
  <2>8. CASE t[k] < s[k]
    <3>1. j < k
      BY <2>2, <2>5, <2>6, <2>8 DEF Ascends
    <3>2. s[j] = t[j] /\ j \in 1..Len(t)
      BY <1>0, <2>3, <2>6, <3>1
    <3>3. t[j] < t[k]
      BY <2>2, <3>1, <3>2 DEF Ascends
    <3> QED BY <2>2, <2>5, <3>2, <3>3
  <2> QED BY <2>1, <2>2, <2>7, <2>8
<1>2. Len(t) <= Len(s)
  <2> SUFFICES ASSUME Len(s) < Len(t) PROVE FALSE
    BY <1>0
  <2> DEFINE n == Len(s) + 1
  <2>1. n \in 1..Len(t) /\ n \in Nat
    BY <1>0
  <2>2. PICK j \in 1..Len(s) : s[j] = t[n]
    BY <2>1 DEF Holds
  <2>3. t[j] = t[n] /\ j < n /\ j \in 1..Len(t)
    BY <1>0, <1>1, <2>2
  <2>4. t[j] < t[n] /\ t[n] \in Nat
    BY <2>1, <2>3 DEF Ascends, Holds
  <2> QED BY <2>3, <2>4
<1> QED BY <1>0, <1>1, <1>2, SameSeq

\* Every finite set of numbers can be counted through in order.
LEMMA CanBeInOrder ==
  ASSUME NEW n \in Nat, NEW S \in SUBSET (1..n)
  PROVE  \E m \in Nat : \E s \in [1..m -> S] : Ascends(s) /\ Holds(s, S)
<1> DEFINE Good(k) == \A T \in SUBSET (1..k) : \E m \in Nat : \E s \in [1..m -> T] : Ascends(s) /\ Holds(s, T)
           G == {k \in Nat : Good(k)}
<1>1. 0 \in G
  <2> SUFFICES ASSUME NEW T \in SUBSET (1..0)
               PROVE  \E m \in Nat : \E s \in [1..m -> T] : Ascends(s) /\ Holds(s, T)
    OBVIOUS
  <2> DEFINE s == [k \in 1..0 |-> k]
  <2>1. T = {} /\ s \in [1..0 -> T]
    OBVIOUS
  <2>2. Len(s) = 0
    BY <2>1, FunctionIsSeq
  <2>3. Ascends(s) /\ Holds(s, T)
    BY <2>1, <2>2 DEF Ascends, Holds
  <2> HIDE DEF s
  <2> QED BY <2>1, <2>3
<1>2. ASSUME NEW k \in Nat, Good(k) PROVE Good(k + 1)
  <2> SUFFICES ASSUME NEW T \in SUBSET (1..(k + 1))
               PROVE  \E m \in Nat : \E s \in [1..m -> T] : Ascends(s) /\ Holds(s, T)
    OBVIOUS
  <2> DEFINE U == T \ {k + 1}
  <2>1. U \in SUBSET (1..k)
    OBVIOUS
  <2>2. PICK m \in Nat : \E s \in [1..m -> U] : Ascends(s) /\ Holds(s, U)
    BY <1>2, <2>1
  <2>3. PICK s \in [1..m -> U] : Ascends(s) /\ Holds(s, U)
    BY <2>2
  <2>4. Len(s) = m
    BY FunctionIsSeq
  <2>5. CASE k + 1 \notin T
    <3>1. U = T
      BY <2>5
    <3> QED BY <2>3, <3>1
  <2>6. CASE k + 1 \in T
    <3> DEFINE t == [j \in 1..(m + 1) |-> IF j = m + 1 THEN k + 1 ELSE s[j]]
    <3>1. t \in [1..(m + 1) -> T]
      BY <2>6
    <3>2. Len(t) = m + 1
      <4> HIDE DEF t
      <4> QED BY <3>1, FunctionIsSeq
    <3>3. Ascends(t)
      <4> SUFFICES ASSUME NEW i \in 1..(m + 1), NEW j \in 1..(m + 1), i < j PROVE t[i] < t[j]
        BY <3>2 DEF Ascends
      <4>a. i \in 1..m /\ t[i] = s[i]
        OBVIOUS
      <4>b. s[i] \in U
        BY <4>a
      <4>1. i \in 1..m /\ t[i] = s[i] /\ s[i] \in U /\ s[i] \in 1..k
        BY <2>1, <4>a, <4>b
      <4>2. CASE j = m + 1
        BY <4>1, <4>2
      <4>3. CASE j # m + 1
        BY <2>3, <2>4, <4>1, <4>3 DEF Ascends
      <4> QED BY <4>2, <4>3
    <3>4. Holds(t, T)
      <4>1. \A j \in 1..(m + 1) : t[j] \in T
        BY <3>1
      <4>2. ASSUME NEW x \in T PROVE \E j \in 1..(m + 1) : t[j] = x
        <5>1. CASE x = k + 1
          BY <5>1
        <5>2. CASE x # k + 1
          <6>1. x \in U
            BY <5>2
          <6>2. PICK j \in 1..m : s[j] = x
            BY <2>3, <2>4, <6>1 DEF Holds
          <6> QED BY <6>2
        <5> QED BY <5>1, <5>2
      <4> QED BY <3>2, <4>1, <4>2 DEF Holds
    <3> HIDE DEF t
    <3>5. m + 1 \in Nat
      OBVIOUS
    <3> QED BY <3>1, <3>3, <3>4, <3>5
  <2> QED BY <2>5, <2>6
<1>3. \A k \in Nat : k \in G
  <2> HIDE DEF Good
  <2>1. \A k \in Nat : k \in G => k + 1 \in G
    BY <1>2
  <2> HIDE DEF G
  <2> QED BY <1>1, <2>1, CountingUp
<1> QED BY <1>3

\* What InOrder gives: the members of the set, each once, ascending.
LEMMA InOrderIs ==
  ASSUME NEW n \in Nat, NEW S \in SUBSET (1..n)
  PROVE  /\ IsSeq(InOrder(S)) /\ InOrder(S) \in Seq(S) /\ Len(InOrder(S)) = Cardinality(S)
         /\ Ascends(InOrder(S)) /\ Holds(InOrder(S), S)
<1>0. \A x \in S : x \in Nat
  OBVIOUS
<1>1. PICK m \in Nat : \E s \in [1..m -> S] : Ascends(s) /\ Holds(s, S)
  BY CanBeInOrder
<1>2. PICK s \in [1..m -> S] : Ascends(s) /\ Holds(s, S)
  BY <1>1
<1>3. IsSeq(s) /\ Len(s) = m
  BY FunctionIsSeq
<1>4. s \in Bijection(1..m, S)
  <2>1. \A i, j \in 1..m : s[i] = s[j] => i = j
    <3> SUFFICES ASSUME NEW i \in 1..m, NEW j \in 1..m, s[i] = s[j], i < j PROVE FALSE
      <4>1. \A i, j \in 1..m : i = j \/ i < j \/ j < i
        OBVIOUS
      <4> QED BY <4>1
    <3>1. s[i] < s[j]
      BY <1>2, <1>3 DEF Ascends
    <3>2. s[i] \in S
      OBVIOUS
    <3>3. s[i] \in Nat
      BY <1>0, <3>2, Zenon
    <3> QED BY <3>1, <3>3
  <2>2. \A x \in S : \E i \in 1..m : s[i] = x
    BY <1>2, <1>3 DEF Holds
  <2> QED BY <2>1, <2>2 DEF Bijection, Injection, Surjection, IsInjective
<1>5. IsFiniteSet(S) /\ Cardinality(S) = m
  <2>1. IsFiniteSet(1..m) /\ Cardinality(1..m) = m
    BY FS_Interval
  <2>2. ExistsBijection(1..m, S)
    BY <1>4 DEF ExistsBijection
  <2> QED BY <2>1, <2>2, FS_Bijection
<1> DEFINE P(t) == \A j, k \in 1..Cardinality(S) : j < k => t[j] < t[k]
<1>6. s \in [1..Cardinality(S) -> S] /\ P(s)
  BY <1>2, <1>3, <1>5 DEF Ascends
<1>7. InOrder(S) \in [1..Cardinality(S) -> S] /\ P(InOrder(S))
  <2> HIDE DEF P
  <2>1. InOrder(S) = CHOOSE t \in [1..Cardinality(S) -> S] : P(t)
    BY DEF P, InOrder
  <2> QED BY <1>6, <2>1
<1>8. IsSeq(InOrder(S)) /\ Len(InOrder(S)) = m
  BY <1>5, <1>7, FunctionIsSeq
<1>9. Ascends(InOrder(S))
  BY <1>5, <1>7, <1>8 DEF Ascends
<1> DEFINE t == InOrder(S)
<1>10. t \in [1..m -> S] /\ \A i, j \in 1..m : i < j => t[i] < t[j]
  BY <1>5, <1>7
<1> HIDE DEF t
<1>11. \A i, j \in 1..m : t[i] = t[j] => i = j
  <2> SUFFICES ASSUME NEW i \in 1..m, NEW j \in 1..m, t[i] = t[j], i < j PROVE FALSE
    <3>1. \A i, j \in 1..m : i = j \/ i < j \/ j < i
      OBVIOUS
    <3> QED BY <3>1
  <2>1. t[i] < t[j]
    BY <1>10
  <2>2. t[i] \in S
    BY <1>10
  <2>3. t[i] \in Nat
    BY <1>0, <2>2, Zenon
  <2> QED BY <2>1, <2>3
<1>12. \A x \in S : \E i \in 1..m : t[i] = x
  <2>1. t \in Injection(1..m, S)
    BY <1>10, <1>11 DEF Injection, IsInjective
  <2>2. IsFiniteSet(1..m) /\ Cardinality(1..m) = m
    BY FS_Interval
  <2>3. t \in Surjection(1..m, S)
    BY <1>5, <2>1, <2>2, FS_Injection
  <2> QED BY <2>3 DEF Surjection
<1>13. Holds(t, S)
  BY <1>8, <1>10, <1>12 DEF t, Holds
<1>14. t \in Seq(S)
  BY <1>10
<1> QED BY <1>5, <1>8, <1>9, <1>13, <1>14 DEF t

LEMMA InOrderOnly ==
  ASSUME NEW n \in Nat, NEW S \in SUBSET (1..n), NEW s, IsSeq(s), Ascends(s), Holds(s, S)
  PROVE  s = InOrder(S)
<1> DEFINE t == InOrder(S)
<1>1. IsSeq(t) /\ Ascends(t) /\ Holds(t, S)
  BY InOrderIs
<1>2. S \in SUBSET Nat
  OBVIOUS
<1>3. Len(s) \in Nat /\ Len(t) \in Nat
  BY <1>1, SeqFacts
<1> HIDE DEF t
<1>4. CASE Len(s) <= Len(t)
  BY <1>1, <1>2, <1>4, AscendsOnce DEF t
<1>5. CASE Len(t) <= Len(s)
  <2>1. t = s
    BY <1>1, <1>2, <1>5, AscendsOnce
  <2> QED BY <2>1 DEF t
<1> QED BY <1>3, <1>4, <1>5

-----------------------------------------------------------------------------
(* Merkle trees: a proof built from the leaves leads to their root *)

LEMMA Halved ==
  ASSUME NEW a \in Nat, a >= 1, NEW b, b = (a + 1) \div 2
  PROVE  b \in Nat /\ b >= 1
  OBVIOUS

LEMMA HalvedAgain ==
  ASSUME NEW a \in Nat, a >= 1, NEW b, b = (a + 1) \div 2,
         NEW d \in Nat, NEW m \in Nat, a = 1 \/ a + d <= m
  PROVE  b = 1 \/ b + (d + 1) <= m
  OBVIOUS

LEMMA NextLevelIs ==
  ASSUME NEW level, IsSeq(level), Len(level) >= 1
  PROVE  /\ IsSeq(NextLevel(level))
         /\ Len(NextLevel(level)) = (Len(level) + 1) \div 2
<1> DEFINE n == (Len(level) + 1) \div 2
           Node(k) == IF 2 * k <= Len(level) THEN HashPair(level[2 * k - 1], level[2 * k]) ELSE level[2 * k - 1]
           T == {Node(k) : k \in 1..n}
<1>1. Len(level) \in Nat
  BY SeqFacts
<1>2. n \in Nat
  BY <1>1
<1>3. NextLevel(level) = [k \in 1..n |-> Node(k)]
  BY DEF NextLevel
<1> HIDE DEF n, Node
<1>4. NextLevel(level) \in [1..n -> T]
  BY <1>3
<1> HIDE DEF T
<1>5. IsSeq(NextLevel(level)) /\ Len(NextLevel(level)) = n
  BY <1>2, <1>4, FunctionIsSeq
<1> QED BY <1>5 DEF n

\* Every level is what NextLevel makes of the one below.
LEMMA LevelsAre ==
  ASSUME NEW h, IsSeq(h)
  PROVE  /\ Levels(h)[0] = h
         /\ \A d \in 1..Len(h) : Levels(h)[d] = NextLevel(Levels(h)[d - 1])
<1> DEFINE Rec(n, f) == f = [d \in 0..n |-> IF d = 0 THEN h ELSE NextLevel(f[d - 1])]
           G == {n \in Nat : \E f : Rec(n, f)}
<1>1. 0 \in G
  <2> DEFINE f == [d \in 0..0 |-> h]
  <2>1. Rec(0, f)
    OBVIOUS
  <2> QED BY <2>1
<1>2. ASSUME NEW n \in Nat, NEW f, Rec(n, f) PROVE \E g : Rec(n + 1, g)
  <2> DEFINE g == [d \in 0..(n + 1) |-> IF d = n + 1 THEN NextLevel(f[n]) ELSE f[d]]
  <2>1. ASSUME NEW d \in 0..(n + 1) PROVE g[d] = IF d = 0 THEN h ELSE NextLevel(g[d - 1])
    <3>1. CASE d = 0
      BY <1>2, <3>1
    <3>2. CASE d \in 1..n
      <4>1. f[d] = NextLevel(f[d - 1])
        BY <1>2, <3>2
      <4>2. g[d] = f[d] /\ g[d - 1] = f[d - 1]
        BY <3>2
      <4> HIDE DEF g
      <4> QED BY <3>2, <4>1, <4>2
    <3>3. CASE d = n + 1
      BY <3>3
    <3> QED BY <3>1, <3>2, <3>3
  <2>2. Rec(n + 1, g)
    BY <2>1
  <2> QED BY <2>2
<1>3. Len(h) \in Nat
  BY SeqFacts
<1>4. Len(h) \in G
  <2>1. \A n \in Nat : n \in G => n + 1 \in G
    <3> HIDE DEF Rec
    <3> QED BY <1>2
  <2> HIDE DEF G
  <2> QED BY <1>1, <1>3, <2>1, CountingUp
<1>5. Rec(Len(h), Levels(h))
  <2>1. Levels(h) = CHOOSE f : Rec(Len(h), f)
    BY DEF Levels
  <2> HIDE DEF Rec
  <2> QED BY <1>4, <2>1
<1> DEFINE up == Levels(h)
<1>6. up = [d \in 0..Len(h) |-> IF d = 0 THEN h ELSE NextLevel(up[d - 1])]
  BY <1>5
<1> HIDE DEF up
<1>7. up[0] = h /\ \A d \in 1..Len(h) : up[d] = NextLevel(up[d - 1])
  BY <1>3, <1>6
<1> QED BY <1>7 DEF up

\* Each level is about half as long as the one below, so the last one has the root alone.
LEMMA LevelsShrink ==
  ASSUME NEW h, IsSeq(h), Len(h) >= 1
  PROVE  /\ \A d \in 0..Len(h) : IsSeq(Levels(h)[d]) /\ Len(Levels(h)[d]) >= 1
         /\ Len(Levels(h)[Len(h)]) = 1
<1> DEFINE up == Levels(h)
           N == Len(h)
           Short(d) == IsSeq(up[d]) /\ Len(up[d]) \in Nat /\ Len(up[d]) >= 1 /\ (Len(up[d]) = 1 \/ Len(up[d]) + d <= N)
           G == {d \in Nat : d <= N => Short(d)}
<1>0. N \in Nat
  BY SeqFacts
<1>1. 0 \in G
  BY <1>0, LevelsAre
<1>2. ASSUME NEW d \in Nat, d \in G, d + 1 <= N PROVE Short(d + 1)
  <2>1. Short(d)
    BY <1>0, <1>2
  <2>2. up[d + 1] = NextLevel(up[d])
    <3>1. d + 1 \in 1..N /\ (d + 1) - 1 = d
      BY <1>0, <1>2
    <3> QED BY <3>1, LevelsAre
  <2> HIDE DEF up
  <2>3. IsSeq(up[d + 1]) /\ Len(up[d + 1]) = (Len(up[d]) + 1) \div 2
    BY <2>1, <2>2, NextLevelIs
  <2>4. Len(up[d + 1]) \in Nat /\ Len(up[d + 1]) >= 1
    BY <2>1, <2>3, Halved
  <2>5. Len(up[d + 1]) = 1 \/ Len(up[d + 1]) + (d + 1) <= N
    <3> HIDE DEF N
    <3> QED BY <1>0, <2>1, <2>3, HalvedAgain
  <2> QED BY <2>3, <2>4, <2>5, Zenon
<1>3. \A d \in Nat : d \in G
  <2>1. \A d \in Nat : d \in G => d + 1 \in G
    <3> HIDE DEF Short
    <3> QED BY <1>2
  <2> HIDE DEF G
  <2> QED BY <1>1, <2>1, CountingUp
<1>4. \A d \in 0..N : Short(d)
  BY <1>0, <1>3
<1>5. Short(N)
  BY <1>0, <1>4
<1> HIDE DEF up
<1>6. Len(up[N]) = 1
  BY <1>0, <1>5
<1> QED BY <1>4, <1>6 DEF up

LEMMA ApplyIs ==
  ASSUME NEW x, NEW p, IsSeq(p)
  PROVE  \E f : /\ f = [k \in 0..Len(p) |-> IF k = 0 THEN x ELSE HashPair(f[k - 1], p[k])]
                /\ MerkleApply(x, p) = f[Len(p)]
<1> DEFINE Rec(n, f) == f = [k \in 0..n |-> IF k = 0 THEN x ELSE HashPair(f[k - 1], p[k])]
           G == {n \in Nat : \E f : Rec(n, f)}
<1>1. 0 \in G
  <2> DEFINE f == [d \in 0..0 |-> x]
  <2>1. Rec(0, f)
    OBVIOUS
  <2> QED BY <2>1
<1>2. ASSUME NEW n \in Nat, NEW f, Rec(n, f) PROVE \E g : Rec(n + 1, g)
  <2> DEFINE g == [d \in 0..(n + 1) |-> IF d = n + 1 THEN HashPair(f[n], p[n + 1]) ELSE f[d]]
  <2>1. ASSUME NEW d \in 0..(n + 1) PROVE g[d] = IF d = 0 THEN x ELSE HashPair(g[d - 1], p[d])
    <3>1. CASE d = 0
      BY <1>2, <3>1
    <3>2. CASE d \in 1..n
      <4>1. f[d] = HashPair(f[d - 1], p[d])
        BY <1>2, <3>2
      <4>2. g[d] = f[d] /\ g[d - 1] = f[d - 1]
        BY <3>2
      <4> HIDE DEF g
      <4> QED BY <3>2, <4>1, <4>2
    <3>3. CASE d = n + 1
      BY <3>3
    <3> QED BY <3>1, <3>2, <3>3
  <2>2. Rec(n + 1, g)
    BY <2>1
  <2> QED BY <2>2
<1>3. Len(p) \in Nat
  BY SeqFacts
<1>4. Len(p) \in G
  <2>1. \A n \in Nat : n \in G => n + 1 \in G
    <3> HIDE DEF Rec
    <3> QED BY <1>2
  <2> HIDE DEF G
  <2> QED BY <1>1, <1>3, <2>1, CountingUp
<1> DEFINE F == CHOOSE f : Rec(Len(p), f)
<1>5. Rec(Len(p), F)
  <2> HIDE DEF Rec
  <2> QED BY <1>4
<1>6. MerkleApply(x, p) = F[Len(p)]
  BY DEF MerkleApply
<1> HIDE DEF F
<1> QED BY <1>5, <1>6

\* One more sibling is one more pair.
LEMMA ApplyAppend ==
  ASSUME NEW x, NEW p, IsSeq(p), NEW y
  PROVE  MerkleApply(x, Append(p, y)) = HashPair(MerkleApply(x, p), y)
<1> DEFINE q == Append(p, y)
           n == Len(p)
<1>1. IsSeq(q) /\ Len(q) = n + 1 /\ q[n + 1] = y /\ \A k \in 1..n : q[k] = p[k]
  BY AppendIs
<1>2. n \in Nat
  BY SeqFacts
<1>3. PICK f : f = [k \in 0..n |-> IF k = 0 THEN x ELSE HashPair(f[k - 1], p[k])] /\ MerkleApply(x, p) = f[n]
  BY ApplyIs
<1> HIDE DEF q
<1>4. PICK g : g = [k \in 0..Len(q) |-> IF k = 0 THEN x ELSE HashPair(g[k - 1], q[k])] /\ MerkleApply(x, q) = g[Len(q)]
  BY <1>1, ApplyIs
<1> HIDE DEF n
<1>5. f[0] = x /\ \A k \in 1..n : f[k] = HashPair(f[k - 1], p[k])
  BY <1>2, <1>3
<1>6. g[0] = x /\ \A k \in 1..(n + 1) : g[k] = HashPair(g[k - 1], q[k])
  BY <1>1, <1>2, <1>4
<1>7. f[n] = g[n]
  <2> DEFINE G == {k \in Nat : k <= n => f[k] = g[k]}
  <2>1. 0 \in G
    BY <1>5, <1>6
  <2>2. ASSUME NEW k \in Nat, k \in G, k + 1 <= n PROVE f[k + 1] = g[k + 1]
    <3>1. f[k] = g[k]
      BY <1>2, <2>2
    <3>2. k + 1 \in 1..n /\ k + 1 \in 1..(n + 1) /\ (k + 1) - 1 = k
      BY <1>2, <2>2
    <3> QED BY <1>1, <1>5, <1>6, <3>1, <3>2
  <2>3. \A k \in Nat : k \in G
    <3>1. \A k \in Nat : k \in G => k + 1 \in G
      BY <2>2
    <3> HIDE DEF G
    <3> QED BY <2>1, <3>1, CountingUp
  <2> QED BY <1>2, <2>3
<1>8. g[n + 1] = HashPair(g[n], y)
  BY <1>1, <1>2, <1>6
<1> QED BY <1>1, <1>3, <1>4, <1>7, <1>8 DEF q

LEMMA ApplyNothing == ASSUME NEW x PROVE MerkleApply(x, << >>) = x
<1>1. IsSeq(<< >>) /\ Len(<< >>) = 0
  BY EmptyIs
<1>2. PICK f : f = [k \in 0..0 |-> IF k = 0 THEN x ELSE HashPair(f[k - 1], << >>[k])] /\ MerkleApply(x, << >>) = f[0]
  BY <1>1, ApplyIs
<1> QED BY <1>2

\* The walk from a leaf up to the root.
LEMMA WalkIs ==
  ASSUME NEW h, IsSeq(h), NEW i
  PROVE  \E w : /\ w[0] = [at |-> i, proof |-> << >>]
                /\ \A d \in 1..Len(h) : w[d] = Climb(w[d - 1], Levels(h)[d - 1])
                /\ MerkleProof(h, i) = w[Len(h)].proof
<1> DEFINE up == Levels(h)
           start == [at |-> i, proof |-> << >>]
           Rec(n, f) == f = [d \in 0..n |-> IF d = 0 THEN start ELSE Climb(f[d - 1], up[d - 1])]
           G == {n \in Nat : \E f : Rec(n, f)}
           F == CHOOSE f : Rec(Len(h), f)
<1>0. MerkleProof(h, i) = F[Len(h)].proof
  BY DEF MerkleProof
<1> HIDE DEF up, start
<1>1. 0 \in G
  <2> DEFINE f == [d \in 0..0 |-> start]
  <2>1. Rec(0, f)
    OBVIOUS
  <2> QED BY <2>1
<1>2. ASSUME NEW n \in Nat, NEW f, Rec(n, f) PROVE \E g : Rec(n + 1, g)
  <2> DEFINE g == [d \in 0..(n + 1) |-> IF d = n + 1 THEN Climb(f[n], up[n]) ELSE f[d]]
  <2>1. ASSUME NEW d \in 0..(n + 1) PROVE g[d] = IF d = 0 THEN start ELSE Climb(g[d - 1], up[d - 1])
    <3>1. CASE d = 0
      BY <1>2, <3>1
    <3>2. CASE d \in 1..n
      <4>1. f[d] = Climb(f[d - 1], up[d - 1])
        BY <1>2, <3>2
      <4>2. g[d] = f[d] /\ g[d - 1] = f[d - 1]
        BY <3>2
      <4> HIDE DEF g
      <4> QED BY <3>2, <4>1, <4>2
    <3>3. CASE d = n + 1
      BY <3>3
    <3> QED BY <3>1, <3>2, <3>3
  <2>2. Rec(n + 1, g)
    BY <2>1
  <2> QED BY <2>2
<1>3. Len(h) \in Nat
  BY SeqFacts
<1>4. Len(h) \in G
  <2>1. \A n \in Nat : n \in G => n + 1 \in G
    <3> HIDE DEF Rec
    <3> QED BY <1>2
  <2> HIDE DEF G
  <2> QED BY <1>1, <1>3, <2>1, CountingUp
<1>5. Rec(Len(h), F)
  <2> HIDE DEF Rec
  <2> QED BY <1>4
<1> HIDE DEF F
<1>6. F[0] = start /\ \A d \in 1..Len(h) : F[d] = Climb(F[d - 1], up[d - 1])
  BY <1>3, <1>5
<1> QED BY <1>0, <1>6 DEF up, start

LEMMA Sides ==
  ASSUME NEW a \in Nat, NEW n \in Nat, a \in 1..n
  PROVE  /\ (a + 1) \div 2 \in 1..((n + 1) \div 2)
         /\ a % 2 = 1 => 2 * ((a + 1) \div 2) = a + 1
         /\ a % 2 # 1 => 2 * ((a + 1) \div 2) = a
         /\ a % 2 # 1 => a - 1 \in 1..n
  OBVIOUS

LEMMA PairSorted == ASSUME NEW a, NEW b PROVE HashPair(a, b) = HashPair(b, a)
  BY DEF HashPair

\* One step of the walk: what the proof has led to so far is the node the walk is at.
LEMMA ClimbLeads ==
  ASSUME NEW level, IsSeq(level), Len(level) >= 1,
         NEW at \in 1..Len(level), NEW proof, IsSeq(proof),
         NEW x, MerkleApply(x, proof) = level[at],
         NEW w, w.at = at, w.proof = proof
  PROVE  LET v == Climb(w, level)
         IN /\ v.at \in 1..Len(NextLevel(level)) /\ IsSeq(v.proof)
            /\ MerkleApply(x, v.proof) = NextLevel(level)[v.at]
<1> DEFINE n == Len(level)
           up == (at + 1) \div 2
           next == NextLevel(level)
           longer == Append(proof, level[Sibling(at)])
           v == Climb(w, level)
<1>0. n \in Nat /\ at \in Nat
  BY SeqFacts
<1>1. up \in 1..((n + 1) \div 2)
  BY <1>0, Sides
<1>2. v.at = up /\ v.proof = IF Sibling(at) <= n THEN longer ELSE proof
  BY DEF Climb
<1>3. next[up] = IF 2 * up <= n THEN HashPair(level[2 * up - 1], level[2 * up]) ELSE level[2 * up - 1]
  <2> HIDE DEF up
  <2> QED BY <1>1 DEF NextLevel
<1>4. Len(next) = (n + 1) \div 2
  BY NextLevelIs
<1>5. IsSeq(longer) /\ MerkleApply(x, longer) = HashPair(level[at], level[Sibling(at)])
  BY AppendIs, ApplyAppend
<1> HIDE DEF v, longer, next, up
<1>6. CASE at % 2 = 1
  <2>1. Sibling(at) = at + 1 /\ 2 * up = at + 1
    BY <1>0, <1>6, Sides DEF Sibling, up
  <2>2. next[up] = IF at + 1 <= n THEN HashPair(level[at], level[at + 1]) ELSE level[at]
    <3>1. (at + 1) - 1 = at
      BY <1>0
    <3> QED BY <1>3, <2>1, <3>1
  <2>3. at + 1 <= n => MerkleApply(x, v.proof) = next[up] /\ IsSeq(v.proof)
    BY <1>2, <1>5, <2>1, <2>2, Zenon
  <2>4. ~ (at + 1 <= n) => MerkleApply(x, v.proof) = next[up] /\ IsSeq(v.proof)
    BY <1>2, <2>1, <2>2, Zenon
  <2>5. MerkleApply(x, v.proof) = next[up] /\ IsSeq(v.proof)
    BY <2>3, <2>4, Zenon
  <2> QED BY <1>1, <1>2, <1>4, <2>5 DEF v, next
<1>7. CASE at % 2 # 1
  <2>1. Sibling(at) = at - 1 /\ 2 * up = at /\ at - 1 <= n /\ at <= n
    BY <1>0, <1>7, Sides DEF Sibling, up
  <2>2. next[up] = HashPair(level[at - 1], level[at])
    BY <1>3, <2>1
  <2>3. v.proof = longer /\ MerkleApply(x, longer) = HashPair(level[at], level[at - 1])
    BY <1>2, <1>5, <2>1
  <2>4. MerkleApply(x, v.proof) = next[up] /\ IsSeq(v.proof)
    BY <1>5, <2>2, <2>3, PairSorted
  <2> QED BY <1>1, <1>2, <1>4, <2>4 DEF v, next
<1> QED BY <1>6, <1>7

\* The proof of any leaf, applied to its hash, gives the root of the tree.
THEOREM ProofLeadsToRoot ==
  ASSUME NEW h, IsSeq(h), NEW k \in 1..Len(h)
  PROVE  MerkleApply(h[k], MerkleProof(h, k)) = MerkleRoot(h)
<1> DEFINE N == Len(h)
           up == Levels(h)
<1>0. N \in Nat /\ N >= 1 /\ h # << >>
  BY SeqFacts
<1>1. PICK w : /\ w[0] = [at |-> k, proof |-> << >>]
               /\ \A d \in 1..N : w[d] = Climb(w[d - 1], up[d - 1])
               /\ MerkleProof(h, k) = w[N].proof
  BY WalkIs
<1>2. /\ \A d \in 0..N : IsSeq(up[d]) /\ Len(up[d]) >= 1
      /\ Len(up[N]) = 1
  BY <1>0, LevelsShrink
<1>3. up[0] = h /\ \A d \in 1..N : up[d] = NextLevel(up[d - 1])
  BY LevelsAre
<1>4. MerkleRoot(h) = up[N][1]
  BY <1>0 DEF MerkleRoot
<1> DEFINE Leads(d) == /\ w[d].at \in 1..Len(up[d]) /\ IsSeq(w[d].proof)
                       /\ MerkleApply(h[k], w[d].proof) = up[d][w[d].at]
           G == {d \in Nat : d <= N => Leads(d)}
<1> HIDE DEF up, N
<1>5. 0 \in G
  <2>1. w[0].at = k /\ w[0].proof = << >>
    BY <1>1
  <2> QED BY <1>3, <2>1, ApplyNothing, EmptyIs DEF N
<1>6. ASSUME NEW d \in Nat, d \in G, d + 1 <= N PROVE Leads(d + 1)
  <2>1. Leads(d)
    BY <1>0, <1>6
  <2>2. d \in 0..N /\ d + 1 \in 1..N /\ (d + 1) - 1 = d
    BY <1>0, <1>6
  <2>3. IsSeq(up[d]) /\ Len(up[d]) >= 1
    BY <1>2, <2>2
  <2>4. w[d + 1] = Climb(w[d], up[d]) /\ up[d + 1] = NextLevel(up[d])
    BY <1>1, <1>3, <2>2
  <2> QED BY <2>1, <2>3, <2>4, ClimbLeads
<1>7. \A d \in Nat : d \in G
  <2>1. \A d \in Nat : d \in G => d + 1 \in G
    <3> HIDE DEF Leads
    <3> QED BY <1>6
  <2> HIDE DEF G
  <2> QED BY <1>5, <2>1, CountingUp
<1>8. Leads(N)
  BY <1>0, <1>7
<1>9. w[N].at = 1
  BY <1>2, <1>8
<1> QED BY <1>1, <1>4, <1>8, <1>9

-----------------------------------------------------------------------------
(* The invariant.  Its parts speak of rows R, leaves L and anchors A, so that *)
(* each can be said of the state before a step and of the one after it.       *)

Leaf == [kind : {"direct", "lazy"}, sid : Sids, order : Orders, anchor : Nat]

OwnPaid(R, o) == Remittance[o] \in Sids /\ R[o].own /\ R[o].status = "confirmed"
Settled(R, o) == R[o].status \in {"confirmed", "resolved_offrail"}

\* A receipt payment and a payment it may cover.
MayCover(R, o, c) == Iban[c] = Iban[o] /\ c < o /\ Settled(R, c) /\ ~ OwnPaid(R, c)

DirectLeaf(L, o) ==
  \E j \in 1..Len(L) : L[j].kind = "direct" /\ L[j].order = o /\ L[j].sid = Remittance[o]

\* A settled row does not change any more, so what is true of the order of a leaf stays so.
LeafOK(R, L, i) ==
  IF L[i].kind = "direct" THEN Remittance[L[i].order] = L[i].sid /\ OwnPaid(R, L[i].order)
  ELSE \E j \in 1..(i - 1) : /\ L[j].kind = "direct" /\ L[j].sid = L[i].sid
                             /\ Iban[L[j].order] # NoIban /\ MayCover(R, L[j].order, L[i].order)

LeavesOK(R, L) ==
  /\ L \in Seq(Leaf) /\ \A i \in 1..Len(L) : LeafOK(R, L, i)
  /\ \A i, j \in 1..Len(L) : L[i].order = L[j].order => i = j

\* What a linker has in hand is as it was when it was read.
LinkOK(R, L, t) ==
  /\ t.pc \in {"idle", "direct", "window", "cover", "lazy"}
  /\ t.pc # "idle" => /\ t.todo \in Seq(Orders) /\ t.todo # << >>
                      /\ \A k \in 1..Len(t.todo) : OwnPaid(R, t.todo[k])
  /\ t.pc \in {"window", "cover", "lazy"} => Iban[Head(t.todo)] # NoIban /\ DirectLeaf(L, Head(t.todo))
  /\ t.pc = "lazy" => /\ t.cover \in Seq(Orders)
                      /\ \A k \in 1..Len(t.cover) : MayCover(R, Head(t.todo), t.cover[k])

CoverInv ==
  /\ row \in [Orders -> Row] /\ LeavesOK(row, leaves)
  /\ DOMAIN link = Linkers /\ \A l \in Linkers : LinkOK(row, leaves, link[l])

\* An anchor that goes on from the one of A before its seq.
Follows(A, a) ==
  /\ a.seq \in 1..(Len(A) + 1)
  /\ a.leafCount \in Nat /\ a.totalLeaves \in Nat /\ a.lazyCount \in Nat
  /\ IF a.seq = 1 THEN a.prev = Zero /\ a.totalLeaves = a.leafCount
     ELSE /\ a.prev = ChainHead(A[a.seq - 1])
          /\ a.totalLeaves = A[a.seq - 1].totalLeaves + a.leafCount

RunOK(A, t) ==
  /\ t.pc \in {"idle", "head", "commit"}
  /\ t.pc # "idle" => IsSeq(t.ids)
  /\ t.pc = "commit" => Follows(A, t.next)

ChainInv ==
  /\ IsSeq(anchors)
  /\ \A s \in 1..Len(anchors) : anchors[s].seq = s /\ Follows(anchors, anchors[s])
  /\ \A i \in 1..Len(leaves) : leaves[i].anchor \in 0..Len(anchors)
  /\ DOMAIN run = AnchorRuns /\ \A a \in AnchorRuns : RunOK(anchors, run[a])

Hashes(L, ids)   == [k \in 1..Len(ids) |-> LeafHash(L[ids[k]])]
MarkedBy(L, s)   == {i \in 1..Len(L) : L[i].anchor = s}
Marked(L)        == {i \in 1..Len(L) : L[i].anchor # 0}
LazyRead(L, ids) == {k \in DOMAIN ids : L[ids[k]].kind = "lazy"}
LazyIn(L, S)     == {i \in S : L[i].kind = "lazy"}
ReadRange(L, ids) == {i \in 1..Len(L) : ids # << >> /\ L[i].anchor = 0 /\ ids[1] <= i /\ i <= Last(ids)}
TotalOf(A) == IF Len(A) = 0 THEN 0 ELSE A[Len(A)].totalLeaves
LazyOf(A)  == IF Len(A) = 0 THEN 0 ELSE A[Len(A)].lazyCount

\* What a run that is alone has read is all that is pending up to the last of it.
ReadOK(L, t) == Ascends(t.ids) /\ Holds(t.ids, ReadRange(L, t.ids))

NextOK(L, A, t) ==
  /\ t.next.seq = Len(A) + 1
  /\ t.next.root = MerkleRoot(Hashes(L, t.ids))
  /\ t.next.totalLeaves = TotalOf(A) + Len(t.ids)
  /\ t.next.lazyCount = LazyOf(A) + Cardinality(LazyIn(L, ReadRange(L, t.ids)))

AnchorsOK(L, A) ==
  /\ \A s \in 1..Len(A) : A[s].root = MerkleRoot(Hashes(L, InOrder(MarkedBy(L, s))))
  /\ TotalOf(A) = Cardinality(Marked(L))
  /\ LazyOf(A) = Cardinality(LazyIn(L, Marked(L)))

AloneOK(L, A, r) ==
  /\ \A a, b \in AnchorRuns : r[a].pc # "idle" /\ r[b].pc # "idle" => a = b
  /\ \A a \in AnchorRuns : r[a].pc # "idle" => ReadOK(L, r[a])
  /\ \A a \in AnchorRuns : r[a].pc = "commit" => NextOK(L, A, r[a])
  /\ AnchorsOK(L, A)

Inv == CoverInv /\ ChainInv /\ (~ overlapped => AloneOK(leaves, anchors, run))

-----------------------------------------------------------------------------
(* What a step leaves as it was *)

\* Settled rows stay, and so does what a leaf is about.
RowsStay(R, Q) == \A o \in Orders : Settled(R, o) => Q[o] = R[o]
Grows(L, M) == /\ Len(L) <= Len(M)
               /\ \A i \in 1..Len(L) : M[i].kind = L[i].kind /\ M[i].sid = L[i].sid /\ M[i].order = L[i].order

\* New leaves come behind the others, without an anchor.
Extends(L, M) == /\ Len(L) <= Len(M)
                 /\ \A i \in 1..Len(L) : M[i] = L[i]
                 /\ \A i \in (Len(L) + 1)..Len(M) : M[i].anchor = 0

LEMMA LeafIs ==
  ASSUME NEW L, L \in Seq(Leaf)
  PROVE  /\ IsSeq(L) /\ Len(L) \in Nat /\ DOMAIN L = 1..Len(L)
         /\ \A i \in 1..Len(L) : /\ L[i] \in Leaf /\ L[i].kind \in {"direct", "lazy"} /\ L[i].sid \in Sids
                                 /\ L[i].order \in Orders /\ L[i].anchor \in Nat
<1>1. IsSeq(L)
  BY DEF IsSeq
<1>2. \A i \in 1..Len(L) : L[i] \in Leaf
  OBVIOUS
<1>3. ASSUME NEW l \in Leaf
      PROVE  l.kind \in {"direct", "lazy"} /\ l.sid \in Sids /\ l.order \in Orders /\ l.anchor \in Nat
  BY DEF Leaf
<1> HIDE DEF Leaf
<1> QED BY <1>1, <1>2, <1>3, SeqFacts

LEMMA LeafStays ==
  ASSUME NEW R, NEW Q, RowsStay(R, Q), NEW L, NEW M, LeavesOK(R, L), Grows(L, M),
         NEW i \in 1..Len(L)
  PROVE  LeafOK(Q, M, i)
<1>1. /\ Len(L) \in Nat /\ LeafOK(R, L, i)
      /\ \A k \in 1..Len(L) : L[k].order \in Orders /\ L[k].kind \in {"direct", "lazy"}
  BY LeafIs DEF LeavesOK
<1>2. \A k \in 1..Len(L) : M[k].kind = L[k].kind /\ M[k].sid = L[k].sid /\ M[k].order = L[k].order
  BY DEF Grows
<1>3. \A o \in Orders : /\ Settled(R, o) => Settled(Q, o) /\ (OwnPaid(R, o) <=> OwnPaid(Q, o))
                        /\ OwnPaid(R, o) => OwnPaid(Q, o)
  BY DEF RowsStay, Settled, OwnPaid
<1>4. \A o, c \in Orders : MayCover(R, o, c) => MayCover(Q, o, c)
  BY <1>3 DEF MayCover
<1>5. CASE L[i].kind = "direct"
  <2>1. Remittance[L[i].order] = L[i].sid /\ OwnPaid(R, L[i].order)
    BY <1>1, <1>5 DEF LeafOK
  <2> QED BY <1>1, <1>2, <1>3, <1>5, <2>1 DEF LeafOK
<1>6. CASE L[i].kind # "direct"
  <2>1. PICK j \in 1..(i - 1) : /\ L[j].kind = "direct" /\ L[j].sid = L[i].sid
                                /\ Iban[L[j].order] # NoIban /\ MayCover(R, L[j].order, L[i].order)
    BY <1>1, <1>6 DEF LeafOK
  <2>2. j \in 1..Len(L)
    BY <1>1
  <2> QED BY <1>1, <1>2, <1>4, <1>6, <2>1, <2>2 DEF LeafOK
<1> QED BY <1>5, <1>6

LEMMA LinkStays ==
  ASSUME NEW R, NEW Q, RowsStay(R, Q), NEW L, NEW M, Len(L) \in Nat, Len(M) \in Nat, Grows(L, M),
         NEW t, LinkOK(R, L, t)
  PROVE  LinkOK(Q, M, t)
<1>1. \A o \in Orders : /\ Settled(R, o) => Settled(Q, o) /\ (OwnPaid(R, o) <=> OwnPaid(Q, o))
                        /\ OwnPaid(R, o) => OwnPaid(Q, o)
  BY DEF RowsStay, Settled, OwnPaid
<1>2. \A o, c \in Orders : MayCover(R, o, c) => MayCover(Q, o, c)
  BY <1>1 DEF MayCover
<1>3. \A o : DirectLeaf(L, o) => DirectLeaf(M, o)
  BY DEF DirectLeaf, Grows
<1>4. t.pc # "idle" => Head(t.todo) \in Orders /\ \A k \in 1..Len(t.todo) : t.todo[k] \in Orders
  BY DEF LinkOK
<1>5. t.pc = "lazy" => \A k \in 1..Len(t.cover) : t.cover[k] \in Orders
  BY DEF LinkOK
<1>6. t.pc # "idle" => /\ t.todo \in Seq(Orders) /\ t.todo # << >>
                       /\ \A k \in 1..Len(t.todo) : OwnPaid(Q, t.todo[k])
  BY <1>1, <1>4 DEF LinkOK
<1>7. t.pc = "lazy" => /\ t.cover \in Seq(Orders)
                       /\ \A k \in 1..Len(t.cover) : MayCover(Q, Head(t.todo), t.cover[k])
  BY <1>2, <1>4, <1>5 DEF LinkOK
<1>8. /\ t.pc \in {"idle", "direct", "window", "cover", "lazy"}
      /\ t.pc \in {"window", "cover", "lazy"} => Iban[Head(t.todo)] # NoIban /\ DirectLeaf(M, Head(t.todo))
  BY <1>3 DEF LinkOK
<1> QED BY <1>6, <1>7, <1>8 DEF LinkOK

LEMMA ExtendsGrows == ASSUME NEW L, NEW M, Extends(L, M) PROVE Grows(L, M)
  BY DEF Extends, Grows

LEMMA GrowsSame == ASSUME NEW L, Len(L) \in Nat PROVE Grows(L, L) /\ Extends(L, L)
  BY DEF Grows, Extends

LEMMA RowsSame == ASSUME NEW R PROVE RowsStay(R, R)
  BY DEF RowsStay

-----------------------------------------------------------------------------
(* Linkers *)

\* The leaf WithLeaf appends is a good one if what the linker has read still holds.
LEMMA WithLeafOK ==
  ASSUME NEW R, NEW L, LeavesOK(R, L), NEW kind, NEW sid \in Sids, NEW o \in Orders,
         \/ kind = "direct" /\ Remittance[o] = sid /\ OwnPaid(R, o)
         \/ kind = "lazy" /\ \E j \in 1..Len(L) : /\ L[j].kind = "direct" /\ L[j].sid = sid
                                                  /\ Iban[L[j].order] # NoIban /\ MayCover(R, L[j].order, o)
  PROVE  LET M == WithLeaf(L, kind, sid, o)
         IN LeavesOK(R, M) /\ Extends(L, M) /\ \E i \in 1..Len(M) : M[i].order = o
<1> DEFINE M == WithLeaf(L, kind, sid, o)
           new == [kind |-> kind, sid |-> sid, order |-> o, anchor |-> 0]
<1>1. /\ IsSeq(L) /\ Len(L) \in Nat /\ DOMAIN L = 1..Len(L)
      /\ L \in Seq(Leaf)
  BY LeafIs DEF LeavesOK
<1>2. CASE \E i \in DOMAIN L : L[i].order = o
  <2>1. M = L
    BY <1>2 DEF WithLeaf
  <2>2. Extends(L, M)
    BY <1>1, <2>1, GrowsSame
  <2> HIDE DEF M
  <2>3. LeavesOK(R, M) /\ \E i \in 1..Len(M) : M[i].order = o
    BY <1>1, <1>2, <2>1
  <2> QED BY <2>2, <2>3 DEF M
<1>3. CASE ~ \E i \in DOMAIN L : L[i].order = o
  <2>1. M = Append(L, new)
    BY <1>3 DEF WithLeaf
  <2>2. new \in Leaf
    BY DEF Leaf
  <2>3. new.kind = kind /\ new.sid = sid /\ new.order = o /\ new.anchor = 0
    OBVIOUS
  <2> HIDE DEF M, new
  <2>4. M \in Seq(Leaf)
    BY <1>1, <2>1, <2>2
  <2>5. Len(M) = Len(L) + 1 /\ M[Len(L) + 1] = new /\ \A k \in 1..Len(L) : M[k] = L[k]
    BY <1>1, <2>1, AppendIs
  <2>6. Extends(L, M)
    BY <1>1, <2>3, <2>5 DEF Extends
  <2>7. \A i \in 1..Len(L) : LeafOK(R, M, i)
    BY <2>6, ExtendsGrows, LeafStays, RowsSame
  <2>8. LeafOK(R, M, Len(L) + 1)
    <3>1. CASE kind = "direct"
      BY <2>3, <2>5, <3>1 DEF LeafOK
    <3>2. CASE kind # "direct"
      <4>1. PICK j \in 1..Len(L) : /\ L[j].kind = "direct" /\ L[j].sid = sid
                                   /\ Iban[L[j].order] # NoIban /\ MayCover(R, L[j].order, o)
        BY <3>2
      <4>2. M[j] = L[j] /\ j \in 1..((Len(L) + 1) - 1)
        BY <1>1, <2>5
      <4> QED BY <2>3, <2>5, <3>2, <4>1, <4>2 DEF LeafOK
    <3> QED BY <3>1, <3>2
  <2>9. LeavesOK(R, M)
    <3>1. \A i \in 1..Len(M) : i \in 1..Len(L) \/ i = Len(L) + 1
      BY <1>1, <2>5
    <3>2. \A i, j \in 1..Len(L) : L[i].order = L[j].order => i = j
      BY DEF LeavesOK
    <3>3. \A i \in 1..Len(L) : M[i] = L[i] /\ L[i].order # o
      BY <1>1, <1>3, <2>5
    <3>4. \A i, j \in 1..Len(M) : M[i].order = M[j].order => i = j
      BY <2>3, <2>5, <3>1, <3>2, <3>3
    <3> QED BY <2>4, <2>7, <2>8, <3>1, <3>4 DEF LeavesOK
  <2>10. Len(L) + 1 \in 1..Len(M)
    BY <1>1, <2>5
  <2> QED BY <2>3, <2>5, <2>6, <2>9, <2>10 DEF M
<1> QED BY <1>2, <1>3

LEMMA IdleOK == ASSUME NEW R, NEW L PROVE LinkOK(R, L, LinkIdle)
<1>1. LinkIdle.pc = "idle"
  BY DEF LinkIdle
<1> QED BY <1>1 DEF LinkOK

LEMMA NextAnchorOK ==
  ASSUME NEW R, NEW L, NEW todo \in Seq(Orders), \A k \in 1..Len(todo) : OwnPaid(R, todo[k])
  PROVE  LinkOK(R, L, NextAnchor(todo))
<1>1. CASE todo = << >>
  BY <1>1, IdleOK DEF NextAnchor
<1>2. CASE todo # << >>
  <2> DEFINE t == [pc |-> "direct", todo |-> todo]
  <2>1. t.pc = "direct" /\ t.todo = todo
    OBVIOUS
  <2>2. NextAnchor(todo) = t
    BY <1>2 DEF NextAnchor
  <2> HIDE DEF t
  <2> QED BY <1>2, <2>1, <2>2 DEF LinkOK
<1> QED BY <1>1, <1>2

\* A linker that has more to do: the rest of its work is as it was.
LEMMA TailOK ==
  ASSUME NEW R, NEW L, NEW t, LinkOK(R, L, t), t.pc # "idle"
  PROVE  /\ Head(t.todo) \in Orders /\ OwnPaid(R, Head(t.todo))
         /\ \A M : LinkOK(R, M, NextAnchor(Tail(t.todo)))
<1>1. t.todo \in Seq(Orders) /\ t.todo # << >> /\ \A k \in 1..Len(t.todo) : OwnPaid(R, t.todo[k])
  BY DEF LinkOK
<1> DEFINE todo == t.todo
<1> HIDE DEF todo
<1>2. todo \in Seq(Orders) /\ todo # << >> /\ \A k \in 1..Len(todo) : OwnPaid(R, todo[k])
  BY <1>1 DEF todo
<1>3. Len(todo) \in Nat /\ Len(todo) >= 1
  <2>1. IsSeq(todo)
    BY <1>2 DEF IsSeq
  <2> QED BY <1>2, <2>1, SeqFacts
<1>4. Head(todo) = todo[1] /\ 1 \in 1..Len(todo) /\ todo[1] \in Orders
  BY <1>2, <1>3
<1>5. /\ Tail(todo) \in Seq(Orders) /\ Len(Tail(todo)) = Len(todo) - 1
      /\ \A k \in 1..Len(Tail(todo)) : Tail(todo)[k] = todo[k + 1]
  BY <1>2, <1>3
<1>6. \A k \in 1..Len(Tail(todo)) : OwnPaid(R, Tail(todo)[k])
  <2> SUFFICES ASSUME NEW k \in 1..Len(Tail(todo)) PROVE OwnPaid(R, Tail(todo)[k])
    OBVIOUS
  <2>1. k + 1 \in 1..Len(todo)
    BY <1>3, <1>5
  <2> QED BY <1>2, <1>5, <2>1
<1>7. ASSUME NEW M PROVE LinkOK(R, M, NextAnchor(Tail(todo)))
  BY <1>5, <1>6, NextAnchorOK
<1> QED BY <1>2, <1>4, <1>7 DEF todo

\* What Coverable finds may be covered.
LEMMA CoverableOK ==
  ASSUME row \in [Orders -> Row], NEW o \in Orders, NEW after
  PROVE  /\ Coverable(o, after) \in Seq(Orders) /\ IsSeq(Coverable(o, after))
         /\ \A k \in 1..Len(Coverable(o, after)) : MayCover(row, o, Coverable(o, after)[k])
<1> DEFINE S == {c \in Orders : /\ Iban[c] = Iban[o] /\ after < c /\ c < o
                                /\ ~ HasLeaf(c) /\ Delivered(c) /\ ~ LiveAnchor(c)}
           cover == InOrder(S)
<1>1. cover = Coverable(o, after)
  BY DEF Coverable
<1>2. \A c \in S : MayCover(row, o, c) /\ c \in Orders
  BY DEF MayCover, Settled, Delivered, LiveAnchor, OwnPaid, IsReceipt
<1>3. S \in SUBSET (1..Payments) /\ Payments \in Nat
  BY ReceiptsAssumption DEF Orders
<1>a. S \subseteq Orders
  OBVIOUS
<1> HIDE DEF S
<1>4. cover \in Seq(S) /\ IsSeq(cover) /\ Holds(cover, S)
  BY <1>3, InOrderIs
<1> HIDE DEF cover
<1>5. cover \in Seq(Orders)
  BY <1>a, <1>4
<1>6. \A k \in 1..Len(cover) : MayCover(row, o, cover[k])
  BY <1>2, <1>4 DEF Holds
<1> QED BY <1>1, <1>4, <1>5, <1>6

LEMMA PendingAnchorsOK ==
  ASSUME row \in [Orders -> Row], NEW only
  PROVE  /\ PendingAnchors(only) \in Seq(Orders)
         /\ \A k \in 1..Len(PendingAnchors(only)) : OwnPaid(row, PendingAnchors(only)[k])
<1> DEFINE S == {o \in Orders : /\ IsReceipt(o) /\ row[o].status = "confirmed"
                                /\ only \in {Plain, Remittance[o]}
                                /\ ~ HasLeaf(o)}
           todo == InOrder(S)
<1>1. todo = PendingAnchors(only)
  BY DEF PendingAnchors
<1>2. \A o \in S : OwnPaid(row, o) /\ o \in Orders
  BY DEF OwnPaid, IsReceipt
<1>3. S \in SUBSET (1..Payments) /\ Payments \in Nat
  BY ReceiptsAssumption DEF Orders
<1>a. S \subseteq Orders
  OBVIOUS
<1> HIDE DEF S
<1>4. todo \in Seq(S) /\ Holds(todo, S)
  BY <1>3, InOrderIs
<1> HIDE DEF todo
<1>5. todo \in Seq(Orders)
  BY <1>a, <1>4
<1>6. \A k \in 1..Len(todo) : OwnPaid(row, todo[k])
  BY <1>2, <1>4 DEF Holds
<1> QED BY <1>1, <1>5, <1>6

\* A linker's step keeps the invariant if what it writes and what it goes on with are good.
LEMMA LinkerKeeps ==
  ASSUME CoverInv, NEW l \in Linkers, NEW t, SetLink(l, t), row' = row,
         LeavesOK(row, leaves'), Grows(leaves, leaves'), LinkOK(row, leaves', t)
  PROVE  CoverInv'
<1>1. Len(leaves) \in Nat /\ Len(leaves') \in Nat
  BY LeafIs DEF CoverInv, LeavesOK
<1>2. DOMAIN link' = Linkers
  BY DEF CoverInv, SetLink
<1>3. ASSUME NEW m \in Linkers PROVE LinkOK(row', leaves', link'[m])
  <2>1. CASE m = l
    <3>1. link'[m] = t
      BY <2>1 DEF CoverInv, SetLink
    <3> QED BY <3>1
  <2>2. CASE m # l
    <3>1. link'[m] = link[m] /\ LinkOK(row, leaves, link[m])
      BY <2>2 DEF CoverInv, SetLink
    <3>2. LinkOK(row, leaves', link[m])
      BY <1>1, <3>1, LinkStays, RowsSame
    <3> QED BY <3>1, <3>2
  <2> QED BY <2>1, <2>2
<1>4. row' \in [Orders -> Row] /\ LeavesOK(row', leaves')
  BY DEF CoverInv
<1> QED BY <1>2, <1>3, <1>4 DEF CoverInv

\* Whoever adds no leaf keeps it too, if the settled rows and the linkers stay or stop.
LEMMA OthersKeep ==
  ASSUME CoverInv, row' \in [Orders -> Row], RowsStay(row, row'),
         leaves' \in Seq(Leaf), Len(leaves') = Len(leaves), Grows(leaves, leaves'),
         DOMAIN link' = Linkers, \A l \in Linkers : link'[l] \in {link[l], LinkIdle}
  PROVE  CoverInv'
<1>1. Len(leaves) \in Nat /\ Len(leaves') \in Nat /\ LeavesOK(row, leaves)
  BY LeafIs DEF CoverInv, LeavesOK
<1>2. \A i \in 1..Len(leaves) : LeafOK(row', leaves', i)
  BY <1>1, LeafStays
<1>a. \A i, j \in 1..Len(leaves') : leaves'[i].order = leaves'[j].order => i = j
  BY <1>1 DEF LeavesOK, Grows
<1>3. LeavesOK(row', leaves')
  BY <1>2, <1>a DEF LeavesOK
<1>4. ASSUME NEW m \in Linkers PROVE LinkOK(row', leaves', link'[m])
  <2>1. CASE link'[m] = link[m]
    <3>1. LinkOK(row, leaves, link[m])
      BY DEF CoverInv
    <3>2. LinkOK(row', leaves', link[m])
      BY <1>1, <3>1, LinkStays
    <3> QED BY <2>1, <3>2
  <2>2. CASE link'[m] = LinkIdle
    BY <2>2, IdleOK
  <2> QED BY <2>1, <2>2
<1> QED BY <1>3, <1>4 DEF CoverInv

LEMMA LinkReceiptsKeeps ==
  ASSUME CoverInv, NEW l \in Linkers, NEW only, LinkReceipts(l, only)
  PROVE  CoverInv' /\ Extends(leaves, leaves')
<1>1. /\ SetLink(l, NextAnchor(PendingAnchors(only))) /\ leaves' = leaves /\ row' = row
      /\ row \in [Orders -> Row] /\ LeavesOK(row, leaves)
  BY DEF LinkReceipts, OnlyLink, rowVars, CoverInv
<1>2. LinkOK(row, leaves', NextAnchor(PendingAnchors(only)))
  BY <1>1, PendingAnchorsOK, NextAnchorOK
<1>3. Len(leaves) \in Nat
  BY <1>1, LeafIs DEF LeavesOK
<1>4. Grows(leaves, leaves') /\ Extends(leaves, leaves')
  BY <1>1, <1>3, GrowsSame
<1>5. LeavesOK(row, leaves')
  BY <1>1
<1>6. CoverInv'
  BY <1>1, <1>2, <1>4, <1>5, LinkerKeeps
<1> QED BY <1>4, <1>6

LEMMA InsertDirectKeeps ==
  ASSUME CoverInv, NEW l \in Linkers, InsertDirect(l)
  PROVE  CoverInv' /\ Extends(leaves, leaves')
<1> DEFINE t == link[l]
           a == Head(t.todo)
           found == HasLeaf(a) \/ Iban[a] = NoIban
           t2 == IF found THEN NextAnchor(Tail(t.todo)) ELSE [pc |-> "window", todo |-> t.todo]
<1>1. /\ t.pc = "direct" /\ leaves' = WithLeaf(leaves, "direct", Remittance[a], a)
      /\ SetLink(l, t2) /\ row' = row
  BY DEF InsertDirect, OnlyLink, rowVars
<1>2. LeavesOK(row, leaves) /\ LinkOK(row, leaves, t) /\ row \in [Orders -> Row]
  BY DEF CoverInv
<1>3. a \in Orders /\ OwnPaid(row, a) /\ \A M : LinkOK(row, M, NextAnchor(Tail(t.todo)))
  BY <1>1, <1>2, TailOK
<1>4. Remittance[a] \in Sids
  BY <1>3 DEF OwnPaid
<1>5. LeavesOK(row, leaves') /\ Extends(leaves, leaves') /\ Grows(leaves, leaves')
  BY <1>1, <1>2, <1>3, <1>4, WithLeafOK, ExtendsGrows
<1>6. LinkOK(row, leaves', t2)
  <2>1. CASE found
    BY <1>3, <2>1
  <2>2. CASE ~ found
    <3> DEFINE new == [kind |-> "direct", sid |-> Remittance[a], order |-> a, anchor |-> 0]
    <3>1. leaves' = Append(leaves, new)
      BY <1>1, <2>2 DEF WithLeaf, HasLeaf
    <3>2. new.kind = "direct" /\ new.sid = Remittance[a] /\ new.order = a
      OBVIOUS
    <3> HIDE DEF new
    <3>3. IsSeq(leaves) /\ Len(leaves) \in Nat
      BY <1>2, LeafIs DEF LeavesOK
    <3>4. Len(leaves') = Len(leaves) + 1 /\ leaves'[Len(leaves) + 1] = new
      BY <3>1, <3>3, AppendIs
    <3>5. DirectLeaf(leaves', a)
      BY <3>2, <3>3, <3>4 DEF DirectLeaf
    <3> DEFINE w == [pc |-> "window", todo |-> t.todo]
    <3>6. t2 = w /\ w.pc = "window" /\ w.todo = t.todo
      BY <2>2
    <3> HIDE DEF t2, w, t
    <3>7. t.todo \in Seq(Orders) /\ t.todo # << >> /\ \A k \in 1..Len(t.todo) : OwnPaid(row, t.todo[k])
      BY <1>1, <1>2 DEF LinkOK
    <3>8. Iban[Head(w.todo)] # NoIban /\ DirectLeaf(leaves', Head(w.todo))
      BY <2>2, <3>5, <3>6
    <3>9. LinkOK(row, leaves', w)
      BY <3>6, <3>7, <3>8 DEF LinkOK
    <3> QED BY <3>6, <3>9
  <2> QED BY <2>1, <2>2
<1> HIDE DEF t2
<1>7. CoverInv'
  BY <1>1, <1>5, <1>6, LinkerKeeps
<1> QED BY <1>5, <1>7

LEMMA ReadWindowKeeps ==
  ASSUME CoverInv, NEW l \in Linkers, ReadWindow(l)
  PROVE  CoverInv' /\ Extends(leaves, leaves')
<1> DEFINE t == link[l]
           t2 == [pc |-> "cover", todo |-> t.todo, after |-> PreviousAnchor(Head(t.todo))]
<1>1. t.pc = "window" /\ SetLink(l, t2) /\ row' = row /\ leaves' = leaves
  BY DEF ReadWindow, OnlyLink, rowVars
<1>2. LeavesOK(row, leaves) /\ LinkOK(row, leaves, t)
  BY DEF CoverInv
<1>3. t2.pc = "cover" /\ t2.todo = t.todo
  OBVIOUS
<1>4. Extends(leaves, leaves') /\ Grows(leaves, leaves') /\ LeavesOK(row, leaves')
  BY <1>1, <1>2, GrowsSame, LeafIs DEF LeavesOK
<1> HIDE DEF t, t2
<1>5. LinkOK(row, leaves', t2)
  BY <1>1, <1>2, <1>3 DEF LinkOK
<1>6. CoverInv'
  BY <1>1, <1>4, <1>5, LinkerKeeps
<1> QED BY <1>4, <1>6

LEMMA ReadCoverableKeeps ==
  ASSUME CoverInv, NEW l \in Linkers, ReadCoverable(l)
  PROVE  CoverInv' /\ Extends(leaves, leaves')
<1> DEFINE t == link[l]
           cover == Coverable(Head(t.todo), t.after)
           lazy == [pc |-> "lazy", todo |-> t.todo, cover |-> cover]
           t2 == IF cover = << >> THEN NextAnchor(Tail(t.todo)) ELSE lazy
<1>1. t.pc = "cover" /\ SetLink(l, t2) /\ row' = row /\ leaves' = leaves
  BY DEF ReadCoverable, OnlyLink, rowVars
<1>2. LeavesOK(row, leaves) /\ LinkOK(row, leaves, t) /\ row \in [Orders -> Row]
  BY DEF CoverInv
<1>3. Head(t.todo) \in Orders /\ \A M : LinkOK(row, M, NextAnchor(Tail(t.todo)))
  BY <1>1, <1>2, TailOK
<1>4. Extends(leaves, leaves') /\ Grows(leaves, leaves') /\ LeavesOK(row, leaves')
  BY <1>1, <1>2, GrowsSame, LeafIs DEF LeavesOK
<1>5. cover \in Seq(Orders) /\ \A k \in 1..Len(cover) : MayCover(row, Head(t.todo), cover[k])
  BY <1>2, <1>3, CoverableOK
<1>6. lazy.pc = "lazy" /\ lazy.todo = t.todo /\ lazy.cover = cover
  OBVIOUS
<1> HIDE DEF cover, lazy
<1>7. LinkOK(row, leaves', lazy)
  BY <1>1, <1>2, <1>5, <1>6 DEF LinkOK
<1>8. LinkOK(row, leaves', t2)
  BY <1>3, <1>7
<1> HIDE DEF t2
<1>9. CoverInv'
  BY <1>1, <1>4, <1>8, LinkerKeeps
<1> QED BY <1>4, <1>9

LEMMA ExtendsOn ==
  ASSUME NEW L, NEW M, NEW N, Len(L) \in Nat, Len(M) \in Nat, Len(N) \in Nat,
         Extends(L, M), Extends(M, N)
  PROVE  Extends(L, N)
<1>1. Len(L) <= Len(N)
  BY DEF Extends
<1>2. \A i \in 1..Len(L) : N[i] = L[i]
  BY DEF Extends
<1>3. ASSUME NEW i \in (Len(L) + 1)..Len(N) PROVE N[i].anchor = 0
  <2>1. CASE i <= Len(M)
    <3>1. i \in (Len(L) + 1)..Len(M) /\ i \in 1..Len(M)
      BY <2>1
    <3> QED BY <3>1 DEF Extends
  <2>2. CASE ~ (i <= Len(M))
    <3>1. i \in (Len(M) + 1)..Len(N)
      BY <2>2
    <3> QED BY <3>1 DEF Extends
  <2> QED BY <2>1, <2>2
<1> QED BY <1>1, <1>2, <1>3 DEF Extends

\* One batch of lazy leaves, inserted one by one.
Batch(L, o, cover, n) ==
  LET covered[k \in 0..n] == IF k = 0 THEN L
                             ELSE WithLeaf(covered[k - 1], "lazy", Remittance[o], cover[k])
  IN covered[n]

LEMMA BatchOK ==
  ASSUME NEW R, NEW L, LeavesOK(R, L), NEW o \in Orders, DirectLeaf(L, o), Iban[o] # NoIban,
         Remittance[o] \in Sids, NEW cover \in Seq(Orders),
         \A k \in 1..Len(cover) : MayCover(R, o, cover[k]), NEW n \in 0..Len(cover)
  PROVE  LeavesOK(R, Batch(L, o, cover, n)) /\ Extends(L, Batch(L, o, cover, n))
<1> DEFINE Rec(m, f) == f = [k \in 0..m |-> IF k = 0 THEN L
                                             ELSE WithLeaf(f[k - 1], "lazy", Remittance[o], cover[k])]
           G == {m \in Nat : \E f : Rec(m, f)}
           covered == CHOOSE f : Rec(n, f)
           Good(k) == LeavesOK(R, covered[k]) /\ Extends(L, covered[k])
           H == {k \in Nat : k <= n => Good(k)}
<1>a. Len(cover) \in Nat
  OBVIOUS
<1>0. n \in Nat /\ n <= Len(cover)
  BY <1>a
<1>1. 0 \in G
  <2> DEFINE f == [d \in 0..0 |-> L]
  <2>1. Rec(0, f)
    OBVIOUS
  <2> QED BY <2>1
<1>2. ASSUME NEW m \in Nat, NEW f, Rec(m, f) PROVE \E g : Rec(m + 1, g)
  <2> DEFINE Ins(x, k) == WithLeaf(x, "lazy", Remittance[o], cover[k])
             g == [d \in 0..(m + 1) |-> IF d = m + 1 THEN Ins(f[m], m + 1) ELSE f[d]]
  <2> HIDE DEF Ins
  <2>1. ASSUME NEW d \in 0..(m + 1) PROVE g[d] = IF d = 0 THEN L ELSE Ins(g[d - 1], d)
    <3>1. CASE d = 0
      BY <1>2, <3>1
    <3>2. CASE d \in 1..m
      <4>1. f[d] = Ins(f[d - 1], d)
        BY <1>2, <3>2 DEF Ins
      <4>2. g[d] = f[d] /\ g[d - 1] = f[d - 1]
        BY <3>2
      <4> HIDE DEF g
      <4> QED BY <3>2, <4>1, <4>2
    <3>3. CASE d = m + 1
      BY <3>3
    <3> QED BY <3>1, <3>2, <3>3
  <2>2. Rec(m + 1, g)
    BY <2>1 DEF Ins
  <2> QED BY <2>2
<1>3. n \in G
  <2>1. \A m \in Nat : m \in G => m + 1 \in G
    <3> HIDE DEF Rec
    <3> QED BY ONLY <1>2
  <2> HIDE DEF G
  <2> QED BY <1>0, <1>1, <2>1, CountingUp
<1>4. Rec(n, covered)
  <2> HIDE DEF Rec
  <2> QED BY <1>3
<1> HIDE DEF covered
<1>5. /\ covered[0] = L
      /\ \A k \in 1..n : covered[k] = WithLeaf(covered[k - 1], "lazy", Remittance[o], cover[k])
  BY <1>0, <1>4
<1>6. 0 \in H
  BY <1>5, GrowsSame, LeafIs DEF LeavesOK
<1>7. ASSUME NEW k \in Nat, k \in H, k + 1 <= n PROVE Good(k + 1)
  <2> DEFINE M == covered[k]
             N == covered[k + 1]
  <2>1. LeavesOK(R, M) /\ Extends(L, M)
    BY <1>0, <1>7
  <2>2. k + 1 \in 1..n /\ (k + 1) - 1 = k /\ k + 1 \in 1..Len(cover)
    BY <1>0, <1>7
  <2>3. N = WithLeaf(M, "lazy", Remittance[o], cover[k + 1])
    BY <1>5, <2>2
  <2> HIDE DEF M, N
  <2>4. MayCover(R, o, cover[k + 1]) /\ cover[k + 1] \in Orders
    BY <2>2
  <2>5. PICK j \in 1..Len(L) : L[j].kind = "direct" /\ L[j].order = o /\ L[j].sid = Remittance[o]
    BY DEF DirectLeaf
  <2>6. Len(L) \in Nat /\ Len(M) \in Nat
    BY <2>1, LeafIs DEF LeavesOK
  <2>7. M[j] = L[j] /\ j \in 1..Len(M)
    BY <2>1, <2>6 DEF Extends
  <2>8. \E i \in 1..Len(M) : /\ M[i].kind = "direct" /\ M[i].sid = Remittance[o]
                             /\ Iban[M[i].order] # NoIban /\ MayCover(R, M[i].order, cover[k + 1])
    BY <2>4, <2>5, <2>7
  <2>9. LeavesOK(R, N) /\ Extends(M, N)
    BY <2>1, <2>3, <2>4, <2>8, WithLeafOK
  <2>10. Len(N) \in Nat
    BY <2>9, LeafIs DEF LeavesOK
  <2>11. Extends(L, N)
    BY <2>1, <2>6, <2>9, <2>10, ExtendsOn
  <2> QED BY <2>9, <2>11 DEF N
<1>8. \A k \in Nat : k \in H
  <2>1. \A k \in Nat : k \in H => k + 1 \in H
    <3> HIDE DEF Good
    <3> QED BY <1>7
  <2> HIDE DEF H
  <2> QED BY <1>6, <2>1, CountingUp
<1>9. Good(n)
  BY <1>0, <1>8
<1> QED BY <1>9 DEF covered, Batch

LEMMA InsertLazyKeeps ==
  ASSUME CoverInv, NEW l \in Linkers, InsertLazy(l)
  PROVE  CoverInv' /\ Extends(leaves, leaves')
<1> DEFINE t == link[l]
           o == Head(t.todo)
           n == IF Len(t.cover) < LinkBatch THEN Len(t.cover) ELSE LinkBatch
           later == SubSeq(t.cover, n + 1, Len(t.cover))
           lazy == [pc |-> "lazy", todo |-> t.todo, cover |-> later]
           t2 == IF later = << >> THEN NextAnchor(Tail(t.todo)) ELSE lazy
<1>1. t.pc = "lazy" /\ SetLink(l, t2) /\ row' = row
  BY DEF InsertLazy, OnlyLink, rowVars
<1>2. LeavesOK(row, leaves) /\ LinkOK(row, leaves, t)
  BY DEF CoverInv
<1>3. o \in Orders /\ OwnPaid(row, o) /\ \A M : LinkOK(row, M, NextAnchor(Tail(t.todo)))
  BY <1>1, <1>2, TailOK
<1>4. /\ Iban[o] # NoIban /\ DirectLeaf(leaves, o) /\ Remittance[o] \in Sids
      /\ t.cover \in Seq(Orders) /\ \A k \in 1..Len(t.cover) : MayCover(row, o, t.cover[k])
  BY <1>1, <1>2, <1>3 DEF LinkOK, OwnPaid
<1>5. Len(t.cover) \in Nat /\ n \in 0..Len(t.cover)
  BY <1>4, ReceiptsAssumption
<1>6. LeavesOK(row, leaves') /\ Extends(leaves, leaves')
  <2>1. leaves' = Batch(leaves, o, t.cover, n)
    BY DEF InsertLazy, Batch
  <2> HIDE DEF n, o, t
  <2> QED BY <1>2, <1>3, <1>4, <1>5, <2>1, BatchOK
<1>7. Grows(leaves, leaves')
  BY <1>6, ExtendsGrows
<1>8. later \in Seq(Orders) /\ \A k \in 1..Len(later) : MayCover(row, o, later[k])
  <2> HIDE DEF n, o, t
  <2>1. later \in Seq(Orders) /\ Len(later) = Len(t.cover) - n
    BY <1>4, <1>5
  <2>2. ASSUME NEW k \in 1..Len(later) PROVE MayCover(row, o, later[k])
    <3>1. later[k] = t.cover[k + n] /\ k + n \in 1..Len(t.cover)
      BY <1>4, <1>5, <2>1
    <3> QED BY <1>4, <3>1
  <2> QED BY <2>1, <2>2
<1>9. lazy.pc = "lazy" /\ lazy.todo = t.todo /\ lazy.cover = later
  OBVIOUS
<1>10. Len(leaves) \in Nat /\ Len(leaves') \in Nat
  BY <1>2, <1>6, LeafIs DEF LeavesOK
<1>11. LinkOK(row, leaves', t)
  BY <1>2, <1>7, <1>10, LinkStays, RowsSame
<1> HIDE DEF later, lazy
<1>12. LinkOK(row, leaves', lazy)
  BY <1>1, <1>8, <1>9, <1>11 DEF LinkOK
<1>13. LinkOK(row, leaves', t2)
  BY <1>3, <1>12
<1> HIDE DEF t2
<1>14. CoverInv'
  BY <1>1, <1>6, <1>7, <1>13, LinkerKeeps
<1> QED BY <1>6, <1>14

-----------------------------------------------------------------------------
(* The rail, evictions and anchor runs *)

\* No row that is settled gets another status.
LEMMA RailKeepsRows ==
  ASSUME row \in [Orders -> Row], NEW o \in Orders,
         RailStep(o) \/ \E own \in BOOLEAN : Forward(o, own)
  PROVE  /\ row' \in [Orders -> Row] /\ RowsStay(row, row')
         /\ leaves' = leaves /\ anchors' = anchors /\ link' = link /\ run' = run
         /\ overlapped' = overlapped /\ crashes' = crashes
<1>1. ASSUME NEW r \in Row, row' = [row EXCEPT ![o] = r], ~ Settled(row, o)
      PROVE  row' \in [Orders -> Row] /\ RowsStay(row, row')
  <2>1. row' \in [Orders -> Row]
    BY <1>1
  <2>2. \A q \in Orders : q # o => row'[q] = row[q]
    BY <1>1
  <2>3. RowsStay(row, row')
    BY <1>1, <2>2 DEF RowsStay
  <2> QED BY <2>1, <2>3
<1>2. \E r \in Row : row' = [row EXCEPT ![o] = r] /\ SetRow(o, r) /\ ~ Settled(row, o)
  <2>0. row[o] \in Row /\ row[o].own \in BOOLEAN
    BY DEF Row
  <2>1. CASE \E own \in BOOLEAN : Forward(o, own)
    <3>1. PICK own \in BOOLEAN : Forward(o, own)
      BY <2>1
    <3> DEFINE r == [status |-> "live", own |-> own]
    <3>2. r \in Row
      BY DEF Row
    <3>3. SetRow(o, r) /\ row[o].status \in {"none", "failed"}
      BY <3>1 DEF Forward
    <3> HIDE DEF r
    <3> QED BY <3>2, <3>3 DEF SetRow, Settled
  <2> DEFINE Now(s) == [row[o] EXCEPT !.status = s]
  <2>2. \A s \in {"live", "confirmed", "failed", "resolved_offrail"} : Now(s) \in Row
    BY <2>0 DEF Row
  <2>3. CASE RailStep(o)
    <3>1. \E s \in {"live", "confirmed", "failed", "resolved_offrail"} :
             SetRow(o, Now(s)) /\ row[o].status \in {"live", "failed"}
      BY <2>3 DEF RailStep, Settle, Fail, Resume
    <3> HIDE DEF Now
    <3> QED BY <2>2, <3>1 DEF SetRow, Settled
  <2> QED BY <2>1, <2>3
<1>3. PICK r \in Row : row' = [row EXCEPT ![o] = r] /\ SetRow(o, r) /\ ~ Settled(row, o)
  BY <1>2
<1>4. /\ leaves' = leaves /\ anchors' = anchors /\ link' = link /\ run' = run
      /\ overlapped' = overlapped /\ crashes' = crashes
  BY <1>3 DEF SetRow, linkVars, anchorVars
<1> QED BY <1>1, <1>3, <1>4

\* What Commit writes: the marks of the leaves in range, and nothing else of them.
LEMMA CommitMarks ==
  ASSUME CoverInv, ChainInv, NEW a \in AnchorRuns, Commit(a)
  PROVE  \E won \in BOOLEAN :
           /\ won = (anchors'[run[a].next.seq] = run[a].next)
           /\ leaves' \in Seq(Leaf) /\ Len(leaves') = Len(leaves)
           /\ \A i \in 1..Len(leaves) :
                /\ leaves'[i].kind = leaves[i].kind /\ leaves'[i].sid = leaves[i].sid
                /\ leaves'[i].order = leaves[i].order
                /\ leaves'[i].anchor = IF won /\ InRange(i, run[a].ids) THEN run[a].next.seq ELSE leaves[i].anchor
<1> DEFINE t == run[a]
           seq == t.next.seq
           won == anchors'[seq] = t.next
           Marks(i) == won /\ InRange(i, t.ids)
           New(l) == [l EXCEPT !.anchor = seq]
<1>1. /\ t.pc = "commit"
      /\ leaves' = [i \in DOMAIN leaves |-> IF Marks(i) THEN New(leaves[i]) ELSE leaves[i]]
  BY DEF Commit
<1>2. leaves \in Seq(Leaf) /\ Len(leaves) \in Nat /\ DOMAIN leaves = 1..Len(leaves)
  BY LeafIs DEF CoverInv, LeavesOK
<1>3. seq \in Nat
  <2>1. Follows(anchors, t.next) /\ Len(anchors) \in Nat
    BY <1>1, SeqFacts DEF ChainInv, RunOK
  <2> QED BY <2>1 DEF Follows
<1>4. ASSUME NEW l \in Leaf
      PROVE  /\ New(l) \in Leaf /\ New(l).kind = l.kind /\ New(l).sid = l.sid
             /\ New(l).order = l.order /\ New(l).anchor = seq
  <2> HIDE DEF seq
  <2> QED BY <1>3, <1>4 DEF Leaf
<1> HIDE DEF New, Marks, won, seq, t
<1>5. \A i \in 1..Len(leaves) : leaves[i] \in Leaf
  BY <1>2
<1>6. leaves' \in [1..Len(leaves) -> Leaf]
  BY <1>1, <1>2, <1>4, <1>5
<1>7. leaves' \in Seq(Leaf) /\ Len(leaves') = Len(leaves)
  BY <1>2, <1>6
<1>8. ASSUME NEW i \in 1..Len(leaves)
      PROVE  /\ leaves'[i].kind = leaves[i].kind /\ leaves'[i].sid = leaves[i].sid
             /\ leaves'[i].order = leaves[i].order
             /\ leaves'[i].anchor = IF Marks(i) THEN seq ELSE leaves[i].anchor
  <2>1. leaves'[i] = IF Marks(i) THEN New(leaves[i]) ELSE leaves[i]
    BY <1>1, <1>2
  <2> QED BY <1>4, <1>5, <2>1
<1>9. won \in BOOLEAN
  BY DEF won
<1> QED BY <1>7, <1>8, <1>9 DEF Marks, won, seq, t

LEMMA CoverStep ==
  ASSUME CoverInv, ChainInv, [Next]_vars
  PROVE  CoverInv'
<1>0. /\ row \in [Orders -> Row] /\ leaves \in Seq(Leaf) /\ Len(leaves) \in Nat
      /\ DOMAIN link = Linkers
  BY LeafIs DEF CoverInv, LeavesOK
<1>1. Grows(leaves, leaves) /\ RowsStay(row, row)
  BY <1>0, GrowsSame, RowsSame
<1>2. CASE UNCHANGED vars
  BY <1>2 DEF vars, CoverInv
<1>3. ASSUME NEW o \in Orders, RailStep(o) \/ \E own \in BOOLEAN : Forward(o, own) PROVE CoverInv'
  <2>1. row' \in [Orders -> Row] /\ RowsStay(row, row') /\ leaves' = leaves /\ link' = link
    BY <1>0, <1>3, RailKeepsRows
  <2>2. Grows(leaves, leaves') /\ leaves' \in Seq(Leaf) /\ Len(leaves') = Len(leaves)
    BY <1>0, <1>1, <2>1
  <2> QED BY <1>0, <2>1, <2>2, OthersKeep
<1>4. ASSUME NEW l \in Linkers, LinkStep(l) \/ \E s \in Sids \cup {Plain} : LinkReceipts(l, s) PROVE CoverInv'
  BY <1>4, LinkReceiptsKeeps, InsertDirectKeeps, ReadWindowKeeps, ReadCoverableKeeps, InsertLazyKeeps DEF LinkStep
<1>5. ASSUME row' = row, leaves' = leaves, DOMAIN link' = Linkers, \A l \in Linkers : link'[l] \in {link[l], LinkIdle}
      PROVE  CoverInv'
  <2>1. row' \in [Orders -> Row] /\ RowsStay(row, row') /\ Grows(leaves, leaves')
        /\ leaves' \in Seq(Leaf) /\ Len(leaves') = Len(leaves)
    BY <1>0, <1>1, <1>5
  <2> QED BY <1>5, <2>1, OthersKeep
<1>6. ASSUME NEW a \in AnchorRuns, ReadPending(a) \/ ReadHead(a) PROVE CoverInv'
  <2>1. row' = row /\ leaves' = leaves /\ link' = link
    BY <1>6 DEF ReadPending, ReadHead, OnlyRun, rowVars, linkVars
  <2> QED BY <1>0, <1>5, <2>1
<1>7. ASSUME NEW a \in AnchorRuns, Commit(a) PROVE CoverInv'
  <2>1. row' = row /\ link' = link
    BY <1>7 DEF Commit, OnlyRun, rowVars, linkVars
  <2>2. leaves' \in Seq(Leaf) /\ Len(leaves') = Len(leaves) /\ Grows(leaves, leaves')
    BY <1>0, <1>7, CommitMarks DEF Grows
  <2>3. row' \in [Orders -> Row] /\ RowsStay(row, row')
    BY <1>0, <1>1, <2>1
  <2> QED BY <1>0, <2>1, <2>2, <2>3, OthersKeep
<1>8. CASE Evict
  <2>1. row' = row /\ leaves' = leaves
    BY <1>8 DEF Evict, rowVars
  <2>2. \/ link' = link
        \/ \E l \in Linkers : link' = [link EXCEPT ![l] = LinkIdle]
    BY <1>8 DEF Evict, SetLink
  <2>3. DOMAIN link' = Linkers /\ \A l \in Linkers : link'[l] \in {link[l], LinkIdle}
    BY <1>0, <2>2
  <2> QED BY <1>5, <2>1, <2>3
<1> QED BY <1>2, <1>3, <1>4, <1>6, <1>7, <1>8, Zenon DEF Next, AnchorStep

-----------------------------------------------------------------------------
(* The chain of anchors *)

LEMMA PrefixIs ==
  ASSUME NEW s, IsSeq(s), NEW n \in 0..Len(s)
  PROVE  /\ IsSeq(SubSeq(s, 1, n)) /\ Len(SubSeq(s, 1, n)) = n
         /\ \A k \in 1..n : SubSeq(s, 1, n)[k] = s[k]
<1>1. PICK T : s \in Seq(T)
  BY DEF IsSeq
<1>2. Len(s) \in Nat
  BY SeqFacts
<1>3. SubSeq(s, 1, n) \in Seq(T) /\ Len(SubSeq(s, 1, n)) = n /\ \A k \in 1..n : SubSeq(s, 1, n)[k] = s[k]
  BY <1>1, <1>2
<1> QED BY <1>3 DEF IsSeq

\* The leaves of an anchor, or those that wait for one, in the order of their ids.
LEMMA LeavesOfIs ==
  ASSUME Len(leaves) \in Nat, DOMAIN leaves = 1..Len(leaves), NEW s
  PROVE  /\ LeavesOf(s) = InOrder(MarkedBy(leaves, s))
         /\ IsSeq(LeavesOf(s)) /\ Len(LeavesOf(s)) = Cardinality(MarkedBy(leaves, s))
         /\ Ascends(LeavesOf(s)) /\ Holds(LeavesOf(s), MarkedBy(leaves, s))
<1> DEFINE S == MarkedBy(leaves, s)
<1>1. S \in SUBSET (1..Len(leaves))
  BY DEF MarkedBy
<1>2. LeavesOf(s) = InOrder(S)
  BY DEF LeavesOf, MarkedBy
<1> HIDE DEF S
<1>3. IsSeq(InOrder(S)) /\ Len(InOrder(S)) = Cardinality(S) /\ Ascends(InOrder(S)) /\ Holds(InOrder(S), S)
  BY <1>1, InOrderIs
<1> QED BY <1>2, <1>3 DEF S

\* An anchor that follows keeps following while the chain grows.
LEMMA StillFollows ==
  ASSUME NEW A, NEW B, Len(A) \in Nat, Len(B) \in Nat, Len(A) <= Len(B),
         \A s \in 1..Len(A) : B[s] = A[s], NEW a, Follows(A, a)
  PROVE  Follows(B, a)
<1>1. a.seq \in 1..(Len(A) + 1) /\ a.seq \in 1..(Len(B) + 1)
  BY DEF Follows
<1>2. a.seq # 1 => a.seq - 1 \in 1..Len(A)
  BY <1>1
<1>3. a.seq # 1 => B[a.seq - 1] = A[a.seq - 1]
  BY <1>2
<1> QED BY <1>1, <1>3 DEF Follows

LEMMA ReadHeadFollows ==
  ASSUME ChainInv, NEW a \in AnchorRuns, ReadHead(a)
  PROVE  /\ run[a].pc = "head" /\ leaves' = leaves /\ anchors' = anchors /\ overlapped' = overlapped
         /\ \E next : /\ run' = [run EXCEPT ![a] = [pc |-> "commit", ids |-> run[a].ids, next |-> next]]
                      /\ next.seq = Len(anchors) + 1 /\ next.root = MerkleRoot(Hashes(leaves, run[a].ids))
                      /\ next.totalLeaves = TotalOf(anchors) + Len(run[a].ids)
                      /\ next.lazyCount = LazyOf(anchors)
                                          + Cardinality(LazyRead(leaves, run[a].ids))
                      /\ Follows(anchors, next)
<1> DEFINE t    == run[a]
           n    == Len(anchors)
           last == IF n = 0 THEN [totalLeaves |-> 0, lazyCount |-> 0] ELSE anchors[n]
           lazy == {k \in DOMAIN t.ids : leaves[t.ids[k]].kind = "lazy"}
           prev == IF n = 0 THEN Zero ELSE ChainHead(anchors[n])
           next == [seq |-> n + 1, prev |-> prev, root |-> MerkleRoot(HashesOf(t.ids)), leafCount |-> Len(t.ids),
                    totalLeaves |-> last.totalLeaves + Len(t.ids),
                    lazyCount |-> last.lazyCount + Cardinality(lazy)]
<1>1. /\ t.pc = "head" /\ run' = [run EXCEPT ![a] = [pc |-> "commit", ids |-> t.ids, next |-> next]]
      /\ leaves' = leaves /\ anchors' = anchors /\ overlapped' = overlapped
  BY DEF ReadHead, SetRun
<1>2. /\ n \in Nat /\ IsSeq(t.ids) /\ Len(t.ids) \in Nat /\ DOMAIN t.ids = 1..Len(t.ids)
      /\ \A s \in 1..n : anchors[s].seq = s /\ Follows(anchors, anchors[s])
  BY <1>1, SeqFacts DEF ChainInv, RunOK
<1>3. Cardinality(lazy) \in Nat
  <2> HIDE DEF t
  <2>1. lazy \subseteq 1..Len(t.ids) /\ IsFiniteSet(1..Len(t.ids))
    BY <1>2, FS_Interval
  <2> HIDE DEF lazy
  <2> QED BY <2>1, FS_Subset, FS_CardinalityType
<1>4. /\ last.totalLeaves = TotalOf(anchors) /\ last.lazyCount = LazyOf(anchors)
      /\ TotalOf(anchors) \in Nat /\ LazyOf(anchors) \in Nat
  <2>1. CASE n = 0
    BY <2>1 DEF TotalOf, LazyOf
  <2>2. CASE n # 0
    <3>1. n \in 1..n
      BY <1>2, <2>2
    <3>2. anchors[n].totalLeaves \in Nat /\ anchors[n].lazyCount \in Nat
      BY <1>2, <3>1 DEF Follows
    <3> QED BY <2>2, <3>2 DEF TotalOf, LazyOf
  <2> QED BY <2>1, <2>2
<1>5. /\ next.seq = n + 1 /\ next.prev = prev /\ next.root = MerkleRoot(HashesOf(t.ids))
      /\ next.leafCount = Len(t.ids) /\ next.totalLeaves = last.totalLeaves + Len(t.ids)
      /\ next.lazyCount = last.lazyCount + Cardinality(lazy)
  OBVIOUS
<1>6. HashesOf(t.ids) = Hashes(leaves, t.ids)
  BY DEF HashesOf, Hashes
<1> HIDE DEF next, last, prev, lazy
<1>7. Follows(anchors, next)
  <2>1. n # 0 => last = anchors[n] /\ prev = ChainHead(anchors[n]) /\ (n + 1) - 1 = n /\ n + 1 # 1
    BY <1>2 DEF last, prev
  <2>2. n = 0 => prev = Zero /\ last.totalLeaves = 0 /\ n + 1 = 1
    BY DEF last, prev
  <2>3. next.leafCount \in Nat /\ next.totalLeaves \in Nat /\ next.lazyCount \in Nat
    BY <1>2, <1>3, <1>4, <1>5
  <2>4. next.seq \in 1..(n + 1)
    BY <1>2, <1>5
  <2>5. next.seq = 1 => next.prev = Zero /\ next.totalLeaves = next.leafCount
    BY <1>2, <1>5, <2>1, <2>2
  <2>6. next.seq # 1 => /\ next.prev = ChainHead(anchors[next.seq - 1])
                        /\ next.totalLeaves = anchors[next.seq - 1].totalLeaves + next.leafCount
    BY <1>2, <1>5, <2>1, <2>2
  <2> QED BY <2>3, <2>4, <2>5, <2>6 DEF Follows
<1>8. next.lazyCount = LazyOf(anchors) + Cardinality(LazyRead(leaves, t.ids))
  BY <1>4, <1>5 DEF lazy, LazyRead
<1> QED BY <1>1, <1>4, <1>5, <1>6, <1>7, <1>8

LEMMA IdleRunOK == ASSUME NEW A PROVE RunOK(A, RunIdle) /\ RunIdle.pc = "idle"
<1>1. RunIdle.pc = "idle"
  BY DEF RunIdle
<1> QED BY <1>1 DEF RunOK

\* A run's step keeps the chain if what it appends and goes on with follows.
LEMMA RunKeeps ==
  ASSUME ChainInv, NEW a \in AnchorRuns, NEW t, SetRun(a, t), IsSeq(anchors'),
         Len(anchors) <= Len(anchors'), \A s \in 1..Len(anchors) : anchors'[s] = anchors[s],
         \A s \in (Len(anchors) + 1)..Len(anchors') : anchors'[s].seq = s /\ Follows(anchors', anchors'[s]),
         \A i \in 1..Len(leaves') : leaves'[i].anchor \in 0..Len(anchors'),
         RunOK(anchors', t)
  PROVE  ChainInv'
<1>1. Len(anchors) \in Nat /\ Len(anchors') \in Nat
  BY SeqFacts DEF ChainInv
<1>2. ASSUME NEW s \in 1..Len(anchors') PROVE anchors'[s].seq = s /\ Follows(anchors', anchors'[s])
  <2>1. CASE s \in 1..Len(anchors)
    <3>1. anchors'[s] = anchors[s] /\ anchors[s].seq = s /\ Follows(anchors, anchors[s])
      BY <2>1 DEF ChainInv
    <3>2. Follows(anchors', anchors[s])
      BY <1>1, <3>1, StillFollows
    <3> QED BY <3>1, <3>2
  <2>2. CASE s \notin 1..Len(anchors)
    <3>1. s \in (Len(anchors) + 1)..Len(anchors')
      BY <1>1, <2>2
    <3> QED BY <3>1
  <2> QED BY <2>1, <2>2
<1>3. DOMAIN run' = AnchorRuns
  BY DEF ChainInv, SetRun
<1>4. ASSUME NEW b \in AnchorRuns PROVE RunOK(anchors', run'[b])
  <2>1. CASE b = a
    <3>1. run'[b] = t
      BY <2>1 DEF ChainInv, SetRun
    <3> QED BY <3>1
  <2>2. CASE b # a
    <3>1. run'[b] = run[b] /\ RunOK(anchors, run[b])
      BY <2>2 DEF ChainInv, SetRun
    <3>2. Follows(anchors, run[b].next) => Follows(anchors', run[b].next)
      BY <1>1, StillFollows
    <3> QED BY <3>1, <3>2 DEF RunOK
  <2> QED BY <2>1, <2>2
<1> QED BY <1>2, <1>3, <1>4 DEF ChainInv

\* No run appends anything, and the leaves only grow.
LEMMA ChainStays ==
  ASSUME CoverInv, ChainInv, CoverInv', Extends(leaves, leaves'), anchors' = anchors, run' = run
  PROVE  ChainInv'
<1>1. Len(leaves) \in Nat /\ Len(leaves') \in Nat /\ Len(anchors) \in Nat
  BY LeafIs, SeqFacts DEF CoverInv, LeavesOK, ChainInv
<1>2. ASSUME NEW i \in 1..Len(leaves') PROVE leaves'[i].anchor \in 0..Len(anchors)
  <2>1. CASE i \in 1..Len(leaves)
    BY <2>1 DEF Extends, ChainInv
  <2>2. CASE i \notin 1..Len(leaves)
    <3>1. i \in (Len(leaves) + 1)..Len(leaves')
      BY <1>1, <2>2
    <3>2. leaves'[i].anchor = 0
      BY <3>1 DEF Extends
    <3> QED BY <1>1, <3>2
  <2> QED BY <2>1, <2>2
<1> QED BY <1>2 DEF ChainInv

\* What a run reads is the pending leaves up to the last of those it takes.
LEMMA ReadPendingIs ==
  ASSUME CoverInv, NEW a \in AnchorRuns, ReadPending(a)
  PROVE  /\ run[a].pc = "idle" /\ leaves' = leaves /\ anchors' = anchors
         /\ overlapped' = (overlapped \/ \E b \in AnchorRuns : run[b].pc \in {"head", "commit"})
         /\ \E ids : /\ run' = [run EXCEPT ![a] = [pc |-> "head", ids |-> ids]]
                     /\ IsSeq(ids) /\ Ascends(ids) /\ Holds(ids, ReadRange(leaves, ids))
<1> DEFINE P   == Pending
           m   == IF Len(P) < MaxLeaves THEN Len(P) ELSE MaxLeaves
           ids == SubSeq(P, 1, m)
<1>1. /\ run[a].pc = "idle" /\ leaves' = leaves /\ anchors' = anchors
      /\ overlapped' = (overlapped \/ \E b \in AnchorRuns : run[b].pc \in {"head", "commit"})
      /\ run' = [run EXCEPT ![a] = [pc |-> "head", ids |-> ids]]
  BY DEF ReadPending, SetRun
<1>2. Len(leaves) \in Nat /\ DOMAIN leaves = 1..Len(leaves)
  BY LeafIs DEF CoverInv, LeavesOK
<1>3. IsSeq(P) /\ Ascends(P) /\ Holds(P, MarkedBy(leaves, 0))
  BY <1>2, LeavesOfIs DEF Pending
<1>4. Len(P) \in Nat /\ m \in 0..Len(P)
  BY <1>3, SeqFacts, ReceiptsAssumption
<1> HIDE DEF P, m
<1>5. IsSeq(ids) /\ Len(ids) = m /\ \A k \in 1..m : ids[k] = P[k]
  BY <1>3, <1>4, PrefixIs
<1>6. ids # << >> <=> m # 0
  BY <1>5, SeqFacts
<1>7. Last(ids) = ids[m]
  BY <1>5 DEF Last
<1> HIDE DEF ids
<1>8. Ascends(ids)
  BY <1>3, <1>4, <1>5 DEF Ascends
<1>9. \A k \in 1..m : P[k] \in 1..Len(leaves) /\ leaves[P[k]].anchor = 0 /\ P[k] \in Nat
  <2> SUFFICES ASSUME NEW k \in 1..m PROVE P[k] \in 1..Len(leaves) /\ leaves[P[k]].anchor = 0 /\ P[k] \in Nat
    OBVIOUS
  <2>1. P[k] \in MarkedBy(leaves, 0)
    BY <1>3, <1>4 DEF Holds
  <2> QED BY <1>2, <2>1 DEF MarkedBy
<1>10. ASSUME NEW k \in 1..m PROVE ids[k] \in ReadRange(leaves, ids)
  <2>1. m # 0 /\ 1 \in 1..m /\ m \in 1..m /\ k \in Nat
    BY <1>4
  <2>2. ids[1] = P[1] /\ ids[m] = P[m] /\ ids[k] = P[k]
    BY <1>5, <2>1
  <2>3. P[1] \in Nat /\ P[m] \in Nat /\ P[k] \in Nat
    BY <1>9, <2>1
  <2>4. 1 = k \/ P[1] < P[k]
    BY <1>3, <1>4, <2>1 DEF Ascends
  <2>5. k = m \/ P[k] < P[m]
    BY <1>3, <1>4, <2>1 DEF Ascends
  <2>6. ids[1] <= ids[k] /\ ids[k] <= Last(ids)
    BY <1>7, <2>2, <2>3, <2>4, <2>5
  <2> QED BY <1>6, <1>9, <2>1, <2>2, <2>6 DEF ReadRange
<1>11. ASSUME NEW i \in ReadRange(leaves, ids) PROVE \E k \in 1..m : ids[k] = i
  <2>1. i \in 1..Len(leaves) /\ leaves[i].anchor = 0 /\ m # 0 /\ i <= ids[m]
    BY <1>6, <1>7 DEF ReadRange
  <2>2. PICK k \in 1..Len(P) : P[k] = i
    BY <1>3, <2>1 DEF Holds, MarkedBy
  <2>3. m \in 1..m /\ m \in 1..Len(P) /\ ids[m] = P[m] /\ P[m] \in Nat
    BY <1>4, <1>5, <1>9, <2>1
  <2>4. ~ (m < k)
    <3> SUFFICES ASSUME m < k PROVE FALSE
      OBVIOUS
    <3>1. P[m] < P[k]
      BY <1>3, <2>3 DEF Ascends
    <3> QED BY <1>2, <2>1, <2>2, <2>3, <3>1
  <2>5. k \in 1..m
    BY <1>4, <2>2, <2>4
  <2> QED BY <1>5, <2>2, <2>5
<1>12. Holds(ids, ReadRange(leaves, ids))
  BY <1>5, <1>10, <1>11 DEF Holds
<1> QED BY <1>1, <1>5, <1>8, <1>12

\* The row at seq is appended, unless there is one.
LEMMA CommitIs ==
  ASSUME ChainInv, NEW a \in AnchorRuns, Commit(a)
  PROVE  /\ run[a].pc = "commit" /\ SetRun(a, RunIdle) /\ overlapped' = overlapped
         /\ Follows(anchors, run[a].next) /\ run[a].next.seq \in Nat
         /\ IsSeq(anchors') /\ Len(anchors) <= Len(anchors') /\ Len(anchors') \in Nat
         /\ \A s \in 1..Len(anchors) : anchors'[s] = anchors[s]
         /\ run[a].next.seq <= Len(anchors)  => anchors' = anchors
         /\ ~ (run[a].next.seq <= Len(anchors)) => /\ run[a].next.seq = Len(anchors) + 1
                                                  /\ Len(anchors') = Len(anchors) + 1
                                                  /\ anchors'[Len(anchors) + 1] = run[a].next
<1> DEFINE t == run[a]
           next == t.next
           seq == next.seq
<1>1. /\ t.pc = "commit" /\ SetRun(a, RunIdle) /\ overlapped' = overlapped
      /\ anchors' = IF seq <= Len(anchors) THEN anchors ELSE Append(anchors, next)
  BY DEF Commit
<1>2. Follows(anchors, next) /\ IsSeq(anchors) /\ Len(anchors) \in Nat
  BY <1>1, SeqFacts DEF ChainInv, RunOK
<1>3. seq \in Nat /\ seq <= Len(anchors) + 1
  BY <1>2 DEF Follows
<1> HIDE DEF next, seq
<1>4. CASE seq <= Len(anchors)
  <2>1. anchors' = anchors
    BY <1>1, <1>4
  <2> QED BY <1>1, <1>2, <1>3, <1>4, <2>1 DEF next, seq
<1>5. CASE ~ (seq <= Len(anchors))
  <2>1. anchors' = Append(anchors, next) /\ seq = Len(anchors) + 1
    BY <1>1, <1>2, <1>3, <1>5
  <2>2. /\ IsSeq(anchors') /\ Len(anchors') = Len(anchors) + 1 /\ anchors'[Len(anchors) + 1] = next
        /\ \A s \in 1..Len(anchors) : anchors'[s] = anchors[s]
    BY <1>2, <2>1, AppendIs
  <2>3. Len(anchors) <= Len(anchors') /\ Len(anchors') \in Nat
    BY <1>2, <2>2
  <2> QED BY <1>1, <1>2, <1>3, <1>5, <2>1, <2>2, <2>3 DEF next, seq
<1> QED BY <1>4, <1>5

LEMMA ReadPendingChains ==
  ASSUME CoverInv, ChainInv, NEW a \in AnchorRuns, ReadPending(a)
  PROVE  ChainInv'
<1>1. PICK ids : run' = [run EXCEPT ![a] = [pc |-> "head", ids |-> ids]] /\ IsSeq(ids)
  BY ReadPendingIs
<1>2. leaves' = leaves /\ anchors' = anchors
  BY ReadPendingIs
<1> DEFINE t == [pc |-> "head", ids |-> ids]
<1>3. t.pc = "head" /\ t.ids = ids
  OBVIOUS
<1>4. SetRun(a, t)
  BY <1>1 DEF SetRun
<1> HIDE DEF t
<1>5. RunOK(anchors', t)
  BY <1>1, <1>3 DEF RunOK
<1>6. Len(anchors) \in Nat /\ IsSeq(anchors)
  BY SeqFacts DEF ChainInv
<1>7. \A i \in 1..Len(leaves') : leaves'[i].anchor \in 0..Len(anchors')
  BY <1>2 DEF ChainInv
<1>8. /\ IsSeq(anchors') /\ Len(anchors) <= Len(anchors') /\ \A s \in 1..Len(anchors) : anchors'[s] = anchors[s]
      /\ \A s \in (Len(anchors) + 1)..Len(anchors') : FALSE
  BY <1>2, <1>6
<1> QED BY <1>4, <1>5, <1>7, <1>8, RunKeeps

LEMMA ReadHeadChains ==
  ASSUME CoverInv, ChainInv, NEW a \in AnchorRuns, ReadHead(a)
  PROVE  ChainInv'
<1>1. PICK next : /\ run' = [run EXCEPT ![a] = [pc |-> "commit", ids |-> run[a].ids, next |-> next]]
                  /\ Follows(anchors, next)
  BY ReadHeadFollows
<1>2. leaves' = leaves /\ anchors' = anchors /\ run[a].pc = "head"
  BY ReadHeadFollows
<1> DEFINE t == [pc |-> "commit", ids |-> run[a].ids, next |-> next]
<1>3. t.pc = "commit" /\ t.ids = run[a].ids /\ t.next = next
  OBVIOUS
<1>4. SetRun(a, t)
  BY <1>1 DEF SetRun
<1> HIDE DEF t
<1>5. RunOK(anchors', t)
  BY <1>1, <1>2, <1>3 DEF RunOK, ChainInv
<1>6. Len(anchors) \in Nat /\ IsSeq(anchors)
  BY SeqFacts DEF ChainInv
<1>7. \A i \in 1..Len(leaves') : leaves'[i].anchor \in 0..Len(anchors')
  BY <1>2 DEF ChainInv
<1>8. /\ IsSeq(anchors') /\ Len(anchors) <= Len(anchors') /\ \A s \in 1..Len(anchors) : anchors'[s] = anchors[s]
      /\ \A s \in (Len(anchors) + 1)..Len(anchors') : FALSE
  BY <1>2, <1>6
<1> QED BY <1>4, <1>5, <1>7, <1>8, RunKeeps

LEMMA CommitChains ==
  ASSUME CoverInv, ChainInv, NEW a \in AnchorRuns, Commit(a)
  PROVE  ChainInv'
<1> DEFINE seq == run[a].next.seq
<1>1. /\ SetRun(a, RunIdle) /\ Follows(anchors, run[a].next) /\ seq \in Nat
      /\ IsSeq(anchors') /\ Len(anchors) <= Len(anchors') /\ Len(anchors') \in Nat
      /\ \A s \in 1..Len(anchors) : anchors'[s] = anchors[s]
      /\ seq <= Len(anchors)  => anchors' = anchors
      /\ ~ (seq <= Len(anchors)) => /\ seq = Len(anchors) + 1
                                    /\ Len(anchors') = Len(anchors) + 1
                                    /\ anchors'[Len(anchors) + 1] = run[a].next
  BY CommitIs
<1>2. Len(anchors) \in Nat /\ Len(leaves) \in Nat
  BY LeafIs, SeqFacts DEF ChainInv, CoverInv, LeavesOK
<1>3. ASSUME NEW s \in (Len(anchors) + 1)..Len(anchors')
      PROVE  anchors'[s].seq = s /\ Follows(anchors', anchors'[s])
  <2>1. ~ (seq <= Len(anchors)) /\ s = Len(anchors) + 1
    BY <1>1, <1>2
  <2>2. anchors'[s] = run[a].next /\ run[a].next.seq = s
    BY <1>1, <2>1
  <2>3. Follows(anchors', run[a].next)
    BY <1>1, <1>2, StillFollows
  <2> QED BY <2>2, <2>3
<1>4. ASSUME NEW i \in 1..Len(leaves') PROVE leaves'[i].anchor \in 0..Len(anchors')
  <2>1. PICK won \in BOOLEAN :
           /\ Len(leaves') = Len(leaves)
           /\ \A k \in 1..Len(leaves) :
                leaves'[k].anchor = IF won /\ InRange(k, run[a].ids) THEN seq ELSE leaves[k].anchor
    BY CommitMarks
  <2>2. leaves'[i].anchor \in {seq, leaves[i].anchor} /\ i \in 1..Len(leaves)
    BY <2>1
  <2>3. leaves[i].anchor \in 0..Len(anchors)
    BY <2>2 DEF ChainInv
  <2>4. seq \in 0..Len(anchors')
    BY <1>1, <1>2
  <2> QED BY <1>1, <1>2, <2>2, <2>3, <2>4
<1> QED BY <1>1, <1>3, <1>4, RunKeeps, IdleRunOK

LEMMA ChainStep ==
  ASSUME CoverInv, ChainInv, [Next]_vars
  PROVE  ChainInv'
<1>0. CoverInv'
  BY CoverStep
<1>1. /\ row \in [Orders -> Row] /\ Len(leaves) \in Nat /\ Extends(leaves, leaves)
      /\ IsSeq(anchors) /\ Len(anchors) \in Nat
  BY LeafIs, SeqFacts, GrowsSame DEF CoverInv, LeavesOK, ChainInv
<1>2. ASSUME anchors' = anchors, run' = run, leaves' = leaves PROVE ChainInv'
  BY <1>2 DEF ChainInv
<1>3. CASE UNCHANGED vars
  BY <1>2, <1>3 DEF vars
<1>4. ASSUME NEW o \in Orders, RailStep(o) \/ \E own \in BOOLEAN : Forward(o, own) PROVE ChainInv'
  BY <1>1, <1>2, <1>4, RailKeepsRows
<1>5. ASSUME NEW l \in Linkers, LinkStep(l) \/ \E s \in Sids \cup {Plain} : LinkReceipts(l, s) PROVE ChainInv'
  <2>1. Extends(leaves, leaves')
    BY <1>5, LinkReceiptsKeeps, InsertDirectKeeps, ReadWindowKeeps, ReadCoverableKeeps, InsertLazyKeeps DEF LinkStep
  <2>2. anchors' = anchors /\ run' = run
    BY <1>5 DEF LinkStep, LinkReceipts, InsertDirect, ReadWindow, ReadCoverable, InsertLazy, OnlyLink, anchorVars
  <2> QED BY <1>0, <2>1, <2>2, ChainStays
<1>6. ASSUME NEW a \in AnchorRuns, ReadPending(a) \/ AnchorStep(a) PROVE ChainInv'
  BY <1>6, ReadPendingChains, ReadHeadChains, CommitChains DEF AnchorStep
<1>7. CASE Evict
  <2>1. leaves' = leaves /\ anchors' = anchors
    BY <1>7 DEF Evict
  <2>2. CASE run' = run
    BY <1>2, <2>1, <2>2
  <2>3. ASSUME NEW a \in AnchorRuns, SetRun(a, RunIdle) PROVE ChainInv'
    <3>1. \A i \in 1..Len(leaves') : leaves'[i].anchor \in 0..Len(anchors')
      BY <2>1 DEF ChainInv
    <3>2. /\ IsSeq(anchors') /\ Len(anchors) <= Len(anchors') /\ \A s \in 1..Len(anchors) : anchors'[s] = anchors[s]
          /\ \A s \in (Len(anchors) + 1)..Len(anchors') : FALSE
      BY <1>1, <2>1
    <3>3. RunOK(anchors', RunIdle)
      BY IdleRunOK
    <3> QED BY <2>3, <3>1, <3>2, <3>3, RunKeeps
  <2> QED BY <1>7, <2>2, <2>3 DEF Evict
<1> QED BY <1>3, <1>4, <1>5, <1>6, <1>7, Zenon DEF Next

-----------------------------------------------------------------------------
(* One run at a time *)

\* The leaves a run has read are in place.
LEMMA ReadAreLeaves ==
  ASSUME NEW L, Len(L) \in Nat, NEW ids, IsSeq(ids), Holds(ids, ReadRange(L, ids))
  PROVE  /\ \A k \in 1..Len(ids) : ids[k] \in 1..Len(L)
         /\ ids # << >> => Last(ids) \in 1..Len(L)
<1>1. \A k \in 1..Len(ids) : ids[k] \in 1..Len(L)
  <2> SUFFICES ASSUME NEW k \in 1..Len(ids) PROVE ids[k] \in 1..Len(L)
    OBVIOUS
  <2>1. ids[k] \in ReadRange(L, ids)
    BY DEF Holds
  <2> QED BY <2>1 DEF ReadRange
<1>2. ASSUME ids # << >> PROVE Last(ids) \in 1..Len(L)
  <2>1. Len(ids) \in 1..Len(ids)
    BY <1>2, SeqFacts
  <2> QED BY <1>1, <2>1 DEF Last
<1> QED BY <1>1, <1>2

\* Leaves that come later are behind all it has read.
LEMMA RangeStays ==
  ASSUME NEW L, NEW M, Len(L) \in Nat, Len(M) \in Nat, Extends(L, M),
         NEW ids, IsSeq(ids), Holds(ids, ReadRange(L, ids))
  PROVE  ReadRange(M, ids) = ReadRange(L, ids)
<1>1. CASE ids = << >>
  BY <1>1 DEF ReadRange
<1>2. CASE ids # << >>
  <2>1. Last(ids) \in 1..Len(L)
    BY <1>2, ReadAreLeaves
  <2>2. ASSUME NEW i \in 1..Len(M), i <= Last(ids) PROVE i \in 1..Len(L)
    BY <2>1, <2>2
  <2>3. ReadRange(M, ids) \subseteq ReadRange(L, ids)
    <3> SUFFICES ASSUME NEW i \in ReadRange(M, ids) PROVE i \in ReadRange(L, ids)
      OBVIOUS
    <3>1. /\ i \in 1..Len(M) /\ M[i].anchor = 0 /\ ids[1] <= i /\ i <= Last(ids)
      BY DEF ReadRange
    <3>2. i \in 1..Len(L) /\ M[i] = L[i]
      BY <2>2, <3>1 DEF Extends
    <3> QED BY <1>2, <3>1, <3>2 DEF ReadRange
  <2>4. ReadRange(L, ids) \subseteq ReadRange(M, ids)
    <3> SUFFICES ASSUME NEW i \in ReadRange(L, ids) PROVE i \in ReadRange(M, ids)
      OBVIOUS
    <3>1. /\ i \in 1..Len(L) /\ L[i].anchor = 0 /\ ids[1] <= i /\ i <= Last(ids)
      BY DEF ReadRange
    <3>2. i \in 1..Len(M) /\ M[i] = L[i]
      BY <3>1 DEF Extends
    <3> QED BY <1>2, <3>1, <3>2 DEF ReadRange
  <2> QED BY <2>3, <2>4
<1> QED BY <1>1, <1>2

LEMMA HashesStay ==
  ASSUME NEW L, NEW M, Grows(L, M), NEW ids, \A k \in 1..Len(ids) : ids[k] \in 1..Len(L)
  PROVE  Hashes(M, ids) = Hashes(L, ids)
<1>1. \A k \in 1..Len(ids) : LeafHash(M[ids[k]]) = LeafHash(L[ids[k]])
  BY DEF Grows, LeafHash
<1> QED BY <1>1 DEF Hashes

LEMMA LazyStay ==
  ASSUME NEW L, NEW M, Grows(L, M), NEW S, S \subseteq 1..Len(L)
  PROVE  LazyIn(M, S) = LazyIn(L, S)
  BY DEF Grows, LazyIn

\* A leaf in a set of leaves is in its order.
LEMMA MarkedInOrder ==
  ASSUME NEW L, Len(L) \in Nat, NEW s
  PROVE  /\ MarkedBy(L, s) \in SUBSET (1..Len(L))
         /\ \A k \in 1..Len(InOrder(MarkedBy(L, s))) : InOrder(MarkedBy(L, s))[k] \in 1..Len(L)
<1> DEFINE S == MarkedBy(L, s)
<1>1. S \in SUBSET (1..Len(L))
  BY DEF MarkedBy
<1> HIDE DEF S
<1>2. Holds(InOrder(S), S)
  BY <1>1, InOrderIs
<1> QED BY <1>1, <1>2 DEF S, Holds

\* Leaves that only grow leave the anchors, and what the run has read, as they were.
LEMMA AloneStays ==
  ASSUME NEW L, NEW M, Len(L) \in Nat, Len(M) \in Nat, Extends(L, M),
         NEW A, NEW r, \A a \in AnchorRuns : r[a].pc # "idle" => IsSeq(r[a].ids),
         \A a \in AnchorRuns : r[a].pc = "commit" => r[a].pc # "idle", AloneOK(L, A, r), Len(A) \in Nat
  PROVE  AloneOK(M, A, r)
<1>0. Grows(L, M)
  BY ExtendsGrows
<1>1. ASSUME NEW a \in AnchorRuns, r[a].pc # "idle"
      PROVE  /\ ReadOK(M, r[a]) /\ ReadRange(M, r[a].ids) = ReadRange(L, r[a].ids)
             /\ Hashes(M, r[a].ids) = Hashes(L, r[a].ids)
             /\ LazyIn(M, ReadRange(L, r[a].ids)) = LazyIn(L, ReadRange(L, r[a].ids))
  <2> DEFINE ids == r[a].ids
  <2>1. IsSeq(ids) /\ Ascends(ids) /\ Holds(ids, ReadRange(L, ids))
    BY <1>1 DEF AloneOK, ReadOK
  <2> HIDE DEF ids
  <2>2. ReadRange(M, ids) = ReadRange(L, ids)
    BY <2>1, RangeStays
  <2>3. Hashes(M, ids) = Hashes(L, ids)
    BY <1>0, <2>1, ReadAreLeaves, HashesStay
  <2>4. ReadRange(L, ids) \subseteq 1..Len(L)
    BY DEF ReadRange
  <2>5. LazyIn(M, ReadRange(L, ids)) = LazyIn(L, ReadRange(L, ids))
    BY <1>0, <2>4, LazyStay
  <2>6. ReadOK(M, r[a])
    BY <2>1, <2>2 DEF ReadOK, ids
  <2> QED BY <2>2, <2>3, <2>5, <2>6 DEF ids
<1>2. \A a \in AnchorRuns : r[a].pc = "commit" => NextOK(M, A, r[a])
  BY <1>1 DEF AloneOK, NextOK
<1>3. ASSUME NEW i PROVE i \in 1..Len(M) /\ M[i].anchor # 0 <=> i \in 1..Len(L) /\ L[i].anchor # 0
  <2>1. i \in 1..Len(M) => i \in 1..Len(L) \/ i \in (Len(L) + 1)..Len(M)
    OBVIOUS
  <2>2. i \in 1..Len(L) => i \in 1..Len(M) /\ M[i] = L[i]
    BY DEF Extends
  <2>3. i \in (Len(L) + 1)..Len(M) => M[i].anchor = 0
    BY DEF Extends
  <2> QED BY <2>1, <2>2, <2>3
<1>4. ASSUME NEW i \in 1..Len(L) PROVE M[i] = L[i]
  BY DEF Extends
<1>5. Marked(M) = Marked(L)
  BY <1>3 DEF Marked
<1>6. ASSUME NEW s \in 1..Len(A) PROVE MarkedBy(M, s) = MarkedBy(L, s)
  <2>1. s # 0
    OBVIOUS
  <2>2. ASSUME NEW i PROVE i \in MarkedBy(M, s) <=> i \in MarkedBy(L, s)
    BY <1>3, <1>4, <2>1 DEF MarkedBy
  <2> QED BY <2>2
<1>7. AnchorsOK(M, A)
  <2>1. ASSUME NEW s \in 1..Len(A) PROVE A[s].root = MerkleRoot(Hashes(M, InOrder(MarkedBy(M, s))))
    <3> DEFINE ids == InOrder(MarkedBy(L, s))
    <3>1. A[s].root = MerkleRoot(Hashes(L, ids))
      BY DEF AloneOK, AnchorsOK
    <3>2. \A k \in 1..Len(ids) : ids[k] \in 1..Len(L)
      BY MarkedInOrder
    <3>3. Hashes(M, ids) = Hashes(L, ids)
      BY <1>0, <3>2, HashesStay
    <3> QED BY <1>6, <3>1, <3>3
  <2>2. Marked(L) \subseteq 1..Len(L)
    BY DEF Marked
  <2>3. LazyIn(M, Marked(L)) = LazyIn(L, Marked(L))
    BY <1>0, <2>2, LazyStay
  <2> QED BY <1>5, <2>1, <2>3 DEF AloneOK, AnchorsOK
<1> QED BY <1>1, <1>2, <1>7 DEF AloneOK

\* Each of what ascends through a set counts once.
LEMMA CountOnce ==
  ASSUME NEW n \in Nat, NEW S \in SUBSET (1..n), NEW ids, IsSeq(ids), Ascends(ids), Holds(ids, S), NEW L
  PROVE  /\ ids = InOrder(S) /\ Len(ids) = Cardinality(S)
         /\ Cardinality(LazyRead(L, ids)) = Cardinality(LazyIn(L, S))
<1>1. ids = InOrder(S)
  BY InOrderOnly
<1>2. Len(ids) = Cardinality(S)
  BY <1>1, InOrderIs
<1>3. Len(ids) \in Nat /\ DOMAIN ids = 1..Len(ids)
  BY SeqFacts
<1> DEFINE K == {k \in DOMAIN ids : L[ids[k]].kind = "lazy"}
           T == LazyIn(L, S)
           f == [k \in K |-> ids[k]]
<1>4. \A k \in K : k \in 1..Len(ids) /\ k \in Nat /\ f[k] = ids[k] /\ ids[k] \in S /\ ids[k] \in Nat /\ L[ids[k]].kind = "lazy"
  <2> SUFFICES ASSUME NEW k \in K
               PROVE  k \in 1..Len(ids) /\ k \in Nat /\ f[k] = ids[k] /\ ids[k] \in S /\ ids[k] \in Nat /\ L[ids[k]].kind = "lazy"
    OBVIOUS
  <2>1. k \in 1..Len(ids) /\ k \in Nat /\ f[k] = ids[k] /\ L[ids[k]].kind = "lazy"
    BY <1>3
  <2>2. ids[k] \in S
    BY <2>1 DEF Holds
  <2>3. ids[k] \in Nat
    BY <2>2
  <2> QED BY <2>1, <2>2, <2>3
<1>5. f \in [K -> T]
  BY <1>4 DEF LazyIn
<1>6. \A x \in T : \E k \in K : f[k] = x
  <2> SUFFICES ASSUME NEW x \in T PROVE \E k \in K : f[k] = x
    OBVIOUS
  <2>1. x \in S /\ L[x].kind = "lazy"
    BY DEF LazyIn
  <2>2. PICK k \in 1..Len(ids) : ids[k] = x
    BY <2>1 DEF Holds
  <2>3. k \in K
    BY <1>3, <2>1, <2>2
  <2> QED BY <2>2, <2>3
<1>7. K \subseteq 1..Len(ids) /\ IsFiniteSet(K)
  <2>1. K \subseteq 1..Len(ids) /\ IsFiniteSet(1..Len(ids))
    BY <1>3, FS_Interval
  <2> HIDE DEF K
  <2> QED BY <2>1, FS_Subset
<1> HIDE DEF f, K, T
<1>8. \A j, k \in K : f[j] = f[k] => j = k
  <2> SUFFICES ASSUME NEW j \in K, NEW k \in K, f[j] = f[k], j < k PROVE FALSE
    <3>1. \A j, k \in K : j = k \/ j < k \/ k < j
      BY <1>4
    <3> QED BY <3>1
  <2>1. ids[j] < ids[k]
    BY <1>4 DEF Ascends
  <2> QED BY <1>4, <2>1
<1>9. f \in Bijection(K, T)
  BY <1>5, <1>6, <1>8 DEF Bijection, Injection, Surjection, IsInjective
<1>10. Cardinality(T) = Cardinality(K)
  BY <1>7, <1>9, FS_Bijection DEF ExistsBijection
<1> QED BY <1>1, <1>2, <1>10 DEF K, T, LazyRead

\* What is counted twice over is the sum, if nothing is in both.
LEMMA SumOfBoth ==
  ASSUME NEW n \in Nat, NEW S \in SUBSET (1..n), NEW T \in SUBSET (1..n), S \cap T = {}
  PROVE  /\ Cardinality(S \cup T) = Cardinality(S) + Cardinality(T)
         /\ Cardinality(S) \in Nat /\ Cardinality(T) \in Nat
<1>1. IsFiniteSet(1..n)
  BY FS_Interval
<1>2. IsFiniteSet(S) /\ IsFiniteSet(T)
  BY <1>1, FS_Subset
<1>3. Cardinality(S) \in Nat /\ Cardinality(T) \in Nat
  BY <1>2, FS_CardinalityType
<1>4. Cardinality(S \cup T) = Cardinality(S) + Cardinality(T) - Cardinality(S \cap T)
  BY <1>2, FS_Union
<1>5. Cardinality(S \cap T) = 0
  BY FS_EmptySet
<1> QED BY <1>3, <1>4, <1>5

LEMMA ReadPendingAlone ==
  ASSUME Inv, NEW a \in AnchorRuns, ReadPending(a), ~ overlapped'
  PROVE  AloneOK(leaves', anchors', run')
<1>1. /\ leaves' = leaves /\ anchors' = anchors /\ ~ overlapped
      /\ \A b \in AnchorRuns : run[b].pc \notin {"head", "commit"}
  BY ReadPendingIs DEF Inv
<1>2. PICK ids : /\ run' = [run EXCEPT ![a] = [pc |-> "head", ids |-> ids]]
                 /\ IsSeq(ids) /\ Ascends(ids) /\ Holds(ids, ReadRange(leaves, ids))
  BY ReadPendingIs DEF Inv
<1> DEFINE t == [pc |-> "head", ids |-> ids]
<1>3. t.pc = "head" /\ t.ids = ids
  OBVIOUS
<1> HIDE DEF t
<1>4. \A b \in AnchorRuns : b # a => run'[b].pc = "idle"
  <2>1. \A b \in AnchorRuns : RunOK(anchors, run[b]) /\ DOMAIN run = AnchorRuns
    BY DEF Inv, ChainInv
  <2>2. \A b \in AnchorRuns : run[b].pc = "idle"
    BY <1>1, <2>1 DEF RunOK
  <2> QED BY <1>2, <2>1, <2>2
<1>5. run'[a] = t
  BY <1>2 DEF t, Inv, ChainInv
<1>6. ReadOK(leaves, t)
  BY <1>2, <1>3 DEF ReadOK
<1>7. AnchorsOK(leaves, anchors)
  BY <1>1 DEF Inv, AloneOK
<1> QED BY <1>1, <1>3, <1>4, <1>5, <1>6, <1>7 DEF AloneOK

LEMMA ReadHeadAlone ==
  ASSUME Inv, NEW a \in AnchorRuns, ReadHead(a), ~ overlapped'
  PROVE  AloneOK(leaves', anchors', run')
<1>0. CoverInv /\ ChainInv /\ Len(leaves) \in Nat /\ DOMAIN run = AnchorRuns
  BY LeafIs DEF Inv, CoverInv, LeavesOK, ChainInv
<1> DEFINE ids == run[a].ids
           lazy == Cardinality(LazyRead(leaves, ids))
<1>1. leaves' = leaves /\ anchors' = anchors /\ ~ overlapped /\ run[a].pc = "head"
  BY <1>0, ReadHeadFollows
<1>2. PICK next : /\ run' = [run EXCEPT ![a] = [pc |-> "commit", ids |-> ids, next |-> next]]
                  /\ next.seq = Len(anchors) + 1 /\ next.root = MerkleRoot(Hashes(leaves, ids))
                  /\ next.totalLeaves = TotalOf(anchors) + Len(ids)
                  /\ next.lazyCount = LazyOf(anchors) + lazy
  BY <1>0, ReadHeadFollows
<1> DEFINE t == [pc |-> "commit", ids |-> ids, next |-> next]
<1>3. t.pc = "commit" /\ t.ids = ids /\ t.next = next /\ run'[a] = t
  BY <1>0, <1>2
<1> HIDE DEF t
<1>4. \A b \in AnchorRuns : b # a => run'[b] = run[b] /\ run[b].pc = "idle"
  <2>1. \A b \in AnchorRuns : b # a => run[b].pc = "idle"
    BY <1>1 DEF Inv, AloneOK
  <2> QED BY <1>0, <1>2, <2>1
<1>5. IsSeq(ids) /\ Ascends(ids) /\ Holds(ids, ReadRange(leaves, ids)) /\ ReadOK(leaves, run[a]) /\ AnchorsOK(leaves, anchors)
  BY <1>1 DEF Inv, ChainInv, RunOK, AloneOK, ReadOK
<1>6. ReadOK(leaves, t)
  BY <1>3, <1>5 DEF ReadOK
<1>7. lazy = Cardinality(LazyIn(leaves, ReadRange(leaves, ids)))
  <2> DEFINE S == ReadRange(leaves, ids)
  <2>1. S \in SUBSET (1..Len(leaves))
    BY DEF ReadRange
  <2>2. IsSeq(ids) /\ Ascends(ids) /\ Holds(ids, S)
    BY <1>5
  <2> HIDE DEF S, ids
  <2>3. Cardinality(LazyRead(leaves, ids)) = Cardinality(LazyIn(leaves, S))
    BY <1>0, <2>1, <2>2, CountOnce
  <2> QED BY <2>3 DEF S
<1> HIDE DEF ids, lazy
<1>8. NextOK(leaves, anchors, t)
  BY <1>2, <1>3, <1>7 DEF NextOK
<1> QED BY <1>1, <1>3, <1>4, <1>5, <1>6, <1>8 DEF AloneOK

\* The leaves marked are those the run has read, so the root is the root of their tree.
LEMMA CommitAlone ==
  ASSUME Inv, NEW a \in AnchorRuns, Commit(a), ~ overlapped'
  PROVE  AloneOK(leaves', anchors', run')
<1> DEFINE t == run[a]
           ids == t.ids
           seq == t.next.seq
           next == t.next
           S == ReadRange(leaves, ids)
           n == Len(leaves)
<1>1. CoverInv /\ ChainInv /\ n \in Nat /\ DOMAIN run = AnchorRuns /\ Len(anchors) \in Nat
  BY LeafIs, SeqFacts DEF Inv, CoverInv, LeavesOK, ChainInv
<1>2. /\ t.pc = "commit" /\ SetRun(a, RunIdle) /\ ~ overlapped /\ seq \in Nat
      /\ \A s \in 1..Len(anchors) : anchors'[s] = anchors[s]
      /\ ~ (seq <= Len(anchors)) => /\ Len(anchors') = Len(anchors) + 1
                                    /\ anchors'[Len(anchors) + 1] = next
  BY <1>1, CommitIs
<1>3. AloneOK(leaves, anchors, run)
  BY <1>2 DEF Inv
<1>4. ReadOK(leaves, t) /\ NextOK(leaves, anchors, t) /\ AnchorsOK(leaves, anchors) /\ IsSeq(ids)
  BY <1>1, <1>2, <1>3 DEF AloneOK, ChainInv, RunOK
<1>5. seq = Len(anchors) + 1 /\ Len(anchors') = Len(anchors) + 1 /\ anchors'[seq] = next
  BY <1>1, <1>2, <1>4 DEF NextOK
<1>6. \A b \in AnchorRuns : run'[b].pc = "idle"
  <2>1. \A b \in AnchorRuns : b # a => run[b].pc = "idle"
    BY <1>2, <1>3 DEF AloneOK
  <2>2. run' = [run EXCEPT ![a] = RunIdle]
    BY <1>2 DEF SetRun
  <2> QED BY <1>1, <2>1, <2>2, IdleRunOK
<1>7. PICK won \in BOOLEAN :
        /\ won = (anchors'[seq] = next)
        /\ leaves' \in Seq(Leaf) /\ Len(leaves') = n
        /\ \A i \in 1..n :
             /\ leaves'[i].kind = leaves[i].kind /\ leaves'[i].sid = leaves[i].sid
             /\ leaves'[i].order = leaves[i].order
             /\ leaves'[i].anchor = IF won /\ InRange(i, ids) THEN seq ELSE leaves[i].anchor
  BY <1>1, CommitMarks
<1>8. \A i \in 1..n : InRange(i, ids) <=> i \in S
  BY DEF InRange, ReadRange
<1>9. \A i \in 1..n : leaves'[i].anchor = IF i \in S THEN seq ELSE leaves[i].anchor
  BY <1>5, <1>7, <1>8
<1>10. \A i \in 1..n : leaves[i].anchor \in 0..Len(anchors) /\ (i \in S => leaves[i].anchor = 0)
  BY <1>1 DEF ChainInv, ReadRange
<1>11. Grows(leaves, leaves')
  BY <1>1, <1>7 DEF Grows
<1>12. S \in SUBSET (1..n) /\ Marked(leaves) \in SUBSET (1..n) /\ Marked(leaves) \cap S = {}
  BY <1>10 DEF ReadRange, Marked
<1>13. Ascends(ids) /\ Holds(ids, S)
  BY <1>4 DEF ReadOK
<1>14. /\ next.root = MerkleRoot(Hashes(leaves, ids))
       /\ next.totalLeaves = TotalOf(anchors) + Len(ids)
       /\ next.lazyCount = LazyOf(anchors) + Cardinality(LazyIn(leaves, S))
  BY <1>4 DEF NextOK
<1> HIDE DEF S, n, seq, next, ids, t
<1>15. MarkedBy(leaves', seq) = S
  <2>1. \A i \in 1..n : leaves'[i].anchor = seq <=> i \in S
    BY <1>1, <1>5, <1>9, <1>10
  <2> QED BY <1>7, <1>12, <2>1 DEF MarkedBy
<1>16. ASSUME NEW s \in 1..Len(anchors) PROVE MarkedBy(leaves', s) = MarkedBy(leaves, s)
  <2>1. s # seq /\ s # 0
    BY <1>1, <1>5
  <2>2. \A i \in 1..n : leaves'[i].anchor = s <=> leaves[i].anchor = s
    BY <1>9, <1>10, <2>1
  <2> QED BY <1>7, <2>2 DEF MarkedBy, n
<1>17. Marked(leaves') = Marked(leaves) \cup S
  <2>1. seq # 0
    BY <1>1, <1>5
  <2>2. \A i \in 1..n : leaves'[i].anchor # 0 <=> leaves[i].anchor # 0 \/ i \in S
    BY <1>9, <2>1
  <2> QED BY <1>7, <1>12, <2>2 DEF Marked, n
<1>18. ASSUME NEW s \in 1..Len(anchors')
       PROVE  anchors'[s].root = MerkleRoot(Hashes(leaves', InOrder(MarkedBy(leaves', s))))
  <2>1. CASE s \in 1..Len(anchors)
    <3> DEFINE js == InOrder(MarkedBy(leaves, s))
    <3>1. anchors'[s] = anchors[s] /\ anchors[s].root = MerkleRoot(Hashes(leaves, js))
      BY <1>2, <1>4, <2>1 DEF AnchorsOK
    <3>2. \A k \in 1..Len(js) : js[k] \in 1..Len(leaves)
      BY <1>1, MarkedInOrder DEF n
    <3>3. Hashes(leaves', js) = Hashes(leaves, js)
      BY <1>11, <3>2, HashesStay
    <3> QED BY <1>16, <2>1, <3>1, <3>3
  <2>2. CASE s \notin 1..Len(anchors)
    <3>1. s = seq
      BY <1>1, <1>5, <2>2
    <3>2. InOrder(S) = ids
      BY <1>1, <1>4, <1>12, <1>13, CountOnce DEF ids, t
    <3>3. \A k \in 1..Len(ids) : ids[k] \in 1..Len(leaves)
      BY <1>12, <1>13 DEF Holds, n
    <3>4. Hashes(leaves', ids) = Hashes(leaves, ids)
      BY <1>11, <3>3, HashesStay
    <3> QED BY <1>5, <1>14, <1>15, <3>1, <3>2, <3>4
  <2> QED BY <2>1, <2>2
<1>19. TotalOf(anchors') = next.totalLeaves /\ LazyOf(anchors') = next.lazyCount
  <2>1. Len(anchors') # 0 /\ anchors'[Len(anchors')] = next
    BY <1>1, <1>5
  <2> QED BY <2>1 DEF TotalOf, LazyOf
<1>20. Len(ids) = Cardinality(S)
  BY <1>1, <1>4, <1>12, <1>13, CountOnce DEF ids, t
<1>21. TotalOf(anchors') = Cardinality(Marked(leaves'))
  <2>1. Cardinality(Marked(leaves) \cup S) = Cardinality(Marked(leaves)) + Cardinality(S)
    BY <1>1, <1>12, SumOfBoth
  <2>2. TotalOf(anchors) = Cardinality(Marked(leaves))
    BY <1>4 DEF AnchorsOK
  <2> QED BY <1>14, <1>17, <1>19, <1>20, <2>1, <2>2
<1>22. LazyOf(anchors') = Cardinality(LazyIn(leaves', Marked(leaves')))
  <2> DEFINE X == LazyIn(leaves, Marked(leaves))
             Y == LazyIn(leaves, S)
  <2>1. X \in SUBSET (1..n) /\ Y \in SUBSET (1..n) /\ X \cap Y = {}
    BY <1>12 DEF LazyIn
  <2>2. LazyIn(leaves', Marked(leaves')) = X \cup Y
    <3>1. LazyIn(leaves', Marked(leaves')) = LazyIn(leaves, Marked(leaves'))
      BY <1>11, <1>12, <1>17, LazyStay DEF n
    <3> QED BY <1>17, <3>1 DEF LazyIn
  <2>3. LazyOf(anchors) = Cardinality(X)
    BY <1>4 DEF AnchorsOK
  <2> HIDE DEF X, Y
  <2>4. Cardinality(X \cup Y) = Cardinality(X) + Cardinality(Y)
    BY <1>1, <2>1, SumOfBoth
  <2> QED BY <1>14, <1>19, <2>2, <2>3, <2>4 DEF Y
<1>23. AnchorsOK(leaves', anchors')
  BY <1>18, <1>21, <1>22 DEF AnchorsOK
<1> QED BY <1>6, <1>23 DEF AloneOK

LEMMA AloneStep ==
  ASSUME Inv, [Next]_vars, ~ overlapped'
  PROVE  AloneOK(leaves', anchors', run')
<1>0. CoverInv /\ ChainInv /\ CoverInv'
  BY CoverStep DEF Inv
<1>1. /\ row \in [Orders -> Row] /\ Len(leaves) \in Nat /\ Len(leaves') \in Nat /\ Len(anchors) \in Nat
      /\ DOMAIN run = AnchorRuns
  BY <1>0, LeafIs, SeqFacts DEF CoverInv, LeavesOK, ChainInv
<1>2. ASSUME Extends(leaves, leaves'), anchors' = anchors, run' = run, overlapped' = overlapped
      PROVE  AloneOK(leaves', anchors', run')
  <2>1. AloneOK(leaves, anchors, run)
    BY <1>2 DEF Inv
  <2>2. \A a \in AnchorRuns : /\ run[a].pc # "idle" => IsSeq(run[a].ids)
                              /\ run[a].pc = "commit" => run[a].pc # "idle"
    BY <1>0 DEF ChainInv, RunOK
  <2>3. AloneOK(leaves', anchors, run)
    BY <1>1, <1>2, <2>1, <2>2, AloneStays
  <2> QED BY <1>2, <2>3
<1>3. Extends(leaves, leaves)
  BY <1>1, GrowsSame
<1>4. CASE UNCHANGED vars
  BY <1>2, <1>3, <1>4 DEF vars
<1>5. ASSUME NEW o \in Orders, RailStep(o) \/ \E own \in BOOLEAN : Forward(o, own)
      PROVE  AloneOK(leaves', anchors', run')
  <2>1. leaves' = leaves /\ anchors' = anchors /\ run' = run /\ overlapped' = overlapped
    BY <1>1, <1>5, RailKeepsRows
  <2>2. Extends(leaves, leaves')
    BY <1>3, <2>1
  <2> QED BY <1>2, <2>1, <2>2
<1>6. ASSUME NEW l \in Linkers, LinkStep(l) \/ \E s \in Sids \cup {Plain} : LinkReceipts(l, s)
      PROVE  AloneOK(leaves', anchors', run')
  <2>1. Extends(leaves, leaves')
    BY <1>0, <1>6, LinkReceiptsKeeps, InsertDirectKeeps, ReadWindowKeeps, ReadCoverableKeeps, InsertLazyKeeps DEF LinkStep
  <2>2. anchors' = anchors /\ run' = run /\ overlapped' = overlapped
    BY <1>6 DEF LinkStep, LinkReceipts, InsertDirect, ReadWindow, ReadCoverable, InsertLazy, OnlyLink, anchorVars
  <2> QED BY <1>2, <2>1, <2>2
<1>7. ASSUME NEW a \in AnchorRuns, ReadPending(a) \/ AnchorStep(a) PROVE AloneOK(leaves', anchors', run')
  BY <1>7, ReadPendingAlone, ReadHeadAlone, CommitAlone DEF AnchorStep
<1>8. CASE Evict
  <2>1. leaves' = leaves /\ anchors' = anchors /\ overlapped' = overlapped
    BY <1>8 DEF Evict
  <2>2. CASE run' = run
    <3>1. Extends(leaves, leaves')
      BY <1>3, <2>1
    <3> QED BY <1>2, <2>1, <2>2, <3>1
  <2>3. ASSUME NEW a \in AnchorRuns, SetRun(a, RunIdle) PROVE AloneOK(leaves', anchors', run')
    <3>1. AloneOK(leaves, anchors, run)
      BY <2>1 DEF Inv
    <3>2. \A b \in AnchorRuns : run'[b] = run[b] \/ run'[b].pc = "idle"
      BY <1>1, <2>3, IdleRunOK DEF SetRun
    <3>3. AloneOK(leaves, anchors, run')
      BY <3>1, <3>2 DEF AloneOK
    <3> QED BY <2>1, <3>3
  <2> QED BY <1>8, <2>2, <2>3 DEF Evict
<1> QED BY <1>4, <1>5, <1>6, <1>7, <1>8, Zenon DEF Next

-----------------------------------------------------------------------------
(* What has been given out, also when runs overlap *)

\* A hash of a leaf is neither a pair nor the root of nothing.
IsLeafHash(x) == x # Zero /\ \A a, b : x # HashPair(a, b)

LEMMA LeafHashIs ==
  ASSUME NEW l PROVE IsLeafHash(LeafHash(l))
<1>1. LeafHash(l)[1] = "leaf" /\ Zero[1] = "zero"
  BY DEF LeafHash, Zero
<1>2. \A a, b : HashPair(a, b)[1] = "pair"
  BY DEF HashPair
<1> QED BY <1>1, <1>2 DEF IsLeafHash

LEMMA PairIsNotZero == \A a, b : HashPair(a, b) # Zero
<1>1. Zero[1] = "zero"
  BY DEF Zero
<1>2. \A a, b : HashPair(a, b)[1] = "pair"
  BY DEF HashPair
<1> QED BY <1>1, <1>2

LEMMA PairTells ==
  ASSUME NEW a, NEW b, NEW c, NEW d, HashPair(a, b) = HashPair(c, d)
  PROVE  a \in {c, d}
<1>1. HashPair(a, b)[2] = {a, b} /\ HashPair(c, d)[2] = {c, d}
  BY DEF HashPair
<1> QED BY <1>1

\* A node is a pair of two below it, or one of them carried up, and every node below is
\* in one above.
LEMMA NodesOf ==
  ASSUME NEW level, IsSeq(level), Len(level) >= 1
  PROVE  LET next == NextLevel(level)
         IN /\ \A k \in 1..Len(next) :
                 \E i, j \in 1..Len(level) : next[k] = level[i] \/ next[k] = HashPair(level[i], level[j])
            /\ \A i \in 1..Len(level) :
                 \E k \in 1..Len(next), j \in 1..Len(level) :
                   next[k] = level[i] \/ next[k] = HashPair(level[i], level[j])
<1> DEFINE n == Len(level)
           m == (n + 1) \div 2
           next == NextLevel(level)
<1>0. n \in Nat /\ Len(next) = m
  BY SeqFacts, NextLevelIs
<1>1. \A k \in 1..m : next[k] = IF 2 * k <= n THEN HashPair(level[2 * k - 1], level[2 * k]) ELSE level[2 * k - 1]
  <2> HIDE DEF m
  <2>1. next = [k \in 1..m |-> IF 2 * k <= n THEN HashPair(level[2 * k - 1], level[2 * k]) ELSE level[2 * k - 1]]
    BY DEF NextLevel, m
  <2> HIDE DEF next
  <2> QED BY <2>1
<1> HIDE DEF next, n
<1>2. ASSUME NEW k \in 1..m
      PROVE  \E i, j \in 1..n : next[k] = level[i] \/ next[k] = HashPair(level[i], level[j])
  <2>1. 2 * k - 1 \in 1..n
    BY <1>0
  <2>2. CASE 2 * k <= n
    <3>1. 2 * k \in 1..n
      BY <1>0, <2>2
    <3> HIDE DEF m
    <3>2. next[k] = HashPair(level[2 * k - 1], level[2 * k])
      BY <1>1, <2>2
    <3> QED BY <2>1, <3>1, <3>2
  <2>3. CASE ~ (2 * k <= n)
    <3> HIDE DEF m
    <3>1. next[k] = level[2 * k - 1]
      BY <1>1, <2>3
    <3> QED BY <2>1, <3>1
  <2> QED BY <2>2, <2>3
<1>3. ASSUME NEW i \in 1..n
      PROVE  \E k \in 1..m, j \in 1..n : next[k] = level[i] \/ next[k] = HashPair(level[i], level[j])
  <2> DEFINE k == (i + 1) \div 2
  <2>1. /\ i \in Nat /\ k \in 1..m /\ (i % 2 = 1 => 2 * k = i + 1) /\ (i % 2 # 1 => 2 * k = i /\ i - 1 \in 1..n)
    BY <1>0, Sides
  <2> HIDE DEF k, m
  <2>2. CASE i % 2 = 1
    <3>1. 2 * k - 1 = i
      BY <2>1, <2>2
    <3>2. CASE i + 1 <= n
      <4>1. 2 * k <= n /\ 2 * k = i + 1 /\ i + 1 \in 1..n
        BY <1>0, <2>1, <2>2, <3>2
      <4>2. next[k] = HashPair(level[2 * k - 1], level[2 * k])
        BY <1>1, <2>1, <4>1
      <4>3. next[k] = HashPair(level[i], level[i + 1])
        BY <3>1, <4>1, <4>2
      <4> QED BY <2>1, <4>1, <4>3
    <3>3. CASE ~ (i + 1 <= n)
      <4>1. ~ (2 * k <= n)
        BY <2>1, <2>2, <3>3
      <4>2. next[k] = level[2 * k - 1]
        BY <1>1, <2>1, <4>1
      <4> QED BY <2>1, <3>1, <4>2
    <3> QED BY <3>2, <3>3
  <2>3. CASE i % 2 # 1
    <3>1. 2 * k = i /\ i <= n /\ i - 1 \in 1..n
      BY <1>0, <2>1, <2>3
    <3>2. next[k] = HashPair(level[i - 1], level[i])
      BY <1>1, <2>1, <3>1
    <3>3. next[k] = HashPair(level[i], level[i - 1])
      BY <3>2, PairSorted
    <3> QED BY <2>1, <3>1, <3>3
  <2> QED BY <2>2, <2>3
<1> QED BY <1>0, <1>2, <1>3 DEF next, n

Node(h, x) == \E d \in 0..Len(h) : \E k \in 1..Len(Levels(h)[d]) : Levels(h)[d][k] = x

\* Every node of a tree is a leaf of it or a pair of two of its nodes.
LEMMA NodeIs ==
  ASSUME NEW h, IsSeq(h), Len(h) >= 1, NEW x, Node(h, x)
  PROVE  \/ \E k \in 1..Len(h) : h[k] = x
         \/ \E a, b : x = HashPair(a, b) /\ Node(h, a) /\ Node(h, b)
<1> DEFINE N == Len(h)
           up == Levels(h)
           Is(y) == \/ \E k \in 1..N : h[k] = y
                    \/ \E a, b : y = HashPair(a, b) /\ Node(h, a) /\ Node(h, b)
           Good(d) == \A k \in 1..Len(up[d]) : Is(up[d][k])
           G == {d \in Nat : d <= N => Good(d)}
<1>0. N \in Nat
  BY SeqFacts
<1>1. up[0] = h /\ \A d \in 1..N : up[d] = NextLevel(up[d - 1])
  BY LevelsAre
<1>2. \A d \in 0..N : IsSeq(up[d]) /\ Len(up[d]) >= 1
  BY LevelsShrink
<1>3. \A d \in 0..N : \A k \in 1..Len(up[d]) : Node(h, up[d][k])
  BY DEF Node
<1> HIDE DEF up
<1>4. 0 \in G
  BY <1>1
<1>5. ASSUME NEW d \in Nat, d \in G, d + 1 <= N PROVE Good(d + 1)
  <2>1. d \in 0..N /\ d + 1 \in 1..N /\ (d + 1) - 1 = d /\ d <= N
    BY <1>0, <1>5
  <2>2. Good(d)
    BY <1>5, <2>1
  <2>3. up[d + 1] = NextLevel(up[d]) /\ IsSeq(up[d]) /\ Len(up[d]) >= 1
    BY <1>1, <1>2, <2>1
  <2> SUFFICES ASSUME NEW k \in 1..Len(up[d + 1]) PROVE Is(up[d + 1][k])
    OBVIOUS
  <2>4. PICK i \in 1..Len(up[d]), j \in 1..Len(up[d]) :
           up[d + 1][k] = up[d][i] \/ up[d + 1][k] = HashPair(up[d][i], up[d][j])
    <3> DEFINE level == up[d]
               next == up[d + 1]
    <3>1. next = NextLevel(level) /\ IsSeq(level) /\ Len(level) >= 1
      BY <2>3
    <3> HIDE DEF level, next
    <3>2. \A l \in 1..Len(next) :
            \E i, j \in 1..Len(level) : next[l] = level[i] \/ next[l] = HashPair(level[i], level[j])
      BY <3>1, NodesOf
    <3> QED BY <3>2 DEF level, next
  <2>5. Is(up[d][i]) /\ Node(h, up[d][i]) /\ Node(h, up[d][j])
    BY <1>3, <2>1, <2>2
  <2> QED BY <2>4, <2>5
<1>6. \A d \in Nat : d \in G
  <2>1. \A d \in Nat : d \in G => d + 1 \in G
    <3> HIDE DEF Good
    <3> QED BY ONLY <1>5
  <2> HIDE DEF G
  <2> QED BY <1>4, <2>1, CountingUp
<1>7. PICK d \in 0..N : \E k \in 1..Len(up[d]) : up[d][k] = x
  BY DEF Node, up
<1>8. Good(d)
  BY <1>0, <1>6
<1>9. Is(x)
  <2> HIDE DEF Is
  <2> QED BY <1>7, <1>8
<1> QED BY <1>9

\* The root tells the leaves: whoever has the same root has them all.
THEOREM RootTells ==
  ASSUME NEW h, IsSeq(h), Len(h) >= 1, NEW g, IsSeq(g), MerkleRoot(h) = MerkleRoot(g),
         \A k \in 1..Len(h) : IsLeafHash(h[k]), \A k \in 1..Len(g) : IsLeafHash(g[k])
  PROVE  \A k \in 1..Len(h) : \E j \in 1..Len(g) : g[j] = h[k]
<1> DEFINE N == Len(h)
           up == Levels(h)
<1>0. N \in Nat /\ N >= 1 /\ h # << >> /\ Len(g) \in Nat
  BY SeqFacts
<1>1. up[0] = h /\ \A d \in 1..N : up[d] = NextLevel(up[d - 1])
  BY LevelsAre
<1>2. /\ \A d \in 0..N : IsSeq(up[d]) /\ Len(up[d]) >= 1
      /\ Len(up[N]) = 1
  BY <1>0, LevelsShrink
<1>3. MerkleRoot(h) = up[N][1]
  BY <1>0 DEF MerkleRoot
<1>4. Node(h, MerkleRoot(h))
  <2>1. N \in 0..N /\ 1 \in 1..Len(up[N])
    BY <1>0, <1>2
  <2> QED BY <1>3, <2>1 DEF Node
<1>5. MerkleRoot(h) # Zero
  <2>1. \A k \in 1..N : h[k] # Zero
    BY DEF IsLeafHash
  <2> HIDE DEF N, up
  <2> QED BY <1>4, <2>1, NodeIs, PairIsNotZero DEF N
<1>6. Len(g) >= 1
  <2>1. g # << >>
    BY <1>5 DEF MerkleRoot
  <2> QED BY <1>0, <2>1, SeqFacts
<1>7. Node(g, MerkleRoot(g))
  <2>1. Len(Levels(g)[Len(g)]) = 1 /\ MerkleRoot(g) = Levels(g)[Len(g)][1]
    BY <1>0, <1>6, LevelsShrink, SeqFacts DEF MerkleRoot
  <2>2. Len(g) \in 0..Len(g) /\ 1 \in 1..Len(Levels(g)[Len(g)])
    BY <1>0, <2>1
  <2> QED BY <2>1, <2>2 DEF Node
<1> DEFINE Known(d) == \A k \in 1..Len(up[d]) : Node(g, up[d][k])
           G == {m \in Nat : m <= N => Known(N - m)}
<1> HIDE DEF up, N
<1>8. 0 \in G
  <2>1. N - 0 = N
    BY <1>0
  <2>2. Known(N)
    BY <1>2, <1>3, <1>7
  <2> QED BY <2>1, <2>2
<1>9. ASSUME NEW m \in Nat, m \in G, m + 1 <= N PROVE Known(N - (m + 1))
  <2> DEFINE d == N - (m + 1)
  <2>1. d + 1 = N - m /\ m <= N /\ d \in 0..N /\ d + 1 \in 1..N /\ (d + 1) - 1 = d
    BY <1>0, <1>9
  <2>2. Known(N - m)
    BY <1>9, <2>1
  <2> HIDE DEF d
  <2>3. Known(d + 1)
    BY <2>1, <2>2
  <2>4. up[d + 1] = NextLevel(up[d]) /\ IsSeq(up[d]) /\ Len(up[d]) >= 1
    BY <1>1, <1>2, <2>1
  <2>5. ASSUME NEW i \in 1..Len(up[d]) PROVE Node(g, up[d][i])
    <3>1. PICK k \in 1..Len(up[d + 1]), j \in 1..Len(up[d]) :
             up[d + 1][k] = up[d][i] \/ up[d + 1][k] = HashPair(up[d][i], up[d][j])
      <4> DEFINE level == up[d]
                 next == up[d + 1]
      <4>1. next = NextLevel(level) /\ IsSeq(level) /\ Len(level) >= 1
        BY <2>4
      <4> HIDE DEF level, next
      <4>2. \A l \in 1..Len(level) :
              \E k \in 1..Len(next), j \in 1..Len(level) :
                next[k] = level[l] \/ next[k] = HashPair(level[l], level[j])
        BY <4>1, NodesOf
      <4> QED BY <4>2 DEF level, next
    <3>2. Node(g, up[d + 1][k])
      BY <2>3
    <3>3. CASE up[d + 1][k] = up[d][i]
      BY <3>2, <3>3
    <3>4. CASE up[d + 1][k] = HashPair(up[d][i], up[d][j])
      <4> DEFINE x == up[d + 1][k]
                 y == up[d][i]
                 z == up[d][j]
      <4>1. x = HashPair(y, z) /\ Node(g, x)
        BY <3>2, <3>4
      <4> HIDE DEF x, y, z
      <4>2. ~ \E l \in 1..Len(g) : g[l] = x
        BY <4>1 DEF IsLeafHash
      <4>3. PICK a, b : x = HashPair(a, b) /\ Node(g, a) /\ Node(g, b)
        BY <1>6, <4>1, <4>2, NodeIs
      <4>4. y \in {a, b}
        BY <4>1, <4>3, PairTells
      <4> QED BY <4>3, <4>4 DEF y
    <3> QED BY <3>1, <3>3, <3>4
  <2>6. Known(d)
    BY <2>5
  <2> QED BY <2>6 DEF d
<1>10. \A m \in Nat : m \in G
  <2>1. \A m \in Nat : m \in G => m + 1 \in G
    <3> HIDE DEF Known
    <3> QED BY ONLY <1>9
  <2> HIDE DEF G
  <2> QED BY <1>8, <2>1, CountingUp
<1>11. Known(0)
  <2>1. N - N = 0
    BY <1>0
  <2>2. Known(N - N)
    BY <1>0, <1>10
  <2> QED BY <2>1, <2>2
<1>12. ASSUME NEW k \in 1..Len(h) PROVE \E j \in 1..Len(g) : g[j] = h[k]
  <2>1. Node(g, h[k])
    BY <1>1, <1>11
  <2>2. \A a, b : h[k] # HashPair(a, b)
    BY DEF IsLeafHash
  <2> QED BY <1>6, <2>1, <2>2, NodeIs
<1> QED BY <1>12

\* What a run has read, whoever else is under way: its leaves, and every pending one among
\* them.
HeldBy(L, ids) ==
  /\ Ascends(ids) /\ \A k \in 1..Len(ids) : ids[k] \in 1..Len(L)
  /\ \A i \in ReadRange(L, ids) : \E k \in 1..Len(ids) : ids[k] = i

\* The root of an anchor is that of leaves which are all anchored.
Kept(L, root) ==
  \E js : /\ IsSeq(js) /\ \A k \in 1..Len(js) : js[k] \in 1..Len(L) /\ L[js[k]].anchor # 0
          /\ root = MerkleRoot(Hashes(L, js))

GivenInv ==
  /\ \A a \in AnchorRuns : run[a].pc # "idle" => HeldBy(leaves, run[a].ids)
  /\ \A a \in AnchorRuns : run[a].pc = "commit" => run[a].next.root = MerkleRoot(Hashes(leaves, run[a].ids))
  /\ \A s \in 1..Len(anchors) : Kept(leaves, anchors[s].root)

\* Leaves grow, and one that is anchored stays where it is.
Ages(L, M) == Grows(L, M) /\ \A i \in 1..Len(L) : L[i].anchor # 0 => M[i].anchor = L[i].anchor

LEMMA ExtendsAges == ASSUME NEW L, NEW M, Extends(L, M) PROVE Ages(L, M)
  BY DEF Extends, Ages, Grows

LEMMA HeldStays ==
  ASSUME NEW L, NEW M, Len(L) \in Nat, Len(M) \in Nat, Ages(L, M), NEW ids, IsSeq(ids), HeldBy(L, ids)
  PROVE  HeldBy(M, ids) /\ Hashes(M, ids) = Hashes(L, ids)
<1>1. Grows(L, M)
  BY DEF Ages
<1>2. \A k \in 1..Len(ids) : ids[k] \in 1..Len(L) /\ ids[k] \in 1..Len(M)
  BY <1>1 DEF HeldBy, Grows
<1>3. ASSUME NEW i \in ReadRange(M, ids) PROVE \E k \in 1..Len(ids) : ids[k] = i
  <2>1. i \in 1..Len(M) /\ ids # << >> /\ M[i].anchor = 0 /\ ids[1] <= i /\ i <= Last(ids)
    BY DEF ReadRange
  <2>2. Last(ids) \in 1..Len(L)
    <3>1. Len(ids) \in 1..Len(ids)
      BY <2>1, SeqFacts
    <3> QED BY <1>2, <3>1 DEF Last
  <2>3. i \in 1..Len(L)
    BY <2>1, <2>2
  <2>4. L[i].anchor = 0
    BY <2>1, <2>3 DEF Ages
  <2>5. i \in ReadRange(L, ids)
    BY <2>1, <2>3, <2>4 DEF ReadRange
  <2> QED BY <2>5 DEF HeldBy
<1>4. Hashes(M, ids) = Hashes(L, ids)
  BY <1>1, <1>2, HashesStay
<1> QED BY <1>2, <1>3, <1>4 DEF HeldBy

LEMMA KeptStays ==
  ASSUME NEW L, NEW M, Len(L) \in Nat, Len(M) \in Nat, Ages(L, M), NEW root, Kept(L, root)
  PROVE  Kept(M, root)
<1>1. PICK js : /\ IsSeq(js) /\ \A k \in 1..Len(js) : js[k] \in 1..Len(L) /\ L[js[k]].anchor # 0
                /\ root = MerkleRoot(Hashes(L, js))
  BY DEF Kept
<1>2. Hashes(M, js) = Hashes(L, js)
  BY <1>1, HashesStay DEF Ages
<1>3. \A k \in 1..Len(js) : js[k] \in 1..Len(M) /\ M[js[k]].anchor # 0
  BY <1>1 DEF Ages, Grows
<1> QED BY <1>1, <1>2, <1>3 DEF Kept

\* A run whose row is there already, because another has written the same, marks nothing
\* more: the same root is of the same leaves, and those are anchored.
LEMMA NothingNew ==
  ASSUME CoverInv, ChainInv, GivenInv, NEW a \in AnchorRuns, run[a].pc = "commit",
         NEW s \in 1..Len(anchors), anchors[s] = run[a].next, NEW i \in 1..Len(leaves)
  PROVE  ~ InRange(i, run[a].ids)
<1> DEFINE ids == run[a].ids
           h == Hashes(leaves, ids)
<1> SUFFICES ASSUME InRange(i, ids) PROVE FALSE
  OBVIOUS
<1>1. /\ Len(leaves) \in Nat /\ IsSeq(ids) /\ HeldBy(leaves, ids) /\ leaves \in Seq(Leaf)
      /\ \A j, k \in 1..Len(leaves) : leaves[j].order = leaves[k].order => j = k
  BY LeafIs DEF CoverInv, LeavesOK, ChainInv, RunOK, GivenInv
<1>2. i \in ReadRange(leaves, ids) /\ leaves[i].anchor = 0
  BY DEF InRange, ReadRange
<1>3. PICK k \in 1..Len(ids) : ids[k] = i
  BY <1>1, <1>2 DEF HeldBy
<1>4. PICK js : /\ IsSeq(js) /\ \A j \in 1..Len(js) : js[j] \in 1..Len(leaves) /\ leaves[js[j]].anchor # 0
                /\ anchors[s].root = MerkleRoot(Hashes(leaves, js))
  BY DEF GivenInv, Kept
<1> DEFINE g == Hashes(leaves, js)
<1>5. MerkleRoot(h) = MerkleRoot(g)
  BY <1>4 DEF GivenInv
<1>6. ASSUME NEW q, IsSeq(q)
      PROVE  LET x == Hashes(leaves, q)
             IN IsSeq(x) /\ Len(x) = Len(q) /\ \A j \in 1..Len(q) : x[j] = LeafHash(leaves[q[j]]) /\ IsLeafHash(x[j])
  <2> DEFINE x == Hashes(leaves, q)
             T == {LeafHash(leaves[q[j]]) : j \in 1..Len(q)}
  <2>1. x \in [1..Len(q) -> T] /\ \A j \in 1..Len(q) : x[j] = LeafHash(leaves[q[j]])
    BY DEF Hashes
  <2>2. Len(q) \in Nat
    BY <1>6, SeqFacts
  <2>3. \A j \in 1..Len(q) : IsLeafHash(x[j])
    BY <2>1, LeafHashIs
  <2> HIDE DEF x, T
  <2>4. IsSeq(x) /\ Len(x) = Len(q)
    BY <2>1, <2>2, FunctionIsSeq
  <2> QED BY <2>1, <2>3, <2>4 DEF x
<1>7. /\ IsSeq(h) /\ Len(h) = Len(ids) /\ \A j \in 1..Len(h) : IsLeafHash(h[j])
      /\ h[k] = LeafHash(leaves[i])
  BY <1>1, <1>3, <1>6
<1>8. /\ IsSeq(g) /\ Len(g) = Len(js) /\ \A j \in 1..Len(g) : IsLeafHash(g[j])
      /\ \A j \in 1..Len(g) : g[j] = LeafHash(leaves[js[j]])
  BY <1>4, <1>6
<1>9. Len(h) >= 1 /\ k \in 1..Len(h)
  BY <1>1, <1>3, <1>7, SeqFacts
<1> HIDE DEF h, g
<1>10. PICK j \in 1..Len(g) : g[j] = h[k]
  <2>1. IsSeq(h) /\ Len(h) >= 1 /\ IsSeq(g) /\ MerkleRoot(h) = MerkleRoot(g)
    BY <1>5, <1>7, <1>8, <1>9
  <2>2. \A l \in 1..Len(h) : \E m \in 1..Len(g) : g[m] = h[l]
    <3>1. \A l \in 1..Len(h) : IsLeafHash(h[l])
      BY <1>7
    <3>2. \A l \in 1..Len(g) : IsLeafHash(g[l])
      BY <1>8
    <3> QED BY ONLY <2>1, <3>1, <3>2, RootTells, ZenonT(60)
  <2> QED BY <1>9, <2>2
<1>11. LeafHash(leaves[js[j]]) = LeafHash(leaves[i])
  BY <1>7, <1>8, <1>10
<1>12. leaves[js[j]].order = leaves[i].order
  BY <1>11 DEF LeafHash
<1>13. js[j] = i
  BY <1>1, <1>4, <1>8, <1>12
<1> QED BY <1>2, <1>4, <1>8, <1>13

\* What any step does to the leaves: those of an anchor stay its leaves, and no more join.
LEMMA LeavesAge ==
  ASSUME CoverInv, ChainInv, GivenInv, [Next]_vars
  PROVE  /\ Ages(leaves, leaves')
         /\ \A s \in 1..Len(anchors) : MarkedBy(leaves', s) = MarkedBy(leaves, s)
<1>0. CoverInv'
  BY CoverStep
<1>1. /\ row \in [Orders -> Row] /\ Len(leaves) \in Nat /\ Len(leaves') \in Nat /\ Len(anchors) \in Nat
      /\ leaves \in Seq(Leaf) /\ leaves' \in Seq(Leaf)
  BY <1>0, LeafIs, SeqFacts DEF CoverInv, LeavesOK, ChainInv
<1> DEFINE Goal == /\ Ages(leaves, leaves')
                   /\ \A s \in 1..Len(anchors) : MarkedBy(leaves', s) = MarkedBy(leaves, s)
<1>2. ASSUME Extends(leaves, leaves') PROVE Goal
  <2>1. Ages(leaves, leaves')
    BY <1>2, ExtendsAges
  <2>2. ASSUME NEW s \in 1..Len(anchors), NEW i PROVE i \in MarkedBy(leaves', s) <=> i \in MarkedBy(leaves, s)
    <3>1. i \in 1..Len(leaves') => i \in 1..Len(leaves) \/ i \in (Len(leaves) + 1)..Len(leaves')
      BY <1>1
    <3>2. i \in 1..Len(leaves) => i \in 1..Len(leaves') /\ leaves'[i] = leaves[i]
      BY <1>1, <1>2 DEF Extends
    <3>3. i \in (Len(leaves) + 1)..Len(leaves') => leaves'[i].anchor = 0
      BY <1>2 DEF Extends
    <3>4. s # 0
      OBVIOUS
    <3> QED BY <3>1, <3>2, <3>3, <3>4 DEF MarkedBy
  <2>3. \A s \in 1..Len(anchors) : MarkedBy(leaves', s) = MarkedBy(leaves, s)
    BY <2>2
  <2> QED BY <2>1, <2>3
<1>3. ASSUME leaves' = leaves PROVE Goal
  <2>1. Extends(leaves, leaves)
    BY <1>1, GrowsSame
  <2>2. Extends(leaves, leaves')
    BY <1>3, <2>1
  <2> QED BY <1>2, <2>2
<1>4. ASSUME UNCHANGED vars PROVE Goal
  BY <1>3, <1>4 DEF vars
<1>5. ASSUME NEW o \in Orders, RailStep(o) \/ \E own \in BOOLEAN : Forward(o, own) PROVE Goal
  <2>1. leaves' = leaves
    BY <1>1, <1>5, RailKeepsRows
  <2> HIDE DEF Goal
  <2> QED BY <1>3, <2>1
<1>6. ASSUME NEW l \in Linkers, LinkStep(l) \/ \E s \in Sids \cup {Plain} : LinkReceipts(l, s) PROVE Goal
  <2>1. Extends(leaves, leaves')
    BY <1>6, LinkReceiptsKeeps, InsertDirectKeeps, ReadWindowKeeps, ReadCoverableKeeps, InsertLazyKeeps DEF LinkStep
  <2> HIDE DEF Goal
  <2> QED BY <1>2, <2>1
<1>7. ASSUME NEW a \in AnchorRuns, ReadPending(a) \/ ReadHead(a) PROVE Goal
  <2>1. leaves' = leaves
    BY <1>7 DEF ReadPending, ReadHead
  <2> HIDE DEF Goal
  <2> QED BY <1>3, <2>1
<1>8. ASSUME NEW a \in AnchorRuns, Commit(a) PROVE Goal
  <2> DEFINE seq == run[a].next.seq
             ids == run[a].ids
  <2>1. PICK won \in BOOLEAN :
           /\ won = (anchors'[seq] = run[a].next)
           /\ Len(leaves') = Len(leaves)
           /\ \A i \in 1..Len(leaves) :
                /\ leaves'[i].kind = leaves[i].kind /\ leaves'[i].sid = leaves[i].sid
                /\ leaves'[i].order = leaves[i].order
                /\ leaves'[i].anchor = IF won /\ InRange(i, ids) THEN seq ELSE leaves[i].anchor
    BY <1>8, CommitMarks
  <2>2. /\ run[a].pc = "commit" /\ seq \in Nat
        /\ seq <= Len(anchors) => anchors' = anchors
        /\ ~ (seq <= Len(anchors)) => seq = Len(anchors) + 1
        /\ Follows(anchors, run[a].next)
    BY <1>8, CommitIs
  <2>3. \A i \in 1..Len(leaves) : InRange(i, ids) => leaves[i].anchor = 0
    BY DEF InRange
  <2>4. ASSUME NEW i \in 1..Len(leaves), won, InRange(i, ids) PROVE seq \notin 1..Len(anchors)
    <3> SUFFICES ASSUME seq \in 1..Len(anchors) PROVE FALSE
      OBVIOUS
    <3>a. seq <= Len(anchors)
      BY <1>1
    <3>b. anchors'[seq] = run[a].next
      BY <2>1, <2>4, Zenon
    <3>1. anchors[seq] = run[a].next
      BY <2>2, <3>a, <3>b
    <3> QED BY <2>2, <2>4, <3>1, NothingNew
  <2>5. Ages(leaves, leaves')
    BY <1>1, <2>1, <2>3 DEF Ages, Grows
  <2>6. ASSUME NEW s \in 1..Len(anchors) PROVE MarkedBy(leaves', s) = MarkedBy(leaves, s)
    <3>1. ASSUME NEW i \in 1..Len(leaves) PROVE leaves'[i].anchor = s <=> leaves[i].anchor = s
      <4>1. CASE won /\ InRange(i, ids)
        <5>1. leaves'[i].anchor = seq /\ leaves[i].anchor = 0 /\ seq # s /\ s # 0
          BY <2>1, <2>3, <2>4, <4>1
        <5> QED BY <5>1
      <4>2. CASE ~ (won /\ InRange(i, ids))
        BY <2>1, <4>2
      <4> QED BY <4>1, <4>2
    <3> QED BY <2>1, <3>1 DEF MarkedBy
  <2> QED BY <2>5, <2>6
<1>9. ASSUME Evict PROVE Goal
  <2>1. leaves' = leaves
    BY <1>9 DEF Evict
  <2> HIDE DEF Goal
  <2> QED BY <1>3, <2>1
<1> HIDE DEF Goal
<1>10. Goal
  BY <1>4, <1>5, <1>6, <1>7, <1>8, <1>9, Zenon DEF Next, AnchorStep
<1> QED BY <1>10 DEF Goal

\* The step of one run, or of none, from what it goes on with.
LEMMA GivenKeeps ==
  ASSUME CoverInv, ChainInv, GivenInv, [Next]_vars,
         \A a \in AnchorRuns : \/ run'[a] = run[a] \/ run'[a].pc = "idle"
                               \/ /\ HeldBy(leaves', run'[a].ids)
                                  /\ run'[a].pc = "commit" =>
                                       run'[a].next.root = MerkleRoot(Hashes(leaves', run'[a].ids)),
         \A s \in 1..Len(anchors') : \/ s \in 1..Len(anchors) /\ anchors'[s] = anchors[s]
                                     \/ Kept(leaves', anchors'[s].root)
  PROVE  GivenInv'
<1>1. Len(leaves) \in Nat /\ Len(leaves') \in Nat /\ Ages(leaves, leaves')
  BY CoverStep, LeavesAge, LeafIs DEF CoverInv, LeavesOK
<1>2. ASSUME NEW a \in AnchorRuns, run'[a].pc # "idle"
      PROVE  /\ HeldBy(leaves', run'[a].ids)
             /\ run'[a].pc = "commit" => run'[a].next.root = MerkleRoot(Hashes(leaves', run'[a].ids))
  <2>1. CASE run'[a] = run[a]
    <3>1. IsSeq(run[a].ids) /\ HeldBy(leaves, run[a].ids)
      BY <1>2, <2>1 DEF ChainInv, RunOK, GivenInv
    <3>2. HeldBy(leaves', run[a].ids) /\ Hashes(leaves', run[a].ids) = Hashes(leaves, run[a].ids)
      BY <1>1, <3>1, HeldStays
    <3>3. run[a].pc = "commit" => run[a].next.root = MerkleRoot(Hashes(leaves, run[a].ids))
      BY DEF GivenInv
    <3> QED BY <2>1, <3>2, <3>3
  <2>2. CASE run'[a] # run[a]
    BY <1>2, <2>2
  <2> QED BY <2>1, <2>2
<1>3. ASSUME NEW s \in 1..Len(anchors') PROVE Kept(leaves', anchors'[s].root)
  <2>1. CASE s \in 1..Len(anchors) /\ anchors'[s] = anchors[s]
    <3>1. Kept(leaves, anchors[s].root)
      BY <2>1 DEF GivenInv
    <3>2. Kept(leaves', anchors[s].root)
      BY <1>1, <3>1, KeptStays
    <3> QED BY <2>1, <3>2
  <2> QED BY <2>1
<1> QED BY <1>2, <1>3 DEF GivenInv

LEMMA CommitKept ==
  ASSUME CoverInv, ChainInv, GivenInv, NEW a \in AnchorRuns, Commit(a),
         anchors'[run[a].next.seq] = run[a].next
  PROVE  Kept(leaves', run[a].next.root)
<1> DEFINE ids == run[a].ids
           seq == run[a].next.seq
<1>1. run[a].pc = "commit" /\ Follows(anchors, run[a].next)
  BY CommitIs
<1>2. /\ IsSeq(ids) /\ HeldBy(leaves, ids) /\ run[a].next.root = MerkleRoot(Hashes(leaves, ids))
      /\ Len(leaves) \in Nat /\ seq # 0 /\ \A i \in 1..Len(leaves) : leaves[i].anchor \in Nat
  <2>1. Len(anchors) \in Nat
    BY SeqFacts DEF ChainInv
  <2> QED BY <1>1, <2>1, LeafIs DEF CoverInv, LeavesOK, ChainInv, RunOK, GivenInv, Follows
<1>3. PICK won \in BOOLEAN :
        /\ won = (anchors'[seq] = run[a].next)
        /\ Len(leaves') = Len(leaves)
        /\ \A i \in 1..Len(leaves) :
             /\ leaves'[i].kind = leaves[i].kind /\ leaves'[i].sid = leaves[i].sid
             /\ leaves'[i].order = leaves[i].order
             /\ leaves'[i].anchor = IF won /\ InRange(i, ids) THEN seq ELSE leaves[i].anchor
  BY CommitMarks
<1>4. Grows(leaves, leaves')
  BY <1>2, <1>3 DEF Grows
<1>5. Hashes(leaves', ids) = Hashes(leaves, ids)
  BY <1>2, <1>4, HashesStay DEF HeldBy
<1>6. ASSUME NEW k \in 1..Len(ids) PROVE ids[k] \in 1..Len(leaves') /\ leaves'[ids[k]].anchor # 0
  <2>1. ids[k] \in 1..Len(leaves) /\ won
    BY <1>2, <1>3 DEF HeldBy
  <2>2. CASE leaves[ids[k]].anchor # 0
    BY <1>2, <1>3, <2>1, <2>2
  <2>3. CASE leaves[ids[k]].anchor = 0
    <3>1. Len(ids) \in Nat /\ 1 \in 1..Len(ids) /\ Len(ids) \in 1..Len(ids) /\ ids # << >> /\ k \in Nat
      <4>1. Len(ids) \in Nat
        BY ONLY <1>2, SeqFacts
      <4>2. k \in 1..Len(ids)
        OBVIOUS
      <4>3. k \in Nat /\ 1 <= k /\ k <= Len(ids)
        BY ONLY <4>1, <4>2, SMT
      <4>4. ids # << >>
        BY ONLY <1>2, <4>1, <4>3, SeqFacts
      <4>5. 1 \in 1..Len(ids) /\ Len(ids) \in 1..Len(ids)
        BY ONLY <4>1, <4>3, SMT
      <4> QED BY ONLY <4>1, <4>3, <4>4, <4>5
    <3>2. ids[1] \in Nat /\ ids[k] \in Nat /\ ids[Len(ids)] \in Nat
      BY <1>2, <3>1 DEF HeldBy
    <3>3. (1 = k \/ ids[1] < ids[k]) /\ (k = Len(ids) \/ ids[k] < ids[Len(ids)])
      <4>1. \A i, j \in 1..Len(ids) : i < j => ids[i] < ids[j]
        BY ONLY <1>2 DEF HeldBy, Ascends
      <4>2. k \in 1..Len(ids)
        OBVIOUS
      <4>3. (1 = k \/ 1 < k) /\ (k = Len(ids) \/ k < Len(ids))
        BY ONLY <3>1, <4>2, SMT
      <4> HIDE DEF ids
      <4> QED BY ONLY <3>1, <4>1, <4>2, <4>3, ZenonT(60)
    <3>4. ids[1] <= ids[k] /\ ids[k] <= Last(ids)
      BY <3>2, <3>3 DEF Last
    <3>5. InRange(ids[k], ids)
      BY <2>3, <3>1, <3>4 DEF InRange
    <3> QED BY <1>2, <1>3, <2>1, <3>5
  <2> QED BY <2>2, <2>3, <2>1, <1>3
<1> QED BY <1>2, <1>5, <1>6 DEF Kept

LEMMA GivenStep ==
  ASSUME CoverInv, ChainInv, GivenInv, [Next]_vars
  PROVE  GivenInv'
<1>1. row \in [Orders -> Row] /\ Len(anchors) \in Nat /\ DOMAIN run = AnchorRuns
  BY SeqFacts DEF CoverInv, ChainInv
<1>2. ASSUME anchors' = anchors, run' = run PROVE GivenInv'
  BY <1>2, GivenKeeps
<1>3. ASSUME UNCHANGED vars PROVE GivenInv'
  BY <1>2, <1>3 DEF vars
<1>4. ASSUME NEW o \in Orders, RailStep(o) \/ \E own \in BOOLEAN : Forward(o, own) PROVE GivenInv'
  BY <1>1, <1>2, <1>4, RailKeepsRows
<1>5. ASSUME NEW l \in Linkers, LinkStep(l) \/ \E s \in Sids \cup {Plain} : LinkReceipts(l, s) PROVE GivenInv'
  <2>1. anchors' = anchors /\ run' = run
    BY <1>5 DEF LinkStep, LinkReceipts, InsertDirect, ReadWindow, ReadCoverable, InsertLazy, OnlyLink, anchorVars
  <2> QED BY <1>2, <2>1
<1>6. ASSUME NEW a \in AnchorRuns, ReadPending(a) PROVE GivenInv'
  <2>1. leaves' = leaves /\ anchors' = anchors
    BY <1>6, ReadPendingIs
  <2>2. PICK ids : /\ run' = [run EXCEPT ![a] = [pc |-> "head", ids |-> ids]]
                   /\ IsSeq(ids) /\ Ascends(ids) /\ Holds(ids, ReadRange(leaves, ids))
    BY <1>6, ReadPendingIs
  <2> DEFINE t == [pc |-> "head", ids |-> ids]
  <2>3. t.pc = "head" /\ t.ids = ids
    OBVIOUS
  <2>4. run'[a] = t /\ \A b \in AnchorRuns : b # a => run'[b] = run[b]
    BY <1>1, <2>2
  <2> HIDE DEF t
  <2>5. HeldBy(leaves, ids)
    <3>1. \A k \in 1..Len(ids) : ids[k] \in 1..Len(leaves)
      BY <2>2, LeafIs, ReadAreLeaves DEF CoverInv, LeavesOK
    <3> QED BY <2>2, <3>1 DEF HeldBy, Holds
  <2>6. \A b \in AnchorRuns : \/ run'[b] = run[b] \/ run'[b].pc = "idle"
                              \/ /\ HeldBy(leaves', run'[b].ids)
                                 /\ run'[b].pc = "commit" =>
                                      run'[b].next.root = MerkleRoot(Hashes(leaves', run'[b].ids))
    BY <2>1, <2>3, <2>4, <2>5
  <2> QED BY <2>1, <2>6, GivenKeeps
<1>7. ASSUME NEW a \in AnchorRuns, ReadHead(a) PROVE GivenInv'
  <2>1. leaves' = leaves /\ anchors' = anchors /\ run[a].pc = "head"
    BY <1>7, ReadHeadFollows
  <2> DEFINE ids == run[a].ids
  <2>2. PICK next : /\ run' = [run EXCEPT ![a] = [pc |-> "commit", ids |-> ids, next |-> next]]
                    /\ next.root = MerkleRoot(Hashes(leaves, ids))
    BY <1>7, ReadHeadFollows
  <2>3. HeldBy(leaves, ids)
    BY <2>1 DEF GivenInv
  <2> DEFINE t == [pc |-> "commit", ids |-> ids, next |-> next]
  <2>4. t.pc = "commit" /\ t.ids = ids /\ t.next = next
    OBVIOUS
  <2>5. run'[a] = t /\ \A b \in AnchorRuns : b # a => run'[b] = run[b]
    BY <1>1, <2>2
  <2> HIDE DEF t, ids
  <2>6. \A b \in AnchorRuns : \/ run'[b] = run[b] \/ run'[b].pc = "idle"
                              \/ /\ HeldBy(leaves', run'[b].ids)
                                 /\ run'[b].pc = "commit" =>
                                      run'[b].next.root = MerkleRoot(Hashes(leaves', run'[b].ids))
    BY <2>1, <2>2, <2>3, <2>4, <2>5
  <2> QED BY <2>1, <2>6, GivenKeeps
<1>8. ASSUME NEW a \in AnchorRuns, Commit(a) PROVE GivenInv'
  <2> DEFINE seq == run[a].next.seq
  <2>1. /\ SetRun(a, RunIdle) /\ seq \in Nat
        /\ \A s \in 1..Len(anchors) : anchors'[s] = anchors[s]
        /\ seq <= Len(anchors)  => anchors' = anchors
        /\ ~ (seq <= Len(anchors)) => /\ seq = Len(anchors) + 1
                                      /\ Len(anchors') = Len(anchors) + 1
                                      /\ anchors'[Len(anchors) + 1] = run[a].next
    BY <1>8, CommitIs
  <2>2. \A b \in AnchorRuns : run'[b] = run[b] \/ run'[b].pc = "idle"
    <3>1. run' = [run EXCEPT ![a] = RunIdle]
      BY <2>1 DEF SetRun
    <3> QED BY <1>1, <3>1, IdleRunOK
  <2>3. ASSUME NEW s \in 1..Len(anchors'), s \notin 1..Len(anchors) PROVE Kept(leaves', anchors'[s].root)
    <3>1. s = seq /\ anchors'[s] = run[a].next
      BY <1>1, <2>1, <2>3
    <3> QED BY <1>8, <3>1, CommitKept
  <2>4. \A s \in 1..Len(anchors') : \/ s \in 1..Len(anchors) /\ anchors'[s] = anchors[s]
                                    \/ Kept(leaves', anchors'[s].root)
    BY <2>1, <2>3
  <2> QED BY <2>2, <2>4, GivenKeeps
<1>9. ASSUME Evict PROVE GivenInv'
  <2>1. anchors' = anchors
    BY <1>9 DEF Evict
  <2>2. run' = run \/ \E a \in AnchorRuns : run' = [run EXCEPT ![a] = RunIdle]
    BY <1>9 DEF Evict, SetRun
  <2>3. \A b \in AnchorRuns : run'[b] = run[b] \/ run'[b].pc = "idle"
    BY <1>1, <2>2, IdleRunOK
  <2> QED BY <2>1, <2>3, GivenKeeps
<1> QED BY <1>3, <1>4, <1>5, <1>6, <1>7, <1>8, <1>9, Zenon DEF Next, AnchorStep

\* The proof for a leaf, said of any leaves.
ProofIn(L, i) ==
  LET ids == InOrder(MarkedBy(L, L[i].anchor))
  IN MerkleProof(Hashes(L, ids), CHOOSE k \in DOMAIN ids : ids[k] = i)

LEMMA ProofForLeafIs ==
  ASSUME DOMAIN leaves = 1..Len(leaves)
  PROVE  \A i : ProofForLeaf(i) = ProofIn(leaves, i)
  BY DEF ProofForLeaf, ProofIn, LeavesOf, MarkedBy, HashesOf, Hashes

LEMMA ProofForLeafStays ==
  ASSUME CoverInv, ChainInv, GivenInv, [Next]_vars, NEW i \in DOMAIN leaves, leaves[i].anchor # 0
  PROVE  ProofForLeaf(i)' = ProofForLeaf(i)
<1>1. CoverInv'
  BY CoverStep
<1>2. /\ Len(leaves) \in Nat /\ DOMAIN leaves = 1..Len(leaves) /\ DOMAIN leaves' = 1..Len(leaves')
      /\ Len(anchors) \in Nat
  BY <1>1, LeafIs, SeqFacts DEF CoverInv, LeavesOK, ChainInv
<1> DEFINE s == leaves[i].anchor
           ids == InOrder(MarkedBy(leaves, s))
<1>3. s \in 1..Len(anchors)
  BY <1>2 DEF ChainInv
<1>4. leaves'[i].anchor = s /\ MarkedBy(leaves', s) = MarkedBy(leaves, s) /\ Grows(leaves, leaves')
  BY <1>2, <1>3, LeavesAge DEF Ages
<1>5. \A k \in 1..Len(ids) : ids[k] \in 1..Len(leaves)
  BY <1>2, MarkedInOrder
<1>6. Hashes(leaves', ids) = Hashes(leaves, ids)
  BY <1>4, <1>5, HashesStay
<1>7. ProofIn(leaves', i) = ProofIn(leaves, i)
  BY <1>4, <1>6 DEF ProofIn
<1>8. ProofForLeaf(i) = ProofIn(leaves, i)
  BY <1>2, ProofForLeafIs
<1>9. ProofForLeaf(i)' = ProofIn(leaves', i)
  BY <1>2 DEF ProofForLeaf, ProofIn, LeavesOf, MarkedBy, HashesOf, Hashes
<1> QED BY <1>7, <1>8, <1>9

-----------------------------------------------------------------------------
(* The theorems *)

LEMMA InvInit == Init => Inv
<1> SUFFICES ASSUME Init PROVE Inv
  OBVIOUS
<1>1. leaves = << >> /\ anchors = << >> /\ IsSeq(anchors) /\ Len(leaves) = 0 /\ Len(anchors) = 0
  BY EmptyIs DEF Init
<1>2. /\ DOMAIN link = Linkers /\ \A l \in Linkers : link[l] = LinkIdle
      /\ DOMAIN run = AnchorRuns /\ \A a \in AnchorRuns : run[a] = RunIdle
  BY DEF Init, LinkIdle, RunIdle
<1>3. row \in [Orders -> Row]
  BY DEF Init, Row
<1>4. LeavesOK(row, leaves)
  BY <1>1 DEF LeavesOK
<1>5. CoverInv
  BY <1>2, <1>3, <1>4, IdleOK DEF CoverInv
<1>6. ChainInv
  BY <1>1, <1>2, IdleRunOK DEF ChainInv
<1>7. AnchorsOK(leaves, anchors)
  <2>1. Marked(leaves) = {} /\ TotalOf(anchors) = 0 /\ LazyOf(anchors) = 0
    BY <1>1 DEF Marked, TotalOf, LazyOf
  <2>2. LazyIn(leaves, Marked(leaves)) = {}
    BY <2>1 DEF LazyIn
  <2> QED BY <1>1, <2>1, <2>2, FS_EmptySet DEF AnchorsOK
<1>8. AloneOK(leaves, anchors, run)
  <2>1. \A a \in AnchorRuns : run[a].pc = "idle"
    BY <1>2, IdleRunOK
  <2> QED BY <1>7, <2>1 DEF AloneOK
<1> QED BY <1>5, <1>6, <1>8 DEF Inv

LEMMA InvStep == Inv /\ [Next]_vars => Inv'
<1> SUFFICES ASSUME Inv, [Next]_vars PROVE Inv'
  OBVIOUS
<1>1. CoverInv' /\ ChainInv'
  BY CoverStep, ChainStep DEF Inv
<1>2. (~ overlapped => AloneOK(leaves, anchors, run))'
  BY AloneStep
<1> QED BY <1>1, <1>2 DEF Inv

\* While runs do not overlap, every proof leads to the root of its anchor.
LEMMA InvProves == Inv => AloneEveryLeafProves
<1> SUFFICES ASSUME Inv, ~ overlapped PROVE AloneEveryLeafProves
  BY DEF AloneEveryLeafProves
<1>1. /\ AnchorsOK(leaves, anchors)
      /\ Len(leaves) \in Nat /\ DOMAIN leaves = 1..Len(leaves) /\ Len(anchors) \in Nat /\ IsSeq(anchors)
      /\ \A i \in 1..Len(leaves) : leaves[i].anchor \in 0..Len(anchors)
  BY LeafIs, SeqFacts DEF Inv, CoverInv, ChainInv, LeavesOK, AloneOK
<1>2. ASSUME NEW i \in 1..Len(leaves) PROVE Proves(ToPayment(i))
  <2> DEFINE p == ToPayment(i)
             s == leaves[i].anchor
             ids == LeavesOf(s)
             h == HashesOf(ids)
             k == CHOOSE j \in DOMAIN ids : ids[j] = i
  <2>1. p.leafHash = LeafHash(leaves[i])
        /\ p.anchor = IF s = 0 THEN NoAnchor ELSE [seq |-> s, proof |-> ProofForLeaf(i)]
    BY DEF ToPayment
  <2>2. ProofForLeaf(i) = MerkleProof(h, k)
    BY DEF ProofForLeaf
  <2>3. CASE s = 0
    BY <2>1, <2>3 DEF Proves
  <2>4. CASE s # 0
    <3>1. s \in 1..Len(anchors)
      BY <1>1, <2>4
    <3>2. IsSeq(ids) /\ Holds(ids, MarkedBy(leaves, s)) /\ ids = InOrder(MarkedBy(leaves, s))
      BY <1>1, LeavesOfIs
    <3>3. anchors[s].root = MerkleRoot(Hashes(leaves, ids))
      BY <1>1, <3>1, <3>2 DEF AnchorsOK
    <3>4. h = Hashes(leaves, ids)
      BY DEF HashesOf, Hashes
    <3>5. i \in MarkedBy(leaves, s)
      BY DEF MarkedBy
    <3> HIDE DEF ids, s
    <3>6. Len(ids) \in Nat /\ DOMAIN ids = 1..Len(ids)
      BY <3>2, SeqFacts
    <3>7. k \in 1..Len(ids) /\ ids[k] = i
      <4>1. \E j \in DOMAIN ids : ids[j] = i
        BY <3>2, <3>5, <3>6 DEF Holds
      <4> QED BY <3>6, <4>1
    <3> HIDE DEF k
    <3>8. h[k] = LeafHash(leaves[i]) /\ IsSeq(h) /\ Len(h) = Len(ids)
      <4> DEFINE T == {LeafHash(leaves[ids[j]]) : j \in 1..Len(ids)}
      <4>1. h \in [1..Len(ids) -> T]
        BY DEF HashesOf
      <4>2. h[k] = LeafHash(leaves[i])
        BY <3>7 DEF HashesOf
      <4> HIDE DEF T, h
      <4> QED BY <3>6, <4>1, <4>2, FunctionIsSeq
    <3> HIDE DEF h
    <3>9. MerkleApply(h[k], MerkleProof(h, k)) = MerkleRoot(h)
      BY <3>7, <3>8, ProofLeadsToRoot
    <3>10. p.anchor.seq = s /\ p.anchor.proof = MerkleProof(h, k)
      BY <2>1, <2>2, <2>4
    <3> HIDE DEF p
    <3>11. MerkleApply(p.leafHash, p.anchor.proof) = anchors[p.anchor.seq].root
      BY <2>1, <3>3, <3>4, <3>8, <3>9, <3>10
    <3> QED BY <3>11 DEF Proves, p
  <2> QED BY <2>3, <2>4
<1>3. EveryLeafProves
  <2>1. \A s : LeavesFor(s) \subseteq 1..Len(leaves)
    BY <1>1 DEF LeavesFor
  <2>2. ASSUME NEW s, NEW p \in FetchReceipt(s, s).payments PROVE \E i \in 1..Len(leaves) : p = ToPayment(i)
    BY <2>1 DEF FetchReceipt, ReceiptOf, BuildReceipt
  <2>3. ASSUME NEW s \in Sids, NEW p \in FetchReceipt(s, s).payments PROVE Proves(p)
    BY <1>2, <2>2
  <2> QED BY <2>3 DEF EveryLeafProves
<1>4. anchors # << >> =>
        LET marked == {i \in DOMAIN leaves : leaves[i].anchor # 0}
        IN /\ Last(anchors).totalLeaves = Cardinality(marked)
           /\ Last(anchors).lazyCount = Cardinality({i \in marked : leaves[i].kind = "lazy"})
  <2> SUFFICES ASSUME anchors # << >>
               PROVE  /\ anchors[Len(anchors)].totalLeaves = Cardinality({i \in DOMAIN leaves : leaves[i].anchor # 0})
                      /\ anchors[Len(anchors)].lazyCount
                           = Cardinality({i \in {i \in DOMAIN leaves : leaves[i].anchor # 0} : leaves[i].kind = "lazy"})
    BY DEF Last
  <2>1. Len(anchors) # 0
    BY <1>1, SeqFacts
  <2>2. {i \in DOMAIN leaves : leaves[i].anchor # 0} = Marked(leaves)
    BY <1>1 DEF Marked
  <2>3. {i \in Marked(leaves) : leaves[i].kind = "lazy"} = LazyIn(leaves, Marked(leaves))
    BY DEF LazyIn
  <2>4. anchors[Len(anchors)].totalLeaves = Cardinality(Marked(leaves))
    BY <1>1, <2>1 DEF AnchorsOK, TotalOf
  <2>5. anchors[Len(anchors)].lazyCount = Cardinality(LazyIn(leaves, Marked(leaves)))
    BY <1>1, <2>1 DEF AnchorsOK, LazyOf
  <2> QED BY <2>2, <2>3, <2>4, <2>5
<1> QED BY <1>3, <1>4 DEF AloneEveryLeafProves

\* The chain, from what every anchor was worked out from.
LEMMA InvChains == Inv => ChainUnbroken
<1> SUFFICES ASSUME Inv, NEW s \in DOMAIN anchors
             PROVE  IF s = 1 THEN anchors[s].prev = Zero /\ anchors[s].totalLeaves = anchors[s].leafCount
                    ELSE /\ anchors[s].prev = ChainHead(anchors[s - 1])
                         /\ anchors[s].totalLeaves = anchors[s - 1].totalLeaves + anchors[s].leafCount
  BY DEF ChainUnbroken
<1>1. s \in 1..Len(anchors)
  BY SeqFacts DEF Inv, ChainInv
<1>2. anchors[s].seq = s /\ Follows(anchors, anchors[s])
  BY <1>1 DEF Inv, ChainInv
<1> QED BY <1>2 DEF Follows

LEMMA InvCovers == Inv => CoverageIsOwn
<1> SUFFICES ASSUME Inv, NEW i \in DOMAIN leaves
             PROVE  LET l == leaves[i]
                    IN IF l.kind = "direct" THEN Remittance[l.order] = l.sid /\ row[l.order].own
                       ELSE /\ ~ (IsReceipt(l.order) /\ row[l.order].status = "confirmed")
                            /\ \E j \in 1..(i - 1) : /\ leaves[j].kind = "direct" /\ leaves[j].sid = l.sid
                                                     /\ Iban[leaves[j].order] = Iban[l.order] /\ Iban[l.order] # NoIban
                                                     /\ l.order < leaves[j].order
  BY DEF CoverageIsOwn
<1>1. LeafOK(row, leaves, i)
  BY LeafIs DEF Inv, CoverInv, LeavesOK
<1>2. CASE leaves[i].kind = "direct"
  BY <1>1, <1>2 DEF LeafOK, OwnPaid
<1>3. CASE leaves[i].kind # "direct"
  <2>1. PICK j \in 1..(i - 1) : /\ leaves[j].kind = "direct" /\ leaves[j].sid = leaves[i].sid
                                /\ Iban[leaves[j].order] # NoIban /\ MayCover(row, leaves[j].order, leaves[i].order)
    BY <1>1, <1>3 DEF LeafOK
  <2>2. /\ ~ (IsReceipt(leaves[i].order) /\ row[leaves[i].order].status = "confirmed")
        /\ Iban[leaves[j].order] = Iban[leaves[i].order] /\ Iban[leaves[i].order] # NoIban
        /\ leaves[i].order < leaves[j].order
    BY <2>1 DEF MayCover, OwnPaid, IsReceipt
  <2> QED BY <1>3, <2>1, <2>2
<1> QED BY <1>2, <1>3

\* Every receipt given out proves its payment and the anchors add up as long as no two
\* anchor runs have overlapped; the chain of anchors never breaks, and no payment is covered
\* by a receipt that is not its payer's (anchor.ts, link.ts, merkle.ts).
THEOREM ReceiptsAreSound == Spec => []ReceiptsProve
<1>1. Inv => ReceiptsProve
  BY InvProves, InvChains, InvCovers DEF ReceiptsProve
<1> QED BY <1>1, InvInit, InvStep, PTL DEF Spec

LEMMA GivenInit == Init => GivenInv
<1> SUFFICES ASSUME Init PROVE GivenInv
  OBVIOUS
<1>1. Len(anchors) = 0 /\ \A a \in AnchorRuns : run[a].pc = "idle"
  BY EmptyIs DEF Init
<1> QED BY <1>1 DEF GivenInv

\* A receipt that has been given out stays what the API gives: the proof of an anchored leaf
\* never changes, also when runs overlap and write the same anchor twice (migration 0028).
THEOREM ReceiptsStand == Spec => ProofsStay
<1> DEFINE Given == Inv /\ GivenInv
<1>1. Init => Given
  BY InvInit, GivenInit
<1>2. Given /\ [Next]_vars => Given'
  BY InvStep, GivenStep DEF Inv
<1>3. Given /\ [Next]_vars =>
        [\A i \in DOMAIN leaves : leaves[i].anchor # 0 => ProofForLeaf(i)' = ProofForLeaf(i)]_vars
  BY ProofForLeafStays DEF Inv
<1> QED BY <1>1, <1>2, <1>3, PTL DEF Spec, ProofsStay

=============================================================================
