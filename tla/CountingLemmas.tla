---------------------------- MODULE CountingLemmas ----------------------------
(***************************************************************************)
(* What the proofs of several components need to know of numbers,          *)
(* sequences, sums and orders, for any values.                             *)
(***************************************************************************)
EXTENDS Integers, Sequences, Functions, FiniteSetTheorems, TLAPS

(* Induction, and what a recursive definition has for a value. *)

LEMMA LeastNatural ==
  ASSUME NEW A \in SUBSET Nat, A # {}
  PROVE  \E n \in A : \A m \in A : n <= m
<1>1. IsWellFoundedOn(OpToRel(<, Nat), Nat)
  BY NatLessThanWellFounded
<1>2. PICK n \in A : \A m \in A : <<m, n>> \notin OpToRel(<, Nat)
  BY <1>1, WFMin
<1>3. \A m \in A : ~(m < n)
  BY <1>2 DEF OpToRel
<1> QED
  BY <1>3

\* Induction over a set of numbers.
LEMMA Induction ==
  ASSUME NEW A, 0 \in A, \A n \in Nat : n \in A => n + 1 \in A
  PROVE  \A n \in Nat : n \in A
<1>1. ASSUME Nat \ A # {} PROVE FALSE
  <2>1. PICK n \in Nat \ A : \A m \in Nat \ A : n <= m
    BY <1>1, LeastNatural
  <2>2. n # 0 /\ n - 1 \in Nat /\ n - 1 \in A
    BY <2>1
  <2> QED
    BY <2>1, <2>2
<1> QED
  BY <1>1

\* f is what base and step define by recursion over 0..N.
Solves(f, N, S, base, step) ==
  f \in [0..N -> S] /\ f[0] = base /\ \A i \in 1..N : f[i] = step[i][f[i - 1]]

\* A recursive definition has a solution.
LEMMA Recursion ==
  ASSUME NEW N \in Nat, NEW S, NEW base \in S, NEW step \in [1..N -> [S -> S]]
  PROVE  \E f : Solves(f, N, S, base, step)
<1> DEFINE Ok(n, f) == f[0] = base /\ \A i \in 1..n : f[i] = step[i][f[i - 1]]
           A == {n \in Nat : n <= N => \E f \in [0..n -> S] : Ok(n, f)}
<1>1. 0 \in A
  <2>1. Ok(0, [i \in 0..0 |-> base])
    OBVIOUS
  <2>2. [i \in 0..0 |-> base] \in [0..0 -> S]
    OBVIOUS
  <2> QED
    BY <2>1, <2>2
<1>2. ASSUME NEW n \in Nat, n \in A, n + 1 <= N
      PROVE  \E f \in [0..(n + 1) -> S] : Ok(n + 1, f)
  <2>1. PICK f \in [0..n -> S] : Ok(n, f)
    BY <1>2
  <2> DEFINE g == [i \in 0..(n + 1) |-> IF i = n + 1 THEN step[n + 1][f[n]] ELSE f[i]]
  <2>2. step[n + 1][f[n]] \in S
    BY <1>2
  <2>3. g \in [0..(n + 1) -> S]
    BY <2>2
  <2>4. \A i \in 0..n : g[i] = f[i]
    OBVIOUS
  <2>5. g[n + 1] = step[n + 1][f[n]]
    OBVIOUS
  <2> HIDE DEF g
  <2>6. ASSUME NEW i \in 1..(n + 1) PROVE g[i] = step[i][g[i - 1]]
    <3>1. CASE i = n + 1
      BY <2>4, <2>5, <3>1
    <3>2. CASE i # n + 1
      <4>1. i \in 1..n /\ i - 1 \in 0..n /\ i \in 0..n
        BY <3>2
      <4> QED
        BY <2>1, <2>4, <4>1
    <3> QED
      BY <3>1, <3>2
  <2>7. g[0] = base
    BY <2>1, <2>4
  <2> QED
    BY <2>3, <2>6, <2>7
<1>3. ASSUME NEW n \in Nat, n \in A PROVE n + 1 \in A
  <2>1. n + 1 \in Nat
    OBVIOUS
  <2>2. n + 1 <= N => \E f \in [0..(n + 1) -> S] : Ok(n + 1, f)
    BY <1>2, <1>3
  <2> HIDE DEF Ok
  <2> QED
    BY <2>1, <2>2
<1> HIDE DEF A
<1>4. N \in A
  BY <1>1, <1>3, Induction
<1>5. PICK f \in [0..N -> S] : Ok(N, f)
  BY <1>4 DEF A
<1> QED
  BY <1>5 DEF Solves

-----------------------------------------------------------------------------
(* Sequences. *)

LEMMA SeqElements ==
  ASSUME NEW S, NEW s \in Seq(S)
  PROVE  Len(s) \in Nat /\ \A i \in 1..Len(s) : s[i] \in S
OBVIOUS

LEMMA SeqIsFunction ==
  ASSUME NEW S, NEW s \in Seq(S)
  PROVE  s \in [1..Len(s) -> S]
OBVIOUS

LEMMA SubSeqFacts ==
  ASSUME NEW s \in Seq(Nat), NEW a \in Nat \ {0}, NEW b \in Nat, a <= b + 1, b <= Len(s)
  PROVE  /\ SubSeq(s, a, b) \in Seq(Nat) /\ Len(SubSeq(s, a, b)) = b - a + 1
         /\ \A i \in 1..(b - a + 1) : SubSeq(s, a, b)[i] = s[a + i - 1]
OBVIOUS

LEMMA FrontPart ==
  ASSUME NEW S, NEW s \in Seq(S), NEW n \in Nat, n <= Len(s)
  PROVE  SubSeq(s, 1, n) = [k \in 1..n |-> s[k]]
OBVIOUS

LEMMA AppendsLast ==
  ASSUME NEW s \in Seq(Nat), NEW x \in Nat
  PROVE  /\ Append(s, x) \in Seq(Nat) /\ Len(Append(s, x)) = Len(s) + 1
         /\ \A i \in 1..Len(s) : Append(s, x)[i] = s[i]
         /\ Append(s, x)[Len(s) + 1] = x
OBVIOUS

LEMMA NoElements ==
  ASSUME NEW S, NEW s \in Seq(S), Len(s) = 0
  PROVE  s = <<>>
OBVIOUS

LEMMA OneMore ==
  ASSUME NEW S, NEW s \in Seq(S), NEW x \in S
  PROVE  /\ Append(s, x) \in Seq(S) /\ Len(Append(s, x)) = Len(s) + 1
         /\ \A i \in 1..Len(s) : Append(s, x)[i] = s[i]
         /\ Append(s, x)[Len(s) + 1] = x
OBVIOUS

LEMMA OneChanged ==
  ASSUME NEW S, NEW s \in Seq(S), NEW i \in 1..Len(s), NEW x \in S,
         NEW t, t = [s EXCEPT ![i] = x]
  PROVE  /\ t \in Seq(S) /\ Len(t) = Len(s) /\ t[i] = x
         /\ \A j \in 1..Len(s) : j # i => t[j] = s[j]
OBVIOUS

LEMMA LengthIs ==
  ASSUME NEW n \in Nat, NEW f, DOMAIN f = 1..n, f = [k \in 1..n |-> f[k]]
  PROVE  Len(f) = n
<1>1. PICK S : S = {f[k] : k \in 1..n}
  OBVIOUS
<1>2. f \in [1..n -> S]
  BY <1>1
<1> QED
  BY <1>2

LEMMA Joined ==
  ASSUME NEW s \in Seq(Nat), NEW p \in Seq(Nat)
  PROVE  /\ s \o p \in Seq(Nat) /\ Len(s \o p) = Len(s) + Len(p)
         /\ \A n \in 1..Len(s) : (s \o p)[n] = s[n]
         /\ \A n \in 1..Len(p) : (s \o p)[Len(s) + n] = p[n]
OBVIOUS

LEMMA SameSeq ==
  ASSUME NEW s \in Seq(Nat), NEW t \in Seq(Nat), Len(s) = Len(t),
         \A i \in 1..Len(s) : s[i] = t[i]
  PROVE  s = t
OBVIOUS

\* d is the last k of s.
Latest(d, k, s) == k <= Len(s) /\ d = SubSeq(s, Len(s) - k + 1, Len(s))

LEMMA LatestFacts ==
  ASSUME NEW s \in Seq(Nat), NEW k \in Nat, NEW d, Latest(d, k, s)
  PROVE  d \in Seq(Nat) /\ Len(d) = k /\ \A i \in 1..k : d[i] = s[(Len(s) - k) + i]
<1>1. PICK n \in Nat : n = Len(s) /\ k <= n /\ d = SubSeq(s, n - k + 1, n)
  BY DEF Latest
<1>2. n - k + 1 \in Nat \ {0}
  BY <1>1
<1>3. PICK a \in Nat \ {0} : a = n - k + 1
  BY <1>2
<1>4. a <= n + 1 /\ n <= Len(s) /\ n - a + 1 = k /\ \A i \in Int : a + i - 1 = (n - k) + i
  BY <1>1, <1>3
<1>5. d = SubSeq(s, a, n)
  BY <1>1, <1>3
<1>6. /\ d \in Seq(Nat) /\ Len(d) = n - a + 1
      /\ \A i \in 1..(n - a + 1) : d[i] = s[a + i - 1]
  BY <1>4, <1>5, SubSeqFacts
<1>7. ASSUME NEW i \in 1..k PROVE d[i] = s[(n - k) + i]
  <2>1. i \in 1..(n - a + 1) /\ a + i - 1 = (n - k) + i
    BY <1>4
  <2> QED
    BY <1>6, <2>1
<1> QED
  BY <1>1, <1>4, <1>6, <1>7

\* After one more, without the c oldest of the latest.
LEMMA LatestKept ==
  ASSUME NEW s \in Seq(Nat), NEW k \in Nat, NEW d, Latest(d, k, s), NEW x \in Nat,
         NEW c \in Nat, c <= k + 1, NEW t, t = SubSeq(Append(d, x), c + 1, k + 1)
  PROVE  Latest(t, k + 1 - c, Append(s, x))
<1> DEFINE q == Append(s, x)
           e == Append(d, x)
<1>1. PICK n \in Nat : n = Len(s) /\ k <= n /\ d = SubSeq(s, n - k + 1, n)
  BY DEF Latest
<1>2. n - k + 1 \in Nat \ {0} /\ n - k + 1 <= n + 1 /\ n - (n - k + 1) + 1 = k
  BY <1>1
<1>3. d \in Seq(Nat) /\ Len(d) = k /\ \A i \in 1..k : d[i] = s[(n - k + 1) + i - 1]
  <2>1. d \in Seq(Nat) /\ Len(d) = k /\ \A i \in 1..k : d[i] = s[(Len(s) - k) + i]
    BY LatestFacts
  <2>2. \A i \in 1..k : (Len(s) - k) + i = (n - k + 1) + i - 1
    BY <1>1
  <2> QED
    BY <2>1, <2>2
<1>4. q \in Seq(Nat) /\ Len(q) = n + 1 /\ (\A i \in 1..n : q[i] = s[i]) /\ q[n + 1] = x
  BY <1>1, AppendsLast
<1>5. e \in Seq(Nat) /\ Len(e) = k + 1 /\ (\A i \in 1..k : e[i] = d[i]) /\ e[k + 1] = x
  BY <1>3, AppendsLast
<1> HIDE DEF q, e
<1>6. PICK a \in Nat \ {0} : a = (n + 1) - (k + 1 - c) + 1
  <2>1. (n + 1) - (k + 1 - c) + 1 \in Nat \ {0}
    BY <1>1
  <2> QED
    BY <2>1
<1>7. n + 1 \in Nat /\ a <= (n + 1) + 1 /\ (n + 1) - a + 1 = k + 1 - c
  BY <1>1, <1>6
<1> DEFINE u == SubSeq(q, a, n + 1)
<1>8. /\ u \in Seq(Nat) /\ Len(u) = k + 1 - c
      /\ \A i \in 1..(k + 1 - c) : u[i] = q[a + i - 1]
  <2>1. PICK b \in Nat : b = n + 1
    BY <1>7
  <2>2. a <= b + 1 /\ b <= Len(q) /\ b - a + 1 = k + 1 - c
    BY <1>4, <1>7, <2>1
  <2>3. /\ SubSeq(q, a, b) \in Seq(Nat) /\ Len(SubSeq(q, a, b)) = b - a + 1
        /\ \A i \in 1..(b - a + 1) : SubSeq(q, a, b)[i] = q[a + i - 1]
    BY <1>4, <2>2, SubSeqFacts
  <2> QED
    BY <2>1, <2>2, <2>3
<1>9. /\ t \in Seq(Nat) /\ Len(t) = k + 1 - c
      /\ \A i \in 1..(k + 1 - c) : t[i] = e[c + i]
  <2>1. c + 1 \in Nat \ {0} /\ c + 1 <= (k + 1) + 1 /\ (k + 1) - (c + 1) + 1 = k + 1 - c
    OBVIOUS
  <2>2. /\ SubSeq(e, c + 1, k + 1) \in Seq(Nat) /\ Len(SubSeq(e, c + 1, k + 1)) = k + 1 - c
        /\ \A i \in 1..(k + 1 - c) : SubSeq(e, c + 1, k + 1)[i] = e[(c + 1) + i - 1]
    BY <1>5, <2>1, SubSeqFacts
  <2>3. \A i \in 1..(k + 1 - c) : (c + 1) + i - 1 = c + i
    OBVIOUS
  <2> QED
    BY <2>2, <2>3 DEF e
<1> HIDE DEF u
<1>10. ASSUME NEW i \in 1..(k + 1 - c) PROVE t[i] = u[i]
  <2>1. PICK j \in 1..(k + 1) : j = c + i /\ a + i - 1 = (n - k) + j
    BY <1>1, <1>6
  <2>2. t[i] = e[j] /\ u[i] = q[(n - k) + j]
    BY <1>8, <1>9, <2>1
  <2>3. CASE j = k + 1
    <3>1. (n - k) + j = n + 1
      BY <1>1, <2>3
    <3> QED
      BY <1>4, <1>5, <2>2, <2>3, <3>1
  <2>4. CASE j # k + 1
    <3>1. j \in 1..k /\ (n - k) + j \in 1..n /\ (n - k + 1) + j - 1 = (n - k) + j
      BY <1>1, <2>4
    <3>2. e[j] = s[(n - k) + j] /\ q[(n - k) + j] = s[(n - k) + j]
      BY <1>3, <1>4, <1>5, <3>1
    <3> QED
      BY <2>2, <3>2
  <2> QED
    BY <2>3, <2>4
<1>11. t = u
  BY <1>8, <1>9, <1>10, SameSeq
<1>12. k + 1 - c <= Len(q)
  BY <1>1, <1>4
<1>13. Latest(t, k + 1 - c, q)
  BY <1>4, <1>6, <1>11, <1>12 DEF Latest, u
<1> QED
  BY <1>9, <1>13 DEF q

-----------------------------------------------------------------------------
(* Sums over sets. *)

LEMMA SubsetSizes ==
  ASSUME NEW S, IsFiniteSet(S), NEW s \in SUBSET S
  PROVE  /\ Cardinality(s) \in Nat /\ Cardinality(s) <= Cardinality(S)
         /\ Cardinality(s) = 0 <=> s = {}
BY FS_Subset, FS_CardinalityType, FS_EmptySet

\* g is the recursion that adds h up over a set.
SumsUp(g, h, S) ==
  g = [s \in SUBSET S |->
         IF s = {} THEN 0
         ELSE h[CHOOSE x \in s : TRUE] + g[s \ {CHOOSE x \in s : TRUE}]]

\* The element that is added first, and what is left.
LEMMA SumTakes ==
  ASSUME NEW S, IsFiniteSet(S), NEW s \in SUBSET S, s # {}
  PROVE  LET x == CHOOSE x \in s : TRUE
         IN  /\ x \in s /\ s \ {x} \in SUBSET S
             /\ Cardinality(s \ {x}) = Cardinality(s) - 1
             /\ Cardinality(s) \in Nat \ {0}
<1>1. (CHOOSE x \in s : TRUE) \in s
  BY Zenon
<1>2. IsFiniteSet(s)
  BY FS_Subset
<1>3. Cardinality(s) \in Nat /\ Cardinality(s) # 0
  BY <1>2, FS_CardinalityType, FS_EmptySet
<1>4. Cardinality(s \ {CHOOSE x \in s : TRUE}) = Cardinality(s) - 1
  BY <1>1, <1>2, FS_RemoveElement
<1> QED
  BY <1>1, <1>3, <1>4

LEMMA SumExists ==
  ASSUME NEW S, IsFiniteSet(S), NEW h \in [S -> Nat]
  PROVE  \E g : SumsUp(g, h, S)
<1> DEFINE first(s) == CHOOSE x \in s : TRUE
           sum(g, s) == IF s = {} THEN 0 ELSE h[first(s)] + g[s \ {first(s)}]
           Ok(n, g) == \A s \in SUBSET S : Cardinality(s) <= n => g[s] = sum(g, s)
           A == {n \in Nat : \E g \in [SUBSET S -> Nat] : Ok(n, g)}
<1>1. 0 \in A
  <2> DEFINE g == [s \in SUBSET S |-> 0]
  <2>1. g \in [SUBSET S -> Nat]
    OBVIOUS
  <2>2. Ok(0, g)
    BY SubsetSizes
  <2> QED
    BY <2>1, <2>2
<1>2. ASSUME NEW n \in Nat, n \in A PROVE n + 1 \in A
  <2>1. PICK g \in [SUBSET S -> Nat] : Ok(n, g)
    BY <1>2
  <2> DEFINE k == [s \in SUBSET S |-> IF Cardinality(s) <= n THEN g[s] ELSE sum(g, s)]
  <2>2. \A s \in SUBSET S : s # {} => /\ first(s) \in s /\ s \ {first(s)} \in SUBSET S
                                      /\ Cardinality(s \ {first(s)}) = Cardinality(s) - 1
                                      /\ Cardinality(s) \in Nat
    BY SumTakes
  <2> HIDE DEF first
  <2>3. k \in [SUBSET S -> Nat]
    BY <2>2
  <2>4. ASSUME NEW s \in SUBSET S, Cardinality(s) <= n + 1 PROVE k[s] = sum(k, s)
    <3>1. k[s] = sum(g, s)
      BY <2>1
    <3>2. CASE s = {}
      BY <3>1, <3>2
    <3>3. CASE s # {}
      <4>1. Cardinality(s \ {first(s)}) <= n /\ s \ {first(s)} \in SUBSET S
        BY <2>2, <2>4, <3>3
      <4>2. k[s \ {first(s)}] = g[s \ {first(s)}]
        BY <4>1
      <4> QED
        BY <3>1, <4>2
    <3> QED
      BY <3>2, <3>3
  <2>5. Ok(n + 1, k)
    BY <2>4
  <2> HIDE DEF Ok, k
  <2> QED
    BY <2>3, <2>5
<1> HIDE DEF A
<1>3. Cardinality(S) \in Nat /\ Cardinality(S) \in A
  BY <1>1, <1>2, Induction, FS_CardinalityType
<1>4. PICK g \in [SUBSET S -> Nat] : Ok(Cardinality(S), g)
  BY <1>3 DEF A
<1>5. \A s \in SUBSET S : g[s] = sum(g, s)
  BY <1>4, SubsetSizes
<1>6. g = [s \in SUBSET S |-> sum(g, s)]
  BY <1>5
<1> QED
  BY <1>6 DEF SumsUp

LEMMA SumOfZeros ==
  ASSUME NEW S, IsFiniteSet(S), NEW g, SumsUp(g, [x \in S |-> 0], S)
  PROVE  g[S] = 0
<1> DEFINE A == {n \in Nat : \A s \in SUBSET S : Cardinality(s) <= n => g[s] = 0}
<1>1. 0 \in A
  BY SubsetSizes DEF SumsUp
<1>2. ASSUME NEW n \in Nat, n \in A PROVE n + 1 \in A
  <2>1. ASSUME NEW s \in SUBSET S, Cardinality(s) <= n + 1 PROVE g[s] = 0
    <3>1. CASE s = {}
      BY <3>1 DEF SumsUp
    <3>2. CASE s # {}
      <4>1. PICK x \in s : /\ s \ {x} \in SUBSET S /\ Cardinality(s \ {x}) = Cardinality(s) - 1
                           /\ Cardinality(s) \in Nat /\ g[s] = [y \in S |-> 0][x] + g[s \ {x}]
        BY <3>2, SumTakes DEF SumsUp
      <4>2. g[s \ {x}] = 0
        BY <1>2, <2>1, <4>1
      <4> QED
        BY <4>1, <4>2
    <3> QED
      BY <3>1, <3>2
  <2> QED
    BY <2>1
<1> HIDE DEF A
<1>3. Cardinality(S) \in Nat /\ Cardinality(S) \in A
  BY <1>1, <1>2, Induction, FS_CardinalityType
<1> QED
  BY <1>3 DEF A

\* One more at one element is one more in the sum.
LEMMA SumBumps ==
  ASSUME NEW S, IsFiniteSet(S), NEW h \in [S -> Nat], NEW p \in S,
         NEW more \in [S -> Nat], \A x \in S : more[x] = IF x = p THEN h[x] + 1 ELSE h[x],
         NEW g, SumsUp(g, h, S), NEW k, SumsUp(k, more, S)
  PROVE  g[S] \in Nat /\ k[S] = g[S] + 1
<1> DEFINE one(s) == IF p \in s THEN 1 ELSE 0
           A == {n \in Nat : \A s \in SUBSET S :
                   Cardinality(s) <= n => g[s] \in Nat /\ k[s] = g[s] + one(s)}
<1>1. 0 \in A
  BY SubsetSizes DEF SumsUp
<1>2. ASSUME NEW n \in Nat, n \in A PROVE n + 1 \in A
  <2>1. ASSUME NEW s \in SUBSET S, Cardinality(s) <= n + 1
        PROVE  g[s] \in Nat /\ k[s] = g[s] + one(s)
    <3>1. CASE s = {}
      BY <3>1 DEF SumsUp
    <3>2. CASE s # {}
      <4>1. PICK x \in s : /\ s \ {x} \in SUBSET S /\ Cardinality(s \ {x}) = Cardinality(s) - 1
                           /\ Cardinality(s) \in Nat /\ g[s] = h[x] + g[s \ {x}]
                           /\ k[s] = more[x] + k[s \ {x}]
        <5> DEFINE x == CHOOSE x \in s : TRUE
        <5>1. /\ x \in s /\ s \ {x} \in SUBSET S /\ Cardinality(s \ {x}) = Cardinality(s) - 1
              /\ Cardinality(s) \in Nat
          BY <3>2, SumTakes
        <5>2. g[s] = h[x] + g[s \ {x}] /\ k[s] = more[x] + k[s \ {x}]
          BY <3>2 DEF SumsUp
        <5> HIDE DEF x
        <5> QED
          BY <5>1, <5>2
      <4>2. g[s \ {x}] \in Nat /\ k[s \ {x}] = g[s \ {x}] + one(s \ {x})
        BY <1>2, <2>1, <4>1
      <4>3. x \in S /\ h[x] \in Nat
        OBVIOUS
      <4>4. CASE x = p
        BY <4>1, <4>2, <4>3, <4>4
      <4>5. CASE x # p
        BY <4>1, <4>2, <4>3, <4>5
      <4> QED
        BY <4>4, <4>5
    <3> QED
      BY <3>1, <3>2
  <2> QED
    BY <2>1
<1> HIDE DEF A
<1>3. Cardinality(S) \in Nat /\ Cardinality(S) \in A
  BY <1>1, <1>2, Induction, FS_CardinalityType
<1> QED
  BY <1>3 DEF A

\* The remainder of a small negative number.
LEMMA RemainderBelowZero ==
  ASSUME NEW v \in Int, NEW h \in Nat \ {0}, -h <= v, v < 0
  PROVE  v % h = v + h
<1>1. PICK q \in Int, m \in Int : v = h * q + m /\ m = v % h /\ 0 <= m /\ m < h
  <2>1. v \div h \in Int /\ v % h \in 0..(h - 1) /\ v = h * (v \div h) + (v % h)
    OBVIOUS
  <2> QED
    BY <2>1
<1>2. q < 0
  <2> SUFFICES ASSUME q >= 0 PROVE FALSE
    OBVIOUS
  <2>1. h * q >= 0
    OBVIOUS
  <2> QED
    BY <1>1, <2>1
<1>3. ~(q <= -2)
  <2> SUFFICES ASSUME q <= -2 PROVE FALSE
    OBVIOUS
  <2>1. h * q <= -2 * h
    OBVIOUS
  <2> QED
    BY <1>1, <2>1
<1>4. q = -1
  BY <1>2, <1>3
<1> QED
  BY <1>1, <1>4

LEMMA Powers ==
  ASSUME NEW n \in Nat
  PROVE  2 ^ n \in Nat \ {0} /\ 2 ^ (n + 1) = 2 * 2 ^ n
<1> DEFINE A == SUBSET (1..n)
           f == [s \in A |-> s \cup {n + 1}]
           B == {s \cup {n + 1} : s \in A}
<1>1. /\ IsFiniteSet(1..n) /\ Cardinality(1..n) = n
      /\ IsFiniteSet(1..(n + 1)) /\ Cardinality(1..(n + 1)) = n + 1
  BY FS_Interval
<1>2. /\ IsFiniteSet(A) /\ Cardinality(A) = 2 ^ n
      /\ IsFiniteSet(SUBSET (1..(n + 1))) /\ Cardinality(SUBSET (1..(n + 1))) = 2 ^ (n + 1)
  BY <1>1, FS_SUBSET
<1>3. Cardinality(A) \in Nat /\ A # {}
  BY <1>2, FS_CardinalityType
<1>4. Cardinality(A) # 0
  BY <1>2, <1>3, FS_EmptySet
<1>5. f \in Bijection(A, B)
  <2>1. f \in [A -> B] /\ \A b \in B : \E s \in A : f[s] = b
    OBVIOUS
  <2>2. ASSUME NEW s \in A, NEW t \in A, f[s] = f[t] PROVE s = t
    <3>1. n + 1 \notin s /\ n + 1 \notin t
      OBVIOUS
    <3>2. f[s] = s \cup {n + 1} /\ f[t] = t \cup {n + 1}
      OBVIOUS
    <3> QED
      BY <2>2, <3>1, <3>2
  <2> HIDE DEF f, A, B
  <2> QED
    BY <2>1, <2>2 DEF Bijection, Injection, Surjection, IsInjective
<1>6. ExistsBijection(A, B)
  BY <1>5, Zenon DEF ExistsBijection
<1>7. IsFiniteSet(B) /\ Cardinality(B) = 2 ^ n
  BY <1>2, <1>6, FS_Bijection
<1>8. SUBSET (1..(n + 1)) = A \cup B
  <2>1. ASSUME NEW s \in SUBSET (1..(n + 1)), n + 1 \in s PROVE s \in B
    <3>1. s \ {n + 1} \in A /\ s = (s \ {n + 1}) \cup {n + 1}
      BY <2>1
    <3> QED
      BY <3>1
  <2>2. ASSUME NEW s \in SUBSET (1..(n + 1)), n + 1 \notin s PROVE s \in A
    BY <2>2
  <2>3. 1..n \subseteq 1..(n + 1) /\ n + 1 \in 1..(n + 1)
    OBVIOUS
  <2>4. A \cup B \subseteq SUBSET (1..(n + 1))
    BY <2>3
  <2> QED
    BY <2>1, <2>2, <2>4
<1>9. A \cap B = {}
  <2>1. \A s \in A : n + 1 \notin s
    OBVIOUS
  <2>2. \A s \in B : n + 1 \in s
    OBVIOUS
  <2> QED
    BY <2>1, <2>2
<1> HIDE DEF A, B
<1>10. Cardinality(A \cup B) = Cardinality(A) + Cardinality(B) - Cardinality(A \cap B)
  BY <1>2, <1>7, FS_Union
<1> DEFINE p == 2 ^ n
           q == 2 ^ (n + 1)
<1>11. p = Cardinality(A) /\ p = Cardinality(B) /\ q = Cardinality(A \cup B)
  BY <1>2, <1>7, <1>8
<1> HIDE DEF p, q
<1>12. Cardinality(A \cap B) = 0
  BY <1>9, FS_EmptySet
<1>13. p \in Nat /\ p # 0 /\ q = p + p
  BY <1>3, <1>4, <1>10, <1>11, <1>12
<1>14. p \in Nat \ {0} /\ q = 2 * p
  BY <1>13
<1> QED
  BY <1>14 DEF p, q

-----------------------------------------------------------------------------
(* Sets of numbers up to m, and how many they have. *)

LEMMA Small ==
  ASSUME NEW m \in Nat, NEW X, X \subseteq 1..m
  PROVE  IsFiniteSet(X) /\ Cardinality(X) \in Nat
<1>1. IsFiniteSet(1..m)
  BY FS_Interval
<1> QED
  BY <1>1, FS_Subset, FS_CardinalityType

LEMMA SmallParts ==
  ASSUME NEW m \in Nat, NEW X, X \subseteq 1..m, NEW Y, Y \subseteq X
  PROVE  Cardinality(Y) <= Cardinality(X)
BY Small, FS_Subset

\* The sizes of two sets and of both together.
Sizes(X, Y) ==
  /\ Cardinality(X) \in Nat /\ Cardinality(Y) \in Nat
  /\ Cardinality(X \cup Y) \in Nat /\ Cardinality(X \cap Y) \in Nat
  /\ Cardinality(X \cup Y) + Cardinality(X \cap Y) = Cardinality(X) + Cardinality(Y)
  /\ X \cap Y = {} => Cardinality(X \cap Y) = 0

LEMMA SmallUnion ==
  ASSUME NEW m \in Nat, NEW X, X \subseteq 1..m, NEW Y, Y \subseteq 1..m
  PROVE  Sizes(X, Y)
<1>1. IsFiniteSet(X) /\ IsFiniteSet(Y) /\ Cardinality(X) \in Nat /\ Cardinality(Y) \in Nat
  BY Small
<1>2. X \cup Y \subseteq 1..m /\ X \cap Y \subseteq 1..m
  OBVIOUS
<1>3. Cardinality(X \cup Y) \in Nat /\ Cardinality(X \cap Y) \in Nat
  BY <1>2, Small
<1>4. Cardinality(X \cup Y) = Cardinality(X) + Cardinality(Y) - Cardinality(X \cap Y)
  BY <1>1, FS_Union
<1>5. X \cap Y = {} => Cardinality(X \cap Y) = 0
  BY FS_EmptySet
<1> QED
  BY <1>1, <1>3, <1>4, <1>5 DEF Sizes
-----------------------------------------------------------------------------
(* Folds. *)

\* The parts P of whole, numbers from 1 to n, share nothing; h are their sizes.
Parts(P, h, S, n, whole) ==
  /\ IsFiniteSet(S) /\ n \in Nat /\ P \in [S -> SUBSET (1..n)]
  /\ \A i, j \in S : i # j => P[i] \cap P[j] = {}
  /\ h \in [S -> Nat] /\ \A i \in S : h[i] = Cardinality(P[i])
  /\ whole = UNION {P[i] : i \in S}

\* The sizes add up to the size of the whole.
LEMMA SumOfParts ==
  ASSUME NEW S, NEW n, NEW P, NEW h, NEW whole, Parts(P, h, S, n, whole), NEW g, SumsUp(g, h, S)
  PROVE  g[S] = Cardinality(whole)
<1>0. /\ IsFiniteSet(S) /\ n \in Nat /\ P \in [S -> SUBSET (1..n)]
      /\ \A i, j \in S : i # j => P[i] \cap P[j] = {}
      /\ h \in [S -> Nat] /\ \A i \in S : h[i] = Cardinality(P[i])
      /\ whole = UNION {P[i] : i \in S}
  BY DEF Parts
<1> DEFINE all(s) == UNION {P[i] : i \in s}
           A == {k \in Nat : \A s \in SUBSET S : Cardinality(s) <= k => g[s] = Cardinality(all(s))}
<1>1. ASSUME NEW s \in SUBSET S, s = {} PROVE g[s] = Cardinality(all(s))
  <2>1. g[s] = 0 /\ all(s) = {}
    BY <1>1 DEF SumsUp
  <2> QED
    BY <2>1, FS_EmptySet
<1>2. 0 \in A
  <2>1. \A s \in SUBSET S : Cardinality(s) <= 0 => s = {}
    BY <1>0, SubsetSizes
  <2> HIDE DEF all
  <2> QED
    BY <1>1, <2>1
<1>3. ASSUME NEW k \in Nat, k \in A PROVE k + 1 \in A
  <2>1. ASSUME NEW s \in SUBSET S, Cardinality(s) <= k + 1, s # {} PROVE g[s] = Cardinality(all(s))
    <3>1. PICK x \in s : /\ s \ {x} \in SUBSET S /\ Cardinality(s \ {x}) = Cardinality(s) - 1
                         /\ Cardinality(s) \in Nat /\ g[s] = h[x] + g[s \ {x}]
      <4> DEFINE x == CHOOSE x \in s : TRUE
      <4>1. /\ x \in s /\ s \ {x} \in SUBSET S /\ Cardinality(s \ {x}) = Cardinality(s) - 1
            /\ Cardinality(s) \in Nat
        BY <1>0, <2>1, SumTakes
      <4>2. g[s] = h[x] + g[s \ {x}]
        BY <2>1 DEF SumsUp
      <4> HIDE DEF x
      <4> QED
        BY <4>1, <4>2
    <3>2. g[s \ {x}] = Cardinality(all(s \ {x}))
      BY <1>3, <2>1, <3>1
    <3>3. PICK X, Y : X = P[x] /\ Y = all(s \ {x}) /\ X \subseteq 1..n /\ Y \subseteq 1..n
      <4>1. \A i \in S : P[i] \subseteq 1..n
        BY <1>0
      <4>2. P[x] \subseteq 1..n /\ all(s \ {x}) \subseteq 1..n
        BY <4>1
      <4> HIDE DEF all
      <4> QED
        BY <4>2
    <3>4. all(s) = X \cup Y
      BY <3>1, <3>3
    <3>5. X \cap Y = {}
      <4>1. \A i \in s \ {x} : P[x] \cap P[i] = {}
        BY <1>0
      <4> QED
        BY <3>3, <4>1
    <3>6. Sizes(X, Y)
      BY <1>0, <3>3, SmallUnion
    <3>7. h[x] = Cardinality(X)
      BY <1>0, <3>3
    <3> HIDE DEF all
    <3>8. Cardinality(X \cup Y) = Cardinality(X) + Cardinality(Y)
      <4>1. Cardinality(X \cap Y) = 0
        BY <3>5, FS_EmptySet
      <4> QED
        BY <3>6, <4>1 DEF Sizes
    <3>9. g[s \ {x}] = Cardinality(Y)
      BY <3>2, <3>3
    <3> QED
      BY <3>1, <3>4, <3>7, <3>8, <3>9
  <2> HIDE DEF all
  <2> QED
    BY <1>1, <2>1
<1> HIDE DEF A
<1>4. Cardinality(S) \in Nat /\ Cardinality(S) \in A
  BY <1>0, <1>2, <1>3, Induction, FS_CardinalityType
<1> HIDE DEF all
<1>5. g[S] = Cardinality(all(S))
  BY <1>4 DEF A
<1> QED
  BY <1>0, <1>5 DEF all

LEMMA TwoOrMore ==
  ASSUME NEW S, IsFiniteSet(S), NEW a \in S
  PROVE  /\ Cardinality(S) \in Nat
         /\ Cardinality(S) >= 2 <=> \E b \in S : b # a
<1>1. PICK T : T = S \ {a}
  OBVIOUS
<1>2. IsFiniteSet(T) /\ Cardinality(T) = Cardinality(S) - 1
  BY <1>1, FS_RemoveElement
<1>3. Cardinality(S) \in Nat /\ Cardinality(T) \in Nat
  BY <1>2, FS_CardinalityType
<1>4. Cardinality(T) = 0 <=> T = {}
  BY <1>2, FS_EmptySet
<1>5. Cardinality(S) >= 2 <=> Cardinality(T) # 0
  BY <1>2, <1>3
<1>6. T # {} <=> \E b \in S : b # a
  BY <1>1
<1> QED
  BY <1>3, <1>4, <1>5, <1>6

\* Numbers that stand for stations and times along a line in turn.
InStep(st, at, m) ==
  /\ st \in [1..m -> Nat] /\ at \in [1..m -> Nat]
  /\ \A k, l \in 1..m : k < l => st[k] < st[l] \/ (st[k] = st[l] /\ at[k] <= at[l])

\* From p to q every step is short iff no silence lies between them.
LEMMA NoSilence ==
  ASSUME NEW m \in Nat, NEW st, NEW at, InStep(st, at, m), NEW w \in Nat,
         NEW p \in 1..m, NEW q \in 1..m, p <= q, st[p] = st[q]
  PROVE  (\A r \in (p + 1)..q : st[r - 1] = st[r] /\ at[r] - at[r - 1] <= w) <=>
         (\A x \in 1..m : (st[x] = st[p] /\ at[p] <= at[x] /\ at[x] < at[q]) =>
            \E y \in 1..m : st[y] = st[p] /\ at[x] < at[y] /\ at[y] - at[x] <= w)
<1>1. \A r \in 1..m : st[r] \in Nat /\ at[r] \in Nat
  BY DEF InStep
<1>2. \A k, l \in 1..m : k < l => st[k] < st[l] \/ (st[k] = st[l] /\ at[k] <= at[l])
  BY DEF InStep
<1>3. \A r \in p..q : r \in 1..m /\ st[r] = st[p] /\ at[p] <= at[r] /\ at[r] <= at[q]
  <2> SUFFICES ASSUME NEW r \in p..q
               PROVE  r \in 1..m /\ st[r] = st[p] /\ at[p] <= at[r] /\ at[r] <= at[q]
    OBVIOUS
  <2>1. r \in 1..m
    OBVIOUS
  <2>2. r = p \/ st[p] < st[r] \/ (st[p] = st[r] /\ at[p] <= at[r])
    BY <1>2, <2>1
  <2>3. r = q \/ st[r] < st[q] \/ (st[r] = st[q] /\ at[r] <= at[q])
    BY <1>2, <2>1
  <2>4. st[r] \in Nat /\ st[p] \in Nat /\ at[r] \in Nat /\ at[p] \in Nat /\ at[q] \in Nat
    BY <1>1, <2>1
  <2>5. p = q \/ at[p] <= at[q]
    BY <1>2, <2>4
  <2> QED
    BY <2>1, <2>2, <2>3, <2>4, <2>5
<1>4. ASSUME \A r \in (p + 1)..q : st[r - 1] = st[r] /\ at[r] - at[r - 1] <= w,
             NEW x \in 1..m, st[x] = st[p], at[p] <= at[x], at[x] < at[q]
      PROVE  \E y \in 1..m : st[y] = st[p] /\ at[x] < at[y] /\ at[y] - at[x] <= w
  <2> DEFINE D == {r \in Nat : r \in p..q /\ at[x] < at[r]}
  <2>1. q \in D /\ D \in SUBSET Nat /\ D # {}
    BY <1>4
  <2>2. PICK y \in D : \A r \in D : y <= r
    BY <2>1, LeastNatural
  <2>3. y \in p..q /\ at[x] < at[y]
    BY <2>2
  <2>4. y # p
    BY <1>1, <1>4, <2>3
  <2>5. y \in (p + 1)..q /\ y - 1 \in p..q /\ y - 1 \in Nat
    BY <2>3, <2>4
  <2>6. ~(at[x] < at[y - 1])
    BY <2>2, <2>5
  <2>7. at[y] - at[y - 1] <= w
    BY <1>4, <2>5
  <2>8. y \in 1..m /\ st[y] = st[p] /\ y - 1 \in 1..m
    BY <1>3, <2>3, <2>5
  <2>9. at[y] \in Nat /\ at[x] \in Nat /\ at[y - 1] \in Nat
    BY <1>1, <2>8
  <2>10. at[y] - at[x] <= w
    BY <2>6, <2>7, <2>9
  <2> QED
    BY <2>3, <2>8, <2>10
<1>5. ASSUME \A x \in 1..m : (st[x] = st[p] /\ at[p] <= at[x] /\ at[x] < at[q]) =>
               \E y \in 1..m : st[y] = st[p] /\ at[x] < at[y] /\ at[y] - at[x] <= w,
             NEW r \in (p + 1)..q
      PROVE  st[r - 1] = st[r] /\ at[r] - at[r - 1] <= w
  <2>1. PICK x \in 1..m : x = r - 1 /\ x \in p..q /\ r \in p..q /\ r \in 1..m
    OBVIOUS
  <2>2. st[x] = st[p] /\ st[r] = st[p] /\ at[p] <= at[x] /\ at[r] <= at[q]
    BY <1>3, <2>1
  <2>3. PICK a \in Nat, b \in Nat : a = at[x] /\ b = at[r] /\ at[q] \in Nat
    BY <1>1, <2>1
  <2>4. b - a <= w
    <3> SUFFICES ASSUME b - a > w PROVE FALSE
      BY <2>3
    <3>1. at[x] < at[q]
      BY <2>2, <2>3
    <3>2. PICK y \in 1..m : st[y] = st[p] /\ at[x] < at[y] /\ at[y] - at[x] <= w
      BY <1>5, <2>2, <3>1
    <3>3. PICK c \in Nat : c = at[y]
      BY <1>1
    <3>4. a < c /\ c < b
      BY <2>3, <3>2, <3>3
    <3>5. y < r
      <4> SUFFICES ASSUME r <= y PROVE FALSE
        OBVIOUS
      <4>1. y = r \/ st[r] < st[y] \/ at[r] <= at[y]
        BY <1>2, <2>1
      <4>2. y = r \/ b <= c
        BY <1>1, <2>1, <2>2, <2>3, <3>2, <3>3, <4>1
      <4> QED
        BY <2>3, <3>3, <3>4, <4>2
    <3>6. y <= x
      BY <2>1, <3>5
    <3>7. y = x \/ st[y] < st[x] \/ at[y] <= at[x]
      BY <1>2, <3>6
    <3>8. y = x \/ c <= a
      BY <1>1, <2>1, <2>2, <2>3, <3>2, <3>3, <3>7
    <3> QED
      BY <2>3, <3>3, <3>4, <3>8
  <2> QED
    BY <2>1, <2>2, <2>3, <2>4
<1> QED
  BY <1>4, <1>5

\* A sum of n - 1 steps, none of them longer than w.
LEMMA ShortSteps ==
  ASSUME NEW n \in Nat, NEW w \in Nat, NEW at \in [1..n -> Nat], n # 0,
         \A j \in 1..n : j > 1 => at[j - 1] <= at[j] /\ at[j] - at[j - 1] <= w
  PROVE  0 <= at[n] - at[1] /\ at[n] - at[1] <= (n - 1) * w
<1> DEFINE A == {j \in Nat : j + 1 <= n => 0 <= at[j + 1] - at[1] /\ at[j + 1] - at[1] <= j * w}
<1>1. 0 \in A
  <2>1. at[1] \in Nat /\ 0 * w = 0
    OBVIOUS
  <2> QED
    BY <2>1
<1>2. ASSUME NEW j \in Nat, j \in A PROVE j + 1 \in A
  <2> SUFFICES ASSUME j + 2 <= n
               PROVE  0 <= at[j + 2] - at[1] /\ at[j + 2] - at[1] <= (j + 1) * w
    OBVIOUS
  <2>1. PICK i \in 1..n, k \in 1..n : i = j + 1 /\ k = j + 2 /\ k > 1 /\ k - 1 = i /\ 1 \in 1..n
    OBVIOUS
  <2>2. PICK a \in Nat, b \in Nat, d \in Nat : a = at[1] /\ b = at[i] /\ d = at[k]
    BY <2>1
  <2>3. PICK x \in Nat : x = j * w /\ (j + 1) * w = x + w
    OBVIOUS
  <2>4. 0 <= b - a /\ b - a <= x
    BY <1>2, <2>1, <2>2, <2>3
  <2>5. b <= d /\ d - b <= w
    BY <2>1, <2>2
  <2>6. 0 <= d - a /\ d - a <= x + w
    BY <2>4, <2>5
  <2> QED
    BY <2>1, <2>2, <2>3, <2>6
<1> HIDE DEF A
<1>3. PICK k \in Nat : k = n - 1 /\ k + 1 = n
  OBVIOUS
<1>4. k \in A
  BY <1>1, <1>2, Induction
<1> QED
  BY <1>3, <1>4 DEF A

Greatest(A) == CHOOSE x \in A : \A y \in A : x >= y

\* g is the recursion that takes the numbers of a set from the greatest down.
FoldsUp(g, n, base, step) ==
  g = [A \in SUBSET (1..n) |->
         IF A = {} THEN base ELSE step[Greatest(A)][g[A \ {Greatest(A)}]]]

LEMMA GreatestIn ==
  ASSUME NEW n \in Nat, NEW A \in SUBSET (1..n), A # {}
  PROVE  /\ Greatest(A) \in A /\ A \ {Greatest(A)} \in SUBSET (1..n)
         /\ Cardinality(A \ {Greatest(A)}) = Cardinality(A) - 1
         /\ Cardinality(A) \in Nat \ {0}
<1> DEFINE B == {d \in Nat : n - d \in A}
<1>1. B # {} /\ B \in SUBSET Nat
  <2>1. PICK k : k \in A /\ k \in Nat /\ k <= n
    <3>1. PICK k : k \in A
      OBVIOUS
    <3>2. k \in 1..n
      BY <3>1
    <3> QED
      BY <3>1, <3>2
  <2>2. n - k \in Nat /\ n - (n - k) = k
    BY <2>1
  <2> QED
    BY <2>1, <2>2
<1>2. PICK d \in B : \A e \in B : d <= e
  BY <1>1, LeastNatural
<1>3. \A k \in A : n - d >= k
  <2> SUFFICES ASSUME NEW k \in A PROVE n - d >= k
    OBVIOUS
  <2>1. k \in Nat /\ n - k \in Nat /\ n - (n - k) = k /\ d \in Nat
    OBVIOUS
  <2>2. n - k \in B
    BY <2>1
  <2>3. d <= n - k
    BY <1>2, <2>2
  <2> QED
    BY <2>1, <2>3
<1>4. n - d \in A
  BY <1>2
<1>5. Greatest(A) \in A
  BY <1>3, <1>4, Zenon DEF Greatest
<1>6. IsFiniteSet(1..n)
  BY FS_Interval
<1>7. IsFiniteSet(A)
  BY <1>6, FS_Subset
<1>8. Cardinality(A) \in Nat /\ Cardinality(A) # 0
  BY <1>7, FS_CardinalityType, FS_EmptySet
<1>9. Cardinality(A \ {Greatest(A)}) = Cardinality(A) - 1
  BY <1>5, <1>7, FS_RemoveElement
<1> QED
  BY <1>5, <1>8, <1>9

LEMMA FoldExists ==
  ASSUME NEW n \in Nat, NEW S, NEW base \in S, NEW step \in [1..n -> [S -> S]]
  PROVE  \E g \in [SUBSET (1..n) -> S] : FoldsUp(g, n, base, step)
<1> DEFINE P == SUBSET (1..n)
           last(A) == Greatest(A)
           value(g, A) == IF A = {} THEN base ELSE step[last(A)][g[A \ {last(A)}]]
           Ok(m, g) == \A A \in P : Cardinality(A) <= m => g[A] = value(g, A)
           M == {m \in Nat : \E g \in [P -> S] : Ok(m, g)}
<1>1. \A A \in P : A # {} => /\ last(A) \in 1..n /\ A \ {last(A)} \in P
                             /\ Cardinality(A \ {last(A)}) = Cardinality(A) - 1
                             /\ Cardinality(A) \in Nat \ {0}
  BY GreatestIn
<1>2. Cardinality({}) = 0
  BY FS_EmptySet
<1> HIDE DEF last, P
<1>3. 0 \in M
  <2> DEFINE g == [A \in P |-> base]
  <2>1. g \in [P -> S]
    OBVIOUS
  <2>2. \A A \in P : Cardinality(A) <= 0 => A = {}
    <3> SUFFICES ASSUME NEW A \in P, A # {}, Cardinality(A) <= 0 PROVE FALSE
      OBVIOUS
    <3>1. Cardinality(A) \in Nat \ {0}
      BY <1>1
    <3> QED
      BY <3>1
  <2>3. \A A \in P : A = {} => g[A] = value(g, A)
    OBVIOUS
  <2>4. Ok(0, g)
    BY <2>2, <2>3
  <2> QED
    BY <2>1, <2>4
<1>4. ASSUME NEW m \in Nat, m \in M PROVE m + 1 \in M
  <2>1. PICK g \in [P -> S] : Ok(m, g)
    BY <1>4
  <2> DEFINE h == [A \in P |-> IF Cardinality(A) <= m THEN g[A] ELSE value(g, A)]
  <2>2. \A A \in P : value(g, A) \in S
    BY <1>1
  <2>3. h \in [P -> S]
    BY <2>2
  <2>4. ASSUME NEW A \in P, Cardinality(A) <= m + 1 PROVE h[A] = value(h, A)
    <3>1. h[A] = value(g, A)
      BY <2>1
    <3>2. CASE A = {}
      BY <3>1, <3>2
    <3>3. CASE A # {}
      <4>1. Cardinality(A \ {last(A)}) <= m /\ A \ {last(A)} \in P
        BY <1>1, <2>4, <3>3
      <4>2. h[A \ {last(A)}] = g[A \ {last(A)}]
        BY <4>1
      <4> QED
        BY <3>1, <4>2
    <3> QED
      BY <3>2, <3>3
  <2>5. Ok(m + 1, h)
    BY <2>4
  <2> HIDE DEF Ok, h
  <2> QED
    BY <2>3, <2>5
<1> HIDE DEF M
<1>5. \A m \in Nat : m \in M
  BY <1>3, <1>4, Induction
<1>6. n \in M
  BY <1>5
<1>7. PICK g \in [P -> S] : Ok(n, g)
  BY <1>6 DEF M
<1>8. \A A \in P : Cardinality(A) <= n
  <2>1. IsFiniteSet(1..n) /\ Cardinality(1..n) = n
    BY FS_Interval
  <2> SUFFICES ASSUME NEW A \in P PROVE Cardinality(A) <= n
    OBVIOUS
  <2>2. A \in SUBSET (1..n)
    BY DEF P
  <2>3. Cardinality(A) <= Cardinality(1..n)
    BY <2>1, <2>2, SubsetSizes
  <2> QED
    BY <2>1, <2>3
<1>9. \A A \in P : g[A] = value(g, A)
  BY <1>7, <1>8
<1>10. g = [A \in P |-> value(g, A)]
  BY <1>9
<1> QED
  BY <1>10 DEF FoldsUp, P, last

\* The last number of the first k is k.
LEMMA FoldTakes ==
  ASSUME NEW n \in Nat, NEW k \in 1..n
  PROVE  /\ Greatest(1..k) = k /\ (1..k) \ {k} = 1..(k - 1)
         /\ 1..k \in SUBSET (1..n) /\ 1..k # {}
<1>1. k \in 1..k /\ \A y \in 1..k : k >= y
  OBVIOUS
<1>2. \A x \in 1..k : (\A y \in 1..k : x >= y) => x = k
  OBVIOUS
<1>3. Greatest(1..k) \in 1..k /\ \A y \in 1..k : Greatest(1..k) >= y
  BY <1>1, Zenon DEF Greatest
<1> QED
  BY <1>2, <1>3

-----------------------------------------------------------------------------
(* Counting and order. *)

\* Of two sets one in the other, the larger has more members.
LEMMA Larger ==
  ASSUME NEW K, IsFiniteSet(K), NEW S \in SUBSET K, NEW T \in SUBSET S, NEW i \in S, i \notin T
  PROVE  Cardinality(T) < Cardinality(S)
<1>1. T # S
  OBVIOUS
<1>2. S \in SUBSET K /\ T \in SUBSET K
  OBVIOUS
<1>3. IsFiniteSet(S)
  BY FS_Subset
<1>4. Cardinality(T) <= Cardinality(S) /\ Cardinality(T) # Cardinality(S)
  BY <1>1, <1>3, FS_Subset
<1>5. Cardinality(T) \in Int /\ Cardinality(S) \in Int
  BY <1>2, SubsetSizes
<1> QED
  BY <1>4, <1>5

\* The places that stay, counted from the front, are the numbers up to their count.
LEMMA Places ==
  ASSUME NEW n \in Nat, NEW K \in SUBSET (1..n)
  PROVE  LET Place(i) == Cardinality({j \in K : j <= i})
         IN  /\ IsFiniteSet(K) /\ Cardinality(K) \in Nat
             /\ [k \in 1..Cardinality(K) |-> CHOOSE i \in K : Place(i) = k]
                  \in Bijection(1..Cardinality(K), K)
<1> DEFINE Place(i) == Cardinality({j \in K : j <= i})
           m == Cardinality(K)
           place == [i \in K |-> Place(i)]
           pos == [k \in 1..m |-> CHOOSE i \in K : Place(i) = k]
<1>1. IsFiniteSet(K) /\ m \in Nat
  <2>1. IsFiniteSet(1..n)
    BY FS_Interval
  <2> QED
    BY <2>1, FS_Subset, FS_CardinalityType
<1>2. ASSUME NEW i \in K PROVE Place(i) \in 1..m
  <2>1. {j \in K : j <= i} \in SUBSET K /\ {j \in K : j <= i} # {}
    OBVIOUS
  <2> QED
    BY <1>1, <2>1, SubsetSizes
<1>3. ASSUME NEW i \in K, NEW j \in K, i < j PROVE Place(i) < Place(j)
  <2> DEFINE below == {h \in K : h <= i}
             upTo == {h \in K : h <= j}
  <2> i \in Int /\ j \in Int /\ \A h \in K : h \in Int
    OBVIOUS
  <2>1. below \in SUBSET upTo /\ upTo \in SUBSET K /\ j \in upTo /\ j \notin below
    <3>1. \A h \in K : h <= i => h <= j
      BY <1>3
    <3>2. below \in SUBSET upTo
      BY <3>1
    <3>3. j \in upTo
      OBVIOUS
    <3>4. j \notin below
      BY <1>3
    <3>5. upTo \in SUBSET K
      OBVIOUS
    <3> QED
      BY <3>2, <3>3, <3>4, <3>5
  <2>2. IsFiniteSet(upTo)
    BY <1>1, <2>1, FS_Subset
  <2>3. below # upTo
    BY <2>1
  <2> HIDE DEF below, upTo
  <2>4. Cardinality(below) <= Cardinality(upTo) /\ Cardinality(below) # Cardinality(upTo)
    BY <2>1, <2>2, <2>3, FS_Subset
  <2>5. Cardinality(below) \in Nat /\ Cardinality(upTo) \in Nat
    BY <2>1, <2>2, SubsetSizes
  <2>6. Cardinality(below) < Cardinality(upTo)
    BY <2>4, <2>5
  <2> QED
    BY <2>6 DEF below, upTo
<1> HIDE DEF Place, m
<1>4. place \in Injection(K, 1..m)
  <2>1. place \in [K -> 1..m]
    BY <1>2
  <2>2. ASSUME NEW i \in K, NEW j \in K, place[i] = place[j] PROVE i = j
    <3>1. Place(i) = Place(j) /\ Place(i) \in Int /\ Place(j) \in Int /\ i \in Int /\ j \in Int
      BY <1>2, <2>2
    <3> QED
      BY <1>3, <3>1
  <2> QED
    BY <2>1, <2>2 DEF Injection, IsInjective
<1>5. IsFiniteSet(1..m) /\ Cardinality(1..m) = m
  BY <1>1, FS_Interval
<1>6. place \in Surjection(K, 1..m)
  BY <1>4, <1>5, FS_Injection DEF m
<1>7. \A k \in 1..m : \E i \in K : Place(i) = k
  BY <1>6 DEF Surjection
<1>8. \A k \in 1..m : pos[k] \in K /\ Place(pos[k]) = k
  BY <1>7
<1>9. ASSUME NEW i \in K PROVE pos[Place(i)] = i
  <2>1. pos[Place(i)] \in K /\ Place(pos[Place(i)]) = Place(i)
    BY <1>2, <1>8
  <2> QED
    BY <1>4, <2>1 DEF Injection, IsInjective
<1>10. pos \in [1..m -> K]
  BY <1>8
<1>11. pos \in Bijection(1..m, K)
  <2> HIDE DEF pos
  <2> QED
    BY <1>2, <1>8, <1>9, <1>10 DEF Bijection, Injection, Surjection, IsInjective
<1> QED
  BY <1>1, <1>11 DEF Place, m

\* The members of K that are not after i in the order le, counted, are its number:
\* they get the numbers up to their count.
LEMMA RanksByCount ==
  ASSUME NEW K, IsFiniteSet(K), NEW le,
         \A i \in K : <<i, i>> \in le,
         \A i, j \in K : <<i, j>> \in le \/ <<j, i>> \in le,
         \A i, j \in K : <<i, j>> \in le /\ <<j, i>> \in le => i = j,
         \A i, j, k \in K : <<i, j>> \in le /\ <<j, k>> \in le => <<i, k>> \in le,
         NEW rank, rank = [i \in K |-> Cardinality({j \in K : <<j, i>> \in le})]
  PROVE  /\ rank \in Bijection(K, 1..Cardinality(K))
         /\ \A i, j \in K : rank[i] <= rank[j] => <<i, j>> \in le
<1> DEFINE upTo(i) == {j \in K : <<j, i>> \in le}
           m == Cardinality(K)
<1>1. m \in Nat /\ IsFiniteSet(1..m) /\ Cardinality(1..m) = m
  BY FS_CardinalityType, FS_Interval
<1>2. ASSUME NEW i \in K PROVE rank[i] \in 1..m
  <2>1. upTo(i) \in SUBSET K /\ upTo(i) # {}
    OBVIOUS
  <2>2. rank[i] = Cardinality(upTo(i))
    OBVIOUS
  <2> HIDE DEF upTo
  <2>3. /\ Cardinality(upTo(i)) \in Nat /\ Cardinality(upTo(i)) <= m
        /\ Cardinality(upTo(i)) # 0
    BY <2>1, SubsetSizes
  <2> HIDE DEF m
  <2> QED
    BY <1>1, <2>2, <2>3
<1>3. ASSUME NEW i \in K, NEW j \in K, <<i, j>> \notin le PROVE rank[j] < rank[i]
  <2>1. <<j, i>> \in le /\ i # j
    BY <1>3
  <2>2. upTo(j) \in SUBSET upTo(i) /\ upTo(i) \in SUBSET K
    BY <2>1
  <2>3. i \in upTo(i) /\ i \notin upTo(j)
    BY <1>3
  <2>4. rank[i] = Cardinality(upTo(i)) /\ rank[j] = Cardinality(upTo(j))
    OBVIOUS
  <2> HIDE DEF upTo
  <2>5. Cardinality(upTo(j)) < Cardinality(upTo(i))
    BY <2>2, <2>3, Larger
  <2> QED
    BY <2>4, <2>5
<1>4. rank \in [K -> 1..m]
  BY <1>2
<1> HIDE DEF m
<1>5. \A i \in K : rank[i] \in Int
  BY <1>1, <1>4
<1>6. ASSUME NEW i \in K, NEW j \in K, rank[i] <= rank[j] PROVE <<i, j>> \in le
  <2>1. rank[i] \in Int /\ rank[j] \in Int
    BY <1>5
  <2>2. ~(rank[j] < rank[i])
    BY <1>6, <2>1
  <2> QED
    BY <1>3, <2>2
<1>7. ASSUME NEW i \in K, NEW j \in K, rank[i] = rank[j] PROVE i = j
  <2>1. rank[i] \in Int /\ rank[j] \in Int
    BY <1>5
  <2>2. rank[i] <= rank[j] /\ rank[j] <= rank[i]
    BY <1>7, <2>1
  <2> QED
    BY <1>6, <2>2
<1>8. rank \in Injection(K, 1..m)
  BY <1>4, <1>7 DEF Injection, IsInjective
<1>9. rank \in Surjection(K, 1..m)
  BY <1>1, <1>8, FS_Injection DEF m
<1>10. rank \in Bijection(K, 1..m)
  BY <1>8, <1>9 DEF Bijection
<1> QED
  BY <1>6, <1>10 DEF m

LEMMA Ranks ==
  ASSUME NEW K, IsFiniteSet(K), NEW le,
         \A i \in K : <<i, i>> \in le,
         \A i, j \in K : <<i, j>> \in le \/ <<j, i>> \in le,
         \A i, j \in K : <<i, j>> \in le /\ <<j, i>> \in le => i = j,
         \A i, j, k \in K : <<i, j>> \in le /\ <<j, k>> \in le => <<i, k>> \in le
  PROVE  \E rank \in Bijection(K, 1..Cardinality(K)) :
           \A i, j \in K : rank[i] <= rank[j] => <<i, j>> \in le
<1>1. PICK r : r = [i \in K |-> Cardinality({j \in K : <<j, i>> \in le})]
  OBVIOUS
<1>2. r \in Bijection(K, 1..Cardinality(K)) /\ \A i, j \in K : r[i] <= r[j] => <<i, j>> \in le
  BY <1>1, RanksByCount
<1> QED
  BY <1>2

\* As many have a number from a band as it is wide, at most.
LEMMA InBand ==
  ASSUME NEW K, NEW n \in Nat, NEW rank \in [K -> 1..n],
         \A i, j \in K : rank[i] = rank[j] => i = j,
         NEW a \in Int, NEW d \in Nat, NEW S \in SUBSET K,
         \A i \in S : a < rank[i] /\ rank[i] <= a + d
  PROVE  IsFiniteSet(S) /\ Cardinality(S) <= d
<1> DEFINE T == (a + 1)..(a + d)
           f == [i \in S |-> rank[i]]
<1>1. IsFiniteSet(T) /\ Cardinality(T) = d
  <2>1. a + 1 \in Int /\ a + d \in Int /\ (a + 1 > a + d <=> d = 0) /\ (a + d) - (a + 1) + 1 = d
    OBVIOUS
  <2> QED
    BY <2>1, FS_Interval
<1>2. \A i \in S : rank[i] \in T
  <2> SUFFICES ASSUME NEW i \in S PROVE rank[i] \in T
    OBVIOUS
  <2>1. rank[i] \in Int
    OBVIOUS
  <2> QED
    BY <2>1
<1>3. f \in Injection(S, T)
  <2>1. f \in [S -> T]
    BY <1>2
  <2>2. \A i, j \in S : f[i] = f[j] => i = j
    OBVIOUS
  <2> HIDE DEF f, T
  <2> QED
    BY <2>1, <2>2 DEF Injection, IsInjective
<1> HIDE DEF f, T
<1> QED
  BY <1>1, <1>3, FS_Injection

\* Whose number is k.
LEMMA Inverted ==
  ASSUME NEW K, NEW m \in Nat, NEW rank \in Bijection(K, 1..m)
  PROVE  \E pos \in Bijection(1..m, K) : \A k \in 1..m : pos[k] \in K /\ rank[pos[k]] = k
<1> DEFINE pos == [k \in 1..m |-> CHOOSE i \in K : rank[i] = k]
<1>1. /\ rank \in [K -> 1..m] /\ \A k \in 1..m : \E i \in K : rank[i] = k
      /\ \A i, j \in K : rank[i] = rank[j] => i = j
  BY DEF Bijection, Injection, Surjection, IsInjective
<1>2. \A k \in 1..m : pos[k] \in K /\ rank[pos[k]] = k
  BY <1>1
<1>3. pos \in [1..m -> K]
  BY <1>2
<1> HIDE DEF pos
<1>4. \A i \in K : rank[i] \in 1..m /\ pos[rank[i]] = i
  BY <1>1, <1>2
<1>5. \A k, h \in 1..m : pos[k] = pos[h] => k = h
  BY <1>2
<1>6. pos \in Bijection(1..m, K)
  BY <1>3, <1>4, <1>5 DEF Bijection, Injection, Surjection, IsInjective
<1> QED
  BY <1>2, <1>6

\* Numbers can be put in order.
LEMMA SortExists ==
  ASSUME NEW n \in Nat, NEW s \in [1..n -> Nat]
  PROVE  \E p \in Bijection(1..n, 1..n) : \A k \in 2..n : s[p[k - 1]] <= s[p[k]]
<1> DEFINE K == 1..n
           le == {ij \in K \X K : \/ s[ij[1]] < s[ij[2]]
                                  \/ s[ij[1]] = s[ij[2]] /\ ij[1] <= ij[2]}
<1>1. \A i, j \in K : <<i, j>> \in le <=> s[i] < s[j] \/ (s[i] = s[j] /\ i <= j)
  OBVIOUS
<1>2. \A i \in K : i \in Nat /\ s[i] \in Nat
  OBVIOUS
<1>3. IsFiniteSet(K) /\ Cardinality(K) = n
  BY FS_Interval
<1> HIDE DEF le, K
<1>4. /\ \A i \in K : <<i, i>> \in le
      /\ \A i, j \in K : <<i, j>> \in le \/ <<j, i>> \in le
      /\ \A i, j \in K : <<i, j>> \in le /\ <<j, i>> \in le => i = j
      /\ \A i, j, k \in K : <<i, j>> \in le /\ <<j, k>> \in le => <<i, k>> \in le
  <2>1. ASSUME NEW i \in K, NEW j \in K
        PROVE  /\ <<i, i>> \in le /\ (<<i, j>> \in le \/ <<j, i>> \in le)
               /\ (<<i, j>> \in le /\ <<j, i>> \in le) => i = j
    <3>1. i \in Nat /\ j \in Nat /\ s[i] \in Nat /\ s[j] \in Nat
      BY <1>2
    <3>2. /\ <<i, i>> \in le <=> (s[i] < s[i] \/ (s[i] = s[i] /\ i <= i))
          /\ <<i, j>> \in le <=> (s[i] < s[j] \/ (s[i] = s[j] /\ i <= j))
          /\ <<j, i>> \in le <=> (s[j] < s[i] \/ (s[j] = s[i] /\ j <= i))
      BY <1>1
    <3> QED
      BY <3>1, <3>2
  <2>2. ASSUME NEW i \in K, NEW j \in K, NEW k \in K, <<i, j>> \in le, <<j, k>> \in le
        PROVE  <<i, k>> \in le
    <3>1. /\ s[i] < s[j] \/ (s[i] = s[j] /\ i <= j)
          /\ s[j] < s[k] \/ (s[j] = s[k] /\ j <= k)
      BY <1>1, <2>2
    <3>2. s[i] < s[k] \/ (s[i] = s[k] /\ i <= k)
      BY <1>2, <3>1
    <3> QED
      BY <1>1, <3>2
  <2> QED
    BY <2>1, <2>2
<1>5. PICK rank \in Bijection(K, 1..Cardinality(K)) :
        \A i, j \in K : rank[i] <= rank[j] => <<i, j>> \in le
  BY <1>3, <1>4, Ranks
<1>6. rank \in Bijection(K, 1..n)
  BY <1>3, <1>5
<1>7. PICK p \in Bijection(1..n, K) : \A k \in 1..n : p[k] \in K /\ rank[p[k]] = k
  BY <1>6, Inverted
<1>8. ASSUME NEW k \in 2..n PROVE s[p[k - 1]] <= s[p[k]]
  <2>1. k - 1 \in 1..n /\ k \in 1..n /\ k - 1 <= k
    OBVIOUS
  <2>2. rank[p[k - 1]] <= rank[p[k]] /\ p[k - 1] \in K /\ p[k] \in K
    BY <1>7, <2>1
  <2>3. <<p[k - 1], p[k]>> \in le
    BY <1>5, <2>2
  <2>4. s[p[k - 1]] \in Nat /\ s[p[k]] \in Nat
    BY <1>2, <2>2
  <2>5. s[p[k - 1]] < s[p[k]] \/ s[p[k - 1]] = s[p[k]]
    BY <1>1, <2>2, <2>3
  <2> QED
    BY <2>4, <2>5
<1> QED
  BY <1>7, <1>8 DEF K

\* Each member of K is at the place that its count in the order le gives.
PlacedBy(pos, m, K, le) ==
  pos = [k \in 1..m |-> CHOOSE i \in K : Cardinality({j \in K : <<j, i>> \in le}) = k]

SortedBy(pos, m, K, le) ==
  /\ pos \in Bijection(1..m, K)
  /\ \A k \in 1..m : Cardinality({j \in K : <<j, pos[k]>> \in le}) = k
  /\ \A k, l \in 1..m : k <= l => <<pos[k], pos[l]>> \in le

\* So they are in order.
LEMMA SortsByCount ==
  ASSUME NEW K, IsFiniteSet(K), NEW le,
         \A i \in K : <<i, i>> \in le,
         \A i, j \in K : <<i, j>> \in le \/ <<j, i>> \in le,
         \A i, j \in K : <<i, j>> \in le /\ <<j, i>> \in le => i = j,
         \A i, j, k \in K : <<i, j>> \in le /\ <<j, k>> \in le => <<i, k>> \in le,
         NEW m, m = Cardinality(K), NEW pos, PlacedBy(pos, m, K, le)
  PROVE  m \in Nat /\ SortedBy(pos, m, K, le)
<1> DEFINE Count(i) == Cardinality({j \in K : <<j, i>> \in le})
<1>1. PICK rank : rank = [i \in K |-> Count(i)]
  OBVIOUS
<1>2. /\ rank \in Bijection(K, 1..m)
      /\ \A i, j \in K : rank[i] <= rank[j] => <<i, j>> \in le
  <2>1. rank = [i \in K |-> Cardinality({j \in K : <<j, i>> \in le})]
    BY <1>1
  <2>2. /\ rank \in Bijection(K, 1..Cardinality(K))
        /\ \A i, j \in K : rank[i] <= rank[j] => <<i, j>> \in le
    BY <2>1, RanksByCount
  <2> QED
    BY <2>2
<1>3. m \in Nat
  BY FS_CardinalityType
<1>4. \A k \in 1..m : \E i \in K : rank[i] = k
  BY <1>2 DEF Bijection, Surjection
<1> HIDE DEF Count
<1>5. \A k \in 1..m : \E i \in K : Count(i) = k
  BY <1>1, <1>4
<1>6. pos = [k \in 1..m |-> CHOOSE i \in K : Count(i) = k]
  BY Zenon DEF Count, PlacedBy
<1>7. ASSUME NEW k \in 1..m PROVE pos[k] \in K /\ Count(pos[k]) = k /\ rank[pos[k]] = k
  <2>1. PICK c : c = (CHOOSE i \in K : Count(i) = k)
    OBVIOUS
  <2>2. c \in K /\ Count(c) = k
    BY <1>5, <2>1, Zenon
  <2>3. pos[k] = c
    BY <1>6, <2>1
  <2> QED
    BY <1>1, <2>2, <2>3
<1>8. \A i, j \in K : rank[i] = rank[j] => i = j
  BY <1>2 DEF Bijection, Injection, IsInjective
<1>9. pos \in [1..m -> K]
  BY <1>6, <1>7
<1>10. ASSUME NEW i \in K PROVE \E k \in 1..m : pos[k] = i
  <2>1. rank[i] \in 1..m
    BY <1>2 DEF Bijection, Injection
  <2>2. pos[rank[i]] \in K /\ rank[pos[rank[i]]] = rank[i]
    BY <1>7, <2>1
  <2> QED
    BY <1>8, <2>1, <2>2
<1>11. pos \in Bijection(1..m, K)
  <2>1. ASSUME NEW k \in 1..m, NEW l \in 1..m, pos[k] = pos[l] PROVE k = l
    <3>1. rank[pos[k]] = k /\ rank[pos[l]] = l
      BY <1>7
    <3> QED
      BY <2>1, <3>1
  <2> QED
    BY <1>9, <1>10, <2>1 DEF Bijection, Injection, Surjection, IsInjective
<1>12. ASSUME NEW k \in 1..m, NEW l \in 1..m, k <= l PROVE <<pos[k], pos[l]>> \in le
  <2>1. pos[k] \in K /\ pos[l] \in K /\ rank[pos[k]] <= rank[pos[l]]
    BY <1>7, <1>12
  <2> QED
    BY <1>2, <2>1
<1>13. \A k \in 1..m : Cardinality({j \in K : <<j, pos[k]>> \in le}) = k
  BY <1>7 DEF Count
<1> QED
  BY <1>3, <1>11, <1>12, <1>13 DEF SortedBy

\* The same for numbers, the smallest first.
PlacedUp(pos, m, A) ==
  pos = [k \in 1..m |-> CHOOSE i \in A : Cardinality({j \in A : j <= i}) = k]

SortedUp(pos, m, A) ==
  /\ pos \in Bijection(1..m, A)
  /\ \A k \in 1..m : Cardinality({j \in A : j <= pos[k]}) = k
  /\ \A k, l \in 1..m : k <= l => pos[k] <= pos[l]

LEMMA AscendsByCount ==
  ASSUME NEW n \in Nat, NEW A \in SUBSET (1..n), NEW m, m = Cardinality(A),
         NEW pos, PlacedUp(pos, m, A)
  PROVE  IsFiniteSet(A) /\ m \in Nat /\ SortedUp(pos, m, A)
<1> DEFINE le == {ij \in A \X A : ij[1] <= ij[2]}
<1>1. IsFiniteSet(A)
  <2>1. IsFiniteSet(1..n)
    BY FS_Interval
  <2> QED
    BY <2>1, FS_Subset
<1>2. \A i, j \in A : <<i, j>> \in le <=> i <= j
  OBVIOUS
<1>3. \A i \in A : i \in Int
  OBVIOUS
<1> HIDE DEF le
<1>4. /\ \A i \in A : <<i, i>> \in le
      /\ \A i, j \in A : <<i, j>> \in le \/ <<j, i>> \in le
      /\ \A i, j \in A : <<i, j>> \in le /\ <<j, i>> \in le => i = j
      /\ \A i, j, k \in A : <<i, j>> \in le /\ <<j, k>> \in le => <<i, k>> \in le
  <2>1. ASSUME NEW i \in A, NEW j \in A, NEW k \in A
        PROVE  /\ <<i, i>> \in le /\ (<<i, j>> \in le \/ <<j, i>> \in le)
               /\ (<<i, j>> \in le /\ <<j, i>> \in le) => i = j
               /\ (<<i, j>> \in le /\ <<j, k>> \in le) => <<i, k>> \in le
    <3>1. i \in Int /\ j \in Int /\ k \in Int
      BY <1>3
    <3>2. /\ <<i, i>> \in le <=> i <= i
          /\ <<i, j>> \in le <=> i <= j
          /\ <<j, i>> \in le <=> j <= i
          /\ <<j, k>> \in le <=> j <= k
          /\ <<i, k>> \in le <=> i <= k
      BY <1>2
    <3> QED
      BY <3>1, <3>2
  <2> QED
    BY <2>1
<1>5. \A i \in A : {j \in A : <<j, i>> \in le} = {j \in A : j <= i}
  BY <1>2
<1>6. PlacedBy(pos, m, A, le)
  <2> DEFINE Low(i) == Cardinality({j \in A : j <= i})
             Down(i) == Cardinality({j \in A : <<j, i>> \in le})
  <2>1. \A i \in A : Low(i) = Down(i)
    BY <1>5
  <2>2. pos = [k \in 1..m |-> CHOOSE i \in A : Low(i) = k]
    BY Zenon DEF PlacedUp
  <2> HIDE DEF Low, Down
  <2>3. \A k : (CHOOSE i \in A : Low(i) = k) = (CHOOSE i \in A : Down(i) = k)
    BY <2>1, Zenon
  <2>4. pos = [k \in 1..m |-> CHOOSE i \in A : Down(i) = k]
    <3>1. \A k \in 1..m : (CHOOSE i \in A : Low(i) = k) = (CHOOSE i \in A : Down(i) = k)
      BY <2>3
    <3>2. PICK d : d = [k \in 1..m |-> CHOOSE i \in A : Down(i) = k]
      OBVIOUS
    <3>3. \A k \in 1..m : d[k] = (CHOOSE i \in A : Down(i) = k)
      BY <3>2, Zenon
    <3>4. \A k \in 1..m : pos[k] = (CHOOSE i \in A : Low(i) = k)
      BY <2>2, Zenon
    <3>5. \A k \in 1..m : pos[k] = d[k]
      BY <3>1, <3>3, <3>4, Zenon
    <3>6. pos = [k \in 1..m |-> pos[k]] /\ d = [k \in 1..m |-> d[k]]
      BY <2>2, <3>2
    <3>7. pos = d
      BY <3>5, <3>6
    <3> QED
      BY <3>2, <3>7
  <2> QED
    BY <2>4, Zenon DEF Down, PlacedBy
<1>7. /\ m \in Nat /\ pos \in Bijection(1..m, A)
      /\ \A k \in 1..m : Cardinality({j \in A : <<j, pos[k]>> \in le}) = k
      /\ \A k, l \in 1..m : k <= l => <<pos[k], pos[l]>> \in le
  <2>1. m \in Nat /\ SortedBy(pos, m, A, le)
    BY <1>1, <1>4, <1>6, SortsByCount
  <2> QED
    BY <2>1 DEF SortedBy
<1>8. \A k \in 1..m : pos[k] \in A
  BY <1>7 DEF Bijection, Injection
<1>9. \A k \in 1..m : Cardinality({j \in A : j <= pos[k]}) = k
  BY <1>5, <1>7, <1>8
<1>10. \A k, l \in 1..m : k <= l => pos[k] <= pos[l]
  BY <1>2, <1>7, <1>8
<1> QED
  BY <1>1, <1>7, <1>9, <1>10 DEF SortedUp

\* new is pos with b behind it.
GrownBy(new, p, pos, m, b) ==
  p = m + 1 /\ (\A k \in 1..m : new[k] = pos[k]) /\ new[m + 1] = b

\* One that is larger than all of them comes last.
LEMMA AscendsFurther ==
  ASSUME NEW n \in Nat, NEW A \in SUBSET (1..n), NEW b \in 1..n, \A a \in A : a < b,
         NEW m, m = Cardinality(A), NEW pos, PlacedUp(pos, m, A),
         NEW B, B = A \cup {b}, NEW p, p = Cardinality(B), NEW new, PlacedUp(new, p, B)
  PROVE  m \in Nat /\ GrownBy(new, p, pos, m, b)
<1>1. /\ IsFiniteSet(A) /\ m \in Nat /\ pos \in Bijection(1..m, A)
      /\ \A k \in 1..m : Cardinality({j \in A : j <= pos[k]}) = k
  <2>1. IsFiniteSet(A) /\ m \in Nat /\ SortedUp(pos, m, A)
    BY AscendsByCount
  <2> QED
    BY <2>1 DEF SortedUp
<1>2. B \in SUBSET (1..n)
  OBVIOUS
<1>3. /\ p \in Nat /\ new \in Bijection(1..p, B)
      /\ \A k \in 1..p : Cardinality({j \in B : j <= new[k]}) = k
  <2>1. p \in Nat /\ SortedUp(new, p, B)
    BY <1>2, AscendsByCount
  <2> QED
    BY <2>1 DEF SortedUp
<1>4. b \notin A
  OBVIOUS
<1>5. p = m + 1
  BY <1>1, <1>4, FS_AddElement
<1>6. \A a \in A : {j \in B : j <= a} = {j \in A : j <= a}
  <2> SUFFICES ASSUME NEW a \in A PROVE ~(b <= a)
    OBVIOUS
  <2>1. a \in Int /\ b \in Int /\ a < b
    OBVIOUS
  <2> QED
    BY <2>1
<1>7. {j \in B : j <= b} = B
  <2> SUFFICES ASSUME NEW j \in B PROVE j <= b
    OBVIOUS
  <2> QED
    OBVIOUS
<1>8. \A k, l \in 1..p : Cardinality({j \in B : j <= new[k]}) = l => k = l
  BY <1>3
<1>9. \A i \in B : \E k \in 1..p : new[k] = i
  BY <1>3 DEF Bijection, Surjection
<1>10. ASSUME NEW k \in 1..m PROVE new[k] = pos[k]
  <2>1. pos[k] \in A
    BY <1>1 DEF Bijection, Injection
  <2>2. Cardinality({j \in B : j <= pos[k]}) = k
    BY <1>1, <1>6, <2>1
  <2>3. PICK l \in 1..p : new[l] = pos[k]
    BY <1>9, <2>1
  <2>4. l = k
    BY <1>3, <2>2, <2>3
  <2> QED
    BY <2>3, <2>4
<1>11. new[m + 1] = b
  <2>1. PICK l \in 1..p : new[l] = b
    BY <1>9
  <2>2. Cardinality({j \in B : j <= new[l]}) = p
    BY <1>7, <2>1
  <2>3. l = m + 1
    BY <1>3, <1>5, <2>2
  <2> QED
    BY <2>1, <2>3
<1> QED
  BY <1>1, <1>5, <1>10, <1>11 DEF GrownBy

\* Neighbours in order are all in order.
LEMMA InOrder ==
  ASSUME NEW n \in Nat, NEW t \in [1..n -> Nat], \A k \in 2..n : t[k - 1] <= t[k]
  PROVE  \A j, k \in 1..n : j <= k => t[j] <= t[k]
<1> DEFINE A == {d \in Nat : \A j \in 1..n : j + d <= n => t[j] <= t[j + d]}
<1>1. 0 \in A
  OBVIOUS
<1>2. ASSUME NEW d \in Nat, d \in A PROVE d + 1 \in A
  <2>1. ASSUME NEW j \in 1..n, j + (d + 1) <= n PROVE t[j] <= t[j + (d + 1)]
    <3>1. j + d \in 1..n /\ j + (d + 1) \in 2..n /\ (j + (d + 1)) - 1 = j + d
      BY <2>1
    <3>2. t[j] <= t[j + d]
      BY <1>2, <3>1
    <3>3. t[j + d] <= t[j + (d + 1)]
      BY <3>1
    <3>4. t[j] \in Nat /\ t[j + d] \in Nat /\ t[j + (d + 1)] \in Nat
      BY <3>1
    <3> QED
      BY <3>2, <3>3, <3>4
  <2> QED
    BY <2>1
<1> HIDE DEF A
<1>3. \A d \in Nat : d \in A
  BY <1>1, <1>2, Induction
<1>4. ASSUME NEW j \in 1..n, NEW k \in 1..n, j <= k PROVE t[j] <= t[k]
  <2>1. k - j \in Nat /\ j + (k - j) = k /\ k <= n
    BY <1>4
  <2> QED
    BY <1>3, <2>1 DEF A
<1> QED
  BY <1>4

\* The places of the first r samples in order.
Foremost(p, r) == {p[k] : k \in 1..r}

\* Those whose sample is at most x.
UpTo(s, n, x) == {i \in 1..n : s[i] <= x}

LEMMA FirstPlaces ==
  ASSUME NEW n \in Nat, NEW p \in Bijection(1..n, 1..n), NEW r \in Nat, r <= n
  PROVE  /\ Foremost(p, r) \in SUBSET (1..n)
         /\ Cardinality(Foremost(p, r)) = r
<1> DEFINE P == {p[k] : k \in 1..r}
           q == [k \in 1..r |-> p[k]]
<1>1. p \in [1..n -> 1..n] /\ \A j, k \in 1..n : p[j] = p[k] => j = k
  BY DEF Bijection, Injection, IsInjective
<1>2. \A k \in 1..r : k \in 1..n
  OBVIOUS
<1>3. P \in SUBSET (1..n)
  BY <1>1, <1>2
<1>4. q \in Bijection(1..r, P)
  <2>1. q \in [1..r -> P] /\ \A t \in P : \E k \in 1..r : q[k] = t
    OBVIOUS
  <2>2. \A j, k \in 1..r : q[j] = q[k] => j = k
    BY <1>1, <1>2
  <2> HIDE DEF P, q
  <2> QED
    BY <2>1, <2>2 DEF Bijection, Injection, Surjection, IsInjective
<1> HIDE DEF P, q
<1>5. Cardinality(P) = r
  BY <1>4, FS_CountingElements DEF ExistsBijection
<1> QED
  BY <1>3, <1>5 DEF P, Foremost

\* p puts the n numbers s in the order t.
Arranges(p, t, s, n) ==
  /\ s \in [1..n -> Nat] /\ t \in [1..n -> Nat] /\ p \in Bijection(1..n, 1..n)
  /\ \A k \in 1..n : t[k] = s[p[k]]
  /\ \A j, k \in 1..n : j <= k => t[j] <= t[k]

\* v is the least of the numbers that w hundredths of a number do not exceed.
LeastToReach(v, w, s, n) ==
  /\ \E i \in 1..n : s[i] = v
  /\ 100 * Cardinality(UpTo(s, n, v)) >= w
  /\ \A j \in 1..n : s[j] < v => ~(100 * Cardinality(UpTo(s, n, s[j])) >= w)

\* The r-th number in order is the least that so many do not exceed, if r is the
\* least rank that reaches the share w, in hundredths.
LEMMA RankIsQuantile ==
  ASSUME NEW n \in Nat, NEW s, NEW p, NEW t, Arranges(p, t, s, n),
         NEW w \in Nat, NEW r \in 1..n, 100 * r >= w, 100 * (r - 1) < w
  PROVE  LeastToReach(t[r], w, s, n)
<1> DEFINE upTo(x) == UpTo(s, n, x)
           first(k) == Foremost(p, k)
<1> /\ s \in [1..n -> Nat] /\ t \in [1..n -> Nat] /\ p \in Bijection(1..n, 1..n)
    /\ \A k \in 1..n : t[k] = s[p[k]]
    /\ \A j, k \in 1..n : j <= k => t[j] <= t[k]
  BY DEF Arranges
<1>1. p \in [1..n -> 1..n] /\ \A j \in 1..n : \E k \in 1..n : p[k] = j
  BY DEF Bijection, Surjection
<1>2. IsFiniteSet(1..n)
  BY FS_Interval
<1>3. r \in Nat /\ r <= n /\ r - 1 \in Nat /\ r - 1 <= n
  OBVIOUS
<1>4. /\ first(r) \in SUBSET (1..n) /\ Cardinality(first(r)) = r
      /\ first(r - 1) \in SUBSET (1..n) /\ Cardinality(first(r - 1)) = r - 1
  <2>1. first(r) \in SUBSET (1..n) /\ Cardinality(first(r)) = r
    BY <1>3, FirstPlaces
  <2>2. first(r - 1) \in SUBSET (1..n) /\ Cardinality(first(r - 1)) = r - 1
    BY <1>3, FirstPlaces
  <2> QED
    BY <2>1, <2>2
<1>5. \A x : upTo(x) \in SUBSET (1..n)
  BY DEF UpTo
<1>6. first(r) \in SUBSET upTo(t[r])
  <2>1. ASSUME NEW h \in 1..r PROVE p[h] \in upTo(t[r])
    <3>1. h \in 1..n /\ h <= r
      OBVIOUS
    <3>2. p[h] \in 1..n /\ t[h] = s[p[h]] /\ t[h] <= t[r]
      BY <1>1, <3>1
    <3> QED
      BY <3>2 DEF UpTo
  <2> QED
    BY <2>1 DEF Foremost
<1>7. ASSUME NEW j \in 1..n, s[j] < t[r] PROVE upTo(s[j]) \in SUBSET first(r - 1)
  <2>1. ASSUME NEW i \in upTo(s[j]) PROVE i \in first(r - 1)
    <3>1. i \in 1..n /\ s[i] <= s[j]
      BY DEF UpTo
    <3>2. PICK k \in 1..n : p[k] = i
      BY <1>1, <3>1
    <3>3. t[k] = s[i]
      BY <3>2
    <3>4. s[i] \in Nat /\ s[j] \in Nat /\ t[r] \in Nat
      BY <3>1
    <3>5. ~(t[r] <= t[k])
      BY <1>7, <3>1, <3>3, <3>4
    <3>6. ~(r <= k)
      BY <3>5
    <3>7. k \in 1..(r - 1)
      BY <3>6
    <3> QED
      BY <3>2, <3>7 DEF Foremost
  <2> QED
    BY <2>1
<1>8. \E i \in 1..n : s[i] = t[r]
  BY <1>1
<1> HIDE DEF upTo, first
<1>9. \A x : IsFiniteSet(upTo(x)) /\ Cardinality(upTo(x)) \in Nat
  BY <1>2, <1>5, FS_Subset, FS_CardinalityType
<1>10. Cardinality(upTo(t[r])) >= r
  <2>1. Cardinality(first(r)) <= Cardinality(upTo(t[r]))
    BY <1>6, <1>9, FS_Subset
  <2> QED
    BY <1>4, <1>9, <2>1
<1>11. 100 * Cardinality(upTo(t[r])) >= w
  <2> DEFINE c == Cardinality(upTo(t[r]))
  <2>1. c \in Nat /\ c >= r /\ w \in Nat /\ 100 * r >= w /\ r \in Nat
    BY <1>9, <1>10
  <2> HIDE DEF c
  <2>2. 100 * c >= w
    BY <2>1
  <2> QED
    BY <2>2 DEF c
<1>12. ASSUME NEW j \in 1..n, s[j] < t[r]
       PROVE  ~(100 * Cardinality(upTo(s[j])) >= w)
  <2>1. IsFiniteSet(first(r - 1))
    BY <1>2, <1>4, FS_Subset
  <2>2. Cardinality(upTo(s[j])) <= r - 1
    BY <1>4, <1>7, <1>12, <2>1, FS_Subset
  <2> DEFINE c == Cardinality(upTo(s[j]))
  <2>3. c \in Nat /\ c <= r - 1 /\ w \in Nat /\ 100 * (r - 1) < w /\ r \in Nat
    BY <1>9, <2>2
  <2> HIDE DEF c
  <2>4. ~(100 * c >= w)
    BY <2>3
  <2> QED
    BY <2>4 DEF c
<1> QED
  BY <1>8, <1>11, <1>12 DEF upTo, LeastToReach
-----------------------------------------------------------------------------
(* Sums, and the silences between stretches of time. *)

\* The sums g of h over the parts of S: any element may be added first.
AddsUp(g, h, S) ==
  \A s \in SUBSET S : /\ g[s] \in Nat /\ (s = {} => g[s] = 0)
                      /\ \A x \in s : g[s] = h[x] + g[s \ {x}]

LEMMA SumTakesAny ==
  ASSUME NEW S, IsFiniteSet(S), NEW h \in [S -> Nat], NEW g, SumsUp(g, h, S)
  PROVE  AddsUp(g, h, S)
<1> DEFINE Ok(s) == /\ g[s] \in Nat /\ (s = {} => g[s] = 0)
                    /\ \A x \in s : g[s] = h[x] + g[s \ {x}]
           A == {n \in Nat : \A s \in SUBSET S : Cardinality(s) <= n => Ok(s)}
<1>1. ASSUME NEW s \in SUBSET S, s = {} PROVE Ok(s)
  BY <1>1 DEF SumsUp
<1>2. 0 \in A
  <2>1. \A s \in SUBSET S : Cardinality(s) <= 0 => s = {}
    BY SubsetSizes
  <2> HIDE DEF Ok
  <2> QED
    BY <1>1, <2>1
<1>3. ASSUME NEW n \in Nat, n \in A PROVE n + 1 \in A
  <2>1. ASSUME NEW s \in SUBSET S, s # {}, Cardinality(s) <= n + 1 PROVE Ok(s)
    <3>1. PICK c : c = CHOOSE x \in s : TRUE
      OBVIOUS
    <3>2. /\ c \in s /\ s \ {c} \in SUBSET S /\ Cardinality(s \ {c}) = Cardinality(s) - 1
          /\ Cardinality(s) \in Nat \ {0}
      BY <2>1, <3>1, SumTakes
    <3>3. g[s] = h[c] + g[s \ {c}]
      BY <2>1, <3>1 DEF SumsUp
    <3>4. Cardinality(s \ {c}) <= n
      BY <2>1, <3>2
    <3>5. Ok(s \ {c})
      BY <1>3, <3>2, <3>4
    <3>6. h[c] \in Nat /\ g[s \ {c}] \in Nat
      BY <3>2, <3>5
    <3>7. ASSUME NEW x \in s PROVE g[s] = h[x] + g[s \ {x}]
      <4>1. CASE x = c
        BY <3>3, <4>1
      <4>2. CASE x # c
        <5>1. x \in s \ {c} /\ c \in s \ {x} /\ s \ {x} \in SUBSET S /\ h[x] \in Nat
          BY <3>2, <4>2
        <5>2. IsFiniteSet(s)
          BY FS_Subset
        <5>3. Cardinality(s \ {x}) = Cardinality(s) - 1
          BY <5>2, FS_RemoveElement
        <5>4. Cardinality(s \ {x}) <= n
          BY <2>1, <3>2, <5>3
        <5>5. Ok(s \ {x})
          BY <1>3, <5>1, <5>4
        <5>6. PICK r : r = (s \ {c}) \ {x} /\ r = (s \ {x}) \ {c}
          OBVIOUS
        <5>7. g[s \ {x}] = h[c] + g[r] /\ g[s \ {c}] = h[x] + g[r]
          BY <3>5, <5>1, <5>5, <5>6
        <5>8. g[r] \in Nat
          <6>1. IsFiniteSet(s \ {c}) /\ r \in SUBSET (s \ {c}) /\ r \in SUBSET S
            BY <5>2, <5>6, FS_Subset
          <6>2. Cardinality(r) <= Cardinality(s \ {c}) /\ Cardinality(r) \in Nat
            BY <6>1, SubsetSizes
          <6>3. Cardinality(r) <= n
            BY <3>2, <3>4, <6>2
          <6> QED
            BY <1>3, <6>1, <6>3
        <5> QED
          BY <3>3, <3>6, <5>1, <5>7, <5>8
      <4> QED
        BY <4>1, <4>2
    <3>8. g[s] \in Nat
      BY <3>3, <3>6
    <3> QED
      BY <2>1, <3>7, <3>8
  <2> HIDE DEF Ok
  <2> QED
    BY <1>1, <2>1
<1> HIDE DEF A
<1>4. \A n \in Nat : n \in A
  BY <1>2, <1>3, Induction
<1>5. ASSUME NEW s \in SUBSET S PROVE Ok(s)
  <2>1. Cardinality(s) \in Nat
    BY SubsetSizes
  <2>2. Cardinality(s) \in A
    BY <1>4, <2>1
  <2> QED
    BY <2>1, <2>2 DEF A
<1> QED
  BY <1>5 DEF AddsUp

\* What is mapped, one to one, to what is no less adds up to no more.
Fits(f, h, S, d, T) ==
  /\ IsFiniteSet(S) /\ h \in [S -> Nat] /\ IsFiniteSet(T) /\ d \in [T -> Nat]
  /\ f \in [S -> T] /\ \A x, y \in S : f[x] = f[y] => x = y
  /\ \A x \in S : h[x] <= d[f[x]]

LEMMA SumOfFitting ==
  ASSUME NEW f, NEW h, NEW S, NEW d, NEW T, Fits(f, h, S, d, T),
         NEW g, SumsUp(g, h, S), NEW e, SumsUp(e, d, T)
  PROVE  g[S] \in Nat /\ e[T] \in Nat /\ g[S] <= e[T]
<1>0. /\ IsFiniteSet(S) /\ h \in [S -> Nat] /\ IsFiniteSet(T) /\ d \in [T -> Nat]
      /\ f \in [S -> T] /\ \A x, y \in S : f[x] = f[y] => x = y
      /\ \A x \in S : h[x] <= d[f[x]]
  BY DEF Fits
<1>1. AddsUp(g, h, S) /\ AddsUp(e, d, T)
  <2>1. AddsUp(g, h, S)
    BY <1>0, SumTakesAny
  <2>2. AddsUp(e, d, T)
    BY <1>0, SumTakesAny
  <2> QED
    BY <2>1, <2>2
<1>2. /\ \A s \in SUBSET S : /\ g[s] \in Nat /\ (s = {} => g[s] = 0)
                             /\ \A x \in s : g[s] = h[x] + g[s \ {x}]
      /\ \A t \in SUBSET T : /\ e[t] \in Nat /\ (t = {} => e[t] = 0)
                             /\ \A y \in t : e[t] = d[y] + e[t \ {y}]
  BY <1>1 DEF AddsUp
<1> DEFINE A == {n \in Nat : \A s \in SUBSET S, t \in SUBSET T :
                   (Cardinality(s) <= n /\ \A x \in s : f[x] \in t) => g[s] <= e[t]}
<1>3. 0 \in A
  <2> SUFFICES ASSUME NEW s \in SUBSET S, NEW t \in SUBSET T, Cardinality(s) <= 0
               PROVE  g[s] <= e[t]
    OBVIOUS
  <2>1. Cardinality(s) = 0
    BY <1>0, SubsetSizes
  <2>2. s = {}
    BY <1>0, <2>1, SubsetSizes
  <2> QED
    BY <1>1, <1>2, <2>2
<1>4. ASSUME NEW n \in Nat, n \in A PROVE n + 1 \in A
  <2> SUFFICES ASSUME NEW s \in SUBSET S, NEW t \in SUBSET T, Cardinality(s) <= n + 1,
                      \A x \in s : f[x] \in t
               PROVE  g[s] <= e[t]
    OBVIOUS
  <2>1. CASE s = {}
    BY <1>1, <1>2, <2>1
  <2>2. CASE s # {}
    <3>1. PICK x : x \in s /\ x \in S
      BY <2>2
    <3>2. IsFiniteSet(s) /\ Cardinality(s) \in Nat
      BY <1>0, FS_Subset, SubsetSizes
    <3>3. PICK r, q : r = s \ {x} /\ q = t \ {f[x]}
      OBVIOUS
    <3>4. Cardinality(r) = Cardinality(s) - 1
      BY <3>1, <3>2, <3>3, FS_RemoveElement
    <3>5. Cardinality(r) <= n
      BY <3>2, <3>4
    <3>6. r \in SUBSET S /\ q \in SUBSET T /\ \A y \in r : f[y] \in q
      BY <1>0, <3>1, <3>3
    <3>7. g[r] <= e[q]
      BY <1>4, <3>5, <3>6
    <3>8. g[s] = h[x] + g[r] /\ e[t] = d[f[x]] + e[q] /\ f[x] \in t
      BY <1>1, <1>2, <3>1, <3>3
    <3>9. h[x] \in Nat /\ d[f[x]] \in Nat /\ h[x] <= d[f[x]]
      BY <1>0, <3>1
    <3>10. g[r] \in Nat /\ e[q] \in Nat
      BY <1>1, <1>2, <3>6
    <3> QED
      BY <3>7, <3>8, <3>9, <3>10
  <2> QED
    BY <2>1, <2>2
<1> HIDE DEF A
<1>5. \A n \in Nat : n \in A
  BY <1>3, <1>4, Induction
<1>6. Cardinality(S) \in Nat
  BY <1>0, FS_CardinalityType
<1>7. g[S] <= e[T]
  <2>1. Cardinality(S) \in A
    BY <1>5, <1>6
  <2>2. Cardinality(S) <= Cardinality(S) /\ S \in SUBSET S /\ T \in SUBSET T
    BY <1>6
  <2>3. \A x \in S : f[x] \in T
    BY <1>0
  <2> QED
    BY <2>1, <2>2, <2>3 DEF A
<1> QED
  BY <1>1, <1>2, <1>7

LEMMA FittingCounts ==
  ASSUME NEW f, NEW h, NEW S, NEW d, NEW T, Fits(f, h, S, d, T)
  PROVE  Cardinality(S) \in Nat /\ Cardinality(T) \in Nat /\ Cardinality(S) <= Cardinality(T)
<1>1. IsFiniteSet(S) /\ IsFiniteSet(T) /\ f \in Injection(S, T)
  BY DEF Fits, Injection, IsInjective
<1> QED
  BY <1>1, FS_Injection, FS_CardinalityType

\* m stretches from st to en, in the order in which they start.
Stretches(st, en, m) ==
  /\ m \in Nat /\ st \in [1..m -> Nat] /\ en \in [1..m -> Nat]
  /\ \A k \in 1..m : st[k] <= en[k]
  /\ \A j, k \in 1..m : j <= k => st[j] <= st[k]

\* What lies between an end and a start, longer than w, with no stretch in it.
Between(st, en, m, w) ==
  {ab \in {en[k] : k \in 1..m} \X {st[k] : k \in 1..m} :
     ab[2] - ab[1] > w /\ \A k \in 1..m : en[k] <= ab[1] \/ ab[2] <= st[k]}

\* Where a stretch starts more than w after the one before it ended.
Joints(st, en, m, w) == {k \in 1..(m - 1) : st[k + 1] - en[k] > w}

\* What lies between is before the first stretch that starts as late as it ends.
LEMMA BetweenHasJoint ==
  ASSUME NEW st, NEW en, NEW m, Stretches(st, en, m), NEW w \in Nat,
         NEW ab \in Between(st, en, m, w)
  PROVE  /\ ab[1] \in Nat /\ ab[2] \in Nat /\ ab[2] - ab[1] > w
         /\ \E k \in Joints(st, en, m, w) : st[k + 1] = ab[2] /\ en[k] <= ab[1]
<1>0. /\ m \in Nat /\ st \in [1..m -> Nat] /\ en \in [1..m -> Nat]
      /\ \A k \in 1..m : st[k] <= en[k]
      /\ \A j, k \in 1..m : j <= k => st[j] <= st[k]
  BY DEF Stretches
<1>1. PICK p \in 1..m, q \in 1..m : ab[1] = en[p] /\ ab[2] = st[q]
  BY DEF Between
<1>2. PICK a \in Nat, b \in Nat : a = ab[1] /\ b = ab[2]
  BY <1>0, <1>1
<1>3. b - a > w /\ \A k \in 1..m : en[k] <= a \/ b <= st[k]
  BY <1>2 DEF Between
<1> DEFINE L == {k \in Nat : k \in 1..m /\ st[k] >= b}
<1>4. q \in L /\ L \in SUBSET Nat
  <2>1. q \in Nat /\ st[q] >= b
    BY <1>0, <1>1, <1>2
  <2> QED
    BY <2>1
<1>5. PICK n \in L : \A l \in L : n <= l
  BY <1>4, LeastNatural
<1>6. n \in 1..m /\ st[n] >= b /\ n <= q
  BY <1>4, <1>5
<1>7. st[n] = b
  <2>1. st[n] <= st[q] /\ st[n] \in Nat
    BY <1>0, <1>6
  <2> QED
    BY <1>1, <1>2, <1>6, <2>1
<1>8. n # 1
  <2> SUFFICES ASSUME n = 1 PROVE FALSE
    OBVIOUS
  <2>1. st[n] <= st[p] /\ st[p] <= en[p] /\ st[n] \in Nat /\ st[p] \in Nat /\ en[p] \in Nat
    BY <1>0, <1>6
  <2> QED
    BY <1>1, <1>2, <1>3, <1>7, <2>1
<1>9. PICK k \in 1..(m - 1) : n = k + 1
  <2>1. n - 1 \in 1..(m - 1) /\ n = (n - 1) + 1
    BY <1>0, <1>6, <1>8
  <2> QED
    BY <2>1
<1>10. k \in 1..m /\ k \in Nat /\ ~(n <= k)
  BY <1>0, <1>9
<1>11. ~(st[k] >= b)
  BY <1>5, <1>10
<1>12. en[k] <= a
  <2>1. st[k] \in Nat
    BY <1>0, <1>10
  <2> QED
    BY <1>3, <1>10, <1>11, <2>1
<1>13. k \in Joints(st, en, m, w)
  <2>1. st[k + 1] - en[k] > w
    <3>1. st[k + 1] = b /\ en[k] \in Nat
      BY <1>0, <1>7, <1>9, <1>10
    <3> QED
      BY <1>3, <1>12, <3>1
  <2> QED
    BY <1>9, <2>1 DEF Joints
<1> QED
  BY <1>2, <1>3, <1>7, <1>9, <1>12, <1>13

\* Two that end at once began at once.
LEMMA BetweenByEnd ==
  ASSUME NEW st, NEW en, NEW m, Stretches(st, en, m), NEW w \in Nat,
         NEW ab \in Between(st, en, m, w), NEW cd \in Between(st, en, m, w), ab[2] = cd[2]
  PROVE  ab = cd
<1>0. /\ m \in Nat /\ st \in [1..m -> Nat] /\ en \in [1..m -> Nat]
      /\ \A k \in 1..m : st[k] <= en[k]
  BY DEF Stretches
<1>1. /\ ab = <<ab[1], ab[2]>> /\ cd = <<cd[1], cd[2]>>
      /\ ab[2] - ab[1] > w /\ \A k \in 1..m : en[k] <= ab[1] \/ ab[2] <= st[k]
      /\ cd[2] - cd[1] > w /\ \A k \in 1..m : en[k] <= cd[1] \/ cd[2] <= st[k]
  BY DEF Between
<1>2. PICK p \in 1..m, q \in 1..m, r \in 1..m :
        ab[1] = en[p] /\ cd[1] = en[q] /\ ab[2] = st[r]
  BY DEF Between
<1>3. PICK a \in Nat, b \in Nat, c \in Nat : a = ab[1] /\ b = ab[2] /\ c = cd[1]
  BY <1>0, <1>2
<1>4. /\ b - a > w /\ b - c > w /\ en[p] = a /\ en[q] = c
      /\ en[q] <= a \/ b <= st[q]
      /\ en[p] <= c \/ b <= st[p]
  BY <1>1, <1>2, <1>3
<1>5. st[p] <= a /\ st[q] <= c /\ st[p] \in Nat /\ st[q] \in Nat
  BY <1>0, <1>4
<1>6. a = c
  BY <1>4, <1>5
<1> QED
  BY <1>1, <1>3, <1>6

LEMMA JointsFinite ==
  ASSUME NEW st, NEW en, NEW m \in Nat, NEW w
  PROVE  IsFiniteSet(Joints(st, en, m, w))
<1>1. IsFiniteSet(1..(m - 1)) /\ Joints(st, en, m, w) \in SUBSET (1..(m - 1))
  BY FS_Interval DEF Joints
<1> QED
  BY <1>1, FS_Subset

LEMMA BetweenFinite ==
  ASSUME NEW st, NEW en, NEW m, Stretches(st, en, m), NEW w \in Nat
  PROVE  IsFiniteSet(Between(st, en, m, w))
<1> DEFINE B == Between(st, en, m, w)
           J == Joints(st, en, m, w)
           f == [ab \in B |-> CHOOSE k \in J : st[k + 1] = ab[2]]
<1>1. \A ab \in B : f[ab] \in J /\ st[f[ab] + 1] = ab[2]
  BY BetweenHasJoint
<1>2. IsFiniteSet(J)
  BY JointsFinite DEF Stretches
<1>3. f \in [B -> J]
  BY <1>1
<1>4. \A ab, cd \in B : f[ab] = f[cd] => ab = cd
  BY <1>1, BetweenByEnd
<1> HIDE DEF f, B, J
<1>5. f \in Injection(B, J)
  BY <1>3, <1>4 DEF Injection, IsInjective
<1>6. IsFiniteSet(B)
  BY <1>2, <1>5, FS_Injection
<1> QED
  BY <1>6 DEF B

\* How long what lies between is, and the joints.
LengthsOf(st, en, m, w) == [ab \in Between(st, en, m, w) |-> ab[2] - ab[1]]

DriftsOf(st, en, m, w) == [k \in Joints(st, en, m, w) |-> st[k + 1] - en[k]]

LEMMA LengthTypes ==
  ASSUME NEW st, NEW en, NEW m, Stretches(st, en, m), NEW w \in Nat
  PROVE  /\ LengthsOf(st, en, m, w) \in [Between(st, en, m, w) -> Nat]
         /\ DriftsOf(st, en, m, w) \in [Joints(st, en, m, w) -> Nat]
<1>1. \A ab \in Between(st, en, m, w) : ab[2] - ab[1] \in Nat
  <2> SUFFICES ASSUME NEW ab \in Between(st, en, m, w) PROVE ab[2] - ab[1] \in Nat
    OBVIOUS
  <2>1. ab[1] \in Nat /\ ab[2] \in Nat /\ ab[2] - ab[1] > w
    BY BetweenHasJoint
  <2> QED
    BY <2>1
<1>2. \A k \in Joints(st, en, m, w) : st[k + 1] - en[k] \in Nat
  <2> SUFFICES ASSUME NEW k \in Joints(st, en, m, w) PROVE st[k + 1] - en[k] \in Nat
    OBVIOUS
  <2>1. m \in Nat /\ st \in [1..m -> Nat] /\ en \in [1..m -> Nat]
    BY DEF Stretches
  <2>2. k \in 1..(m - 1) /\ st[k + 1] - en[k] > w
    BY DEF Joints
  <2>3. k \in 1..m /\ k + 1 \in 1..m
    BY <2>1, <2>2
  <2>4. st[k + 1] \in Nat /\ en[k] \in Nat
    BY <2>1, <2>3
  <2> QED
    BY <2>2, <2>4
<1> QED
  BY <1>1, <1>2 DEF LengthsOf, DriftsOf

LEMMA BetweenFitsJoints ==
  ASSUME NEW st, NEW en, NEW m, Stretches(st, en, m), NEW w \in Nat
  PROVE  \E f : Fits(f, LengthsOf(st, en, m, w), Between(st, en, m, w),
                        DriftsOf(st, en, m, w), Joints(st, en, m, w))
<1> DEFINE B == Between(st, en, m, w)
           J == Joints(st, en, m, w)
           f == [ab \in B |-> CHOOSE k \in J : st[k + 1] = ab[2] /\ en[k] <= ab[1]]
<1>1. \A ab \in B : f[ab] \in J /\ st[f[ab] + 1] = ab[2] /\ en[f[ab]] <= ab[1]
  BY BetweenHasJoint
<1>2. f \in [B -> J]
  BY <1>1
<1>3. \A ab, cd \in B : f[ab] = f[cd] => ab = cd
  BY <1>1, BetweenByEnd
<1> HIDE DEF f
<1>4. ASSUME NEW ab \in B PROVE LengthsOf(st, en, m, w)[ab] <= DriftsOf(st, en, m, w)[f[ab]]
  <2>1. ab[1] \in Nat /\ ab[2] \in Nat
    BY BetweenHasJoint
  <2>2. PICK k \in J : k = f[ab]
    BY <1>1
  <2>3. st[k + 1] = ab[2] /\ en[k] <= ab[1]
    BY <1>1, <2>2
  <2>4. en[k] \in Nat
    BY DEF Joints, Stretches
  <2>5. LengthsOf(st, en, m, w)[ab] = ab[2] - ab[1]
    BY DEF LengthsOf
  <2>6. DriftsOf(st, en, m, w)[f[ab]] = st[k + 1] - en[k]
    BY <2>2 DEF DriftsOf
  <2> HIDE DEF B, J
  <2> QED
    BY <2>1, <2>3, <2>4, <2>5, <2>6
<1>5. IsFiniteSet(B) /\ IsFiniteSet(J)
  BY BetweenFinite, JointsFinite DEF Stretches
<1>6. LengthsOf(st, en, m, w) \in [B -> Nat] /\ DriftsOf(st, en, m, w) \in [J -> Nat]
  BY LengthTypes
<1> HIDE DEF B, J
<1>7. Fits(f, LengthsOf(st, en, m, w), B, DriftsOf(st, en, m, w), J)
  BY <1>2, <1>3, <1>4, <1>5, <1>6 DEF Fits
<1> QED
  BY <1>7 DEF B, J

\* If they end in the order in which they start, each joint is such a gap.
LEMMA JointsFitBetween ==
  ASSUME NEW st, NEW en, NEW m, Stretches(st, en, m), NEW w \in Nat,
         \A j, k \in 1..m : st[j] <= st[k] => en[j] <= en[k]
  PROVE  \E f : Fits(f, DriftsOf(st, en, m, w), Joints(st, en, m, w),
                        LengthsOf(st, en, m, w), Between(st, en, m, w))
<1> DEFINE B == Between(st, en, m, w)
           J == Joints(st, en, m, w)
           f == [k \in J |-> <<en[k], st[k + 1]>>]
<1>0. /\ m \in Nat /\ st \in [1..m -> Nat] /\ en \in [1..m -> Nat]
      /\ \A k \in 1..m : st[k] <= en[k]
      /\ \A j, k \in 1..m : j <= k => st[j] <= st[k]
  BY DEF Stretches
<1>1. \A k \in J : /\ k \in 1..m /\ k + 1 \in 1..m /\ st[k + 1] - en[k] > w
                   /\ st[k] \in Nat /\ st[k + 1] \in Nat /\ en[k] \in Nat
  <2> SUFFICES ASSUME NEW k \in J
               PROVE  /\ k \in 1..m /\ k + 1 \in 1..m /\ st[k + 1] - en[k] > w
                      /\ st[k] \in Nat /\ st[k + 1] \in Nat /\ en[k] \in Nat
    OBVIOUS
  <2>1. k \in 1..(m - 1) /\ st[k + 1] - en[k] > w
    BY DEF Joints
  <2>2. k \in 1..m /\ k + 1 \in 1..m
    BY <1>0, <2>1
  <2> QED
    BY <1>0, <2>1, <2>2
<1>2. ASSUME NEW k \in J PROVE <<en[k], st[k + 1]>> \in B
  <2>1. \A i \in 1..m : en[i] <= en[k] \/ st[k + 1] <= st[i]
    <3> SUFFICES ASSUME NEW i \in 1..m PROVE en[i] <= en[k] \/ st[k + 1] <= st[i]
      OBVIOUS
    <3>1. k \in Int /\ i \in Int /\ (i <= k \/ k + 1 <= i)
      BY <1>1
    <3>2. i <= k => en[i] <= en[k]
      BY <1>0, <1>1
    <3>3. k + 1 <= i => st[k + 1] <= st[i]
      BY <1>0, <1>1
    <3> QED
      BY <3>1, <3>2, <3>3
  <2> QED
    BY <1>1, <2>1 DEF Between
<1>3. \A j, k \in J : f[j] = f[k] => j = k
  <2>1. ASSUME NEW j \in J, NEW k \in J, j < k, en[j] = en[k], st[j + 1] = st[k + 1] PROVE FALSE
    <3>1. j + 1 <= k /\ j \in 1..m /\ k \in 1..m /\ j + 1 \in 1..m
      BY <1>1, <2>1
    <3>2. st[j + 1] <= st[k] /\ st[k] <= en[k]
      BY <1>0, <3>1
    <3>3. st[j + 1] - en[j] > w /\ st[j + 1] \in Nat /\ en[j] \in Nat /\ st[k] \in Nat /\ en[k] \in Nat
      BY <1>1
    <3> QED
      BY <2>1, <3>2, <3>3
  <2> SUFFICES ASSUME NEW j \in J, NEW k \in J, f[j] = f[k] PROVE j = k
    OBVIOUS
  <2>2. en[j] = en[k] /\ st[j + 1] = st[k + 1]
    OBVIOUS
  <2>3. j \in Int /\ k \in Int
    BY <1>1
  <2>4. ~(j < k) /\ ~(k < j)
    BY <2>1, <2>2
  <2> QED
    BY <2>3, <2>4
<1>4. f \in [J -> B]
  BY <1>2
<1>5. ASSUME NEW k \in J PROVE DriftsOf(st, en, m, w)[k] <= LengthsOf(st, en, m, w)[f[k]]
  <2>1. DriftsOf(st, en, m, w)[k] = st[k + 1] - en[k]
    BY DEF DriftsOf
  <2>2. LengthsOf(st, en, m, w)[<<en[k], st[k + 1]>>] = st[k + 1] - en[k]
    BY <1>2 DEF LengthsOf
  <2>3. st[k + 1] - en[k] \in Int
    BY <1>1
  <2> QED
    BY <2>1, <2>2, <2>3
<1>6. IsFiniteSet(B) /\ IsFiniteSet(J)
  BY BetweenFinite, JointsFinite DEF Stretches
<1>7. LengthsOf(st, en, m, w) \in [B -> Nat] /\ DriftsOf(st, en, m, w) \in [J -> Nat]
  BY LengthTypes
<1> HIDE DEF f, B, J
<1>8. Fits(f, DriftsOf(st, en, m, w), J, LengthsOf(st, en, m, w), B)
  BY <1>3, <1>4, <1>5, <1>6, <1>7 DEF Fits
<1> QED
  BY <1>8 DEF B, J

\* How far each stretch starts behind the one before it, or before its end, and
\* how long each is.
Gapped(st, en, m) == [k \in 1..(m - 1) |-> IF st[k + 1] >= en[k] THEN st[k + 1] - en[k] ELSE 0]

Lapped(st, en, m) == [k \in 1..(m - 1) |-> IF en[k] >= st[k + 1] THEN en[k] - st[k + 1] ELSE 0]

Lasting(st, en, m) == [k \in 1..m |-> en[k] - st[k]]

\* From the first start to the last end lie the stretches and the gaps between
\* them, less the overlaps.
LEMMA Telescope ==
  ASSUME NEW st, NEW en, NEW m, Stretches(st, en, m), m # 0,
         NEW G, SumsUp(G, Gapped(st, en, m), 1..(m - 1)),
         NEW O, SumsUp(O, Lapped(st, en, m), 1..(m - 1)),
         NEW L, SumsUp(L, Lasting(st, en, m), 1..m)
  PROVE  /\ G[1..(m - 1)] \in Nat /\ O[1..(m - 1)] \in Nat /\ L[1..m] \in Nat
         /\ en[m] - st[1] = L[1..m] + G[1..(m - 1)] - O[1..(m - 1)]
<1> DEFINE gap == Gapped(st, en, m)
           lap == Lapped(st, en, m)
           len == Lasting(st, en, m)
<1>0. /\ m \in Nat /\ st \in [1..m -> Nat] /\ en \in [1..m -> Nat]
      /\ \A k \in 1..m : st[k] <= en[k]
  BY DEF Stretches
<1>1. m - 1 \in Nat /\ \A k \in 1..(m - 1) : k \in 1..m /\ k + 1 \in 1..m
  BY <1>0
<1>2. /\ \A k \in 1..m : st[k] \in Nat /\ en[k] \in Nat
      /\ \A k \in 1..(m - 1) : st[k + 1] \in Nat /\ en[k] \in Nat
  BY <1>0, <1>1
<1>3. gap \in [1..(m - 1) -> Nat] /\ lap \in [1..(m - 1) -> Nat] /\ len \in [1..m -> Nat]
  <2>1. \A a, b \in Nat : (IF a >= b THEN a - b ELSE 0) \in Nat
    OBVIOUS
  <2>2. \A a, b \in Nat : a <= b => b - a \in Nat
    OBVIOUS
  <2>3. \A k \in 1..m : en[k] - st[k] \in Nat
    BY <1>0, <1>2, <2>2
  <2> QED
    BY <1>2, <2>1, <2>3 DEF Gapped, Lapped, Lasting
<1>4. /\ \A k \in 1..(m - 1) : gap[k] - lap[k] = st[k + 1] - en[k]
      /\ \A k \in 1..m : len[k] = en[k] - st[k]
  BY <1>2 DEF Gapped, Lapped, Lasting
<1>5. SumsUp(G, gap, 1..(m - 1)) /\ SumsUp(O, lap, 1..(m - 1)) /\ SumsUp(L, len, 1..m)
  OBVIOUS
<1> HIDE DEF gap, lap, len
<1>6. AddsUp(G, gap, 1..(m - 1)) /\ AddsUp(O, lap, 1..(m - 1)) /\ AddsUp(L, len, 1..m)
  <2>1. IsFiniteSet(1..(m - 1)) /\ IsFiniteSet(1..m)
    BY <1>0, <1>1, FS_Interval
  <2>2. AddsUp(G, gap, 1..(m - 1))
    BY <1>3, <1>5, <2>1, SumTakesAny
  <2>3. AddsUp(O, lap, 1..(m - 1))
    BY <1>3, <1>5, <2>1, SumTakesAny
  <2>4. AddsUp(L, len, 1..m)
    BY <1>3, <1>5, <2>1, SumTakesAny
  <2> QED
    BY <2>2, <2>3, <2>4
<1> DEFINE A == {k \in Nat : k + 1 <= m =>
                   /\ G[1..k] \in Nat /\ O[1..k] \in Nat /\ L[1..(k + 1)] \in Nat
                   /\ en[k + 1] - st[1] = L[1..(k + 1)] + G[1..k] - O[1..k]}
<1>7. \A k \in 1..(m - 1) : /\ G[1..k] \in Nat /\ G[1..k] = gap[k] + G[1..(k - 1)]
                            /\ O[1..k] \in Nat /\ O[1..k] = lap[k] + O[1..(k - 1)]
  <2> SUFFICES ASSUME NEW k \in 1..(m - 1)
               PROVE  /\ G[1..k] \in Nat /\ G[1..k] = gap[k] + G[1..(k - 1)]
                      /\ O[1..k] \in Nat /\ O[1..k] = lap[k] + O[1..(k - 1)]
    OBVIOUS
  <2>1. k \in 1..k
    BY <1>1
  <2>2. PICK s : s = 1..k
    OBVIOUS
  <2>3. s \in SUBSET (1..(m - 1)) /\ k \in s /\ s \ {k} = 1..(k - 1)
    BY <1>1, <2>1, <2>2, FoldTakes
  <2>4. /\ G[s] \in Nat /\ G[s] = gap[k] + G[s \ {k}]
        /\ O[s] \in Nat /\ O[s] = lap[k] + O[s \ {k}]
    BY <1>6, <2>3 DEF AddsUp
  <2> QED
    BY <2>2, <2>3, <2>4
<1>8. \A k \in 1..m : L[1..k] \in Nat /\ L[1..k] = len[k] + L[1..(k - 1)]
  <2> SUFFICES ASSUME NEW k \in 1..m PROVE L[1..k] \in Nat /\ L[1..k] = len[k] + L[1..(k - 1)]
    OBVIOUS
  <2>1. k \in 1..k
    BY <1>0
  <2>2. PICK s : s = 1..k
    OBVIOUS
  <2>3. s \in SUBSET (1..m) /\ k \in s /\ s \ {k} = 1..(k - 1)
    BY <1>0, <2>1, <2>2, FoldTakes
  <2>4. L[s] \in Nat /\ L[s] = len[k] + L[s \ {k}]
    BY <1>6, <2>3 DEF AddsUp
  <2> QED
    BY <2>2, <2>3, <2>4
<1>9. G[1..0] = 0 /\ O[1..0] = 0 /\ L[1..0] = 0
  <2>1. 1..0 = {}
    OBVIOUS
  <2> QED
    BY <1>6, <2>1 DEF AddsUp
<1>10. 0 \in A
  <2>1. 1 \in 1..m /\ 1 - 1 = 0
    BY <1>0
  <2>2. L[1..1] = len[1] + L[1..0] /\ len[1] = en[1] - st[1] /\ L[1..1] \in Nat
    BY <1>4, <1>8, <2>1
  <2>3. st[1] \in Nat /\ en[1] \in Nat
    BY <1>2, <2>1
  <2> QED
    BY <1>9, <2>2, <2>3
<1>11. ASSUME NEW k \in Nat, k \in A PROVE k + 1 \in A
  <2> SUFFICES ASSUME (k + 1) + 1 <= m
               PROVE  /\ G[1..(k + 1)] \in Nat /\ O[1..(k + 1)] \in Nat /\ L[1..((k + 1) + 1)] \in Nat
                      /\ en[(k + 1) + 1] - st[1] = L[1..((k + 1) + 1)] + G[1..(k + 1)] - O[1..(k + 1)]
    OBVIOUS
  <2>1. PICK j \in 1..(m - 1) : j = k + 1 /\ j - 1 = k /\ j + 1 \in 1..m /\ j \in 1..m /\ (j + 1) - 1 = j
    <3>1. k + 1 \in 1..(m - 1) /\ (k + 1) + 1 \in 1..m
      BY <1>0
    <3> QED
      BY <1>1, <3>1
  <2>2. /\ G[1..k] \in Nat /\ O[1..k] \in Nat /\ L[1..j] \in Nat
        /\ en[j] - st[1] = L[1..j] + G[1..k] - O[1..k]
    BY <1>0, <1>11, <2>1
  <2>3. /\ G[1..j] \in Nat /\ G[1..j] = gap[j] + G[1..k]
        /\ O[1..j] \in Nat /\ O[1..j] = lap[j] + O[1..k]
    BY <1>7, <2>1
  <2>4. L[1..(j + 1)] \in Nat /\ L[1..(j + 1)] = len[j + 1] + L[1..j]
    BY <1>8, <2>1
  <2>5. gap[j] - lap[j] = st[j + 1] - en[j] /\ len[j + 1] = en[j + 1] - st[j + 1]
    BY <1>4, <2>1
  <2>6. /\ st[j + 1] \in Nat /\ en[j] \in Nat /\ en[j + 1] \in Nat /\ st[1] \in Nat
    <3>1. 1 \in 1..m
      BY <1>0
    <3> QED
      BY <1>2, <2>1, <3>1
  <2>7. gap[j] \in Nat /\ lap[j] \in Nat /\ len[j + 1] \in Nat
    BY <1>3, <2>1
  <2>8. en[j + 1] - st[1] = L[1..(j + 1)] + G[1..j] - O[1..j]
    <3>1. PICK x \in Nat, y \in Nat, z \in Nat, a \in Nat, b \in Nat, c \in Nat :
            x = L[1..j] /\ y = G[1..k] /\ z = O[1..k] /\ a = gap[j] /\ b = lap[j] /\ c = len[j + 1]
      BY <2>2, <2>7
    <3>2. PICK p \in Nat, q \in Nat, r \in Nat, t \in Nat :
            p = st[1] /\ q = en[j] /\ r = st[j + 1] /\ t = en[j + 1]
      BY <2>6
    <3>3. q - p = x + y - z /\ a - b = r - q /\ c = t - r
      BY <2>2, <2>5, <3>1, <3>2
    <3>4. t - p = (c + x) + (a + y) - (b + z)
      BY <3>3
    <3> QED
      BY <2>3, <2>4, <3>1, <3>2, <3>4
  <2> QED
    BY <2>1, <2>3, <2>4, <2>8
<1> HIDE DEF A
<1>12. m - 1 \in A
  BY <1>1, <1>10, <1>11, Induction
<1>13. (m - 1) + 1 = m /\ m <= m
  BY <1>0
<1> QED
  BY <1>12, <1>13 DEF A

\* The sum over a part is that of what h has there.
LEMMA SumOfPart ==
  ASSUME NEW S, IsFiniteSet(S), NEW h \in [S -> Nat], NEW G, SumsUp(G, h, S),
         NEW R \in SUBSET S, NEW g, SumsUp(g, [x \in R |-> h[x]], R)
  PROVE  g[R] = G[R]
<1> DEFINE A == {n \in Nat : \A s \in SUBSET R : Cardinality(s) <= n => g[s] = G[s]}
<1>1. IsFiniteSet(R)
  BY FS_Subset
<1>2. ASSUME NEW s \in SUBSET R, s = {} PROVE g[s] = G[s]
  BY <1>2 DEF SumsUp
<1>3. 0 \in A
  <2>1. \A s \in SUBSET R : Cardinality(s) <= 0 => s = {}
    BY <1>1, SubsetSizes
  <2> QED
    BY <1>2, <2>1
<1>4. ASSUME NEW n \in Nat, n \in A PROVE n + 1 \in A
  <2>1. ASSUME NEW s \in SUBSET R, s # {}, Cardinality(s) <= n + 1 PROVE g[s] = G[s]
    <3>1. PICK c : c = CHOOSE x \in s : TRUE
      OBVIOUS
    <3>2. /\ c \in s /\ s \ {c} \in SUBSET R /\ Cardinality(s \ {c}) = Cardinality(s) - 1
          /\ Cardinality(s) \in Nat \ {0}
      BY <1>1, <2>1, <3>1, SumTakes
    <3>3. g[s] = [x \in R |-> h[x]][c] + g[s \ {c}]
      BY <2>1, <3>1 DEF SumsUp
    <3>4. s \in SUBSET S
      OBVIOUS
    <3>5. G[s] = h[c] + G[s \ {c}]
      BY <2>1, <3>1, <3>4 DEF SumsUp
    <3>6. Cardinality(s \ {c}) <= n
      BY <2>1, <3>2
    <3>7. g[s \ {c}] = G[s \ {c}]
      BY <1>4, <3>2, <3>6
    <3> QED
      BY <3>2, <3>3, <3>5, <3>7
  <2> QED
    BY <1>2, <2>1
<1> HIDE DEF A
<1>5. \A n \in Nat : n \in A
  BY <1>3, <1>4, Induction
<1>6. Cardinality(R) \in Nat /\ R \in SUBSET R
  BY <1>1, FS_CardinalityType
<1>7. Cardinality(R) \in A /\ Cardinality(R) <= Cardinality(R)
  BY <1>5, <1>6
<1> QED
  BY <1>6, <1>7 DEF A

\* R is of the two parts P and Q of S, which share nothing.
Splits(R, P, Q, S) ==
  P \in SUBSET S /\ Q \in SUBSET S /\ P \cap Q = {} /\ R = P \cup Q

LEMMA SumOfUnion ==
  ASSUME NEW S, IsFiniteSet(S), NEW h \in [S -> Nat], NEW G, SumsUp(G, h, S),
         NEW R, NEW P, NEW Q, Splits(R, P, Q, S)
  PROVE  G[P] \in Nat /\ G[Q] \in Nat /\ G[R] = G[P] + G[Q]
<1>0. P \in SUBSET S /\ Q \in SUBSET S /\ P \cap Q = {} /\ R = P \cup Q
  BY DEF Splits
<1>1. AddsUp(G, h, S)
  BY SumTakesAny
<1>2. \A s \in SUBSET S : /\ G[s] \in Nat /\ (s = {} => G[s] = 0)
                          /\ \A x \in s : G[s] = h[x] + G[s \ {x}]
  BY <1>1 DEF AddsUp
<1> DEFINE Ok(s) == G[s \cup Q] = G[s] + G[Q]
           A == {n \in Nat : \A s \in SUBSET P : Cardinality(s) <= n => Ok(s)}
<1>3. IsFiniteSet(P)
  BY <1>0, FS_Subset
<1>4. 0 \in A
  <2>1. \A s \in SUBSET P : Cardinality(s) <= 0 => s = {}
    BY <1>3, SubsetSizes
  <2>2. {} \cup Q = Q /\ {} \in SUBSET S
    OBVIOUS
  <2>3. G[{}] = 0 /\ G[Q] \in Nat
    BY <1>0, <1>2, <2>2
  <2> QED
    BY <2>1, <2>2, <2>3
<1>5. ASSUME NEW n \in Nat, n \in A PROVE n + 1 \in A
  <2>1. ASSUME NEW s \in SUBSET P, Cardinality(s) <= n + 1 PROVE G[s \cup Q] = G[s] + G[Q]
    <3>1. CASE s = {}
      <4>1. s \cup Q = Q /\ s \in SUBSET S
        BY <1>0, <3>1
      <4>2. G[s] = 0 /\ G[Q] \in Nat
        BY <1>0, <1>2, <3>1, <4>1
      <4> QED
        BY <4>1, <4>2
    <3>2. CASE s # {}
      <4>1. PICK x : x \in s
        BY <3>2
      <4>2. PICK r : r = s \ {x}
        OBVIOUS
      <4>3. IsFiniteSet(s) /\ Cardinality(s) \in Nat
        BY <1>3, FS_Subset, SubsetSizes
      <4>4. Cardinality(r) = Cardinality(s) - 1
        BY <4>1, <4>2, <4>3, FS_RemoveElement
      <4>5. Cardinality(r) <= n /\ r \in SUBSET P
        BY <2>1, <4>2, <4>3, <4>4
      <4>6. G[r \cup Q] = G[r] + G[Q]
        BY <1>5, <4>5
      <4>7. /\ s \in SUBSET S /\ s \cup Q \in SUBSET S /\ x \in s \cup Q
            /\ (s \cup Q) \ {x} = r \cup Q /\ r \in SUBSET S
        BY <1>0, <4>1, <4>2
      <4>8. G[s \cup Q] = h[x] + G[(s \cup Q) \ {x}] /\ G[s] = h[x] + G[s \ {x}]
        BY <1>0, <1>2, <4>1, <4>7
      <4>9. G[s \cup Q] = h[x] + G[r \cup Q] /\ G[s] = h[x] + G[r]
        BY <4>2, <4>7, <4>8
      <4>10. G[r] \in Nat /\ G[Q] \in Nat /\ h[x] \in Nat
        BY <1>0, <1>2, <4>1, <4>7
      <4>11. PICK u \in Nat, v \in Nat, w \in Nat : u = G[r] /\ v = G[Q] /\ w = h[x]
        BY <4>10
      <4>12. G[r \cup Q] = u + v /\ G[s] = w + u /\ G[s \cup Q] = w + (u + v)
        BY <4>6, <4>9, <4>11
      <4>13. w + (u + v) = (w + u) + v
        BY <4>11
      <4> QED
        BY <4>11, <4>12, <4>13, Zenon
    <3> QED
      BY <3>1, <3>2
  <2>2. \A s \in SUBSET P : Cardinality(s) <= n + 1 => Ok(s)
    BY <2>1
  <2> HIDE DEF Ok
  <2> QED
    BY <2>2
<1> HIDE DEF A
<1>6. \A n \in Nat : n \in A
  BY <1>4, <1>5, Induction
<1>7. Cardinality(P) \in Nat /\ P \in SUBSET P
  BY <1>3, FS_CardinalityType
<1>8. Cardinality(P) \in A /\ Cardinality(P) <= Cardinality(P)
  BY <1>6, <1>7
<1> QED
  BY <1>0, <1>2, <1>7, <1>8 DEF A

\* The members that place puts at k.
PlacedAt(place, S, k) == {x \in S : place[x] = k}

\* Of each place, t has all that is there, or at least c.
CappedByPlace(t, c, h, S, place, n) ==
  /\ IsFiniteSet(S) /\ h \in [S -> Nat] /\ n \in Nat /\ place \in [S -> 1..n] /\ c \in Nat
  /\ t \in [1..n -> Nat]
  /\ \A k \in 1..n : t[k] >= c \/ \E g : /\ SumsUp(g, [x \in PlacedAt(place, S, k) |-> h[x]],
                                                    PlacedAt(place, S, k))
                                         /\ t[k] >= g[PlacedAt(place, S, k)]

\* So it has all there is, or at least c.
LEMMA SumOfCapped ==
  ASSUME NEW t, NEW c, NEW h, NEW S, NEW place, NEW n, CappedByPlace(t, c, h, S, place, n),
         NEW T, SumsUp(T, t, 1..n), NEW G, SumsUp(G, h, S)
  PROVE  T[1..n] \in Nat /\ G[S] \in Nat /\ (T[1..n] >= c \/ T[1..n] >= G[S])
<1>0. /\ IsFiniteSet(S) /\ h \in [S -> Nat] /\ n \in Nat /\ place \in [S -> 1..n] /\ c \in Nat
      /\ t \in [1..n -> Nat]
  BY DEF CappedByPlace
<1>1. \A k \in 1..n : PlacedAt(place, S, k) \in SUBSET S
  BY DEF PlacedAt
<1>2. \A k \in 1..n : t[k] >= c \/ t[k] >= G[PlacedAt(place, S, k)]
  <2> SUFFICES ASSUME NEW k \in 1..n, ~(t[k] >= c) PROVE t[k] >= G[PlacedAt(place, S, k)]
    OBVIOUS
  <2>1. PICK R : R = PlacedAt(place, S, k)
    OBVIOUS
  <2>2. PICK g : SumsUp(g, [x \in R |-> h[x]], R) /\ t[k] >= g[R]
    BY <2>1 DEF CappedByPlace
  <2>3. R \in SUBSET S /\ IsFiniteSet(S) /\ h \in [S -> Nat]
    BY <1>0, <1>1, <2>1
  <2>4. g[R] = G[R]
    BY <2>2, <2>3, SumOfPart
  <2> QED
    BY <2>1, <2>2, <2>4
<1>3. AddsUp(T, t, 1..n) /\ AddsUp(G, h, S)
  <2>1. IsFiniteSet(1..n)
    BY <1>0, FS_Interval
  <2>2. AddsUp(T, t, 1..n)
    BY <1>0, <2>1, SumTakesAny
  <2>3. AddsUp(G, h, S)
    BY <1>0, SumTakesAny
  <2> QED
    BY <2>2, <2>3
<1>13. ASSUME NEW R, NEW P, NEW Q, Splits(R, P, Q, S)
       PROVE  G[P] \in Nat /\ G[Q] \in Nat /\ G[R] = G[P] + G[Q]
  BY <1>0, <1>13, SumOfUnion
<1> DEFINE upTo(k) == {x \in S : place[x] <= k}
           A == {k \in Nat : k <= n => T[1..k] >= c \/ T[1..k] >= G[upTo(k)]}
<1>4. \A k \in Nat : upTo(k) \in SUBSET S
  OBVIOUS
<1>5. \A R \in SUBSET S : G[R] \in Nat /\ (R = {} => G[R] = 0)
  BY <1>3 DEF AddsUp
<1>6. \A R \in SUBSET (1..n) : T[R] \in Nat
  BY <1>3 DEF AddsUp
<1>7. upTo(0) = {}
  <2> SUFFICES ASSUME NEW x \in S PROVE ~(place[x] <= 0)
    OBVIOUS
  <2>1. place[x] \in 1..n
    BY <1>0
  <2> QED
    BY <2>1
<1>8. ASSUME NEW k \in Nat, k + 1 <= n
      PROVE  /\ upTo(k + 1) = upTo(k) \cup PlacedAt(place, S, k + 1)
             /\ upTo(k) \cap PlacedAt(place, S, k + 1) = {}
  <2>1. \A x \in S : place[x] \in Int
    BY <1>0
  <2>2. \A x \in S : place[x] <= k + 1 <=> place[x] <= k \/ place[x] = k + 1
    BY <2>1
  <2>3. \A x \in S : ~(place[x] <= k /\ place[x] = k + 1)
    BY <2>1
  <2> QED
    BY <2>2, <2>3 DEF PlacedAt
<1> HIDE DEF upTo
<1>9. 0 \in A
  <2>1. 1..0 = {} /\ {} \in SUBSET (1..n)
    OBVIOUS
  <2>2. T[1..0] \in Nat /\ G[upTo(0)] = 0
    BY <1>5, <1>6, <1>7, <2>1
  <2> QED
    BY <2>2
<1>10. ASSUME NEW k \in Nat, k \in A PROVE k + 1 \in A
  <2> SUFFICES ASSUME k + 1 <= n
               PROVE  T[1..(k + 1)] >= c \/ T[1..(k + 1)] >= G[upTo(k + 1)]
    OBVIOUS
  <2>1. PICK j \in 1..n : j = k + 1 /\ j - 1 = k
    <3>1. k + 1 \in 1..n /\ (k + 1) - 1 = k
      BY <1>0
    <3> QED
      BY <3>1
  <2>2. T[1..j] = t[j] + T[1..k] /\ T[1..k] \in Nat /\ T[1..j] \in Nat /\ t[j] \in Nat
    <3>1. PICK s : s = 1..j
      OBVIOUS
    <3>2. j \in s
      BY <2>1, <3>1
    <3>3. s \in SUBSET (1..n) /\ s \ {j} = 1..k /\ 1..k \in SUBSET (1..n)
      BY <1>0, <2>1, <3>1, FoldTakes
    <3>4. T[s] = t[j] + T[s \ {j}]
      BY <1>3, <3>2, <3>3 DEF AddsUp
    <3> QED
      BY <1>0, <1>6, <3>1, <3>3, <3>4
  <2>3. T[1..k] >= c \/ T[1..k] >= G[upTo(k)]
    BY <1>0, <1>10
  <2>4. t[j] >= c \/ t[j] >= G[PlacedAt(place, S, j)]
    BY <1>2
  <2>5. /\ G[upTo(k)] \in Nat /\ G[PlacedAt(place, S, j)] \in Nat
        /\ G[upTo(j)] = G[upTo(k)] + G[PlacedAt(place, S, j)]
    <3>1. PICK P, Q, R : P = upTo(k) /\ Q = PlacedAt(place, S, j) /\ R = upTo(j)
      OBVIOUS
    <3>2. P \in SUBSET S /\ Q \in SUBSET S /\ P \cap Q = {} /\ R = P \cup Q
      BY <1>1, <1>4, <1>8, <2>1, <3>1
    <3>3. G[P] \in Nat /\ G[Q] \in Nat /\ G[R] = G[P] + G[Q]
      <4>1. Splits(R, P, Q, S)
        BY <3>2 DEF Splits
      <4> QED
        BY <1>13, <4>1
    <3> QED
      BY <3>1, <3>2, <3>3
  <2>6. T[1..j] >= c \/ T[1..j] >= G[upTo(j)]
    BY <1>0, <2>2, <2>3, <2>4, <2>5
  <2> QED
    BY <2>1, <2>6
<1> HIDE DEF A
<1>11. n \in A
  BY <1>0, <1>9, <1>10, Induction
<1>12. upTo(n) = S
  <2>1. \A x \in S : place[x] \in 1..n
    BY <1>0
  <2>2. \A x \in S : place[x] <= n
    BY <1>0, <2>1
  <2> QED
    BY <2>2 DEF upTo
<1>14. T[1..n] \in Nat /\ G[S] \in Nat
  BY <1>5, <1>6
<1> QED
  BY <1>0, <1>11, <1>12, <1>14 DEF A

\* Whole parts of length d.
LEMMA Quotient ==
  ASSUME NEW n \in Nat, NEW d \in Nat \ {0}
  PROVE  n \div d \in Nat /\ (n \div d) * d <= n /\ n < ((n \div d) + 1) * d
<1>1. n \div d \in Int /\ n % d \in 0..(d - 1) /\ n = d * (n \div d) + (n % d)
  OBVIOUS
<1>2. PICK q \in Int, r \in Int : q = n \div d /\ r = n % d /\ 0 <= r /\ r < d /\ n = d * q + r
  BY <1>1
<1>3. q >= 0
  <2> SUFFICES ASSUME q <= -1 PROVE FALSE
    BY <1>2
  <2>1. d * q <= -d
    OBVIOUS
  <2> QED
    BY <1>2, <2>1
<1>4. q * d <= n /\ n < (q + 1) * d
  <2>1. q * d = d * q /\ (q + 1) * d = d * q + d
    OBVIOUS
  <2> QED
    BY <1>2, <2>1
<1> QED
  BY <1>2, <1>3, <1>4

LEMMA QuotientGrows ==
  ASSUME NEW a \in Nat, NEW b \in Nat, a <= b, NEW d \in Nat \ {0}
  PROVE  a \div d <= b \div d
<1>1. PICK p \in Nat, q \in Nat : p = a \div d /\ q = b \div d
  BY Quotient
<1>2. p * d <= a /\ b < (q + 1) * d
  BY <1>1, Quotient
<1>3. p <= q
  <2> SUFFICES ASSUME p >= q + 1 PROVE FALSE
    OBVIOUS
  <2>1. p * d >= (q + 1) * d
    OBVIOUS
  <2>2. p * d \in Nat /\ (q + 1) * d \in Nat
    OBVIOUS
  <2> QED
    BY <1>2, <2>1, <2>2
<1> QED
  BY <1>1, <1>3

\* What is within the last few parts is within as many lengths.
LEMMA WithinParts ==
  ASSUME NEW a \in Nat, NEW b \in Nat, NEW d \in Nat \ {0}, NEW m \in Nat,
         a \div d > (b \div d) - m
  PROVE  a >= b - m * d
<1>1. PICK p \in Nat, q \in Nat : p = a \div d /\ q = b \div d
  BY Quotient
<1>2. p * d <= a /\ b < (q + 1) * d
  BY <1>1, Quotient
<1>3. p + m >= q + 1
  BY <1>1
<1>4. (p + m) * d >= (q + 1) * d
  BY <1>3
<1>5. (p + m) * d = p * d + m * d /\ p * d \in Nat /\ m * d \in Nat /\ (q + 1) * d \in Nat
  OBVIOUS
<1> QED
  BY <1>2, <1>4, <1>5

\* What fits still fits when only whole parts of length d count.
InParts(h, S, d) == [x \in S |-> h[x] \div d]

LEMMA FitsInParts ==
  ASSUME NEW f, NEW h, NEW S, NEW e, NEW T, Fits(f, h, S, e, T), NEW d \in Nat \ {0}
  PROVE  Fits(f, InParts(h, S, d), S, InParts(e, T, d), T)
<1>1. /\ IsFiniteSet(S) /\ h \in [S -> Nat] /\ IsFiniteSet(T) /\ e \in [T -> Nat]
      /\ f \in [S -> T] /\ \A x, y \in S : f[x] = f[y] => x = y
      /\ \A x \in S : h[x] <= e[f[x]]
  BY DEF Fits
<1>2. \A x \in S : InParts(h, S, d)[x] \in Nat /\ InParts(h, S, d)[x] = h[x] \div d
  BY <1>1, Quotient DEF InParts
<1>3. \A y \in T : InParts(e, T, d)[y] \in Nat /\ InParts(e, T, d)[y] = e[y] \div d
  BY <1>1, Quotient DEF InParts
<1>4. InParts(h, S, d) \in [S -> Nat] /\ InParts(e, T, d) \in [T -> Nat]
  BY <1>2, <1>3 DEF InParts
<1>5. ASSUME NEW x \in S PROVE InParts(h, S, d)[x] <= InParts(e, T, d)[f[x]]
  <2>1. h[x] \in Nat /\ e[f[x]] \in Nat /\ f[x] \in T /\ h[x] <= e[f[x]]
    BY <1>1
  <2>2. h[x] \div d <= e[f[x]] \div d
    BY <2>1, QuotientGrows
  <2> QED
    BY <1>2, <1>3, <2>1, <2>2
<1> QED
  BY <1>1, <1>4, <1>5 DEF Fits

\* Sums of lengths against sums of their whole parts, which leave out r at most.
LEMMA SumOfParted ==
  ASSUME NEW S, IsFiniteSet(S), NEW h \in [S -> Nat], NEW q \in [S -> Nat],
         NEW d \in Nat, NEW r \in Nat,
         \A x \in S : d * q[x] <= h[x] /\ h[x] <= d * q[x] + r,
         NEW H, SumsUp(H, h, S), NEW Q, SumsUp(Q, q, S)
  PROVE  /\ H[S] \in Nat /\ Q[S] \in Nat /\ Cardinality(S) \in Nat
         /\ d * Q[S] <= H[S] /\ H[S] <= d * Q[S] + r * Cardinality(S)
<1>1. AddsUp(H, h, S) /\ AddsUp(Q, q, S)
  BY SumTakesAny
<1>2. \A s \in SUBSET S : /\ H[s] \in Nat /\ (s = {} => H[s] = 0)
                          /\ \A x \in s : H[s] = h[x] + H[s \ {x}]
  BY <1>1 DEF AddsUp
<1>3. \A s \in SUBSET S : /\ Q[s] \in Nat /\ (s = {} => Q[s] = 0)
                          /\ \A x \in s : Q[s] = q[x] + Q[s \ {x}]
  BY <1>1 DEF AddsUp
<1> DEFINE A == {n \in Nat : \A s \in SUBSET S : Cardinality(s) = n =>
                   d * Q[s] <= H[s] /\ H[s] <= d * Q[s] + r * n}
<1>4. 0 \in A
  <2> SUFFICES ASSUME NEW s \in SUBSET S, Cardinality(s) = 0
               PROVE  d * Q[s] <= H[s] /\ H[s] <= d * Q[s] + r * 0
    OBVIOUS
  <2>1. s = {}
    BY SubsetSizes
  <2>2. Q[s] = 0 /\ H[s] = 0
    BY <1>2, <1>3, <2>1
  <2> QED
    BY <2>2
<1>5. ASSUME NEW n \in Nat, n \in A PROVE n + 1 \in A
  <2> SUFFICES ASSUME NEW s \in SUBSET S, Cardinality(s) = n + 1
               PROVE  d * Q[s] <= H[s] /\ H[s] <= d * Q[s] + r * (n + 1)
    OBVIOUS
  <2>1. s # {}
    BY SubsetSizes
  <2>2. PICK x : x \in s /\ x \in S
    BY <2>1
  <2>3. PICK t : t = s \ {x}
    OBVIOUS
  <2>4. t \in SUBSET S /\ Cardinality(t) = n
    <3>1. IsFiniteSet(s)
      BY FS_Subset
    <3>2. Cardinality(t) = Cardinality(s) - 1
      BY <2>2, <2>3, <3>1, FS_RemoveElement
    <3> QED
      BY <2>3, <3>2
  <2>5. d * Q[t] <= H[t] /\ H[t] <= d * Q[t] + r * n
    BY <1>5, <2>4
  <2>6. H[s] = h[x] + H[t] /\ Q[s] = q[x] + Q[t]
    BY <1>2, <1>3, <2>2, <2>3
  <2>7. PICK a \in Nat, b \in Nat, u \in Nat, v \in Nat :
          a = h[x] /\ b = H[t] /\ u = q[x] /\ v = Q[t]
    BY <1>2, <1>3, <2>2, <2>4
  <2>8. d * u <= a /\ a <= d * u + r /\ d * v <= b /\ b <= d * v + r * n
    BY <2>2, <2>5, <2>7
  <2>9. /\ d * (u + v) = d * u + d * v /\ r * (n + 1) = r * n + r
        /\ d * u \in Nat /\ d * v \in Nat /\ r * n \in Nat
    OBVIOUS
  <2>10. d * (u + v) <= a + b /\ a + b <= d * (u + v) + r * (n + 1)
    BY <2>8, <2>9
  <2> QED
    BY <2>6, <2>7, <2>10
<1> HIDE DEF A
<1>6. \A n \in Nat : n \in A
  BY <1>4, <1>5, Induction
<1>7. Cardinality(S) \in Nat /\ S \in SUBSET S
  BY FS_CardinalityType
<1>8. d * Q[S] <= H[S] /\ H[S] <= d * Q[S] + r * Cardinality(S)
  <2>1. Cardinality(S) \in A
    BY <1>6, <1>7
  <2> QED
    BY <1>7, <2>1 DEF A
<1> QED
  BY <1>2, <1>3, <1>7, <1>8
=============================================================================
