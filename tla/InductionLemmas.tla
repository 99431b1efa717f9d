--------------------------- MODULE InductionLemmas ---------------------------
(***************************************************************************)
(* Induction and recursion on the natural numbers, stated with sets and    *)
(* functions: the theorems of NaturalsInduction take the property or the   *)
(* definition as an operator, which the provers cannot instantiate, while  *)
(* these are instantiated with a set of numbers or a function.             *)
(***************************************************************************)
EXTENDS Integers, Sequences, Filtering, FiniteSetTheorems, TLAPS

(* A set with zero and the successors of its members holds every number:    *)
(* if n were missing, the successor function would map the members below n  *)
(* one to one to those but zero, which are fewer.                           *)
LEMMA SetInduction ==
  ASSUME NEW S, 0 \in S, \A n \in Nat : n \in S => n + 1 \in S
  PROVE  \A n \in Nat : n \in S
<1> SUFFICES ASSUME NEW n \in Nat, n \notin S PROVE FALSE
  OBVIOUS
<1> DEFINE T == (0 .. n) \cap S
<1> DEFINE f == [i \in T |-> i + 1]
<1>1. IsFiniteSet(T)
  <2>1. IsFiniteSet(0 .. n)
    BY FS_Interval
  <2>2. T \in SUBSET (0 .. n)
    OBVIOUS
  <2> QED
    BY <2>1, <2>2, FS_Subset
<1>2. 0 \in T
  OBVIOUS
<1>3. IsFiniteSet(T \ {0}) /\ Cardinality(T \ {0}) = Cardinality(T) - 1
  BY <1>1, <1>2, FS_RemoveElement
<1>4. f \in [T -> T \ {0}]
  OBVIOUS
<1>5. Cardinality(T) \in Nat
  BY <1>1, FS_CardinalityType
<1>6. \E x, y \in T : x # y /\ f[x] = f[y]
  <2> HIDE DEF T, f
  <2>1. Cardinality(T \ {0}) < Cardinality(T)
    BY <1>3, <1>5
  <2> QED
    BY <1>1, <1>3, <1>4, <2>1, FS_PigeonHole
<1>7. QED
  BY <1>6

\* A function stays in a set when it begins there and no step leaves it.
LEMMA StaysIn ==
  ASSUME NEW T, NEW N \in Nat, NEW g, g[0] \in T,
         \A n \in 1 .. N : g[n - 1] \in T => g[n] \in T
  PROVE  g[N] \in T
<1> DEFINE S == {n \in Nat : n <= N => g[n] \in T}
<1>1. 0 \in S
  OBVIOUS
<1>2. ASSUME NEW n \in Nat, n \in S PROVE n + 1 \in S
  <2>1. n + 1 <= N => n + 1 \in 1 .. N /\ g[(n + 1) - 1] \in T
    BY <1>2
  <2>2. QED
    BY <2>1
<1>3. N \in S
  <2> HIDE DEF S
  <2>1. QED
    BY <1>1, <1>2, SetInduction
<1>4. QED
  BY <1>3

(* A function is defined by its value at zero and a step from each value to *)
(* the next.                                                                *)
Follows(f, N, T, a, step) ==
  f \in [0 .. N -> T] /\ f[0] = a /\ \A n \in 1 .. N : f[n] = step[n][f[n - 1]]

LEMMA RecursionExists ==
  ASSUME NEW T, NEW N \in Nat, NEW a \in T, NEW step \in [1 .. N -> [T -> T]]
  PROVE  \E f : Follows(f, N, T, a, step)
<1> DEFINE Good(k, f) == f[0] = a /\ \A n \in 1 .. k : f[n] = step[n][f[n - 1]]
<1> DEFINE S == {k \in Nat : k <= N => \E f \in [0 .. k -> T] : Good(k, f)}
<1>1. 0 \in S
  <2>1. [n \in 0 .. 0 |-> a] \in [0 .. 0 -> T] /\ Good(0, [n \in 0 .. 0 |-> a])
    OBVIOUS
  <2> QED
    BY <2>1
<1>2. ASSUME NEW k \in Nat, k \in S PROVE k + 1 \in S
  <2> SUFFICES ASSUME k + 1 <= N PROVE \E f \in [0 .. k + 1 -> T] : Good(k + 1, f)
    OBVIOUS
  <2>1. PICK f \in [0 .. k -> T] : Good(k, f)
    BY <1>2
  <2> DEFINE g == [n \in 0 .. k + 1 |-> IF n <= k THEN f[n] ELSE step[k + 1][f[k]]]
  <2>2. step[k + 1][f[k]] \in T
    BY <2>1
  <2>3. g \in [0 .. k + 1 -> T]
    BY <2>1, <2>2
  <2>4. ASSUME NEW n \in 1 .. k + 1 PROVE g[n] = step[n][g[n - 1]]
    <3>1. CASE n \in 1 .. k
      BY <2>1, <3>1
    <3>2. CASE n = k + 1
      BY <3>2
    <3> QED
      BY <3>1, <3>2
  <2>5. g[0] = a
    BY <2>1
  <2> QED
    BY <2>3, <2>4, <2>5
<1>3. N \in S
  <2> HIDE DEF S
  <2> QED
    BY <1>1, <1>2, SetInduction
<1>4. QED
  BY <1>3 DEF Follows

-----------------------------------------------------------------------------
(* What Filter returns                                                      *)

Choose(s, E, f, n) == IF s[n] \in E THEN Append(f[n - 1], s[n]) ELSE f[n - 1]

\* f[n] is what is chosen of the first n.
Chooses(f, s, E) == f[0] = <<>> /\ \A n \in 1 .. Len(s) : f[n] = Choose(s, E, f, n)

\* The function that Filter defines exists, and all that satisfy its equations agree.
LEMMA FilterChooses ==
  ASSUME NEW S, NEW s \in Seq(S), NEW E
  PROVE  \E f : Chooses(f, s, E) /\ Filter(s, E) = f[Len(s)]
<1> DEFINE Chosen(g) == [n \in 0 .. Len(s) |->
             IF n = 0 THEN <<>> ELSE IF s[n] \in E THEN Append(g[n - 1], s[n]) ELSE g[n - 1]]
<1> DEFINE step == [n \in 1 .. Len(s) |-> [r \in Seq(S) |-> IF s[n] \in E THEN Append(r, s[n]) ELSE r]]
<1> DEFINE a == <<>>
<1>1. Len(s) \in Nat /\ a \in Seq(S) /\ step \in [1 .. Len(s) -> [Seq(S) -> Seq(S)]]
  OBVIOUS
<1>2. PICK f : Follows(f, Len(s), Seq(S), a, step)
  <2> HIDE DEF step, a
  <2>1. QED
    BY <1>1, RecursionExists
<1>3. ASSUME NEW n \in 1 .. Len(s) PROVE f[n] = Choose(s, E, f, n)
  <2> HIDE DEF step, a
  <2>1. n - 1 \in 0 .. Len(s)
    BY <1>1
  <2>2. f[n - 1] \in Seq(S) /\ f[n] = step[n][f[n - 1]]
    BY <1>2, <2>1 DEF Follows
  <2>3. QED
    BY <2>2 DEF Choose, step
<1>4. f = Chosen(f)
  <2> HIDE DEF step
  <2>1. f \in [0 .. Len(s) -> Seq(S)] /\ f[0] = <<>>
    BY <1>2 DEF Follows
  <2>2. ASSUME NEW n \in 0 .. Len(s) PROVE f[n] = Chosen(f)[n]
    <3>1. CASE n = 0
      BY <1>1, <2>1, <3>1
    <3>2. CASE n \in 1 .. Len(s)
      BY <1>1, <1>3, <3>2 DEF Choose
    <3>3. QED
      BY <1>1, <3>1, <3>2
  <2>3. QED
    BY <2>1, <2>2
<1> DEFINE g == CHOOSE h : h = Chosen(h)
<1>5. g = Chosen(g)
  BY <1>4
<1>6. Filter(s, E) = g[Len(s)]
  BY DEF Filter
<1>7. Chooses(g, s, E)
  <2> HIDE DEF g, step
  <2>1. g[0] = <<>>
    BY <1>1, <1>5
  <2>2. ASSUME NEW n \in 1 .. Len(s) PROVE g[n] = Choose(s, E, g, n)
    <3>1. n \in 0 .. Len(s) /\ n # 0
      BY <1>1
    <3>2. g[n] = Chosen(g)[n]
      BY <1>5
    <3>3. QED
      BY <3>1, <3>2 DEF Choose
  <2>3. QED
    BY <2>1, <2>2 DEF Chooses
<1>8. QED
  BY <1>6, <1>7

LEMMA FilterTyped ==
  ASSUME NEW S, NEW s \in Seq(S), NEW E
  PROVE  /\ Filter(s, E) \in Seq(S)
         /\ \A k \in 1 .. Len(Filter(s, E)) :
              Filter(s, E)[k] \in E /\ \E i \in 1 .. Len(s) : Filter(s, E)[k] = s[i]
<1>1. PICK f : Chooses(f, s, E) /\ Filter(s, E) = f[Len(s)]
  BY FilterChooses
<1> DEFINE Good(r) == /\ r \in Seq(S)
                      /\ \A k \in 1 .. Len(r) : r[k] \in E /\ \E i \in 1 .. Len(s) : r[k] = s[i]
<1> DEFINE T == {r \in Seq(S) : Good(r)}
<1>2. f[0] \in T
  BY <1>1 DEF Chooses
<1>3. ASSUME NEW n \in 1 .. Len(s), f[n - 1] \in T PROVE f[n] \in T
  <2> DEFINE r == f[n - 1]
  <2>1. Good(r) /\ s[n] \in S
    BY <1>3
  <2>2. f[n] = IF s[n] \in E THEN Append(r, s[n]) ELSE r
    BY <1>1 DEF Chooses, Choose
  <2> HIDE DEF r
  <2>3. ASSUME s[n] \in E PROVE Good(Append(r, s[n]))
    <3> DEFINE q == Append(r, s[n])
    <3>1. q \in Seq(S) /\ Len(q) = Len(r) + 1 /\ q[Len(r) + 1] = s[n] /\ \A k \in 1 .. Len(r) : q[k] = r[k]
      BY <2>1
    <3> HIDE DEF q
    <3>2. ASSUME NEW k \in 1 .. Len(q) PROVE q[k] \in E /\ \E i \in 1 .. Len(s) : q[k] = s[i]
      <4>1. CASE k \in 1 .. Len(r)
        BY <2>1, <3>1, <4>1
      <4>2. CASE k = Len(r) + 1
        BY <2>3, <3>1, <4>2
      <4>3. QED
        BY <2>1, <3>1, <4>1, <4>2
    <3>3. QED
      BY <3>1, <3>2 DEF q
  <2> HIDE DEF Good
  <2>4. Good(f[n])
    BY <2>1, <2>2, <2>3
  <2>5. QED
    BY <2>4 DEF Good
<1>4. f[Len(s)] \in T
  <2> HIDE DEF T
  <2>1. QED
    BY <1>2, <1>3, StaysIn
<1>5. QED
  BY <1>1, <1>4

\* What is chosen of a longer sequence.
LEMMA FilterAppend ==
  ASSUME NEW S, NEW s \in Seq(S), NEW x \in S, NEW E
  PROVE  Filter(Append(s, x), E) = IF x \in E THEN Append(Filter(s, E), x) ELSE Filter(s, E)
<1> DEFINE longer == Append(s, x)
<1>1. longer \in Seq(S) /\ Len(longer) = Len(s) + 1 /\ longer[Len(s) + 1] = x
        /\ \A n \in 1 .. Len(s) : longer[n] = s[n]
  OBVIOUS
<1> HIDE DEF longer
<1>2. PICK f : Chooses(f, s, E) /\ Filter(s, E) = f[Len(s)]
  BY FilterChooses
<1>3. PICK g : Chooses(g, longer, E) /\ Filter(longer, E) = g[Len(longer)]
  BY <1>1, FilterChooses
<1> DEFINE Same == {n \in Nat : n <= Len(s) => g[n] = f[n]}
<1>4. 0 \in Same
  BY <1>2, <1>3 DEF Chooses
<1>5. ASSUME NEW n \in Nat, n \in Same PROVE n + 1 \in Same
  <2> SUFFICES ASSUME n + 1 <= Len(s) PROVE g[n + 1] = f[n + 1]
    OBVIOUS
  <2>1. n + 1 \in 1 .. Len(s) /\ n + 1 \in 1 .. Len(longer) /\ (n + 1) - 1 = n /\ n <= Len(s)
    BY <1>1
  <2>2. g[n] = f[n] /\ longer[n + 1] = s[n + 1]
    BY <1>1, <1>5, <2>1
  <2>3. f[n + 1] = Choose(s, E, f, n + 1) /\ g[n + 1] = Choose(longer, E, g, n + 1)
    BY <1>2, <1>3, <2>1 DEF Chooses
  <2>4. QED
    BY <2>1, <2>2, <2>3 DEF Choose
<1>6. g[Len(s)] = f[Len(s)]
  <2> HIDE DEF Same
  <2>1. Len(s) \in Same
    BY <1>4, <1>5, SetInduction
  <2>2. QED
    BY <2>1 DEF Same
<1>7. g[Len(s) + 1] = Choose(longer, E, g, Len(s) + 1)
  BY <1>1, <1>3 DEF Chooses
<1>8. QED
  BY <1>1, <1>2, <1>3, <1>6, <1>7 DEF Choose, longer

\* Nothing is chosen twice of a sequence without repetition.
LEMMA FilterDistinct ==
  ASSUME NEW S, NEW s \in Seq(S), NEW E, \A i, j \in 1 .. Len(s) : i # j => s[i] # s[j]
  PROVE  LET t == Filter(s, E) IN \A i, j \in 1 .. Len(t) : i # j => t[i] # t[j]
<1>1. PICK f : Chooses(f, s, E) /\ Filter(s, E) = f[Len(s)]
  BY FilterChooses
<1> DEFINE Good(r, n) == /\ r \in Seq(S)
                         /\ \A i, j \in 1 .. Len(r) : i # j => r[i] # r[j]
                         /\ \A k \in 1 .. Len(r) : \E i \in 1 .. n : r[k] = s[i]
<1> DEFINE T == {n \in Nat : n <= Len(s) => Good(f[n], n)}
<1>2. 0 \in T
  <2>1. Good(<<>>, 0)
    OBVIOUS
  <2> HIDE DEF Good
  <2>2. QED
    BY <1>1, <2>1 DEF Chooses
<1>3. ASSUME NEW n \in Nat, n \in T PROVE n + 1 \in T
  <2> SUFFICES ASSUME n + 1 <= Len(s) PROVE Good(f[n + 1], n + 1)
    OBVIOUS
  <2> DEFINE r == f[n]
  <2> DEFINE x == s[n + 1]
  <2>1. Good(r, n) /\ x \in S
    BY <1>3
  <2>2. f[n + 1] = IF x \in E THEN Append(r, x) ELSE r
    <3>1. n + 1 \in 1 .. Len(s) /\ (n + 1) - 1 = n
      OBVIOUS
    <3>2. QED
      BY <1>1, <3>1 DEF Chooses, Choose
  <2> HIDE DEF r
  <2>3. \A k \in 1 .. Len(r) : r[k] # x
    <3>1. ASSUME NEW i \in 1 .. n PROVE s[i] # s[n + 1]
      OBVIOUS
    <3>2. QED
      BY <2>1, <3>1
  <2> HIDE DEF x
  <2>4. Good(r, n + 1)
    <3>1. ASSUME NEW k \in 1 .. Len(r) PROVE \E i \in 1 .. n + 1 : r[k] = s[i]
      <4>1. PICK i \in 1 .. n : r[k] = s[i]
        BY <2>1
      <4>2. QED
        BY <4>1
    <3>2. QED
      BY <2>1, <3>1
  <2>5. Good(Append(r, x), n + 1)
    <3> DEFINE q == Append(r, x)
    <3>1. q \in Seq(S) /\ Len(q) = Len(r) + 1 /\ q[Len(r) + 1] = x /\ \A k \in 1 .. Len(r) : q[k] = r[k]
      BY <2>1
    <3> HIDE DEF q
    <3>2. ASSUME NEW k \in 1 .. Len(q) PROVE \E i \in 1 .. n + 1 : q[k] = s[i]
      <4>1. CASE k \in 1 .. Len(r)
        BY <2>4, <3>1, <4>1
      <4>2. CASE k = Len(r) + 1
        BY <3>1, <4>2 DEF x
      <4>3. QED
        BY <3>1, <4>1, <4>2
    <3>3. ASSUME NEW i \in 1 .. Len(q), NEW j \in 1 .. Len(q), i # j PROVE q[i] # q[j]
      <4>1. Len(r) \in Nat /\ \A k \in 1 .. Len(q) : k \in 1 .. Len(r) \/ k = Len(r) + 1
        BY <2>1, <3>1
      <4>2. CASE i \in 1 .. Len(r) /\ j \in 1 .. Len(r)
        BY <2>1, <3>1, <3>3, <4>2
      <4>3. CASE i \in 1 .. Len(r) /\ j = Len(r) + 1
        BY <2>3, <3>1, <4>3
      <4>4. CASE i = Len(r) + 1 /\ j \in 1 .. Len(r)
        BY <2>3, <3>1, <4>4
      <4>5. QED
        BY <3>3, <4>1, <4>2, <4>3, <4>4
    <3>4. QED
      BY <3>1, <3>2, <3>3 DEF q
  <2> HIDE DEF Good
  <2>6. QED
    BY <2>2, <2>4, <2>5
<1>4. Len(s) \in T
  <2> HIDE DEF T
  <2>1. QED
    BY <1>2, <1>3, SetInduction
<1>5. QED
  BY <1>1, <1>4

\* Everything that is in the set is chosen.
LEMMA FilterComplete ==
  ASSUME NEW S, NEW s \in Seq(S), NEW E, NEW i \in 1 .. Len(s), s[i] \in E
  PROVE  \E k \in 1 .. Len(Filter(s, E)) : Filter(s, E)[k] = s[i]
<1>1. PICK f : Chooses(f, s, E) /\ Filter(s, E) = f[Len(s)]
  BY FilterChooses
<1> DEFINE Good(r, n) == r \in Seq(S) /\ (i <= n => \E k \in 1 .. Len(r) : r[k] = s[i])
<1> DEFINE T == {n \in Nat : n <= Len(s) => Good(f[n], n)}
<1>2. 0 \in T
  <2>1. Good(<<>>, 0)
    OBVIOUS
  <2> HIDE DEF Good
  <2>2. QED
    BY <1>1, <2>1 DEF Chooses
<1>3. ASSUME NEW n \in Nat, n \in T PROVE n + 1 \in T
  <2> SUFFICES ASSUME n + 1 <= Len(s) PROVE Good(f[n + 1], n + 1)
    OBVIOUS
  <2> DEFINE r == f[n]
  <2> DEFINE x == s[n + 1]
  <2>1. Good(r, n) /\ x \in S /\ (i = n + 1 => x = s[i] /\ x \in E)
    BY <1>3
  <2>2. f[n + 1] = IF x \in E THEN Append(r, x) ELSE r
    <3>1. n + 1 \in 1 .. Len(s) /\ (n + 1) - 1 = n
      OBVIOUS
    <3>2. QED
      BY <1>1, <3>1 DEF Chooses, Choose
  <2> HIDE DEF r, x
  <2>3. x \notin E => Good(r, n + 1)
    BY <2>1
  <2>4. Good(Append(r, x), n + 1)
    <3> DEFINE q == Append(r, x)
    <3>1. q \in Seq(S) /\ Len(q) = Len(r) + 1 /\ q[Len(r) + 1] = x /\ \A k \in 1 .. Len(r) : q[k] = r[k]
      BY <2>1
    <3>2. Len(r) \in Nat
      BY <2>1
    <3> HIDE DEF q
    <3>3. CASE i = n + 1
      BY <2>1, <3>1, <3>2, <3>3 DEF q
    <3>4. CASE i <= n
      <4>1. PICK k \in 1 .. Len(r) : r[k] = s[i]
        BY <2>1, <3>4
      <4>2. k \in 1 .. Len(q) /\ q[k] = s[i]
        BY <3>1, <3>2, <4>1
      <4>3. QED
        BY <3>1, <4>2 DEF q
    <3>5. QED
      BY <3>1, <3>3, <3>4 DEF q
  <2> HIDE DEF Good
  <2>5. QED
    BY <2>2, <2>3, <2>4
<1>4. Len(s) \in T
  <2> HIDE DEF T
  <2>1. QED
    BY <1>2, <1>3, SetInduction
<1>5. QED
  BY <1>1, <1>4

LEMMA FilterEmpty ==
  ASSUME NEW E
  PROVE  Filter(<<>>, E) = <<>>
<1>1. <<>> \in Seq({})
  OBVIOUS
<1>2. PICK f : Chooses(f, <<>>, E) /\ Filter(<<>>, E) = f[Len(<<>>)]
  BY <1>1, FilterChooses
<1>3. QED
  BY <1>2 DEF Chooses
=============================================================================
