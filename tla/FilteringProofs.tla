---- MODULE FilteringProofs ----
(***************************************************************************)
(* What a filter keeps: members of the list that pass, each from a place   *)
(* of its own, in the order they had.  The recursion is over the length of *)
(* the list, so each fact is proved of a smallest length it would fail at. *)
(***************************************************************************)
EXTENDS Filtering, Integers, SequenceTheorems, WellFoundedInduction, TLAPS

Below == {pair \in Nat \X Nat : pair[1] < pair[2]}

LEMMA LeastIs ==
    ASSUME NEW S \in SUBSET Int, S # {}, NEW low \in Int, \A x \in S : low <= x
    PROVE  \E x \in S : \A y \in S : x <= y
<1> DEFINE T == {n \in Nat : n + low \in S}
<1>1. T \subseteq Nat
  OBVIOUS
<1>2. \A x \in S : x \in Int /\ x - low \in Nat /\ (x - low) + low = x
  OBVIOUS
<1>3. \A x \in S : x - low \in T
  BY <1>2
<1>4. T # {}
  BY <1>3
<1>5. OpToRel(<, Nat) = Below
  BY Zenon DEF OpToRel, Below
<1>6. IsWellFoundedOn(Below, Nat)
  BY <1>5, NatLessThanWellFounded, Zenon
<1>7. PICK m \in T : \A y \in T : ~(<<y, m>> \in Below)
  BY <1>1, <1>4, <1>6, WFMin, Zenon
<1>8. m \in Nat /\ m + low \in S
  OBVIOUS
<1>9. ASSUME NEW x \in S PROVE m + low <= x
  <2>1. x - low \in T /\ x - low \in Nat /\ x \in Int
    BY <1>2, <1>3
  <2>2. ~(<<x - low, m>> \in Below)
    BY <2>1, <1>7
  <2>3. ~(x - low < m)
    BY <2>1, <2>2, <1>8 DEF Below
  <2> QED
    BY <2>1, <2>3, <1>8
<1> QED
  BY <1>8, <1>9

\* The members of q stand in s, within its first n, each at a place of its own.
DrawnFrom(q, s, n) ==
    \E p \in [1..Len(q) -> 1..n] :
        /\ \A i, j \in 1..Len(q) : p[i] = p[j] => i = j
        /\ \A j \in 1..Len(q) : q[j] = s[p[j]]

KeptAt(s, T, f, n) ==
    IF n = 0 THEN <<>>
    ELSE IF s[n] \in T THEN Append(f[n - 1], s[n]) ELSE f[n - 1]

LEMMA KeptExists ==
    ASSUME NEW s, NEW T, NEW k \in Nat
    PROVE  \E f : f = [n \in 0..k |-> KeptAt(s, T, f, n)]
<1> DEFINE Missing == {m \in Nat : ~\E f : f = [n \in 0..m |-> KeptAt(s, T, f, n)]}
<1> SUFFICES ASSUME Missing # {} PROVE FALSE
  OBVIOUS
<1>1. PICK m \in Missing : \A y \in Missing : m <= y
  <2>1. Missing \in SUBSET Int /\ 0 \in Int /\ \A x \in Missing : 0 <= x
    OBVIOUS
  <2> HIDE DEF Missing
  <2> QED
    BY <2>1, LeastIs, Zenon
<1>2. m \in Nat
  OBVIOUS
<1>3. CASE m = 0
  <2> DEFINE f == [n \in 0..0 |-> <<>>]
  <2>1. f = [n \in 0..0 |-> KeptAt(s, T, f, n)]
    BY DEF KeptAt
  <2> QED
    BY <1>3, <2>1
<1>4. CASE m # 0
  <2>1. m - 1 \in Nat /\ m - 1 \notin Missing
    BY <1>1, <1>2, <1>4
  <2>2. PICK g : g = [n \in 0..(m - 1) |-> KeptAt(s, T, g, n)]
    BY <2>1
  <2> DEFINE f == [n \in 0..m |-> IF n = m THEN KeptAt(s, T, g, m) ELSE g[n]]
  <2>3. \A n \in 0..(m - 1) : f[n] = g[n] /\ g[n] = KeptAt(s, T, g, n)
    BY <1>2, <2>2
  <2>4. f[m] = KeptAt(s, T, g, m) /\ f = [n \in 0..m |-> f[n]]
    BY <1>2
  <2> HIDE DEF f
  <2>5. ASSUME NEW n \in 0..m PROVE f[n] = KeptAt(s, T, f, n)
    <3>1. KeptAt(s, T, f, n) = KeptAt(s, T, g, n)
      <4>1. CASE n = 0
        BY <4>1 DEF KeptAt
      <4>2. CASE n # 0
        <5>1. n - 1 \in 0..(m - 1)
          BY <1>2, <4>2
        <5>2. f[n - 1] = g[n - 1]
          BY <5>1, <2>3
        <5> QED
          BY <5>2, Zenon DEF KeptAt
      <4> QED
        BY <4>1, <4>2
    <3>2. n = m \/ n \in 0..(m - 1)
      BY <1>2
    <3> QED
      BY <3>1, <3>2, <2>3, <2>4
  <2>6. f = [n \in 0..m |-> KeptAt(s, T, f, n)]
    BY <2>4, <2>5, Zenon
  <2> QED
    BY <2>6, <1>1
<1> QED
  BY <1>3, <1>4

LEMMA KeptValue ==
    ASSUME NEW s, NEW T, Len(s) \in Nat
    PROVE  \E f : /\ \A n \in 0..Len(s) : f[n] = KeptAt(s, T, f, n)
                  /\ Filtered(s, T) = f[Len(s)]
<1> DEFINE upto == CHOOSE f : f = [n \in 0..Len(s) |-> KeptAt(s, T, f, n)]
<1>1. upto = [n \in 0..Len(s) |-> KeptAt(s, T, upto, n)]
  BY KeptExists
<1>2. Filtered(s, T) = upto[Len(s)]
  BY DEF Filtered, KeptAt
<1> HIDE DEF upto
<1>3. \A n \in 0..Len(s) : upto[n] = KeptAt(s, T, upto, n)
  BY <1>1
<1> QED
  BY <1>2, <1>3

LEMMA KeptDrawn ==
    ASSUME NEW E, NEW s \in Seq(E), NEW T
    PROVE  /\ Filtered(s, T) \in Seq(E) /\ Len(Filtered(s, T)) <= Len(s)
           /\ DrawnFrom(Filtered(s, T), s, Len(s))
           /\ \A i \in 1..Len(Filtered(s, T)) : Filtered(s, T)[i] \in T
<1>1. Len(s) \in Nat /\ \A i \in 1..Len(s) : s[i] \in E
  OBVIOUS
<1>2. PICK f : (\A n \in 0..Len(s) : f[n] = KeptAt(s, T, f, n)) /\ Filtered(s, T) = f[Len(s)]
  BY <1>1, KeptValue
<1> DEFINE Good(n) == /\ f[n] \in Seq(E) /\ Len(f[n]) <= n /\ DrawnFrom(f[n], s, n)
                      /\ \A i \in 1..Len(f[n]) : f[n][i] \in T
           Bad == {n \in 0..Len(s) : ~Good(n)}
<1>3. ASSUME NEW n \in 0..Len(s), n = 0 PROVE Good(n)
  <2>1. f[n] = <<>>
    BY <1>2, <1>3 DEF KeptAt
  <2>2. DrawnFrom(<<>>, s, n)
    <3> DEFINE p == [i \in 1..Len(<<>>) |-> 1]
    <3>1. ~\E i \in 1..Len(<<>>) : TRUE
      OBVIOUS
    <3>2. p \in [1..Len(<<>>) -> 1..n]
      BY <3>1
    <3> HIDE DEF p
    <3> QED
      BY <3>1, <3>2, Zenon DEF DrawnFrom
  <2> QED
    BY <2>1, <2>2, <1>3
<1>4. ASSUME NEW n \in 0..Len(s), n # 0, Good(n - 1) PROVE Good(n)
  <2> DEFINE q == f[n - 1]
  <2>1. /\ q \in Seq(E) /\ Len(q) <= n - 1 /\ DrawnFrom(q, s, n - 1) /\ \A i \in 1..Len(q) : q[i] \in T
        /\ n \in Nat \ {0} /\ Len(q) \in Nat
    BY <1>1, <1>4
  <2>2. f[n] = IF s[n] \in T THEN Append(q, s[n]) ELSE q
    BY <1>2, <1>4, <2>1 DEF KeptAt
  <2> HIDE DEF q
  <2>3. PICK p \in [1..Len(q) -> 1..(n - 1)] : /\ \A i, j \in 1..Len(q) : p[i] = p[j] => i = j
                                               /\ \A j \in 1..Len(q) : q[j] = s[p[j]]
    BY <2>1 DEF DrawnFrom
  <2>4. CASE s[n] \notin T
    <3>1. p \in [1..Len(q) -> 1..n]
      BY <2>1
    <3> QED
      BY <2>1, <2>2, <2>3, <2>4, <3>1 DEF DrawnFrom
  <2>5. CASE s[n] \in T
    <3> DEFINE z == Append(q, s[n])
               r == [i \in 1..Len(q) + 1 |-> IF i = Len(q) + 1 THEN n ELSE p[i]]
    <3>1. s[n] \in E
      BY <1>1, <2>1
    <3>2. /\ z \in Seq(E) /\ Len(z) = Len(q) + 1 /\ z[Len(q) + 1] = s[n]
          /\ \A i \in 1..Len(q) : z[i] = q[i]
      BY <2>1, <3>1, AppendProperties
    <3> HIDE DEF z
    <3>3. r \in [1..Len(z) -> 1..n]
      BY <2>1, <3>2
    <3>4. /\ r[Len(q) + 1] = n
          /\ \A i \in 1..Len(q) : r[i] = p[i] /\ p[i] \in 1..(n - 1)
      BY <2>1
    <3> HIDE DEF r
    <3>5. ASSUME NEW i \in 1..Len(z), NEW j \in 1..Len(z), r[i] = r[j] PROVE i = j
      BY <2>1, <2>3, <3>2, <3>4, <3>5
    <3>6. ASSUME NEW j \in 1..Len(z) PROVE z[j] = s[r[j]] /\ z[j] \in T
      <4>1. CASE j = Len(q) + 1
        BY <2>5, <3>2, <3>4, <4>1
      <4>2. CASE j \in 1..Len(q)
        BY <2>1, <2>3, <3>2, <3>4, <4>2
      <4> QED
        BY <2>1, <3>2, <4>1, <4>2
    <3>7. DrawnFrom(z, s, n)
      BY <3>3, <3>5, <3>6 DEF DrawnFrom
    <3>8. f[n] = z /\ Len(z) <= n
      BY <2>1, <2>2, <2>5, <3>2 DEF z
    <3> QED
      BY <3>2, <3>6, <3>7, <3>8
  <2> QED
    BY <2>4, <2>5
<1> HIDE DEF Good
<1>5. Bad = {}
  <2> SUFFICES ASSUME Bad # {} PROVE FALSE
    OBVIOUS
  <2>1. Bad \in SUBSET Int /\ 0 \in Int /\ \A x \in Bad : 0 <= x
    BY <1>1
  <2>2. PICK m \in Bad : \A y \in Bad : m <= y
    <3> HIDE DEF Bad
    <3> QED
      BY <2>1, LeastIs, Zenon
  <2>3. m \in 0..Len(s) /\ ~Good(m)
    OBVIOUS
  <2>4. m # 0
    BY <2>3, <1>3
  <2>5. m - 1 \in 0..Len(s) /\ m - 1 \notin Bad
    BY <1>1, <2>2, <2>3, <2>4
  <2> QED
    BY <2>3, <2>4, <2>5, <1>4
<1>6. Good(Len(s))
  BY <1>1, <1>5
<1> QED
  BY <1>2, <1>6 DEF Good
====
