-------------------------- MODULE SequenceLemmas --------------------------
(***************************************************************************)
(* What the proofs of this project keep needing about natural numbers and  *)
(* sequences: induction over a set of numbers, and how many items of a     *)
(* sequence are in a set when an item is appended, the head is taken, or   *)
(* two sequences are put together; running totals; recursive functions;    *)
(* which item of a sequence comes before which; and its first items.       *)
(***************************************************************************)
EXTENDS Integers, Sequences, FiniteSets, FiniteSetTheorems, TLAPS

\* A nonempty set of natural numbers has a least element.
LEMMA LeastNatural ==
  ASSUME NEW T, T \subseteq Nat, T # {}
  PROVE  \E x \in T : \A y \in T : x <= y
<1>1. PICK x \in T : \A y \in T : ~(<< y, x >> \in OpToRel(<, Nat))
  BY WFMin, NatLessThanWellFounded, Zenon
<1>2. ASSUME NEW y \in T, y < x
      PROVE  FALSE
  <2>1. << y, x >> \in OpToRel(<, Nat)
    BY <1>2, SMT DEF OpToRel
  <2> QED BY <2>1, <1>1
<1> QED BY <1>2

\* Induction, for a property given as the set of numbers that have it.
LEMMA SetInduction ==
  ASSUME NEW S, 0 \in S, \A n \in Nat : n \in S => n + 1 \in S
  PROVE  \A n \in Nat : n \in S
<1>1. SUFFICES ASSUME Nat \ S # {} PROVE FALSE
  OBVIOUS
<1>2. PICK x \in Nat \ S : \A y \in Nat \ S : x <= y
  BY <1>1, LeastNatural
<1>3. x - 1 \in Nat /\ x - 1 \in S
  BY <1>2
<1> QED BY <1>2, <1>3

-----------------------------------------------------------------------------

\* The places of a sequence that hold an item of S, and their number.
Places(seq, S) == {i \in DOMAIN seq : seq[i] \in S}
CountIn(seq, S) == Cardinality(Places(seq, S))

LEMMA PlacesFinite ==
  ASSUME NEW T, NEW seq \in Seq(T), NEW S
  PROVE  /\ IsFiniteSet(Places(seq, S))
         /\ CountIn(seq, S) \in Nat
<1>1. IsFiniteSet(1..Len(seq))
  BY FS_Interval
<1>2. Places(seq, S) \in SUBSET (1..Len(seq))
  BY DEF Places
<1>3. IsFiniteSet(Places(seq, S))
  BY <1>1, <1>2, FS_Subset
<1> QED BY <1>3, FS_CardinalityType DEF CountIn

LEMMA CountEmpty ==
  ASSUME NEW S
  PROVE  CountIn(<<>>, S) = 0
<1>1. Places(<<>>, S) = {}
  BY DEF Places
<1> QED BY <1>1, FS_EmptySet DEF CountIn

LEMMA CountAppend ==
  ASSUME NEW T, NEW seq \in Seq(T), NEW e \in T, NEW S
  PROVE  CountIn(Append(seq, e), S) = CountIn(seq, S) + IF e \in S THEN 1 ELSE 0
<1> DEFINE n == Len(seq) + 1
<1>1. IsFiniteSet(Places(seq, S)) /\ CountIn(seq, S) \in Nat
  BY PlacesFinite
<1>2. n \notin Places(seq, S)
  BY DEF Places
<1>3. Places(Append(seq, e), S) = IF e \in S THEN Places(seq, S) \cup {n}
                                  ELSE Places(seq, S)
  BY DEF Places
<1>4. Cardinality(Places(seq, S) \cup {n}) = Cardinality(Places(seq, S)) + 1
  BY <1>1, <1>2, FS_AddElement
<1> QED BY <1>1, <1>3, <1>4 DEF CountIn

\* An order isomorphism between two sets of numbers keeps the cardinality.
LEMMA ShiftedCardinality ==
  ASSUME NEW A \in SUBSET Int, NEW k \in Int, IsFiniteSet(A)
  PROVE  /\ IsFiniteSet({i + k : i \in A})
         /\ Cardinality({i + k : i \in A}) = Cardinality(A)
<1> DEFINE B == {i + k : i \in A}
           f == [i \in A |-> i + k]
<1>1. f \in Bijection(A, B)
  <2>1. f \in [A -> B]
    OBVIOUS
  <2>2. \A i, j \in A : f[i] = f[j] => i = j
    OBVIOUS
  <2>3. \A b \in B : \E i \in A : f[i] = b
    OBVIOUS
  <2>4. DOMAIN f = A
    OBVIOUS
  <2> HIDE DEF f, B
  <2> QED BY <2>1, <2>2, <2>3, <2>4 DEF Bijection, Injection, Surjection, IsInjective
<1>2. ExistsBijection(A, B)
  BY <1>1 DEF ExistsBijection
<1> QED BY <1>2, FS_Bijection

LEMMA CountConcat ==
  ASSUME NEW T, NEW a \in Seq(T), NEW b \in Seq(T), NEW S
  PROVE  CountIn(a \o b, S) = CountIn(a, S) + CountIn(b, S)
<1> DEFINE A == Places(a, S)
           B == Places(b, S)
           C == {i + Len(a) : i \in B}
<1>1. /\ IsFiniteSet(A) /\ IsFiniteSet(B)
      /\ Cardinality(A) \in Nat /\ Cardinality(B) \in Nat
  BY PlacesFinite DEF CountIn
<1>2. IsFiniteSet(C) /\ Cardinality(C) = Cardinality(B)
  <2>1. B \in SUBSET Int /\ Len(a) \in Int
    BY DEF Places
  <2> HIDE DEF B
  <2> QED BY <1>1, <2>1, ShiftedCardinality
<1>3. Places(a \o b, S) = A \cup C
  <2>1. ASSUME NEW i \in Places(a \o b, S), i \notin A
        PROVE  i \in C
    <3>1. i \in 1 .. Len(a) + Len(b) /\ (a \o b)[i] \in S
      BY <2>1 DEF Places
    <3>2. i > Len(a) /\ i - Len(a) \in 1..Len(b) /\ b[i - Len(a)] \in S
      BY <2>1, <3>1 DEF Places
    <3>3. i - Len(a) \in B /\ i = (i - Len(a)) + Len(a)
      BY <3>1, <3>2 DEF Places
    <3> QED BY <3>3
  <2>2. A \subseteq Places(a \o b, S)
    BY DEF Places
  <2>3. ASSUME NEW j \in B
        PROVE  j + Len(a) \in Places(a \o b, S)
    BY DEF Places
  <2> QED BY <2>1, <2>2, <2>3
<1>4. A \cap C = {}
  BY DEF Places
<1>5. Cardinality(A \cup C) = Cardinality(A) + Cardinality(C) - Cardinality({})
  <2> HIDE DEF A, C
  <2> QED BY <1>1, <1>2, <1>4, FS_Union
<1> QED BY <1>1, <1>2, <1>3, <1>5, FS_EmptySet DEF CountIn

LEMMA CountTail ==
  ASSUME NEW T, NEW seq \in Seq(T), seq # <<>>, NEW S
  PROVE  CountIn(seq, S) = CountIn(Tail(seq), S) + IF Head(seq) \in S THEN 1 ELSE 0
<1>0. Head(seq) \in T /\ Tail(seq) \in Seq(T)
  OBVIOUS
<1>1. PICK h \in T, t \in Seq(T) : h = Head(seq) /\ t = Tail(seq)
  BY <1>0, Zenon
<1>2. << h >> \in Seq(T) /\ seq = << h >> \o t
  BY <1>1
<1>3. CountIn(seq, S) = CountIn(<< h >>, S) + CountIn(t, S)
  BY <1>2, CountConcat
<1>4. CountIn(<< h >>, S) = IF h \in S THEN 1 ELSE 0
  <2>1. << h >> = Append(<<>>, h) /\ <<>> \in Seq(T)
    OBVIOUS
  <2>2. CountIn(Append(<<>>, h), S) = CountIn(<<>>, S) + IF h \in S THEN 1 ELSE 0
    BY <2>1, CountAppend
  <2> QED BY <2>1, <2>2, CountEmpty
<1>5. CountIn(t, S) \in Nat
  BY PlacesFinite
<1> QED BY <1>1, <1>3, <1>4, <1>5

\* A set has an item in the sequence exactly when it counts some.
LEMMA CountPositive ==
  ASSUME NEW T, NEW seq \in Seq(T), NEW S
  PROVE  CountIn(seq, S) > 0 <=> \E i \in 1..Len(seq) : seq[i] \in S
<1>1. IsFiniteSet(Places(seq, S)) /\ CountIn(seq, S) \in Nat
  BY PlacesFinite
<1>2. CountIn(seq, S) = 0 <=> Places(seq, S) = {}
  BY <1>1, FS_EmptySet DEF CountIn
<1> QED BY <1>1, <1>2 DEF Places

-----------------------------------------------------------------------------

\* g is the running total of f on 1..N.
IsRunningTotal(g, f, N) ==
  g[0] = 0 /\ \A n \in 1..N : g[n] = g[n - 1] + f[n]

\* Every sequence of numbers has a running total.
LEMMA RunningTotalExists ==
  ASSUME NEW N \in Nat, NEW f \in [1..N -> Nat]
  PROVE  \E g \in [0..N -> Nat] : IsRunningTotal(g, f, N)
<1> DEFINE T == {n \in Nat : n <= N =>
                   \E g \in [0..n -> Nat] : IsRunningTotal(g, f, n)}
<1>1. 0 \in T
  <2>1. [n \in 0..0 |-> 0] \in [0..0 -> Nat]
    OBVIOUS
  <2>2. IsRunningTotal([n \in 0..0 |-> 0], f, 0)
    BY DEF IsRunningTotal
  <2> QED BY <2>1, <2>2
<1>2. ASSUME NEW n \in Nat, n \in T
      PROVE  n + 1 \in T
  <2>1. SUFFICES ASSUME n + 1 <= N
                 PROVE  \E h \in [0..n + 1 -> Nat] : IsRunningTotal(h, f, n + 1)
    OBVIOUS
  <2>2. PICK g \in [0..n -> Nat] : IsRunningTotal(g, f, n)
    BY <1>2, <2>1
  <2> DEFINE h == [m \in 0..n + 1 |-> IF m = n + 1 THEN g[n] + f[n + 1] ELSE g[m]]
  <2>3. h \in [0..n + 1 -> Nat]
    BY <2>1
  <2>4. IsRunningTotal(h, f, n + 1)
    <3>1. h[0] = 0
      BY <2>2 DEF IsRunningTotal
    <3>2. ASSUME NEW m \in 1..n + 1
          PROVE  h[m] = h[m - 1] + f[m]
      <4>1. m - 1 \in 0..n /\ m \in 0..n + 1
        OBVIOUS
      <4>2. h[m - 1] = g[m - 1]
        BY <4>1
      <4>3. CASE m = n + 1
        BY <4>1, <4>2, <4>3
      <4>4. CASE m \in 1..n
        <5>1. g[m] = g[m - 1] + f[m]
          BY <2>2, <4>4 DEF IsRunningTotal
        <5> QED BY <4>1, <4>2, <4>4, <5>1
      <4> QED BY <4>3, <4>4
    <3> HIDE DEF h
    <3> QED BY <3>1, <3>2 DEF IsRunningTotal
  <2> QED BY <2>3, <2>4
<1>3. \A n \in Nat : n \in T
  <2> HIDE DEF T
  <2> QED BY <1>1, <1>2, SetInduction
<1> QED BY <1>3

\* Two functions that grow by the same amounts from the same start agree.
LEMMA RunningTotalUnique ==
  ASSUME NEW N \in Nat, NEW f, NEW g, NEW h,
         IsRunningTotal(g, f, N), IsRunningTotal(h, f, N)
  PROVE  \A n \in 0..N : g[n] = h[n]
<1> DEFINE T == {n \in Nat : n <= N => g[n] = h[n]}
<1>1. 0 \in T
  BY DEF IsRunningTotal
<1>2. ASSUME NEW n \in Nat, n \in T
      PROVE  n + 1 \in T
  <2>1. SUFFICES ASSUME n + 1 <= N PROVE g[n + 1] = h[n + 1]
    OBVIOUS
  <2>2. n + 1 \in 1..N /\ g[n] = h[n] /\ (n + 1) - 1 = n
    BY <1>2, <2>1
  <2> QED BY <2>2 DEF IsRunningTotal
<1>3. \A n \in Nat : n \in T
  <2> HIDE DEF T
  <2> QED BY <1>1, <1>2, SetInduction
<1> QED BY <1>3

-----------------------------------------------------------------------------

\* g is a at 0, and step gives its value at n from the one at n - 1.
IsIteration(g, a, step, N) ==
  g[0] = a /\ \A n \in 1..N : g[n] = step[n][g[n - 1]]

\* A function defined by what it is at 0 and how n follows from n - 1 exists.
LEMMA RecursionExists ==
  ASSUME NEW N \in Nat, NEW V, NEW a \in V, NEW step \in [1..N -> [V -> V]]
  PROVE  \E g \in [0..N -> V] : IsIteration(g, a, step, N)
<1> USE DEF IsIteration
<1> DEFINE Rec(g, k) == IsIteration(g, a, step, k)
           T == {k \in Nat : k <= N => \E g \in [0..k -> V] : Rec(g, k)}
<1>1. 0 \in T
  <2>1. [n \in 0..0 |-> a] \in [0..0 -> V] /\ Rec([n \in 0..0 |-> a], 0)
    OBVIOUS
  <2> QED BY <2>1
<1>2. ASSUME NEW k \in Nat, k \in T
      PROVE  k + 1 \in T
  <2>1. SUFFICES ASSUME k + 1 <= N
                 PROVE  \E h \in [0..k + 1 -> V] : Rec(h, k + 1)
    OBVIOUS
  <2>2. PICK g \in [0..k -> V] : Rec(g, k)
    BY <1>2, <2>1
  <2> DEFINE h == [m \in 0..k + 1 |-> IF m = k + 1 THEN step[k + 1][g[k]] ELSE g[m]]
  <2>3. step[k + 1] \in [V -> V] /\ g[k] \in V
    BY <2>1
  <2>4. h \in [0..k + 1 -> V]
    BY <2>3
  <2>5. Rec(h, k + 1)
    <3>1. h[0] = a
      BY <2>2
    <3>2. ASSUME NEW m \in 1..k + 1
          PROVE  h[m] = step[m][h[m - 1]]
      <4>1. m - 1 \in 0..k /\ m \in 0..k + 1
        OBVIOUS
      <4>2. h[m - 1] = g[m - 1]
        BY <4>1
      <4>3. CASE m = k + 1
        BY <4>1, <4>2, <4>3
      <4>4. CASE m \in 1..k
        <5>1. g[m] = step[m][g[m - 1]]
          BY <2>2, <4>4
        <5> QED BY <4>1, <4>2, <4>4, <5>1
      <4> QED BY <4>3, <4>4
    <3> HIDE DEF h
    <3> QED BY <3>1, <3>2
  <2> QED BY <2>4, <2>5
<1>3. \A k \in Nat : k \in T
  <2> HIDE DEF T
  <2> QED BY <1>1, <1>2, SetInduction
<1> QED BY <1>3

-----------------------------------------------------------------------------
(* The range of a sequence, its injectivity, and which item comes first.   *)

Before(a, b, seq) == \E i, j \in DOMAIN seq : i < j /\ seq[i] = a /\ seq[j] = b

LEMMA AppendOrder ==
  ASSUME NEW T, NEW seq \in Seq(T), NEW e \in T
  PROVE  LET w == Append(seq, e)
         IN  /\ Range(w) = Range(seq) \cup {e}
             /\ IsInjective(seq) /\ e \notin Range(seq) => IsInjective(w)
             /\ \A a, b : Before(a, b, w)
                          <=> Before(a, b, seq) \/ (b = e /\ a \in Range(seq))
<1> DEFINE w == Append(seq, e)
           n == Len(seq)
<1>1. /\ n \in Nat /\ DOMAIN seq = 1..n /\ DOMAIN w = 1..n + 1 /\ w[n + 1] = e
      /\ \A i \in 1..n : w[i] = seq[i]
  OBVIOUS
<1> HIDE DEF w, n
<1>2. Range(w) = Range(seq) \cup {e}
  <2>1. ASSUME NEW i \in 1..n + 1 PROVE w[i] \in Range(seq) \cup {e}
    <3>1. CASE i \in 1..n
      BY <1>1, <3>1 DEF Range
    <3>2. CASE i = n + 1
      BY <1>1, <3>2
    <3> QED BY <1>1, <3>1, <3>2
  <2>2. ASSUME NEW i \in 1..n PROVE seq[i] \in Range(w)
    <3>1. i \in DOMAIN w /\ w[i] = seq[i]
      BY <1>1
    <3> QED BY <3>1 DEF Range
  <2>3. e \in Range(w)
    <3>1. n + 1 \in DOMAIN w
      BY <1>1
    <3> QED BY <1>1, <3>1 DEF Range
  <2> QED BY <1>1, <2>1, <2>2, <2>3 DEF Range
<1>3. ASSUME IsInjective(seq), e \notin Range(seq) PROVE IsInjective(w)
  <2>1. \A i \in 1..n : seq[i] # e
    BY <1>1, <1>3 DEF Range
  <2>2. \A i, j \in 1..n : seq[i] = seq[j] => i = j
    BY <1>1, <1>3 DEF IsInjective
  <2>3. ASSUME NEW i \in 1..n + 1, NEW j \in 1..n + 1, w[i] = w[j] PROVE i = j
    <3>1. i \in 1..n \/ i = n + 1
      BY <1>1
    <3>2. j \in 1..n \/ j = n + 1
      BY <1>1
    <3> QED BY <1>1, <2>1, <2>2, <2>3, <3>1, <3>2
  <2> QED BY <1>1, <2>3 DEF IsInjective
<1>4. ASSUME NEW a, NEW b
      PROVE  Before(a, b, w) <=> Before(a, b, seq) \/ (b = e /\ a \in Range(seq))
  <2>1. ASSUME NEW i \in 1..n + 1, NEW j \in 1..n + 1, i < j, w[i] = a, w[j] = b
        PROVE  Before(a, b, seq) \/ (b = e /\ a \in Range(seq))
    <3>1. i \in 1..n /\ seq[i] = a
      BY <1>1, <2>1
    <3>2. CASE j \in 1..n
      BY <1>1, <2>1, <3>1, <3>2 DEF Before
    <3>3. CASE j = n + 1
      BY <1>1, <2>1, <3>1, <3>3 DEF Range
    <3> QED BY <1>1, <3>2, <3>3
  <2>2. ASSUME NEW i \in 1..n, NEW j \in 1..n, i < j, seq[i] = a, seq[j] = b
        PROVE  Before(a, b, w)
    <3>1. i \in DOMAIN w /\ j \in DOMAIN w /\ w[i] = a /\ w[j] = b
      BY <1>1, <2>2
    <3> QED BY <2>2, <3>1 DEF Before
  <2>3. ASSUME b = e, NEW i \in 1..n, seq[i] = a
        PROVE  Before(a, b, w)
    <3>1. i \in DOMAIN w /\ n + 1 \in DOMAIN w /\ i < n + 1 /\ w[i] = a /\ w[n + 1] = b
      BY <1>1, <2>3
    <3> QED BY <3>1 DEF Before
  <2> QED BY <1>1, <2>1, <2>2, <2>3 DEF Before, Range
<1> QED BY <1>2, <1>3, <1>4 DEF w

LEMMA ConcatOrder ==
  ASSUME NEW T, NEW u \in Seq(T), NEW v \in Seq(T)
  PROVE  LET w == u \o v
         IN  /\ Range(w) = Range(u) \cup Range(v)
             /\ IsInjective(u) /\ IsInjective(v) /\ Range(u) \cap Range(v) = {}
                  => IsInjective(w)
             /\ \A a, b : Before(a, b, w)
                          <=> \/ Before(a, b, u) \/ Before(a, b, v)
                              \/ a \in Range(u) /\ b \in Range(v)
<1> DEFINE w == u \o v
           m == Len(u)
           n == Len(v)
<1>1. /\ m \in Nat /\ n \in Nat /\ DOMAIN u = 1..m /\ DOMAIN v = 1..n
      /\ DOMAIN w = 1..m + n
      /\ \A i \in 1..m : w[i] = u[i]
      /\ \A i \in 1..n : w[i + m] = v[i]
  OBVIOUS
<1> HIDE DEF w, m, n
<1>2. \A i \in 1..m + n : i \in 1..m \/ \E k \in 1..n : i = k + m
  <2>1. ASSUME NEW i \in 1..m + n, ~(i \in 1..m) PROVE \E k \in 1..n : i = k + m
    <3>1. i - m \in 1..n /\ i = (i - m) + m
      BY <1>1, <2>1
    <3> QED BY <3>1
  <2> QED BY <2>1
<1>3. \A i \in 1..m, k \in 1..n : i \in 1..m + n /\ k + m \in 1..m + n /\ i < k + m
  BY <1>1
<1>4. Range(w) = Range(u) \cup Range(v)
  <2>1. ASSUME NEW i \in 1..m + n PROVE w[i] \in Range(u) \cup Range(v)
    BY <1>1, <1>2 DEF Range
  <2>2. ASSUME NEW i \in 1..m PROVE u[i] \in Range(w)
    <3>1. i \in 1..m + n
      BY <1>1
    <3> QED BY <1>1, <3>1 DEF Range
  <2>3. ASSUME NEW k \in 1..n PROVE v[k] \in Range(w)
    <3>1. k + m \in 1..m + n
      BY <1>1
    <3> QED BY <1>1, <3>1 DEF Range
  <2>4. ASSUME NEW e \in Range(w) PROVE e \in Range(u) \cup Range(v)
    <3>1. PICK i \in 1..m + n : w[i] = e
      BY <1>1, <2>4 DEF Range
    <3> QED BY <2>1, <3>1
  <2>5. ASSUME NEW e \in Range(u) PROVE e \in Range(w)
    <3>1. PICK i \in 1..m : u[i] = e
      BY <1>1, <2>5 DEF Range
    <3> QED BY <2>2, <3>1
  <2>6. ASSUME NEW e \in Range(v) PROVE e \in Range(w)
    <3>1. PICK k \in 1..n : v[k] = e
      BY <1>1, <2>6 DEF Range
    <3> QED BY <2>3, <3>1
  <2> QED BY <2>4, <2>5, <2>6
<1>5. ASSUME IsInjective(u), IsInjective(v), Range(u) \cap Range(v) = {}
      PROVE  IsInjective(w)
  <2>1. \A i \in 1..m, k \in 1..n : u[i] # v[k]
    BY <1>1, <1>5 DEF Range
  <2>2. \A i, j \in 1..m : u[i] = u[j] => i = j
    BY <1>1, <1>5 DEF IsInjective
  <2>3. \A i, j \in 1..n : v[i] = v[j] => i = j
    BY <1>1, <1>5 DEF IsInjective
  <2>4. ASSUME NEW i \in 1..m + n, NEW j \in 1..m + n, w[i] = w[j] PROVE i = j
    <3>1. CASE i \in 1..m /\ j \in 1..m
      BY <1>1, <2>2, <2>4, <3>1
    <3>2. ASSUME NEW h \in 1..n, i = h + m, NEW k \in 1..n, j = k + m PROVE i = j
      <4>1. w[i] = v[h] /\ w[j] = v[k]
        BY <1>1, <3>2
      <4> QED BY <2>3, <2>4, <3>2, <4>1
    <3>3. ASSUME i \in 1..m, NEW k \in 1..n, j = k + m PROVE FALSE
      BY <1>1, <2>1, <2>4, <3>3
    <3>4. ASSUME NEW h \in 1..n, i = h + m, j \in 1..m PROVE FALSE
      BY <1>1, <2>1, <2>4, <3>4
    <3> QED BY <1>2, <3>1, <3>2, <3>3, <3>4
  <2> QED BY <1>1, <2>4 DEF IsInjective
<1>6. ASSUME NEW a, NEW b
      PROVE  Before(a, b, w) <=> \/ Before(a, b, u) \/ Before(a, b, v)
                                 \/ a \in Range(u) /\ b \in Range(v)
  <2>1. ASSUME NEW i \in 1..m + n, NEW j \in 1..m + n, i < j, w[i] = a, w[j] = b
        PROVE  \/ Before(a, b, u) \/ Before(a, b, v)
               \/ a \in Range(u) /\ b \in Range(v)
    <3>1. CASE i \in 1..m /\ j \in 1..m
      BY <1>1, <2>1, <3>1 DEF Before
    <3>2. ASSUME i \in 1..m, NEW k \in 1..n, j = k + m
          PROVE  a \in Range(u) /\ b \in Range(v)
      BY <1>1, <2>1, <3>2 DEF Range
    <3>3. ASSUME NEW h \in 1..n, i = h + m, NEW k \in 1..n, j = k + m
          PROVE  Before(a, b, v)
      <4>1. h < k /\ v[h] = a /\ v[k] = b
        BY <1>1, <2>1, <3>3
      <4> QED BY <1>1, <4>1 DEF Before
    <3>4. ASSUME NEW h \in 1..n, i = h + m, j \in 1..m PROVE FALSE
      BY <1>1, <2>1, <3>4
    <3> QED BY <1>2, <3>1, <3>2, <3>3, <3>4
  <2>2. ASSUME NEW i \in 1..m, NEW j \in 1..m, i < j, u[i] = a, u[j] = b
        PROVE  Before(a, b, w)
    <3>0. i \in 1..m + n /\ j \in 1..m + n
      BY <1>1
    <3>1. i \in DOMAIN w /\ j \in DOMAIN w /\ w[i] = a /\ w[j] = b
      BY <1>1, <2>2, <3>0
    <3> QED BY <2>2, <3>1 DEF Before
  <2>3. ASSUME NEW i \in 1..n, NEW j \in 1..n, i < j, v[i] = a, v[j] = b
        PROVE  Before(a, b, w)
    <3>1. /\ i + m \in DOMAIN w /\ j + m \in DOMAIN w /\ w[i + m] = a
          /\ w[j + m] = b /\ i + m < j + m
      BY <1>1, <2>3
    <3> QED BY <3>1 DEF Before
  <2>4. ASSUME NEW i \in 1..m, NEW j \in 1..n, u[i] = a, v[j] = b
        PROVE  Before(a, b, w)
    <3>1. /\ i \in DOMAIN w /\ j + m \in DOMAIN w /\ w[i] = a
          /\ w[j + m] = b /\ i < j + m
      BY <1>1, <2>4
    <3> QED BY <3>1 DEF Before
  <2> QED BY <1>1, <2>1, <2>2, <2>3, <2>4 DEF Before, Range
<1> QED BY <1>4, <1>5, <1>6 DEF w

-----------------------------------------------------------------------------

\* The first n items of a sequence.
Upto(seq, n) == [i \in 1..n |-> seq[i]]

LEMMA UptoIs ==
  ASSUME NEW T, NEW seq \in Seq(T), NEW n \in 0..Len(seq)
  PROVE  /\ Upto(seq, n) \in Seq(T) /\ Len(Upto(seq, n)) = n
         /\ DOMAIN Upto(seq, n) = 1..n /\ \A i \in 1..n : Upto(seq, n)[i] = seq[i]
         /\ n = Len(seq) => Upto(seq, n) = seq
BY DEF Upto

\* What is put behind them does not change them.
LEMMA UptoGrows ==
  ASSUME NEW T, NEW seq \in Seq(T), NEW n \in 0..Len(seq)
  PROVE  /\ \A e \in T : Upto(Append(seq, e), n) = Upto(seq, n)
         /\ \A t \in Seq(T) : Upto(seq \o t, n) = Upto(seq, n)
<1>1. ASSUME NEW e \in T PROVE Upto(Append(seq, e), n) = Upto(seq, n)
  BY DEF Upto
<1>2. ASSUME NEW t \in Seq(T) PROVE Upto(seq \o t, n) = Upto(seq, n)
  BY DEF Upto
<1> QED BY <1>1, <1>2

LEMMA UptoTail ==
  ASSUME NEW T, NEW seq \in Seq(T), NEW n \in 1..Len(seq)
  PROVE  /\ Upto(seq, n) # <<>> /\ Head(Upto(seq, n)) = Head(seq)
         /\ Tail(Upto(seq, n)) = Upto(Tail(seq), n - 1)
<1> DEFINE u == Upto(seq, n)
<1>1. u \in Seq(T) /\ Len(u) = n /\ \A i \in 1..n : u[i] = seq[i]
  BY UptoIs
<1> HIDE DEF u
<1>2. u # <<>> /\ Head(u) = Head(seq)
  BY <1>1
<1>3. Tail(u) = Upto(Tail(seq), n - 1)
  <2> DEFINE b == Upto(Tail(seq), n - 1)
  <2>1. Tail(seq) \in Seq(T) /\ n - 1 \in 0..Len(Tail(seq))
        /\ \A i \in 1..n - 1 : Tail(seq)[i] = seq[i + 1]
    OBVIOUS
  <2>2. b \in Seq(T) /\ Len(b) = n - 1 /\ \A i \in 1..n - 1 : b[i] = Tail(seq)[i]
    BY <2>1, UptoIs, Zenon
  <2>3. Tail(u) \in Seq(T) /\ Len(Tail(u)) = n - 1 /\ \A i \in 1..n - 1 : Tail(u)[i] = seq[i + 1]
    BY <1>1, <1>2
  <2> HIDE DEF b
  <2>4. Tail(u) = b
    BY <2>1, <2>2, <2>3
  <2> QED BY <2>4 DEF b
<1> QED BY <1>2, <1>3 DEF u

LEMMA UptoCounts ==
  ASSUME NEW T, NEW seq \in Seq(T), NEW n \in 0..Len(seq), NEW S
  PROVE  CountIn(Upto(seq, n), S) <= CountIn(seq, S)
<1>1. Places(Upto(seq, n), S) \subseteq Places(seq, S)
  BY UptoIs DEF Places
<1>2. IsFiniteSet(Places(seq, S))
  BY PlacesFinite
<1> QED BY <1>1, <1>2, FS_Subset DEF CountIn

LEMMA ConcatIs ==
  ASSUME NEW T, NEW a \in Seq(T), NEW b \in Seq(T)
  PROVE  /\ a \o b \in Seq(T) /\ Len(a \o b) = Len(a) + Len(b)
         /\ Len(a) \in Nat /\ DOMAIN a = 1..Len(a)
         /\ Len(b) \in Nat /\ DOMAIN b = 1..Len(b)
         /\ \A i \in 1..Len(a) : (a \o b)[i] = a[i]
         /\ \A i \in 1..Len(b) : (a \o b)[i + Len(a)] = b[i]
OBVIOUS

=============================================================================
