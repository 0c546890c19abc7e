----------------------------- MODULE FoldLemmas -----------------------------
(***************************************************************************)
(* Induction over a fold.  A theorem cannot take an operator as parameter  *)
(* and be instantiated with it, but a module can: a module of proofs       *)
(* instantiates this one for each of its folds, with op for what one step  *)
(* does and R for what holds of the result.                                *)
(*                                                                         *)
(* op(a, t, x) is the step for x from t, R(h, i, t) the claim; a and h     *)
(* stand for whatever else they depend on.  MapThenFoldSet is a recursive  *)
(* function on sets, written out below as IsIter says: a fold over a       *)
(* sequence is one over its positions.                                     *)
(***************************************************************************)
EXTENDS Integers, Sequences, TLAPS

CONSTANTS op(_, _, _), R(_, _, _)

IsTop(x, s) == x \in s /\ \A y \in s : x >= y

\* The recursive function that a fold over S from base is the value of,
\* where f[x] is the item for x.
IsIter(g, a, base, S, f) ==
  g = [s \in SUBSET S |->
         IF s = {} THEN base
         ELSE LET x == CHOOSE x \in s : \A y \in s : x >= y
              IN  op(a, g[s \ {x}], f[x])]

\* Induction over the natural numbers, for the set of those that have a
\* property.  It is a hypothesis here, which SequenceLemmas!SetInduction
\* discharges, so that an instance brings in no library.
Inductive ==
  \A S : 0 \in S /\ (\A n \in Nat : n \in S => n + 1 \in S) => \A n \in Nat : n \in S

LEMMA Induct ==
  ASSUME Inductive, NEW S, 0 \in S, \A n \in Nat : n \in S => n + 1 \in S
  PROVE  \A n \in Nat : n \in S
BY Zenon DEF Inductive

\* A bounded set of numbers has a greatest element.
LEMMA TopExists ==
  ASSUME Inductive, NEW n \in Nat, NEW s \in SUBSET (0..n), s # {}
  PROVE  \E x : IsTop(x, s)
<1> DEFINE T == {k \in Nat : \A z \in SUBSET (0..k) : z # {} => \E x : IsTop(x, z)}
<1>1. 0 \in T
  <2>1. ASSUME NEW z \in SUBSET (0..0), z # {}
        PROVE  IsTop(0, z)
    <3>1. \A y \in z : y = 0
      OBVIOUS
    <3>2. PICK y \in z : TRUE
      BY <2>1
    <3>3. 0 \in z /\ \A y_1 \in z : 0 >= y_1
      BY <3>1, <3>2
    <3> QED BY <3>3 DEF IsTop
  <2> QED BY <2>1
<1>2. ASSUME NEW k \in Nat, k \in T
      PROVE  k + 1 \in T
  <2>1. SUFFICES ASSUME NEW z \in SUBSET (0..k + 1), z # {}
                 PROVE  \E x : IsTop(x, z)
    OBVIOUS
  <2>2. CASE k + 1 \in z
    <3>1. IsTop(k + 1, z)
      BY <2>2 DEF IsTop
    <3> QED BY <3>1
  <2>3. CASE k + 1 \notin z
    <3>1. z \in SUBSET (0..k)
      BY <2>3
    <3> QED BY <1>2, <2>1, <3>1
  <2> QED BY <2>2, <2>3
<1>3. \A k \in Nat : k \in T
  <2> HIDE DEF T
  <2> QED BY <1>1, <1>2, Induct
<1> QED BY <1>3

LEMMA TopChosen ==
  ASSUME Inductive, NEW n \in Nat, NEW s \in SUBSET (0..n), s # {},
         NEW x, x = CHOOSE z \in s : \A y \in s : z >= y
  PROVE  x \in s /\ \A y \in s : x >= y
BY TopExists, Zenon DEF IsTop

LEMMA IterExists ==
  ASSUME Inductive, NEW a, NEW base, NEW n \in Nat, NEW S \in SUBSET (0..n), NEW f
  PROVE  \E g : IsIter(g, a, base, S, f)
<1> DEFINE Top(s) == CHOOSE x \in s : \A y \in s : x >= y
           Small(k) == {s \in SUBSET S : \A y \in s : y < k}
           Value(g, s) == IF s = {} THEN base
                          ELSE op(a, g[s \ {Top(s)}], f[Top(s)])
           Rec(g, k) == g = [s \in Small(k) |-> Value(g, s)]
           T == {k \in Nat : \E g : Rec(g, k)}
<1>1. \A s \in SUBSET S : s # {} => Top(s) \in s /\ \A y \in s : Top(s) >= y
  BY TopChosen
<1> HIDE DEF Top
<1>2. ASSUME NEW k \in Nat, NEW s \in Small(k + 1), s # {}
      PROVE  s \ {Top(s)} \in Small(k)
  <2>1. s \in SUBSET S /\ \A y \in s : y \in Nat /\ y < k + 1
    BY <1>2
  <2>2. Top(s) \in s /\ \A y \in s : Top(s) >= y
    BY <1>1, <1>2, <2>1
  <2>3. ASSUME NEW y \in s \ {Top(s)}
        PROVE  y < k
    <3> DEFINE z == Top(s)
    <3>1. y \in Nat /\ z \in Nat /\ z < k + 1 /\ z >= y /\ y # z
      BY <2>1, <2>2
    <3> HIDE DEF z
    <3> QED BY <3>1
  <2> QED BY <2>1, <2>3
<1>3. 0 \in T
  <2>1. \A s \in Small(0) : s = {}
    OBVIOUS
  <2>2. Rec([s \in Small(0) |-> base], 0)
    <3> HIDE DEF Small
    <3> QED BY <2>1, SMT
  <2> QED BY <2>2
<1>4. ASSUME NEW k \in Nat, k \in T
      PROVE  k + 1 \in T
  <2>1. PICK g : Rec(g, k)
    BY <1>4
  <2> DEFINE h == [s \in Small(k + 1) |-> Value(g, s)]
  <2>2. ASSUME NEW s \in Small(k)
        PROVE  h[s] = g[s]
    <3>1. s \in Small(k + 1)
      BY <2>2
    <3>2. g[s] = Value(g, s)
      <4> HIDE DEF Small, Value
      <4> QED BY <2>1, <2>2
    <3>3. h[s] = Value(g, s)
      <4> HIDE DEF Small, Value
      <4> QED BY <3>1
    <3> QED BY <3>2, <3>3, Zenon
  <2>3. ASSUME NEW s \in Small(k + 1)
        PROVE  Value(g, s) = Value(h, s)
    <3>1. CASE s = {}
      BY <3>1, Zenon
    <3>2. CASE s # {}
      <4> HIDE DEF h
      <4>1. h[s \ {Top(s)}] = g[s \ {Top(s)}]
        <5> HIDE DEF Small
        <5> QED BY <1>2, <2>2, <3>2
      <4> QED BY <4>1, <3>2, Zenon
    <3> QED BY <3>1, <3>2
  <2>4. Rec(h, k + 1)
    <3> HIDE DEF Value, Small
    <3> QED BY <2>3, Zenon
  <2>5. \E e : Rec(e, k + 1)
    <3> HIDE DEF h, Value, Small
    <3> QED BY <2>4, Zenon
  <2> HIDE DEF Rec
  <2> QED BY <2>5
<1>5. n + 1 \in T
  <2> HIDE DEF T
  <2>1. \A k \in Nat : k \in T
    BY <1>3, <1>4, Induct
  <2> QED BY <2>1
<1>6. PICK g : Rec(g, n + 1)
  BY <1>5
<1>7. Small(n + 1) = SUBSET S
  OBVIOUS
<1>8. g = [s \in SUBSET S |-> Value(g, s)]
  <2> HIDE DEF Small, Value
  <2> QED BY <1>6, <1>7
<1>9. IsIter(g, a, base, S, f)
  BY <1>8, Zenon DEF IsIter, Top
<1> QED BY <1>9

\* One step of the recursion, from the top of a set.
Recursion(g, a, base, S, f) ==
  (\E n \in Nat : S \in SUBSET (0..n)) /\ IsIter(g, a, base, S, f)

Steps(g, a, S, f) ==
  \A s \in SUBSET S : \A x : IsTop(x, s) => g[s] = op(a, g[s \ {x}], f[x])

LEMMA IterStep ==
  ASSUME Inductive, NEW a, NEW base, NEW S, NEW f, NEW g,
         Recursion(g, a, base, S, f)
  PROVE  Steps(g, a, S, f)
<1> SUFFICES ASSUME NEW s \in SUBSET S, NEW x, IsTop(x, s)
             PROVE  g[s] = op(a, g[s \ {x}], f[x])
  BY Zenon DEF Steps
<1> USE DEF Recursion
<1> DEFINE z == CHOOSE x_1 \in s : \A y \in s : x_1 >= y
<1>1. PICK n \in Nat : s # {} /\ s \in SUBSET (0..n)
  BY DEF IsTop
<1>2. z \in s /\ \A y \in s : z >= y
  BY <1>1, TopChosen
<1>3. z = x
  <2> HIDE DEF z
  <2> QED BY <1>1, <1>2 DEF IsTop
<1>4. g[s] = op(a, g[s \ {z}], f[z])
  BY <1>1, Zenon DEF IsIter
<1> HIDE DEF z
<1> QED BY <1>3, <1>4, Zenon

\* The fold of a sequence, and of a set of numbers taken in order.
OverItems(a, base, seq) ==
  (CHOOSE g : g =
     [s \in SUBSET DOMAIN seq |->
        IF s = {} THEN base
        ELSE LET x == CHOOSE x \in s : \A y \in s : x >= y
             IN  op(a, g[s \ {x}], seq[x])])[DOMAIN seq]

OverNumbers(a, base, S) ==
  (CHOOSE g : g =
     [s \in SUBSET S |->
        IF s = {} THEN base
        ELSE LET x == CHOOSE x \in s : \A y \in s : x >= y
             IN  op(a, g[s \ {x}], x)])[S]

\* R(h, i, t) is what holds of the result t after the first i items,
\* R(h, s, t) what holds after the numbers in s.
ItemsClaim(a, h, base, seq) ==
  /\ R(h, 0, base)
  /\ \A i \in 1..Len(seq) : \A t :
       R(h, i - 1, t) => R(h, i, op(a, t, seq[i]))

NumbersClaim(a, h, base, S) ==
  /\ R(h, {}, base)
  /\ \A s \in SUBSET S : \A x \in S \ s : \A t :
       R(h, s, t) => R(h, s \cup {x}, op(a, t, x))

\* Induction over the fold of a sequence.
LEMMA SequenceFold ==
  ASSUME Inductive, NEW a, NEW h, NEW base, NEW T, NEW seq \in Seq(T),
         ItemsClaim(a, h, base, seq)
  PROVE  R(h, Len(seq), OverItems(a, base, seq))
<1>c. SUFFICES ASSUME NEW iter,
                      iter = CHOOSE g : g =
                        [s \in SUBSET DOMAIN seq |->
                           IF s = {} THEN base
                           ELSE LET x == CHOOSE x \in s : \A y \in s : x >= y
                                IN  op(a, g[s \ {x}], seq[x])]
               PROVE  R(h, Len(seq), iter[DOMAIN seq])
  BY Zenon DEF OverItems
<1>0. /\ R(h, 0, base)
      /\ \A i \in 1..Len(seq) : \A t :
           R(h, i - 1, t) => R(h, i, op(a, t, seq[i]))
  BY Zenon DEF ItemsClaim
<1>1. /\ DOMAIN seq = 1..Len(seq) /\ Len(seq) \in Nat
      /\ DOMAIN seq \in SUBSET (0..Len(seq))
  OBVIOUS
<1>2. IsIter(iter, a, base, DOMAIN seq, seq)
  <2>1. \E g : IsIter(g, a, base, DOMAIN seq, seq)
    BY <1>1, IterExists
  <2> QED BY <2>1, <1>c, Zenon DEF IsIter
<1>b. ASSUME NEW s \in SUBSET DOMAIN seq, NEW x, IsTop(x, s)
      PROVE  iter[s] = op(a, iter[s \ {x}], seq[x])
  <2>1. Recursion(iter, a, base, DOMAIN seq, seq)
    BY <1>1, <1>2, Zenon DEF Recursion
  <2>2. Steps(iter, a, DOMAIN seq, seq)
    BY <2>1, IterStep, Zenon
  <2> QED BY <1>b, <2>2, Zenon DEF Steps
<1> DEFINE D == {i \in Nat : i <= Len(seq) => R(h, i, iter[1..i])}
<1>3. 0 \in D
  <2>1. iter[{}] = base
    BY <1>2, Zenon DEF IsIter
  <2>2. 1..0 = {}
    BY SMT
  <2>3. R(h, 0, iter[1..0])
    BY <1>0, <2>1, <2>2, Zenon
  <2> QED BY <2>3
<1>4. ASSUME NEW i \in Nat, i \in D
      PROVE  i + 1 \in D
  <2>1. SUFFICES ASSUME i + 1 <= Len(seq)
                 PROVE  R(h, i + 1, iter[1..i + 1])
    <3>1. i + 1 \in Nat
      OBVIOUS
    <3> QED BY <3>1, Zenon
  <2>2. i \in Nat /\ i + 1 \in 1..Len(seq) /\ (i + 1) - 1 = i /\ i <= Len(seq)
    BY <1>1, <2>1
  <2>3. /\ IsTop(i + 1, 1..i + 1) /\ 1..i + 1 \in SUBSET DOMAIN seq
        /\ (1..i + 1) \ {i + 1} = 1..i
    BY <1>1, <2>2 DEF IsTop
  <2>4. iter[1..i + 1] = op(a, iter[1..i], seq[i + 1])
    <3>1. iter[1..i + 1] = op(a, iter[(1..i + 1) \ {i + 1}], seq[i + 1])
      BY <1>b, <2>3, Zenon
    <3> QED BY <2>3, <3>1, Zenon
  <2>5. R(h, (i + 1) - 1, iter[1..i])
    BY <1>4, <2>2
  <2>6. R(h, i + 1, op(a, iter[1..i], seq[i + 1]))
    BY <1>0, <2>2, <2>5, Zenon
  <2> QED BY <2>4, <2>6
<1>5. Len(seq) \in D
  <2> HIDE DEF D
  <2> QED BY <1>1, <1>3, <1>4, Induct
<1> QED BY <1>1, <1>5

\* Induction over the fold of a set of numbers.
LEMMA NumbersFold ==
  ASSUME Inductive, NEW a, NEW h, NEW base, NEW n \in Nat, NEW S \in SUBSET (0..n),
         NumbersClaim(a, h, base, S)
  PROVE  R(h, S, OverNumbers(a, base, S))
<1>c. SUFFICES ASSUME NEW iter,
                      iter = CHOOSE g : g =
                        [s \in SUBSET S |->
                           IF s = {} THEN base
                           ELSE LET x == CHOOSE x \in s : \A y \in s : x >= y
                                IN  op(a, g[s \ {x}], x)]
               PROVE  R(h, S, iter[S])
  BY Zenon DEF OverNumbers
<1>a. /\ R(h, {}, base)
      /\ \A s \in SUBSET S : \A x \in S \ s : \A t :
           R(h, s, t) => R(h, s \cup {x}, op(a, t, x))
  BY Zenon DEF NumbersClaim
<1> DEFINE f == [x \in S |-> x]
<1>1. ASSUME NEW g
      PROVE  IsIter(g, a, base, S, f)
             <=> g = [s \in SUBSET S |->
                        IF s = {} THEN base
                        ELSE LET x == CHOOSE x \in s : \A y \in s : x >= y
                             IN  op(a, g[s \ {x}], x)]
  <2> DEFINE Top(s) == CHOOSE x \in s : \A y \in s : x >= y
             First(s) == IF s = {} THEN base
                         ELSE op(a, g[s \ {Top(s)}], f[Top(s)])
             Second(s) == IF s = {} THEN base
                          ELSE op(a, g[s \ {Top(s)}], Top(s))
  <2>1. ASSUME NEW s \in SUBSET S
        PROVE  First(s) = Second(s)
    <3>2. s # {} => Top(s) \in s
      BY TopChosen
    <3> HIDE DEF Top
    <3>3. s # {} => f[Top(s)] = Top(s)
      BY <3>2
    <3> HIDE DEF f
    <3> QED BY <3>3, Zenon
  <2>2. [s \in SUBSET S |-> First(s)] = [s \in SUBSET S |-> Second(s)]
    <3> HIDE DEF First, Second
    <3> QED BY <2>1, Zenon
  <2> HIDE DEF f
  <2> QED BY <2>2, Zenon DEF IsIter
<1>2. IsIter(iter, a, base, S, f)
  <2> HIDE DEF f
  <2>1. \E g : IsIter(g, a, base, S, f)
    BY IterExists
  <2> QED BY <1>c, <2>1, <1>1, Zenon
<1> DEFINE D == {k \in Nat : \A s \in SUBSET S :
                               (\A y \in s : y < k) => R(h, s, iter[s])}
<1>3. 0 \in D
  <2>1. iter[{}] = base
    BY <1>2, Zenon DEF IsIter
  <2>2. \A s \in SUBSET S : (\A y \in s : y < 0) => s = {}
    OBVIOUS
  <2> HIDE DEF f
  <2> QED BY <1>a, <2>1, <2>2
<1>4. ASSUME NEW k \in Nat, k \in D
      PROVE  k + 1 \in D
  <2>1. SUFFICES ASSUME NEW s \in SUBSET S, \A y \in s : y < k + 1
                 PROVE  R(h, s, iter[s])
    <3>1. k + 1 \in Nat
      OBVIOUS
    <3> QED BY <3>1, Zenon
  <2>2. CASE s = {}
    <3>1. iter[{}] = base
      BY <1>2, Zenon DEF IsIter
    <3> QED BY <1>a, <2>2, <3>1, Zenon
  <2>3. CASE s # {}
    <3>1. PICK x : IsTop(x, s)
      BY <2>3, TopExists
    <3>2. x \in s /\ x \in S \ (s \ {x}) /\ s \ {x} \in SUBSET S
          /\ (s \ {x}) \cup {x} = s
      BY <3>1 DEF IsTop
    <3>3. \A y \in s \ {x} : y < k
      BY <2>1, <3>1 DEF IsTop
    <3>4. iter[s] = op(a, iter[s \ {x}], x)
      <4>1. iter[s] = op(a, iter[s \ {x}], f[x])
        <5> HIDE DEF f
        <5>1. Recursion(iter, a, base, S, f)
          BY <1>2, Zenon DEF Recursion
        <5>2. Steps(iter, a, S, f)
          BY <5>1, IterStep, Zenon
        <5> QED BY <3>1, <5>2, Zenon DEF Steps
      <4>2. f[x] = x
        BY <3>2
      <4> HIDE DEF f
      <4> QED BY <4>1, <4>2, Zenon
    <3>5. R(h, s \ {x}, iter[s \ {x}])
      BY <1>4, <3>2, <3>3
    <3>6. R(h, (s \ {x}) \cup {x}, op(a, iter[s \ {x}], x))
      BY <1>a, <3>2, <3>5, Zenon
    <3> QED BY <3>2, <3>4, <3>6, Zenon
  <2> QED BY <2>2, <2>3
<1>5. \A k \in Nat : k \in D
  <2> HIDE DEF D
  <2> QED BY <1>3, <1>4, Induct
<1>6. n + 1 \in D /\ \A y \in S : y < n + 1
  <2> HIDE DEF D
  <2> QED BY <1>5
<1> QED BY <1>6
=============================================================================
