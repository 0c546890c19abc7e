------------------------ MODULE EndpointPool_proofs ------------------------
(***************************************************************************)
(* For every set of endpoints, every list of seeds and every advertisement:*)
(* the dial order stays a permutation of the known candidates, and no      *)
(* candidate that stays known is passed over for more passes than there    *)
(* are endpoints.                                                          *)
(*                                                                         *)
(* The lists of lib/endpoint.ml are followed through three facts about     *)
(* each operation: which endpoints its result holds, that none is twice in *)
(* it, and which of two comes first.                                       *)
(***************************************************************************)
EXTENDS EndpointPool, SequenceLemmas

-----------------------------------------------------------------------------
(* List.filter and deduplicate.                                            *)

\* The places read so far.
FirstN(l, n) == {l[i] : i \in 1..n}
BeforeUpTo(a, b, l, n) == \E i, j \in 1..n : i < j /\ l[i] = a /\ l[j] = b

\* kept[n] is what filter has kept after n places.
IsFiltering(kept, l, S) ==
  /\ filter(S, l) = kept[Len(l)]
  /\ kept[0] = <<>>
  /\ \A n \in 1..Len(l) :
       kept[n] = IF l[n] \in S THEN Append(kept[n - 1], l[n]) ELSE kept[n - 1]

\* filter reads its list from the front and keeps what is in the set.
LEMMA FilterReads ==
  ASSUME NEW l \in Seq(Endpoints), NEW S
  PROVE  \E kept \in [0..Len(l) -> Seq(Endpoints)] : IsFiltering(kept, l, S)
<1> DEFINE N == Len(l)
           V == Seq(Endpoints)
           step == [n \in 1..N |-> [k \in V |-> IF l[n] \in S THEN Append(k, l[n])
                                                ELSE k]]
           G(g) == [n \in 0..N |-> IF n = 0 THEN <<>>
                                   ELSE IF l[n] \in S THEN Append(g[n - 1], l[n])
                                   ELSE g[n - 1]]
<1>1. N \in Nat /\ <<>> \in V /\ \A n \in 1..N : l[n] \in Endpoints
  OBVIOUS
<1>2. step \in [1..N -> [V -> V]]
  <2>1. ASSUME NEW n \in 1..N, NEW k \in V PROVE Append(k, l[n]) \in V
    BY <1>1
  <2> QED BY <2>1
<1>3. PICK g \in [0..N -> V] : IsIteration(g, <<>>, step, N)
  <2> HIDE DEF step, V, N
  <2> QED BY <1>1, <1>2, RecursionExists
<1>3a. g[0] = <<>> /\ \A n \in 1..N : g[n] = step[n][g[n - 1]]
  BY <1>3, Zenon DEF IsIteration
<1>4. \A n \in 1..N : g[n - 1] \in V /\ step[n][g[n - 1]]
                        = IF l[n] \in S THEN Append(g[n - 1], l[n]) ELSE g[n - 1]
  <2> HIDE DEF V
  <2>1. \A n \in 1..N : n - 1 \in 0..N
    BY <1>1
  <2> QED BY <2>1
<1>5. g = G(g)
  <2> HIDE DEF step, V, N
  <2>1. ASSUME NEW n \in 0..N PROVE g[n] = G(g)[n]
    <3>1. CASE n = 0
      BY <1>3a, <3>1
    <3>2. CASE n \in 1..N
      <4>1. n # 0
        BY <1>1, <3>2
      <4>2. g[n] = IF l[n] \in S THEN Append(g[n - 1], l[n]) ELSE g[n - 1]
        BY <1>3a, <1>4, <3>2, Zenon
      <4> QED BY <4>1, <4>2
    <3> QED BY <1>1, <3>1, <3>2
  <2> QED BY <2>1
<1>6. filter(S, l) = (CHOOSE h : h = G(h))[N]
  BY DEF filter
<1> DEFINE k == CHOOSE h : h = G(h)
<1>7. k = G(k)
  <2> HIDE DEF G
  <2> QED BY <1>5
<1> HIDE DEF k
<1>8. k[0] = <<>> /\ \A n \in 1..N : k[n] = IF l[n] \in S THEN Append(k[n - 1], l[n])
                                            ELSE k[n - 1]
  <2>1. 0 \in 0..N /\ \A n \in 1..N : n \in 0..N /\ n # 0
    BY <1>1
  <2> QED BY <1>7, <2>1
<1>9. \A n \in 0..N : k[n] = g[n]
  <2> DEFINE T == {n \in Nat : n <= N => k[n] = g[n]}
  <2>1. 0 \in T
    BY <1>3a, <1>8
  <2>2. ASSUME NEW n \in Nat, n \in T PROVE n + 1 \in T
    <3>1. SUFFICES ASSUME n + 1 <= N PROVE k[n + 1] = g[n + 1]
      OBVIOUS
    <3>2. n + 1 \in 1..N /\ (n + 1) - 1 = n /\ k[n] = g[n]
      BY <1>1, <2>2, <3>1
    <3> HIDE DEF step, V, N
    <3> QED BY <1>3a, <1>4, <1>8, <3>2
  <2>3. \A n \in Nat : n \in T
    <3> HIDE DEF T
    <3> QED BY <2>1, <2>2, SetInduction
  <2> QED BY <1>1, <2>3
<1>10. k \in [0..N -> V]
  <2>1. DOMAIN k = 0..N /\ k = [n \in 0..N |-> k[n]]
    BY <1>7
  <2> HIDE DEF V, N
  <2> QED BY <1>9, <2>1
<1> QED BY <1>6, <1>8, <1>10 DEF k, IsFiltering

\* deduplicate reads its list from the front and keeps what it has not met.
LEMMA DeduplicateReads ==
  ASSUME NEW l \in Seq(Endpoints)
  PROVE  \E kept \in [0..Len(l) -> Seq(Endpoints)] :
           /\ deduplicate(l) = kept[Len(l)]
           /\ kept[0] = <<>>
           /\ \A n \in 1..Len(l) :
                kept[n] = IF contains(l[n], kept[n - 1]) THEN kept[n - 1]
                          ELSE Append(kept[n - 1], l[n])
<1> DEFINE N == Len(l)
           V == Seq(Endpoints)
           step == [n \in 1..N |-> [k \in V |-> IF contains(l[n], k) THEN k
                                                ELSE Append(k, l[n])]]
           G(g) == [n \in 0..N |-> IF n = 0 THEN <<>>
                                   ELSE IF contains(l[n], g[n - 1]) THEN g[n - 1]
                                   ELSE Append(g[n - 1], l[n])]
<1>1. N \in Nat /\ <<>> \in V /\ \A n \in 1..N : l[n] \in Endpoints
  OBVIOUS
<1>2. step \in [1..N -> [V -> V]]
  <2>1. ASSUME NEW n \in 1..N, NEW k \in V PROVE Append(k, l[n]) \in V
    BY <1>1
  <2> QED BY <2>1
<1>3. PICK g \in [0..N -> V] : IsIteration(g, <<>>, step, N)
  <2> HIDE DEF step, V, N
  <2> QED BY <1>1, <1>2, RecursionExists
<1>3a. g[0] = <<>> /\ \A n \in 1..N : g[n] = step[n][g[n - 1]]
  BY <1>3, Zenon DEF IsIteration
<1>4. \A n \in 1..N : g[n - 1] \in V /\ step[n][g[n - 1]]
                        = IF contains(l[n], g[n - 1]) THEN g[n - 1]
                          ELSE Append(g[n - 1], l[n])
  <2> HIDE DEF V
  <2>1. \A n \in 1..N : n - 1 \in 0..N
    BY <1>1
  <2> QED BY <2>1
<1>5. g = G(g)
  <2> HIDE DEF step, V, N
  <2>1. ASSUME NEW n \in 0..N PROVE g[n] = G(g)[n]
    <3>1. CASE n = 0
      BY <1>3a, <3>1
    <3>2. CASE n \in 1..N
      <4>1. n # 0
        BY <1>1, <3>2
      <4>2. g[n] = IF contains(l[n], g[n - 1]) THEN g[n - 1]
                   ELSE Append(g[n - 1], l[n])
        BY <1>3a, <1>4, <3>2, Zenon
      <4> QED BY <4>1, <4>2
    <3> QED BY <1>1, <3>1, <3>2
  <2> QED BY <2>1
<1>6. deduplicate(l) = (CHOOSE h : h = G(h))[N]
  BY DEF deduplicate
<1> DEFINE k == CHOOSE h : h = G(h)
<1>7. k = G(k)
  <2> HIDE DEF G
  <2> QED BY <1>5
<1> HIDE DEF k
<1>8. k[0] = <<>> /\ \A n \in 1..N : k[n] = IF contains(l[n], k[n - 1]) THEN k[n - 1]
                                            ELSE Append(k[n - 1], l[n])
  <2>1. 0 \in 0..N /\ \A n \in 1..N : n \in 0..N /\ n # 0
    BY <1>1
  <2> QED BY <1>7, <2>1
<1>9. \A n \in 0..N : k[n] = g[n]
  <2> DEFINE T == {n \in Nat : n <= N => k[n] = g[n]}
  <2>1. 0 \in T
    BY <1>3a, <1>8
  <2>2. ASSUME NEW n \in Nat, n \in T PROVE n + 1 \in T
    <3>1. SUFFICES ASSUME n + 1 <= N PROVE k[n + 1] = g[n + 1]
      OBVIOUS
    <3>2. n + 1 \in 1..N /\ (n + 1) - 1 = n /\ k[n] = g[n]
      BY <1>1, <2>2, <3>1
    <3> HIDE DEF step, V, N
    <3> QED BY <1>3a, <1>4, <1>8, <3>2
  <2>3. \A n \in Nat : n \in T
    <3> HIDE DEF T
    <3> QED BY <2>1, <2>2, SetInduction
  <2> QED BY <1>1, <2>3
<1>10. k \in [0..N -> V]
  <2>1. DOMAIN k = 0..N /\ k = [n \in 0..N |-> k[n]]
    BY <1>7
  <2> HIDE DEF V, N
  <2> QED BY <1>9, <2>1
<1> QED BY <1>6, <1>8, <1>10 DEF k

LEMMA ContainsIsRange ==
  ASSUME NEW l, NEW e
  PROVE  contains(e, l) <=> e \in Range(l)
BY DEF contains, Range

\* One more place has been read.
LEMMA FirstNStep ==
  ASSUME NEW l \in Seq(Endpoints), NEW n \in Nat, n + 1 <= Len(l)
  PROVE  /\ FirstN(l, n + 1) = FirstN(l, n) \cup {l[n + 1]}
         /\ IsInjective(l) => l[n + 1] \notin FirstN(l, n)
         /\ \A a, b : BeforeUpTo(a, b, l, n + 1)
                      <=> BeforeUpTo(a, b, l, n) \/ (b = l[n + 1] /\ a \in FirstN(l, n))
<1>1. /\ \A i \in 1..n + 1 : i \in 1..n \/ i = n + 1
      /\ \A i \in 1..n : i \in 1..n + 1 /\ i # n + 1 /\ i < n + 1
      /\ n + 1 \in 1..n + 1
      /\ 1..n + 1 \subseteq DOMAIN l
  OBVIOUS
<1>2. FirstN(l, n + 1) = FirstN(l, n) \cup {l[n + 1]}
  BY <1>1, Zenon DEF FirstN
<1>3. IsInjective(l) => l[n + 1] \notin FirstN(l, n)
  BY <1>1 DEF FirstN, IsInjective
<1>4. ASSUME NEW a, NEW b
      PROVE  BeforeUpTo(a, b, l, n + 1)
             <=> BeforeUpTo(a, b, l, n) \/ (b = l[n + 1] /\ a \in FirstN(l, n))
  <2>1. ASSUME BeforeUpTo(a, b, l, n + 1)
        PROVE  BeforeUpTo(a, b, l, n) \/ (b = l[n + 1] /\ a \in FirstN(l, n))
    BY <2>1 DEF BeforeUpTo, FirstN
  <2>2. ASSUME BeforeUpTo(a, b, l, n) PROVE BeforeUpTo(a, b, l, n + 1)
    BY <1>1, <2>2, Zenon DEF BeforeUpTo
  <2>3. ASSUME b = l[n + 1], a \in FirstN(l, n) PROVE BeforeUpTo(a, b, l, n + 1)
    BY <1>1, <2>3, Zenon DEF BeforeUpTo, FirstN
  <2> QED BY <2>1, <2>2, <2>3
<1> QED BY <1>2, <1>3, <1>4

LEMMA FirstNAll ==
  ASSUME NEW l \in Seq(Endpoints)
  PROVE  /\ FirstN(l, 0) = {} /\ FirstN(l, Len(l)) = Range(l)
         /\ \A a, b : ~BeforeUpTo(a, b, l, 0)
         /\ \A a, b : BeforeUpTo(a, b, l, Len(l)) <=> Before(a, b, l)
<1>1. DOMAIN l = 1..Len(l) /\ 1..0 = {}
  OBVIOUS
<1> QED BY <1>1 DEF FirstN, BeforeUpTo, Before, Range

\* List.filter keeps the order of what it keeps.
LEMMA FilterFacts ==
  ASSUME NEW l \in Seq(Endpoints), NEW S
  PROVE  LET k == filter(S, l)
         IN  /\ k \in Seq(Endpoints)
             /\ Range(k) = Range(l) \cap S
             /\ IsInjective(l) => IsInjective(k)
             /\ \A a, b : Before(a, b, k) <=> Before(a, b, l) /\ a \in S /\ b \in S
<1>0. PICK kept \in [0..Len(l) -> Seq(Endpoints)] : IsFiltering(kept, l, S)
  BY FilterReads
<1>1. /\ filter(S, l) = kept[Len(l)]
      /\ kept[0] = <<>>
      /\ \A n \in 1..Len(l) :
           kept[n] = IF l[n] \in S THEN Append(kept[n - 1], l[n]) ELSE kept[n - 1]
  BY <1>0 DEF IsFiltering
<1> DEFINE Kept(n) == /\ Range(kept[n]) = FirstN(l, n) \cap S
                      /\ IsInjective(l) => IsInjective(kept[n])
                      /\ \A a, b : Before(a, b, kept[n])
                                   <=> BeforeUpTo(a, b, l, n) /\ a \in S /\ b \in S
           T == {n \in Nat : n <= Len(l) => Kept(n)}
<1>2. 0 \in T
  <2>1. Range(<<>>) = {} /\ IsInjective(<<>>) /\ \A a, b : ~Before(a, b, <<>>)
    BY DEF Range, IsInjective, Before
  <2> QED BY <1>1, <2>1, FirstNAll
<1>3. ASSUME NEW n \in Nat, n \in T PROVE n + 1 \in T
  <2>1. SUFFICES ASSUME n + 1 <= Len(l) PROVE Kept(n + 1)
    OBVIOUS
  <2> DEFINE k == kept[n]
             e == l[n + 1]
  <2>2. /\ k \in Seq(Endpoints) /\ e \in Endpoints /\ Kept(n)
        /\ kept[n + 1] = IF e \in S THEN Append(k, e) ELSE k
    <3>1. n \in 0..Len(l) /\ n + 1 \in 1..Len(l) /\ (n + 1) - 1 = n
      BY <2>1
    <3> QED BY <1>1, <1>3, <2>1, <3>1
  <2>3. /\ FirstN(l, n + 1) = FirstN(l, n) \cup {e}
        /\ IsInjective(l) => e \notin FirstN(l, n)
        /\ \A a, b : BeforeUpTo(a, b, l, n + 1)
                     <=> BeforeUpTo(a, b, l, n) \/ (b = e /\ a \in FirstN(l, n))
    BY <2>1, FirstNStep
  <2>4. CASE e \notin S
    BY <2>2, <2>3, <2>4
  <2>5. CASE e \in S
    <3>1. LET w == Append(k, e)
          IN  /\ Range(w) = Range(k) \cup {e}
              /\ IsInjective(k) /\ e \notin Range(k) => IsInjective(w)
              /\ \A a, b : Before(a, b, w)
                           <=> Before(a, b, k) \/ (b = e /\ a \in Range(k))
      BY <2>2, AppendOrder
    <3> QED BY <2>2, <2>3, <2>5, <3>1
  <2> QED BY <2>4, <2>5
<1>4. \A n \in Nat : n \in T
  <2> HIDE DEF T
  <2> QED BY <1>2, <1>3, SetInduction
<1>5. Len(l) \in Nat
  OBVIOUS
<1>6. Kept(Len(l)) /\ kept[Len(l)] \in Seq(Endpoints)
  BY <1>1, <1>4, <1>5
<1>7. \A a, b : Before(a, b, kept[Len(l)]) <=> Before(a, b, l) /\ a \in S /\ b \in S
  BY <1>6, FirstNAll
<1>8. Range(kept[Len(l)]) = Range(l) \cap S
  BY <1>6, FirstNAll
<1> HIDE DEF T
<1> QED BY <1>1, <1>6, <1>7, <1>8

\* deduplicate keeps every endpoint once.
LEMMA DeduplicateFacts ==
  ASSUME NEW l \in Seq(Endpoints)
  PROVE  LET k == deduplicate(l)
         IN  k \in Seq(Endpoints) /\ Range(k) = Range(l) /\ IsInjective(k)
<1>1. PICK kept \in [0..Len(l) -> Seq(Endpoints)] :
        /\ deduplicate(l) = kept[Len(l)]
        /\ kept[0] = <<>>
        /\ \A n \in 1..Len(l) :
             kept[n] = IF contains(l[n], kept[n - 1]) THEN kept[n - 1]
                       ELSE Append(kept[n - 1], l[n])
  BY DeduplicateReads
<1> DEFINE Kept(n) == Range(kept[n]) = FirstN(l, n) /\ IsInjective(kept[n])
           T == {n \in Nat : n <= Len(l) => Kept(n)}
<1>2. 0 \in T
  <2>1. Range(<<>>) = {} /\ IsInjective(<<>>)
    BY DEF Range, IsInjective
  <2> QED BY <1>1, <2>1, FirstNAll
<1>3. ASSUME NEW n \in Nat, n \in T PROVE n + 1 \in T
  <2>1. SUFFICES ASSUME n + 1 <= Len(l) PROVE Kept(n + 1)
    OBVIOUS
  <2> DEFINE k == kept[n]
             e == l[n + 1]
  <2>2. /\ k \in Seq(Endpoints) /\ e \in Endpoints /\ Kept(n)
        /\ kept[n + 1] = IF contains(e, k) THEN k ELSE Append(k, e)
    <3>1. n \in 0..Len(l) /\ n + 1 \in 1..Len(l) /\ (n + 1) - 1 = n
      BY <2>1
    <3> QED BY <1>1, <1>3, <2>1, <3>1
  <2>3. FirstN(l, n + 1) = FirstN(l, n) \cup {e}
    BY <2>1, FirstNStep
  <2>4. contains(e, k) <=> e \in Range(k)
    BY ContainsIsRange
  <2>5. Range(Append(k, e)) = Range(k) \cup {e}
        /\ (IsInjective(k) /\ e \notin Range(k) => IsInjective(Append(k, e)))
    BY <2>2, AppendOrder
  <2>6. CASE e \in Range(k)
    BY <2>2, <2>3, <2>4, <2>6, Zenon
  <2>7. CASE e \notin Range(k)
    BY <2>2, <2>3, <2>4, <2>5, <2>7, Zenon
  <2> QED BY <2>6, <2>7
<1>4. \A n \in Nat : n \in T
  <2> HIDE DEF T
  <2> QED BY <1>2, <1>3, SetInduction
<1>5. Len(l) \in Nat
  OBVIOUS
<1> QED BY <1>1, <1>4, <1>5, FirstNAll

-----------------------------------------------------------------------------
(* The operations of Pool.                                                 *)

MaybeEndpoint == Endpoints \cup {None}
Pools == [seeds : Seq(Endpoints), discovered : Seq(Endpoints),
          order : Seq(Endpoints), preferred : MaybeEndpoint]

LEMMA RangeOf ==
  ASSUME NEW l \in Seq(Endpoints)
  PROVE  Range(l) \subseteq Endpoints
BY DEF Range

LEMMA BeforeInRange ==
  ASSUME NEW l, NEW a, NEW b, Before(a, b, l)
  PROVE  a \in Range(l) /\ b \in Range(l)
BY DEF Before, Range

LEMMA NotBeforeItself ==
  ASSUME NEW l \in Seq(Endpoints), NEW a, IsInjective(l)
  PROVE  ~Before(a, a, l)
BY DEF Before, IsInjective

LEMMA SingletonOrder ==
  ASSUME NEW x \in Endpoints
  PROVE  /\ << x >> \in Seq(Endpoints) /\ Range(<< x >>) = {x} /\ IsInjective(<< x >>)
         /\ \A a, b : ~Before(a, b, << x >>)
<1>1. << x >> \in Seq(Endpoints) /\ DOMAIN << x >> = {1} /\ << x >>[1] = x
  OBVIOUS
<1> QED BY <1>1 DEF Range, IsInjective, Before

LEMMA WithoutFacts ==
  ASSUME NEW l \in Seq(Endpoints), NEW e
  PROVE  LET k == Without(e, l)
         IN  /\ k \in Seq(Endpoints)
             /\ Range(k) = Range(l) \ {e}
             /\ IsInjective(l) => IsInjective(k)
             /\ \A a, b : Before(a, b, k) <=> Before(a, b, l) /\ a # e /\ b # e
<1> DEFINE S == Range(l) \ {e}
           k == filter(S, l)
<1>1. /\ k \in Seq(Endpoints)
      /\ Range(k) = Range(l) \cap S
      /\ IsInjective(l) => IsInjective(k)
      /\ \A a, b : Before(a, b, k) <=> Before(a, b, l) /\ a \in S /\ b \in S
  <2> HIDE DEF S
  <2> QED BY FilterFacts
<1>2. Without(e, l) = k
  BY DEF Without
<1> QED BY <1>1, <1>2, BeforeInRange

\* The preferred candidate comes first, the others keep their order.
LEMMA KeepPreferredFacts ==
  ASSUME NEW x \in Endpoints, NEW l \in Seq(Endpoints)
  PROVE  LET k == keep_preferred(x, l)
         IN  /\ k \in Seq(Endpoints)
             /\ Range(k) = Range(l) \cup {x}
             /\ IsInjective(l) => IsInjective(k)
             /\ \A a, b : Before(a, b, k)
                          <=> \/ Before(a, b, l) /\ a # x /\ b # x
                              \/ a = x /\ b \in Range(l) \ {x}
<1> DEFINE w == Without(x, l)
           k == << x >> \o w
<1>1. keep_preferred(x, l) = k
  BY SeedsAssumption DEF keep_preferred
<1>2. /\ w \in Seq(Endpoints)
      /\ Range(w) = Range(l) \ {x}
      /\ IsInjective(l) => IsInjective(w)
      /\ \A a, b : Before(a, b, w) <=> Before(a, b, l) /\ a # x /\ b # x
  BY WithoutFacts
<1>3. /\ << x >> \in Seq(Endpoints) /\ Range(<< x >>) = {x} /\ IsInjective(<< x >>)
      /\ \A a, b : ~Before(a, b, << x >>)
  BY SingletonOrder
<1> HIDE DEF w
<1>4. /\ Range(k) = Range(<< x >>) \cup Range(w)
      /\ IsInjective(<< x >>) /\ IsInjective(w) /\ Range(<< x >>) \cap Range(w) = {}
           => IsInjective(k)
      /\ \A a, b : Before(a, b, k)
                   <=> \/ Before(a, b, << x >>) \/ Before(a, b, w)
                       \/ a \in Range(<< x >>) /\ b \in Range(w)
  BY <1>2, <1>3, ConcatOrder
<1>5. k \in Seq(Endpoints)
  BY <1>2
<1> HIDE DEF k
<1>6. Range(k) = Range(l) \cup {x} /\ (IsInjective(l) => IsInjective(k))
  BY <1>2, <1>3, <1>4
<1>7. ASSUME NEW a, NEW b
      PROVE  Before(a, b, k) <=> \/ Before(a, b, l) /\ a # x /\ b # x
                                 \/ a = x /\ b \in Range(l) \ {x}
  BY <1>2, <1>3, <1>4
<1> QED BY <1>1, <1>5, <1>6, <1>7

\* The endpoint goes behind all others, which keep their order.
LEMMA MoveToEndFacts ==
  ASSUME NEW x \in Endpoints, NEW l \in Seq(Endpoints), x \in Range(l)
  PROVE  LET k == move_to_end(x, l)
         IN  /\ k \in Seq(Endpoints)
             /\ Range(k) = Range(l)
             /\ IsInjective(l) => IsInjective(k)
             /\ \A a, b : Before(a, b, k)
                          <=> \/ Before(a, b, l) /\ a # x /\ b # x
                              \/ b = x /\ a \in Range(l) \ {x}
<1> DEFINE w == Without(x, l)
           k == Append(w, x)
<1>1. move_to_end(x, l) = k
  BY ContainsIsRange DEF move_to_end
<1>2. /\ w \in Seq(Endpoints)
      /\ Range(w) = Range(l) \ {x}
      /\ IsInjective(l) => IsInjective(w)
      /\ \A a, b : Before(a, b, w) <=> Before(a, b, l) /\ a # x /\ b # x
  BY WithoutFacts
<1> HIDE DEF w
<1>3. /\ Range(k) = Range(w) \cup {x}
      /\ IsInjective(w) /\ x \notin Range(w) => IsInjective(k)
      /\ \A a, b : Before(a, b, k) <=> Before(a, b, w) \/ (b = x /\ a \in Range(w))
  BY <1>2, AppendOrder
<1>4. k \in Seq(Endpoints)
  BY <1>2
<1> HIDE DEF k
<1>5. Range(k) = Range(l) /\ (IsInjective(l) => IsInjective(k))
  BY <1>2, <1>3
<1>6. ASSUME NEW a, NEW b
      PROVE  Before(a, b, k) <=> \/ Before(a, b, l) /\ a # x /\ b # x
                                 \/ b = x /\ a \in Range(l) \ {x}
  BY <1>2, <1>3
<1> QED BY <1>1, <1>4, <1>5, <1>6

\* What the preferred endpoint adds to the discovered ones.
Retained(p, known, preferred) ==
  IF preferred # None /\ preferred \notin Range(p.seeds) \cup known
  THEN {preferred} ELSE {}

LEMMA RetainFacts ==
  ASSUME NEW p \in Pools, NEW discovered \in Seq(Endpoints), NEW x \in MaybeEndpoint
  PROVE  LET k == retain_preferred(p.seeds, discovered, x)
         IN  /\ k \in Seq(Endpoints)
             /\ Range(k) = Range(discovered) \cup Retained(p, Range(discovered), x)
<1> DEFINE l == p.seeds \o discovered
           k == retain_preferred(p.seeds, discovered, x)
<1>1. p.seeds \in Seq(Endpoints)
  BY DEF Pools
<1>2. Range(l) = Range(p.seeds) \cup Range(discovered)
  BY <1>1, ConcatOrder
<1>3. contains(x, l) <=> x \in Range(p.seeds) \cup Range(discovered)
  BY <1>2, ContainsIsRange
<1> HIDE DEF l
<1>4. CASE x # None /\ x \notin Range(p.seeds) \cup Range(discovered)
  <2>1. x \in Endpoints
    BY <1>4 DEF MaybeEndpoint
  <2>2. k = << x >> \o discovered
    BY <1>3, <1>4 DEF retain_preferred, l
  <2>3. << x >> \in Seq(Endpoints) /\ Range(<< x >>) = {x}
    BY <2>1, SingletonOrder
  <2>4. Range(<< x >> \o discovered) = Range(<< x >>) \cup Range(discovered)
    BY <2>3, ConcatOrder
  <2>5. << x >> \o discovered \in Seq(Endpoints)
    BY <2>3
  <2> HIDE DEF k
  <2>6. Retained(p, Range(discovered), x) = {x}
    BY <1>4 DEF Retained
  <2> QED BY <2>2, <2>3, <2>4, <2>5, <2>6 DEF k
<1>5. CASE ~(x # None /\ x \notin Range(p.seeds) \cup Range(discovered))
  <2>1. k = discovered
    BY <1>3, <1>5 DEF retain_preferred, l
  <2>2. Retained(p, Range(discovered), x) = {}
    BY <1>5, Zenon DEF Retained
  <2> HIDE DEF k
  <2> QED BY <2>1, <2>2 DEF k
<1> QED BY <1>4, <1>5

\* What a rebuilt order owes to the old one.
IsRebuilt(q, p, known, x) ==
  /\ q \in Pools /\ q.seeds = p.seeds /\ q.preferred = x
  /\ Range(q.discovered) = known \cup Retained(p, known, x)
  /\ IsInjective(q.discovered) /\ IsInjective(q.order)
  /\ Range(q.order) = Range(q.seeds) \cup Range(q.discovered)
  /\ \A a, b : Before(a, b, q.order) /\ b \in Range(p.order)
               => Before(a, b, p.order) \/ (x # None /\ a = x)
  /\ \A a, b : /\ Before(a, b, p.order)
               /\ a \in Range(q.order) /\ b \in Range(q.order) /\ b # x
               => Before(a, b, q.order)
  /\ x # None => /\ x \in Range(q.order)
                 /\ \A b \in Range(q.order) \ {x} : Before(x, b, q.order)

LEMMA RebuildFacts ==
  ASSUME NEW p \in Pools, IsInjective(p.order),
         NEW discovered \in Seq(Endpoints), NEW x \in MaybeEndpoint
  PROVE  IsRebuilt(rebuild_order(p, discovered, x), p, Range(discovered), x)
<1> DEFINE q        == rebuild_order(p, discovered, x)
           r        == retain_preferred(p.seeds, discovered, x)
           disc     == deduplicate(r)
           both     == p.seeds \o disc
           all      == deduplicate(both)
           A        == Range(all)
           existing == filter(A, p.order)
           B        == A \ Range(existing)
           added    == filter(B, all)
           l        == existing \o added
           o        == keep_preferred(x, l)
<1>1. q = [seeds |-> p.seeds, discovered |-> disc, order |-> o, preferred |-> x]
  BY DEF rebuild_order
<1>2. p.seeds \in Seq(Endpoints) /\ p.order \in Seq(Endpoints)
  BY DEF Pools
<1>3. /\ r \in Seq(Endpoints)
      /\ Range(r) = Range(discovered) \cup Retained(p, Range(discovered), x)
  BY RetainFacts
<1> HIDE DEF r
<1>4. disc \in Seq(Endpoints) /\ Range(disc) = Range(r) /\ IsInjective(disc)
  BY <1>3, DeduplicateFacts
<1> HIDE DEF disc
<1>5. both \in Seq(Endpoints) /\ Range(both) = Range(p.seeds) \cup Range(disc)
  <2>1. both \in Seq(Endpoints)
    BY <1>2, <1>4
  <2> QED BY <1>2, <1>4, <2>1, ConcatOrder
<1> HIDE DEF both
<1>6. all \in Seq(Endpoints) /\ Range(all) = Range(both) /\ IsInjective(all)
  BY <1>5, DeduplicateFacts
<1> HIDE DEF all
<1>7. A = Range(p.seeds) \cup Range(disc)
  BY <1>5, <1>6
<1> HIDE DEF A
<1>8. /\ existing \in Seq(Endpoints)
      /\ Range(existing) = Range(p.order) \cap A
      /\ IsInjective(existing)
      /\ \A a, b : Before(a, b, existing) <=> Before(a, b, p.order) /\ a \in A /\ b \in A
  BY <1>2, FilterFacts
<1> HIDE DEF existing
<1>9. added \in Seq(Endpoints) /\ Range(added) = A \cap B /\ IsInjective(added)
  <2> HIDE DEF B
  <2> QED BY <1>6, FilterFacts DEF A
<1> HIDE DEF added
<1>10. Range(added) = A \ Range(p.order)
  BY <1>8, <1>9
<1>11. l \in Seq(Endpoints)
  BY <1>8, <1>9
<1>12. /\ Range(l) = Range(existing) \cup Range(added)
       /\ IsInjective(existing) /\ IsInjective(added)
            /\ Range(existing) \cap Range(added) = {} => IsInjective(l)
       /\ \A a, b : Before(a, b, l)
                    <=> \/ Before(a, b, existing) \/ Before(a, b, added)
                        \/ a \in Range(existing) /\ b \in Range(added)
  BY <1>8, <1>9, ConcatOrder
<1> HIDE DEF l
<1>13. Range(l) = A /\ IsInjective(l)
  BY <1>8, <1>9, <1>10, <1>12
<1>14. ASSUME NEW a, NEW b, Before(a, b, l), b \in Range(p.order)
       PROVE  Before(a, b, p.order)
  <2>1. b \notin Range(added)
    BY <1>10, <1>14
  <2>2. Before(a, b, existing)
    BY <1>12, <1>14, <2>1, BeforeInRange
  <2> QED BY <1>8, <2>2
<1>15. ASSUME NEW a, NEW b, Before(a, b, p.order), a \in A, b \in A
       PROVE  Before(a, b, l)
  BY <1>8, <1>12, <1>15
<1>16. CASE x = None
  <2>1. o = l
    BY <1>16 DEF keep_preferred
  <2> HIDE DEF o, q
  <2>2. q.seeds = p.seeds /\ q.discovered = disc /\ q.order = l /\ q.preferred = x
        /\ q \in Pools
    BY <1>1, <1>2, <1>4, <1>11, <2>1 DEF Pools
  <2>3. IsRebuilt(q, p, Range(discovered), x)
    BY <1>3, <1>4, <1>7, <1>13, <1>14, <1>15, <1>16, <2>2, Zenon DEF IsRebuilt
  <2> QED BY <2>3 DEF q
<1>17. CASE x # None
  <2>1. x \in Endpoints
    BY <1>17 DEF MaybeEndpoint
  <2>2. /\ o \in Seq(Endpoints)
        /\ Range(o) = Range(l) \cup {x}
        /\ IsInjective(l) => IsInjective(o)
        /\ \A a, b : Before(a, b, o)
                     <=> \/ Before(a, b, l) /\ a # x /\ b # x
                         \/ a = x /\ b \in Range(l) \ {x}
    BY <1>11, <2>1, KeepPreferredFacts
  <2> HIDE DEF o, q
  <2>3. q.seeds = p.seeds /\ q.discovered = disc /\ q.order = o /\ q.preferred = x
        /\ q \in Pools
    BY <1>1, <1>2, <1>4, <2>2 DEF Pools
  <2>4. x \in A
    BY <1>3, <1>4, <1>7, <1>17 DEF Retained
  <2>5. Range(o) = A /\ IsInjective(o)
    BY <1>13, <2>2, <2>4
  <2>6. ASSUME NEW a, NEW b, Before(a, b, o), b \in Range(p.order)
        PROVE  Before(a, b, p.order) \/ a = x
    BY <1>14, <2>2, <2>6
  <2>7. ASSUME NEW a, NEW b, Before(a, b, p.order), a \in A, b \in A, b # x
        PROVE  Before(a, b, o)
    BY <1>13, <1>15, <2>2, <2>7
  <2>8. \A b \in A \ {x} : Before(x, b, o)
    BY <1>13, <2>2
  <2>9. IsRebuilt(q, p, Range(discovered), x)
    BY <1>3, <1>4, <1>7, <1>17, <2>3, <2>4, <2>5, <2>6, <2>7, <2>8, Zenon DEF IsRebuilt
  <2> QED BY <2>9 DEF q
<1> QED BY <1>16, <1>17

\* A pool as every operation leaves it: the order is a permutation of what is
\* known, and the preferred candidate, if there is one, is its first.
GoodPool(p) ==
  /\ p \in Pools
  /\ Range(p.order) = Range(p.seeds) \cup Range(p.discovered)
  /\ IsInjective(p.order) /\ IsInjective(p.discovered)
  /\ Range(p.seeds) \cap Range(p.discovered) = {}
  /\ p.preferred # None =>
       /\ p.preferred \in Range(p.order)
       /\ \A b \in Range(p.order) \ {p.preferred} : Before(p.preferred, b, p.order)

LEMMA RebuiltIsGood ==
  ASSUME NEW p \in Pools, NEW known, NEW x \in MaybeEndpoint, NEW q,
         IsRebuilt(q, p, known, x), Range(p.seeds) \cap known = {}
  PROVE  GoodPool(q)
<1>1. Range(q.seeds) \cap Range(q.discovered) = {}
  BY DEF IsRebuilt, Retained
<1> QED BY <1>1, Zenon DEF IsRebuilt, GoodPool

LEMMA BeyondSeedsFacts ==
  ASSUME NEW p \in Pools, NEW urls \in Seq(Endpoints)
  PROVE  LET k == beyond_seeds(p, urls)
         IN  k \in Seq(Endpoints) /\ Range(k) = Range(urls) \ Range(p.seeds)
<1> DEFINE S == Range(urls) \ Range(p.seeds)
           d == deduplicate(urls)
           k == filter(S, d)
<1>1. d \in Seq(Endpoints) /\ Range(d) = Range(urls)
  BY DeduplicateFacts
<1> HIDE DEF d
<1>2. k \in Seq(Endpoints) /\ Range(k) = Range(d) \cap S
  <2> HIDE DEF S
  <2> QED BY <1>1, FilterFacts
<1>3. beyond_seeds(p, urls) = k
  BY DEF beyond_seeds, d
<1> QED BY <1>1, <1>2, <1>3

\* INFO keeps every seed, keeps the preferred candidate first, and puts no
\* candidate in front of one that was already known.
LEMMA UpdateFacts ==
  ASSUME NEW p, GoodPool(p), NEW urls \in Seq(Endpoints)
  PROVE  LET q == update_discovered(p, urls)
         IN  /\ GoodPool(q) /\ q.seeds = p.seeds /\ q.preferred = p.preferred
             /\ \A a, b : Before(a, b, q.order) /\ b \in Range(p.order)
                          => Before(a, b, p.order) \/ (p.preferred # None /\ a = p.preferred)
<1> DEFINE k == beyond_seeds(p, urls)
           q == rebuild_order(p, k, p.preferred)
<1>1. p \in Pools /\ p.preferred \in MaybeEndpoint /\ IsInjective(p.order)
  BY DEF GoodPool, Pools
<1>2. CASE urls = <<>>
  BY <1>2 DEF update_discovered
<1>3. CASE urls # <<>>
  <2>1. update_discovered(p, urls) = q
    BY <1>3 DEF update_discovered
  <2>2. k \in Seq(Endpoints) /\ Range(k) = Range(urls) \ Range(p.seeds)
    BY <1>1, BeyondSeedsFacts
  <2> HIDE DEF k
  <2>3. IsRebuilt(q, p, Range(k), p.preferred)
    BY <1>1, <2>2, RebuildFacts
  <2> HIDE DEF q
  <2>4. GoodPool(q)
    <3>1. Range(p.seeds) \cap Range(k) = {}
      BY <2>2
    <3> QED BY <1>1, <2>3, <3>1, RebuiltIsGood
  <2> QED BY <2>1, <2>3, <2>4, Zenon DEF IsRebuilt
<1> QED BY <1>2, <1>3

\* A success makes a known candidate the first; the others keep their order.
LEMMA ConnectedFacts ==
  ASSUME NEW p, GoodPool(p), NEW x \in Range(p.order)
  PROVE  LET q == connected(p, x)
         IN  /\ GoodPool(q) /\ q.seeds = p.seeds /\ q.preferred = x
             /\ Range(q.order) = Range(p.order)
             /\ \A a, b : Before(a, b, q.order) => Before(a, b, p.order) \/ a = x
<1> DEFINE q == rebuild_order(p, p.discovered, x)
<1>1. /\ p \in Pools /\ IsInjective(p.order) /\ p.discovered \in Seq(Endpoints)
      /\ p.order \in Seq(Endpoints) /\ Range(p.seeds) \cap Range(p.discovered) = {}
      /\ Range(p.order) = Range(p.seeds) \cup Range(p.discovered)
  BY DEF GoodPool, Pools
<1>2. x \in MaybeEndpoint /\ x # None
  BY <1>1, SeedsAssumption DEF Range, MaybeEndpoint
<1>3. IsRebuilt(q, p, Range(p.discovered), x)
  BY <1>1, <1>2, RebuildFacts
<1>4. connected(p, x) = q
  BY DEF connected
<1> HIDE DEF q
<1>5. GoodPool(q)
  BY <1>1, <1>2, <1>3, RebuiltIsGood
<1>6. Range(q.order) = Range(p.order)
  <2>1. Retained(p, Range(p.discovered), x) = {}
    BY <1>1 DEF Retained
  <2> QED BY <1>1, <1>3, <2>1 DEF IsRebuilt
<1>7. ASSUME NEW a, NEW b, Before(a, b, q.order)
      PROVE  Before(a, b, p.order) \/ a = x
  <2>1. b \in Range(p.order)
    BY <1>6, <1>7, BeforeInRange
  <2> QED BY <1>3, <1>7, <2>1, Zenon DEF IsRebuilt
<1> QED BY <1>3, <1>4, <1>5, <1>6, <1>7, Zenon DEF IsRebuilt

\* Bringing the pool up to date before a failure is recorded changes no order.
LEMMA RefreshFacts ==
  ASSUME NEW p, GoodPool(p)
  PROVE  LET q == update_discovered(p, p.discovered)
         IN  /\ GoodPool(q) /\ q.seeds = p.seeds /\ q.preferred = p.preferred
             /\ Range(q.order) = Range(p.order)
             /\ \A a, b : Before(a, b, q.order) <=> Before(a, b, p.order)
<1> DEFINE k == beyond_seeds(p, p.discovered)
           q == rebuild_order(p, k, p.preferred)
<1>1. /\ p \in Pools /\ p.preferred \in MaybeEndpoint /\ IsInjective(p.order)
      /\ p.discovered \in Seq(Endpoints) /\ p.order \in Seq(Endpoints)
      /\ Range(p.seeds) \cap Range(p.discovered) = {}
      /\ Range(p.order) = Range(p.seeds) \cup Range(p.discovered)
  BY DEF GoodPool, Pools
<1>2. CASE p.discovered = <<>>
  BY <1>2 DEF update_discovered
<1>3. CASE p.discovered # <<>>
  <2>1. update_discovered(p, p.discovered) = q
    BY <1>3 DEF update_discovered
  <2>2. k \in Seq(Endpoints) /\ Range(k) = Range(p.discovered)
    BY <1>1, BeyondSeedsFacts
  <2> HIDE DEF k
  <2>3. IsRebuilt(q, p, Range(k), p.preferred)
    BY <1>1, <2>2, RebuildFacts
  <2> HIDE DEF q
  <2>4. GoodPool(q)
    BY <1>1, <2>2, <2>3, RebuiltIsGood
  <2>5. Range(q.order) = Range(p.order)
    <3>1. Retained(p, Range(k), p.preferred) = {}
      BY <1>1, <2>2 DEF Retained, GoodPool
    <3> QED BY <1>1, <2>2, <2>3, <3>1 DEF IsRebuilt
  <2>6. ASSUME NEW a, NEW b, Before(a, b, q.order)
        PROVE  Before(a, b, p.order)
    <3>1. a \in Range(p.order) /\ b \in Range(p.order)
      BY <2>5, <2>6, BeforeInRange
    <3>2. Before(a, b, p.order) \/ (p.preferred # None /\ a = p.preferred)
      BY <2>3, <2>6, <3>1, Zenon DEF IsRebuilt
    <3>3. CASE p.preferred # None /\ a = p.preferred
      <4>1. IsInjective(q.order) /\ q.order \in Seq(Endpoints)
        BY <2>4 DEF GoodPool, Pools
      <4>2. a # b
        BY <2>6, <4>1, NotBeforeItself
      <4> QED BY <3>1, <3>3, <4>2, Zenon DEF GoodPool
    <3> QED BY <3>2, <3>3
  <2>7. ASSUME NEW a, NEW b, Before(a, b, p.order)
        PROVE  Before(a, b, q.order)
    <3>1. a \in Range(q.order) /\ b \in Range(q.order)
      BY <2>5, <2>7, BeforeInRange
    <3>2. CASE b # p.preferred
      BY <2>3, <2>7, <3>1, <3>2, Zenon DEF IsRebuilt
    <3>3. CASE b = p.preferred
      <4>1. a # b
        BY <1>1, <2>7, NotBeforeItself
      <4>2. b # None
        BY <1>1, <2>5, <3>1, RangeOf, SeedsAssumption
      <4>3. Before(b, a, p.order)
        BY <2>5, <3>1, <3>3, <4>1, <4>2 DEF GoodPool
      <4> QED BY <1>1, <2>7, <4>3 DEF Before, IsInjective
    <3> QED BY <3>2, <3>3
  <2> QED BY <2>1, <2>3, <2>4, <2>5, <2>6, <2>7, Zenon DEF IsRebuilt
<1> QED BY <1>2, <1>3

\* A failed candidate goes behind all others, which keep their order.
LEMMA FailedFacts ==
  ASSUME NEW p, GoodPool(p), NEW x \in Range(p.order),
         p.preferred \in {None, x}
  PROVE  LET q == failed(p, x)
         IN  /\ GoodPool(q) /\ q.seeds = p.seeds /\ q.preferred = None
             /\ Range(q.order) = Range(p.order)
             /\ \A a, b : Before(a, b, q.order)
                          <=> \/ Before(a, b, p.order) /\ a # x /\ b # x
                              \/ b = x /\ a \in Range(p.order) \ {x}
<1> DEFINE r == update_discovered(p, p.discovered)
           m == move_to_end(x, r.order)
           q == failed(p, x)
<1>1. /\ GoodPool(r) /\ r.seeds = p.seeds /\ r.preferred = p.preferred
      /\ Range(r.order) = Range(p.order)
      /\ \A a, b : Before(a, b, r.order) <=> Before(a, b, p.order)
  BY RefreshFacts
<1>2. q = [r EXCEPT !.order = IF contains(x, base(r)) THEN move_to_end(x, @)
                              ELSE Without(x, @),
                    !.preferred = preferred_after(@, x)]
  BY DEF failed
<1> HIDE DEF r
<1>3. /\ r \in Pools /\ r.order \in Seq(Endpoints) /\ r.seeds \in Seq(Endpoints)
      /\ r.discovered \in Seq(Endpoints) /\ x \in Endpoints /\ IsInjective(r.order)
      /\ Range(r.order) = Range(r.seeds) \cup Range(r.discovered)
  <2>1. p.order \in Seq(Endpoints)
    BY DEF GoodPool, Pools
  <2>2. x \in Endpoints
    BY <2>1, RangeOf
  <2> QED BY <1>1, <2>2, Zenon DEF GoodPool, Pools
<1>4. contains(x, base(r))
  <2> DEFINE l == r.seeds \o r.discovered
  <2>1. l \in Seq(Endpoints) /\ Range(l) = Range(r.order)
    BY <1>3, ConcatOrder
  <2> HIDE DEF l
  <2>2. Range(deduplicate(l)) = Range(l)
    BY <2>1, DeduplicateFacts
  <2>3. base(r) = deduplicate(l)
    BY DEF base, l
  <2> QED BY <1>1, <2>1, <2>2, <2>3, ContainsIsRange
<1>5. /\ m \in Seq(Endpoints)
      /\ Range(m) = Range(r.order)
      /\ IsInjective(r.order) => IsInjective(m)
      /\ \A a, b : Before(a, b, m)
                   <=> \/ Before(a, b, r.order) /\ a # x /\ b # x
                       \/ b = x /\ a \in Range(r.order) \ {x}
  BY <1>1, <1>3, MoveToEndFacts
<1>6. preferred_after(r.preferred, x) = None
  BY <1>1 DEF preferred_after
<1>7. q = [r EXCEPT !.order = m, !.preferred = None]
  <2> HIDE DEF m
  <2> QED BY <1>2, <1>4, <1>6 DEF m
<1> HIDE DEF q, m
<1>8. /\ q \in Pools /\ q.seeds = r.seeds /\ q.discovered = r.discovered
      /\ q.order = m /\ q.preferred = None
  BY <1>3, <1>5, <1>7 DEF Pools, MaybeEndpoint
<1>9. GoodPool(q)
  BY <1>1, <1>3, <1>5, <1>8, Zenon DEF GoodPool
<1>10. Range(q.order) = Range(p.order)
  BY <1>1, <1>5, <1>8
<1>11. \A a, b : Before(a, b, q.order)
                 <=> \/ Before(a, b, p.order) /\ a # x /\ b # x
                     \/ b = x /\ a \in Range(p.order) \ {x}
  BY <1>1, <1>5, <1>8
<1> QED BY <1>1, <1>8, <1>9, <1>10, <1>11 DEF q

-----------------------------------------------------------------------------
(* The inductive invariant.                                                *)

\* The candidates dialled before e in a pass over l.
Ahead(e, l) == {a \in Endpoints : Before(a, e, l)}

PoolInv ==
  /\ GoodPool(pool)
  /\ Range(pool.seeds) = Range(Seeds)
  /\ pool.preferred = current

\* What remains of a pass is known; once connected it is in the dial order,
\* and it is empty while the connection is up.
PassInv ==
  /\ pass \in Seq(Endpoints) /\ IsInjective(pass)
  /\ Range(pass) \subseteq Range(pool.order)
  /\ ~established => Range(pass) \subseteq Range(pool.seeds)
  /\ established /\ current # None => pass = <<>>
  /\ established =>
       \A i, j \in DOMAIN pass : i < j => Before(pass[i], pass[j], pool.order)

\* A candidate has been passed over at most once for every endpoint that does
\* not stand before it. What the pass under way, or the connection that is up,
\* may still take from it is paid for in advance.
Allowance(e) ==
  Cardinality(Endpoints)
    - IF e \in Range(pass) \/ (current # None /\ e # current) THEN 0 ELSE 1

TurnInv ==
  /\ established \in BOOLEAN
  /\ skipped \in [Endpoints -> Nat]
  /\ ~established => \A e \in Endpoints : skipped[e] = 0
  /\ current # None => skipped[current] = 0
  /\ \A e \in Endpoints : e \notin Range(pool.order) => skipped[e] = 0
  /\ \A e \in Range(pool.order) :
       skipped[e] + Cardinality(Ahead(e, pool.order)) <= Allowance(e)

Inv == PoolInv /\ PassInv /\ TurnInv

LEMMA EndpointsFinite ==
  IsFiniteSet(Endpoints) /\ Cardinality(Endpoints) \in Nat
BY EndpointsAssumption, FS_CardinalityType

LEMMA AheadFinite ==
  ASSUME NEW l, NEW e
  PROVE  IsFiniteSet(Ahead(e, l)) /\ Cardinality(Ahead(e, l)) \in Nat
<1>1. Ahead(e, l) \in SUBSET Endpoints
  BY DEF Ahead
<1> HIDE DEF Ahead
<1> QED BY <1>1, EndpointsFinite, FS_Subset, FS_CardinalityType

\* Everyone but the candidate itself may stand before it.
LEMMA AheadBound ==
  ASSUME NEW l \in Seq(Endpoints), IsInjective(l), NEW e \in Endpoints
  PROVE  Cardinality(Ahead(e, l)) <= Cardinality(Endpoints) - 1
<1>1. Ahead(e, l) \in SUBSET (Endpoints \ {e})
  BY NotBeforeItself DEF Ahead
<1>2. /\ IsFiniteSet(Endpoints \ {e})
      /\ Cardinality(Endpoints \ {e}) = Cardinality(Endpoints) - 1
  BY EndpointsFinite, FS_RemoveElement
<1>3. Cardinality(Ahead(e, l)) <= Cardinality(Endpoints \ {e})
  <2> HIDE DEF Ahead
  <2> QED BY <1>1, <1>2, FS_Subset
<1> QED BY <1>2, <1>3

LEMMA AheadFewer ==
  ASSUME NEW l, NEW k, NEW e, Ahead(e, k) \subseteq Ahead(e, l)
  PROVE  Cardinality(Ahead(e, k)) <= Cardinality(Ahead(e, l))
<1>1. Ahead(e, k) \in SUBSET Ahead(e, l)
  OBVIOUS
<1> HIDE DEF Ahead
<1> QED BY <1>1, AheadFinite, FS_Subset

\* One that stood before e does no longer.
LEMMA AheadOneFewer ==
  ASSUME NEW l, NEW k, NEW e, NEW x \in Ahead(e, l),
         Ahead(e, k) \subseteq Ahead(e, l) \ {x}
  PROVE  Cardinality(Ahead(e, k)) <= Cardinality(Ahead(e, l)) - 1
<1>1. Ahead(e, k) \in SUBSET (Ahead(e, l) \ {x})
  OBVIOUS
<1> HIDE DEF Ahead
<1>2. /\ IsFiniteSet(Ahead(e, l) \ {x})
      /\ Cardinality(Ahead(e, l) \ {x}) = Cardinality(Ahead(e, l)) - 1
  BY AheadFinite, FS_RemoveElement
<1>3. Cardinality(Ahead(e, k)) <= Cardinality(Ahead(e, l) \ {x})
  BY <1>1, <1>2, FS_Subset
<1> QED BY <1>2, <1>3

\* At most one more stands before e.
LEMMA AheadOneMore ==
  ASSUME NEW l, NEW k, NEW e, NEW x, Ahead(e, k) \subseteq Ahead(e, l) \cup {x}
  PROVE  Cardinality(Ahead(e, k)) <= Cardinality(Ahead(e, l)) + 1
<1>1. Ahead(e, k) \in SUBSET (Ahead(e, l) \cup {x})
  OBVIOUS
<1> HIDE DEF Ahead
<1>2. IsFiniteSet(Ahead(e, l)) /\ Cardinality(Ahead(e, l)) \in Nat
  BY AheadFinite
<1>3. /\ IsFiniteSet(Ahead(e, l) \cup {x})
      /\ Cardinality(Ahead(e, l) \cup {x}) <= Cardinality(Ahead(e, l)) + 1
  <2> DEFINE A == Ahead(e, l)
  <2>1. /\ IsFiniteSet(A \cup {x})
        /\ Cardinality(A \cup {x})
             = IF x \in A THEN Cardinality(A) ELSE Cardinality(A) + 1
    <3> HIDE DEF A
    <3> QED BY <1>2, FS_AddElement DEF A
  <2> QED BY <1>2, <2>1
<1>4. Cardinality(Ahead(e, k)) <= Cardinality(Ahead(e, l) \cup {x})
  BY <1>1, <1>3, FS_Subset
<1>5. Cardinality(Ahead(e, k)) \in Nat /\ Cardinality(Ahead(e, l) \cup {x}) \in Nat
  BY <1>3, AheadFinite, FS_CardinalityType
<1> QED BY <1>2, <1>3, <1>4, <1>5

LEMMA TailFacts ==
  ASSUME NEW l \in Seq(Endpoints), l # <<>>, IsInjective(l)
  PROVE  /\ Tail(l) \in Seq(Endpoints) /\ IsInjective(Tail(l))
         /\ Head(l) \in Range(l) /\ Range(Tail(l)) = Range(l) \ {Head(l)}
         /\ \A i, j \in DOMAIN Tail(l) : i < j =>
              /\ i + 1 \in DOMAIN l /\ j + 1 \in DOMAIN l
              /\ Tail(l)[i] = l[i + 1] /\ Tail(l)[j] = l[j + 1]
<1> DEFINE n == Len(l)
           t == Tail(l)
<1>1. /\ n \in Nat /\ n > 0 /\ DOMAIN l = 1..n /\ DOMAIN t = 1..n - 1
      /\ Head(l) = l[1] /\ t \in Seq(Endpoints)
      /\ \A i \in 1..n - 1 : t[i] = l[i + 1] /\ i + 1 \in 1..n
  OBVIOUS
<1> HIDE DEF n, t
<1>2. \A i, j \in 1..n : l[i] = l[j] => i = j
  BY <1>1 DEF IsInjective
<1>3. IsInjective(t)
  BY <1>1, <1>2 DEF IsInjective
<1>4. Range(t) = Range(l) \ {l[1]}
  <2>1. ASSUME NEW i \in 1..n, i # 1 PROVE i - 1 \in 1..n - 1 /\ t[i - 1] = l[i]
    <3>1. i - 1 \in 1..n - 1 /\ (i - 1) + 1 = i
      BY <1>1, <2>1
    <3> QED BY <1>1, <3>1
  <2>2. ASSUME NEW i \in 1..n - 1 PROVE t[i] \in Range(l) /\ t[i] # l[1]
    <3>1. i + 1 \in 1..n /\ 1 \in 1..n /\ i + 1 # 1
      BY <1>1
    <3> QED BY <1>1, <1>2, <3>1 DEF Range
  <2>3. ASSUME NEW e \in Range(l), e # l[1] PROVE e \in Range(t)
    <3>1. PICK i \in 1..n : l[i] = e
      BY <1>1, <2>3 DEF Range
    <3>2. i - 1 \in 1..n - 1 /\ t[i - 1] = e
      BY <2>1, <2>3, <3>1
    <3> QED BY <1>1, <3>2 DEF Range
  <2>4. ASSUME NEW e \in Range(t) PROVE e \in Range(l) \ {l[1]}
    <3>1. PICK i \in 1..n - 1 : t[i] = e
      BY <1>1, <2>4 DEF Range
    <3> QED BY <2>2, <3>1
  <2> QED BY <2>3, <2>4
<1>5. l[1] \in Range(l)
  BY <1>1 DEF Range
<1> QED BY <1>1, <1>3, <1>4, <1>5 DEF t

LEMMA AdvertisementIsSequence ==
  ASSUME NEW urls \in Advertisements
  PROVE  urls \in Seq(Endpoints)
<1>1. PICK n \in 0..MaxAdvertised : urls \in [1..n -> Endpoints]
  BY DEF Advertisements
<1>2. n \in Nat
  BY EndpointsAssumption
<1> QED BY <1>1, <1>2

LEMMA InitInv == Init => Inv
<1> SUFFICES ASSUME Init PROVE Inv
  OBVIOUS
<1> DEFINE s == deduplicate(Seeds)
<1>1. s \in Seq(Endpoints) /\ Range(s) = Range(Seeds) /\ IsInjective(s)
  BY SeedsAssumption, DeduplicateFacts
<1>2. /\ pool = [seeds |-> s, discovered |-> <<>>, order |-> s, preferred |-> None]
      /\ established = FALSE /\ current = None /\ pass = s
      /\ skipped = [e \in Endpoints |-> 0]
  BY DEF Init, v
<1> HIDE DEF s
<1>3. Range(<<>>) = {} /\ IsInjective(<<>>) /\ <<>> \in Seq(Endpoints)
  BY DEF Range, IsInjective
<1>4. /\ pool.seeds = s /\ pool.discovered = <<>> /\ pool.order = s
      /\ pool.preferred = None /\ pool \in Pools
  BY <1>1, <1>2, <1>3 DEF Pools, MaybeEndpoint
<1>5. PoolInv
  BY <1>1, <1>2, <1>3, <1>4 DEF PoolInv, GoodPool
<1>6. PassInv
  BY <1>1, <1>2, <1>4 DEF PassInv
<1>7. TurnInv
  <2>1. ASSUME NEW e \in Range(s)
        PROVE  skipped[e] + Cardinality(Ahead(e, s)) <= Allowance(e)
    <3>1. e \in Endpoints
      BY <1>1, RangeOf
    <3>2. Cardinality(Ahead(e, s)) <= Cardinality(Endpoints) - 1
      BY <1>1, <3>1, AheadBound
    <3>3. Allowance(e) = Cardinality(Endpoints)
      BY <1>2, <2>1, EndpointsFinite DEF Allowance
    <3>4. skipped[e] = 0
      BY <1>2, <3>1
    <3> QED BY <3>2, <3>3, <3>4, EndpointsFinite, AheadFinite
  <2> QED BY <1>2, <1>4, <2>1, Zenon DEF TurnInv
<1> QED BY <1>5, <1>6, <1>7 DEF Inv

\* What every proof about a step starts from.
LEMMA KnownTyped ==
  ASSUME Inv
  PROVE  /\ pool.order \in Seq(Endpoints) /\ IsInjective(pool.order)
         /\ Range(pool.order) \subseteq Endpoints
         /\ current \in MaybeEndpoint /\ (current # None => current \in Range(pool.order))
         /\ None \notin Endpoints
         /\ \A e \in Endpoints :
              /\ skipped[e] \in Nat /\ Cardinality(Ahead(e, pool.order)) \in Nat
              /\ Cardinality(Ahead(e, pool.order)) <= Cardinality(Endpoints) - 1
         /\ Cardinality(Endpoints) \in Nat
<1>1. /\ pool.order \in Seq(Endpoints) /\ IsInjective(pool.order)
      /\ current \in MaybeEndpoint /\ (current # None => current \in Range(pool.order))
  BY DEF Inv, PoolInv, GoodPool, Pools
<1>2. \A e \in Endpoints : Cardinality(Ahead(e, pool.order)) <= Cardinality(Endpoints) - 1
  BY <1>1, AheadBound
<1>3. Range(pool.order) \subseteq Endpoints
  BY <1>1, RangeOf
<1>4. \A e \in Endpoints : skipped[e] \in Nat
  BY DEF Inv, TurnInv
<1> QED BY <1>1, <1>2, <1>3, <1>4, AheadFinite, EndpointsFinite, SeedsAssumption

\* A new pass counts against everyone in it, and everyone may pay for it.
LEMMA BeginPassStep == Inv /\ BeginPass => Inv'
<1> SUFFICES ASSUME Inv, BeginPass PROVE Inv'
  OBVIOUS
<1>1. /\ established /\ current = None /\ pass = <<>> /\ pass' = pool.order
      /\ skipped' = [e \in Endpoints |-> IF contains(e, pool.order)
                                         THEN skipped[e] + 1 ELSE 0]
      /\ pool' = pool /\ established' = established /\ current' = current
  BY DEF BeginPass
<1>2. PoolInv'
  BY <1>1 DEF Inv, PoolInv
<1>3. PassInv'
  <2>1. \A i, j \in DOMAIN pool.order : i < j => Before(pool.order[i], pool.order[j], pool.order)
    BY DEF Before
  <2> QED BY <1>1, <2>1, KnownTyped, Zenon DEF PassInv
<1>4. TurnInv'
  <2>1. \A e \in Endpoints : contains(e, pool.order) <=> e \in Range(pool.order)
    BY ContainsIsRange
  <2>2. ASSUME NEW e \in Range(pool.order)
        PROVE  skipped'[e] + Cardinality(Ahead(e, pool.order)) <= Allowance(e)'
    <3>1. e \in Endpoints /\ skipped[e] \in Nat
          /\ Cardinality(Ahead(e, pool.order)) \in Nat /\ Cardinality(Endpoints) \in Nat
      BY KnownTyped
    <3>2. skipped'[e] = skipped[e] + 1
      BY <1>1, <2>1, <3>1
    <3>3. Range(pass) = {}
      BY <1>1 DEF Range
    <3>4. Allowance(e) = Cardinality(Endpoints) - 1
      BY <1>1, <3>3 DEF Allowance
    <3>5. Allowance(e)' = Cardinality(Endpoints)
      BY <1>1, <3>1 DEF Allowance
    <3>6. skipped[e] + Cardinality(Ahead(e, pool.order)) <= Allowance(e)
      BY DEF Inv, TurnInv
    <3> QED BY <3>1, <3>2, <3>4, <3>5, <3>6
  <2>3. skipped' \in [Endpoints -> Nat]
    BY <1>1, KnownTyped
  <2>4. \A e \in Endpoints : e \notin Range(pool.order) => skipped'[e] = 0
    BY <1>1, <2>1
  <2>5. established' \in BOOLEAN /\ established' /\ current' = None /\ pool' = pool
    BY <1>1 DEF Inv, TurnInv
  <2> QED BY <2>2, <2>3, <2>4, <2>5, Zenon DEF TurnInv
<1> QED BY <1>2, <1>3, <1>4 DEF Inv

\* Recording a failure of x.
LEMMA FailedOrder ==
  ASSUME Inv, NEW x \in Range(pool.order), current \in {None, x}, pool' = failed(pool, x)
  PROVE  /\ GoodPool(pool') /\ pool'.seeds = pool.seeds /\ pool'.preferred = None
         /\ Range(pool'.order) = Range(pool.order)
         /\ \A a, b : Before(a, b, pool'.order)
                      <=> \/ Before(a, b, pool.order) /\ a # x /\ b # x
                          \/ b = x /\ a \in Range(pool.order) \ {x}
         /\ \A e \in Endpoints \ {x} :
              /\ Ahead(e, pool'.order) = Ahead(e, pool.order) \ {x}
              /\ Cardinality(Ahead(e, pool'.order)) <= Cardinality(Ahead(e, pool.order))
         /\ \A e \in Endpoints :
              /\ Cardinality(Ahead(e, pool'.order)) \in Nat
              /\ Cardinality(Ahead(e, pool'.order)) <= Cardinality(Endpoints) - 1
<1>1. GoodPool(pool) /\ pool.preferred \in {None, x}
  BY DEF Inv, PoolInv
<1>2. /\ GoodPool(pool') /\ pool'.seeds = pool.seeds /\ pool'.preferred = None
      /\ Range(pool'.order) = Range(pool.order)
      /\ \A a, b : Before(a, b, pool'.order)
                   <=> \/ Before(a, b, pool.order) /\ a # x /\ b # x
                       \/ b = x /\ a \in Range(pool.order) \ {x}
  BY <1>1, FailedFacts
<1>3. ASSUME NEW e \in Endpoints \ {x}
      PROVE  Ahead(e, pool'.order) = Ahead(e, pool.order) \ {x}
  BY <1>2 DEF Ahead
<1>4. ASSUME NEW e \in Endpoints \ {x}
      PROVE  Cardinality(Ahead(e, pool'.order)) <= Cardinality(Ahead(e, pool.order))
  BY <1>3, AheadFewer
<1>5. pool'.order \in Seq(Endpoints) /\ IsInjective(pool'.order)
  BY <1>2 DEF GoodPool, Pools
<1> QED BY <1>2, <1>3, <1>4, <1>5, AheadBound, AheadFinite

\* The candidate that failed starts again at the end; nobody else moves back.
LEMMA DialFailsStep == Inv /\ DialFails => Inv'
<1> SUFFICES ASSUME Inv, DialFails PROVE Inv'
  OBVIOUS
<1> DEFINE x == Head(pass)
<1>1. /\ current = None /\ pass # <<>> /\ pool' = failed(pool, x) /\ pass' = Tail(pass)
      /\ skipped' = [skipped EXCEPT ![x] = 0]
      /\ established' = established /\ current' = current
  BY DEF DialFails
<1>2. /\ pass' \in Seq(Endpoints) /\ IsInjective(pass')
      /\ x \in Range(pass) /\ Range(pass') = Range(pass) \ {x}
      /\ \A i, j \in DOMAIN pass' : i < j =>
           /\ i + 1 \in DOMAIN pass /\ j + 1 \in DOMAIN pass
           /\ pass'[i] = pass[i + 1] /\ pass'[j] = pass[j + 1]
  BY <1>1, TailFacts DEF Inv, PassInv
<1> HIDE DEF x
<1>3. x \in Range(pool.order) /\ x \in Endpoints
  BY <1>2, KnownTyped DEF Inv, PassInv
<1>4. /\ GoodPool(pool') /\ pool'.seeds = pool.seeds /\ pool'.preferred = None
      /\ Range(pool'.order) = Range(pool.order)
      /\ \A a, b : Before(a, b, pool'.order)
                   <=> \/ Before(a, b, pool.order) /\ a # x /\ b # x
                       \/ b = x /\ a \in Range(pool.order) \ {x}
      /\ \A e \in Endpoints \ {x} :
           Cardinality(Ahead(e, pool'.order)) <= Cardinality(Ahead(e, pool.order))
      /\ \A e \in Endpoints :
           /\ Cardinality(Ahead(e, pool'.order)) \in Nat
           /\ Cardinality(Ahead(e, pool'.order)) <= Cardinality(Endpoints) - 1
  BY <1>1, <1>3, FailedOrder
<1>5. PoolInv'
  BY <1>1, <1>4 DEF Inv, PoolInv
<1>6. PassInv'
  <2>1. ASSUME established', NEW i \in DOMAIN pass', NEW j \in DOMAIN pass', i < j
        PROVE  Before(pass'[i], pass'[j], pool'.order)
    <3>1. /\ i + 1 \in DOMAIN pass /\ j + 1 \in DOMAIN pass
          /\ pass'[i] = pass[i + 1] /\ pass'[j] = pass[j + 1]
      BY <1>2, <2>1
    <3>2. i + 1 < j + 1
      BY <1>2, <2>1
    <3>3. Before(pass[i + 1], pass[j + 1], pool.order)
      BY <1>1, <2>1, <3>1, <3>2 DEF Inv, PassInv
    <3>4. pass'[i] # x /\ pass'[j] # x
      BY <1>2 DEF Range
    <3> QED BY <1>4, <3>1, <3>3, <3>4
  <2>2. Range(pass') \subseteq Range(pool'.order)
    BY <1>2, <1>4 DEF Inv, PassInv
  <2>3. ~established' => Range(pass') \subseteq Range(pool'.seeds)
    BY <1>1, <1>2, <1>4 DEF Inv, PassInv
  <2> QED BY <1>1, <1>2, <2>1, <2>2, <2>3, Zenon DEF PassInv
<1>7. TurnInv'
  <2>1. skipped \in [Endpoints -> Nat]
    BY DEF Inv, TurnInv
  <2>2. ASSUME NEW e \in Range(pool'.order)
        PROVE  skipped'[e] + Cardinality(Ahead(e, pool'.order)) <= Allowance(e)'
    <3>1. /\ e \in Endpoints /\ skipped[e] \in Nat
          /\ Cardinality(Ahead(e, pool.order)) \in Nat /\ Cardinality(Endpoints) \in Nat
      BY <1>4, KnownTyped
    <3>2. CASE e = x
      <4>1. skipped'[e] = 0
        BY <1>1, <1>3, <2>1, <3>2
      <4>2. Allowance(e)' >= Cardinality(Endpoints) - 1
        BY <3>1 DEF Allowance
      <4>3. Allowance(e)' \in Int
        BY <3>1 DEF Allowance
      <4> QED BY <1>4, <3>1, <4>1, <4>2, <4>3
    <3>3. CASE e # x
      <4>1. skipped'[e] = skipped[e]
        BY <1>1, <2>1, <3>1, <3>3
      <4>2. Cardinality(Ahead(e, pool'.order)) <= Cardinality(Ahead(e, pool.order))
        BY <1>4, <3>1, <3>3
      <4>3. e \in Range(pass') <=> e \in Range(pass)
        BY <1>2, <3>3
      <4>4. Allowance(e)' = Allowance(e) /\ Allowance(e) \in Int
        BY <1>1, <3>1, <4>3 DEF Allowance
      <4>5. skipped[e] + Cardinality(Ahead(e, pool.order)) <= Allowance(e)
        BY <1>4 DEF Inv, TurnInv
      <4> QED BY <1>4, <3>1, <4>1, <4>2, <4>4, <4>5
    <3> QED BY <3>2, <3>3
  <2>3. skipped' \in [Endpoints -> Nat]
    BY <1>1, <2>1
  <2>4. ~established' => \A e \in Endpoints : skipped'[e] = 0
    BY <1>1, <2>1 DEF Inv, TurnInv
  <2>5. \A e \in Endpoints : e \notin Range(pool'.order) => skipped'[e] = 0
    BY <1>1, <1>4, <2>1 DEF Inv, TurnInv
  <2>6. established' \in BOOLEAN /\ current' = None
    BY <1>1 DEF Inv, TurnInv
  <2> QED BY <2>2, <2>3, <2>4, <2>5, <2>6, Zenon DEF TurnInv
<1> QED BY <1>5, <1>6, <1>7 DEF Inv

\* A lost connection: its endpoint stood before everyone and goes behind them.
LEMMA LostStep == Inv /\ Lost => Inv'
<1> SUFFICES ASSUME Inv, Lost PROVE Inv'
  OBVIOUS
<1> DEFINE x == current
<1>1. /\ x # None /\ pool' = failed(pool, x) /\ current' = None
      /\ established' = established /\ pass' = pass /\ skipped' = skipped
  BY DEF Lost
<1>2. /\ x \in Range(pool.order) /\ x \in Endpoints
  BY <1>1, KnownTyped
<1>3. /\ GoodPool(pool') /\ pool'.seeds = pool.seeds /\ pool'.preferred = None
      /\ Range(pool'.order) = Range(pool.order)
      /\ \A e \in Endpoints \ {x} : Ahead(e, pool'.order) = Ahead(e, pool.order) \ {x}
      /\ \A e \in Endpoints :
           /\ Cardinality(Ahead(e, pool'.order)) \in Nat
           /\ Cardinality(Ahead(e, pool'.order)) <= Cardinality(Endpoints) - 1
  BY <1>1, <1>2, FailedOrder
<1>4. PoolInv'
  BY <1>1, <1>3 DEF Inv, PoolInv
<1>5. PassInv'
  <2>1. established => pass = <<>>
    BY <1>1 DEF Inv, PassInv
  <2>2. established' => \A i, j \in DOMAIN pass' : i < j =>
          Before(pass'[i], pass'[j], pool'.order)
    <3>1. established => DOMAIN pass = {}
      BY <2>1
    <3> QED BY <1>1, <3>1
  <2>3. ~established' => Range(pass') \subseteq Range(pool'.seeds)
    BY <1>1, <1>3 DEF Inv, PassInv
  <2>4. Range(pass') \subseteq Range(pool'.order) /\ pass' \in Seq(Endpoints) /\ IsInjective(pass')
    BY <1>1, <1>3 DEF Inv, PassInv
  <2> QED BY <1>1, <2>2, <2>3, <2>4, Zenon DEF PassInv
<1>6. TurnInv'
  <2>1. ASSUME NEW e \in Range(pool'.order)
        PROVE  skipped'[e] + Cardinality(Ahead(e, pool'.order)) <= Allowance(e)'
    <3>1. /\ e \in Endpoints /\ skipped[e] \in Nat
          /\ Cardinality(Ahead(e, pool.order)) \in Nat /\ Cardinality(Endpoints) \in Nat
      BY <1>3, KnownTyped
    <3>2. Allowance(e)' \in Int /\ Allowance(e)' >= Cardinality(Endpoints) - 1
      BY <3>1 DEF Allowance
    <3>3. CASE e = x
      <4>1. skipped'[e] = 0
        BY <1>1, <3>3 DEF Inv, TurnInv
      <4> QED BY <1>3, <3>1, <3>2, <4>1
    <3>4. CASE e # x
      <4>1. Before(x, e, pool.order)
        BY <1>1, <1>3, <3>4 DEF Inv, PoolInv, GoodPool
      <4>2. x \in Ahead(e, pool.order)
        BY <1>2, <4>1 DEF Ahead
      <4>3. Cardinality(Ahead(e, pool'.order)) <= Cardinality(Ahead(e, pool.order)) - 1
        BY <1>3, <3>1, <3>4, <4>2, AheadOneFewer
      <4>4. Allowance(e) = Cardinality(Endpoints)
        BY <1>1, <3>1, <3>4 DEF Allowance
      <4>5. skipped[e] + Cardinality(Ahead(e, pool.order)) <= Allowance(e)
        BY <1>3 DEF Inv, TurnInv
      <4> QED BY <1>1, <1>3, <3>1, <3>2, <4>3, <4>4, <4>5
    <3> QED BY <3>3, <3>4
  <2>2. /\ established' \in BOOLEAN /\ skipped' \in [Endpoints -> Nat]
        /\ ~established' => \A e \in Endpoints : skipped'[e] = 0
        /\ \A e \in Endpoints : e \notin Range(pool'.order) => skipped'[e] = 0
    BY <1>1, <1>3 DEF Inv, TurnInv
  <2> QED BY <1>1, <2>1, <2>2, Zenon DEF TurnInv
<1> QED BY <1>4, <1>5, <1>6 DEF Inv

\* A success puts one candidate before everyone else: those the pass had not
\* reached had it before them already, the others have one turn in reserve.
LEMMA DialSucceedsStep == Inv /\ DialSucceeds => Inv'
<1> SUFFICES ASSUME Inv, DialSucceeds PROVE Inv'
  OBVIOUS
<1> DEFINE x == Head(pass)
<1>1. /\ current = None /\ pass # <<>> /\ pool' = connected(pool, x) /\ current' = x
      /\ pass' = IF established THEN <<>> ELSE Tail(pass)
      /\ skipped' = [skipped EXCEPT ![x] = 0]
      /\ established' = established
  BY DEF DialSucceeds
<1>2. /\ pass \in Seq(Endpoints) /\ IsInjective(pass)
      /\ Tail(pass) \in Seq(Endpoints) /\ IsInjective(Tail(pass))
      /\ x \in Range(pass) /\ Range(Tail(pass)) = Range(pass) \ {x}
  <2>1. pass \in Seq(Endpoints) /\ IsInjective(pass)
    BY DEF Inv, PassInv
  <2> QED BY <1>1, <2>1, TailFacts
<1>3. established => \A e \in Range(pass) \ {x} : Before(x, e, pool.order)
  <2>1. ASSUME established, NEW e \in Range(pass) \ {x} PROVE Before(x, e, pool.order)
    <3>1. PICK i \in DOMAIN pass : pass[i] = e
      BY <2>1 DEF Range
    <3>2. 1 \in DOMAIN pass /\ pass[1] = x /\ 1 < i
      BY <1>1, <1>2, <2>1, <3>1
    <3> QED BY <2>1, <3>1, <3>2 DEF Inv, PassInv
  <2> QED BY <2>1
<1> HIDE DEF x
<1>4. x \in Range(pool.order) /\ x \in Endpoints /\ x # None
  BY <1>2, KnownTyped DEF Inv, PassInv
<1>5. /\ GoodPool(pool') /\ pool'.seeds = pool.seeds /\ pool'.preferred = x
      /\ Range(pool'.order) = Range(pool.order)
      /\ \A a, b : Before(a, b, pool'.order) => Before(a, b, pool.order) \/ a = x
  BY <1>1, <1>4, ConnectedFacts DEF Inv, PoolInv
<1>6. PoolInv'
  BY <1>1, <1>5 DEF Inv, PoolInv
<1>7. PassInv'
  <2>1. CASE established
    <3>1. pass' = <<>> /\ established'
      BY <1>1, <2>1
    <3>2. <<>> \in Seq(Endpoints) /\ IsInjective(<<>>) /\ Range(<<>>) = {} /\ DOMAIN <<>> = {}
      BY DEF IsInjective, Range
    <3> QED BY <3>1, <3>2, Zenon DEF PassInv
  <2>2. CASE ~established
    <3>1. pass' = Tail(pass) /\ ~established'
      BY <1>1, <2>2
    <3>2. Range(pass') \subseteq Range(pool'.order) /\ Range(pass') \subseteq Range(pool'.seeds)
      BY <1>2, <1>5, <2>2, <3>1 DEF Inv, PassInv
    <3> QED BY <1>2, <3>1, <3>2, Zenon DEF PassInv
  <2> QED BY <2>1, <2>2
<1>8. TurnInv'
  <2>1. skipped \in [Endpoints -> Nat]
    BY DEF Inv, TurnInv
  <2>2. pool'.order \in Seq(Endpoints) /\ IsInjective(pool'.order)
    BY <1>5 DEF GoodPool, Pools
  <2>3. ASSUME NEW e \in Range(pool'.order)
        PROVE  skipped'[e] + Cardinality(Ahead(e, pool'.order)) <= Allowance(e)'
    <3>1. /\ e \in Endpoints /\ skipped[e] \in Nat
          /\ Cardinality(Ahead(e, pool.order)) \in Nat /\ Cardinality(Endpoints) \in Nat
          /\ Cardinality(Ahead(e, pool'.order)) \in Nat
          /\ Cardinality(Ahead(e, pool'.order)) <= Cardinality(Endpoints) - 1
      <4>1. e \in Endpoints
        BY <1>5, KnownTyped
      <4> QED BY <2>2, <4>1, KnownTyped, AheadBound, AheadFinite
    <3>2. Allowance(e)' \in Int /\ Allowance(e)' >= Cardinality(Endpoints) - 1
      BY <3>1 DEF Allowance
    <3>3. CASE skipped'[e] = 0
      BY <3>1, <3>2, <3>3
    <3>4. CASE e # x /\ established
      <4>1. skipped'[e] = skipped[e]
        BY <1>1, <2>1, <3>1, <3>4
      <4>2. Allowance(e)' = Cardinality(Endpoints)
        BY <1>1, <1>4, <3>1, <3>4 DEF Allowance
      <4>3. skipped[e] + Cardinality(Ahead(e, pool.order)) <= Allowance(e)
        BY <1>5 DEF Inv, TurnInv
      <4>4. CASE e \in Range(pass)
        <5>1. Ahead(e, pool'.order) \subseteq Ahead(e, pool.order)
          BY <1>3, <1>5, <3>4, <4>4 DEF Ahead
        <5>2. Cardinality(Ahead(e, pool'.order)) <= Cardinality(Ahead(e, pool.order))
          BY <5>1, AheadFewer
        <5>3. Allowance(e) = Cardinality(Endpoints)
          BY <3>1, <4>4 DEF Allowance
        <5> QED BY <3>1, <4>1, <4>2, <4>3, <5>2, <5>3
      <4>5. CASE e \notin Range(pass)
        <5>1. Ahead(e, pool'.order) \subseteq Ahead(e, pool.order) \cup {x}
          BY <1>5 DEF Ahead
        <5>2. Cardinality(Ahead(e, pool'.order)) <= Cardinality(Ahead(e, pool.order)) + 1
          BY <5>1, AheadOneMore
        <5>3. Allowance(e) = Cardinality(Endpoints) - 1
          BY <1>1, <3>1, <4>5 DEF Allowance
        <5> QED BY <3>1, <4>1, <4>2, <4>3, <5>2, <5>3
      <4> QED BY <4>4, <4>5
    <3>5. e = x => skipped'[e] = 0
      BY <1>1, <2>1, <3>1
    <3>6. e # x /\ ~established => skipped'[e] = 0
      BY <1>1, <2>1, <3>1 DEF Inv, TurnInv
    <3> QED BY <3>3, <3>4, <3>5, <3>6
  <2>4. skipped' \in [Endpoints -> Nat]
    BY <1>1, <2>1
  <2>5. ~established' => \A e \in Endpoints : skipped'[e] = 0
    BY <1>1, <2>1 DEF Inv, TurnInv
  <2>6. \A e \in Endpoints : e \notin Range(pool'.order) => skipped'[e] = 0
    BY <1>1, <1>5, <2>1 DEF Inv, TurnInv
  <2>7. established' \in BOOLEAN /\ skipped'[current'] = 0
    BY <1>1, <1>4, <2>1 DEF Inv, TurnInv
  <2> QED BY <2>3, <2>4, <2>5, <2>6, <2>7, Zenon DEF TurnInv
<1> QED BY <1>6, <1>7, <1>8 DEF Inv

LEMMA EstablishedStep == Inv /\ Established => Inv'
<1> SUFFICES ASSUME Inv, Established PROVE Inv'
  OBVIOUS
<1>1. /\ ~established /\ current # None /\ established' = TRUE /\ pass' = <<>>
      /\ pool' = pool /\ current' = current /\ skipped' = skipped
  BY DEF Established
<1>2. <<>> \in Seq(Endpoints) /\ IsInjective(<<>>) /\ Range(<<>>) = {} /\ DOMAIN <<>> = {}
  BY DEF IsInjective, Range
<1>3. PoolInv'
  BY <1>1 DEF Inv, PoolInv
<1>4. PassInv'
  BY <1>1, <1>2, Zenon DEF PassInv
<1>5. TurnInv'
  <2>1. ASSUME NEW e \in Range(pool.order)
        PROVE  skipped[e] + Cardinality(Ahead(e, pool.order)) <= Allowance(e)'
    <3>1. /\ e \in Endpoints /\ skipped[e] = 0
          /\ Cardinality(Ahead(e, pool.order)) \in Nat /\ Cardinality(Endpoints) \in Nat
          /\ Cardinality(Ahead(e, pool.order)) <= Cardinality(Endpoints) - 1
      BY <1>1, KnownTyped DEF Inv, TurnInv
    <3>2. Allowance(e)' \in Int /\ Allowance(e)' >= Cardinality(Endpoints) - 1
      BY <3>1 DEF Allowance
    <3> QED BY <3>1, <3>2
  <2> QED BY <1>1, <2>1 DEF Inv, TurnInv
<1> QED BY <1>3, <1>4, <1>5 DEF Inv

\* An advertisement while the connection is up: the connected endpoint stays
\* first, what is known keeps its place, and who is new starts at nothing.
LEMMA InfoStep == Inv /\ (\E urls \in Advertisements : Info(urls)) => Inv'
<1> SUFFICES ASSUME Inv, NEW urls \in Advertisements, Info(urls) PROVE Inv'
  OBVIOUS
<1>1. /\ current # None /\ pool' = update_discovered(pool, urls)
      /\ skipped' = [e \in Endpoints |-> IF contains(e, pool'.order)
                                         THEN skipped[e] ELSE 0]
      /\ established' = established /\ current' = current /\ pass' = pass
  BY DEF Info
<1>2. /\ GoodPool(pool') /\ pool'.seeds = pool.seeds /\ pool'.preferred = pool.preferred
      /\ \A a, b : Before(a, b, pool'.order) /\ b \in Range(pool.order)
                   => Before(a, b, pool.order) \/ (pool.preferred # None /\ a = pool.preferred)
  BY <1>1, AdvertisementIsSequence, UpdateFacts DEF Inv, PoolInv
<1>3. PoolInv'
  BY <1>1, <1>2 DEF Inv, PoolInv
<1>4. Range(pool'.seeds) \subseteq Range(pool'.order)
  BY <1>2 DEF GoodPool
<1>5. PassInv'
  <2>1. pass' \in Seq(Endpoints) /\ IsInjective(pass') /\ current' # None
    BY <1>1 DEF Inv, PassInv
  <2>2. established' => pass' = <<>> /\ Range(pass') = {} /\ DOMAIN pass' = {}
    BY <1>1 DEF Inv, PassInv, Range
  <2>3. ~established' => Range(pass') \subseteq Range(pool'.seeds)
    BY <1>1, <1>2 DEF Inv, PassInv
  <2> QED BY <1>4, <2>1, <2>2, <2>3 DEF PassInv
<1>6. TurnInv'
  <2>1. \A e \in Endpoints : contains(e, pool'.order) <=> e \in Range(pool'.order)
    BY ContainsIsRange
  <2>2. pool'.order \in Seq(Endpoints) /\ IsInjective(pool'.order)
    BY <1>2 DEF GoodPool, Pools
  <2>3. ASSUME NEW e \in Range(pool'.order)
        PROVE  skipped'[e] + Cardinality(Ahead(e, pool'.order)) <= Allowance(e)'
    <3>1. /\ e \in Endpoints /\ skipped[e] \in Nat
          /\ Cardinality(Ahead(e, pool.order)) \in Nat /\ Cardinality(Endpoints) \in Nat
          /\ Cardinality(Ahead(e, pool'.order)) \in Nat
          /\ Cardinality(Ahead(e, pool'.order)) <= Cardinality(Endpoints) - 1
      <4>1. e \in Endpoints
        BY <2>2, RangeOf
      <4> QED BY <2>2, <4>1, KnownTyped, AheadBound, AheadFinite
    <3>2. skipped'[e] = skipped[e]
      BY <1>1, <2>1, <3>1
    <3>3. Allowance(e)' \in Int /\ Allowance(e)' >= Cardinality(Endpoints) - 1
      BY <3>1 DEF Allowance
    <3>4. CASE e = current \/ e \notin Range(pool.order)
      <4>1. skipped[e] = 0
        BY <1>1, <3>1, <3>4 DEF Inv, TurnInv
      <4> QED BY <3>1, <3>2, <3>3, <4>1
    <3>5. CASE e # current /\ e \in Range(pool.order)
      <4>1. Before(current, e, pool.order)
        BY <1>1, <3>5 DEF Inv, PoolInv, GoodPool
      <4>2. Ahead(e, pool'.order) \subseteq Ahead(e, pool.order)
        BY <1>2, <3>5, <4>1 DEF Ahead, Inv, PoolInv
      <4>3. Cardinality(Ahead(e, pool'.order)) <= Cardinality(Ahead(e, pool.order))
        BY <4>2, AheadFewer
      <4>4. Allowance(e) = Cardinality(Endpoints) /\ Allowance(e)' = Cardinality(Endpoints)
        BY <1>1, <3>1, <3>5 DEF Allowance
      <4>5. skipped[e] + Cardinality(Ahead(e, pool.order)) <= Allowance(e)
        BY <3>5 DEF Inv, TurnInv
      <4> QED BY <3>1, <3>2, <4>3, <4>4, <4>5
    <3> QED BY <3>4, <3>5
  <2>4. /\ established' \in BOOLEAN /\ skipped' \in [Endpoints -> Nat]
        /\ ~established' => \A e \in Endpoints : skipped'[e] = 0
        /\ \A e \in Endpoints : e \notin Range(pool'.order) => skipped'[e] = 0
    <3>1. skipped' \in [Endpoints -> Nat]
      BY <1>1, KnownTyped
    <3> QED BY <1>1, <2>1, <3>1 DEF Inv, TurnInv
  <2>5. skipped'[current'] = 0
    <3>1. current \in Endpoints
      BY <1>1, KnownTyped
    <3> QED BY <1>1, <3>1 DEF Inv, TurnInv
  <2> QED BY <2>3, <2>4, <2>5, Zenon DEF TurnInv
<1> QED BY <1>3, <1>5, <1>6 DEF Inv

-----------------------------------------------------------------------------

LEMMA StepInv == Inv /\ [Next]_vars => Inv'
<1> SUFFICES ASSUME Inv, [Next]_vars PROVE Inv'
  OBVIOUS
<1>1. CASE BeginPass
  BY <1>1, BeginPassStep
<1>2. CASE DialFails
  BY <1>2, DialFailsStep
<1>3. CASE DialSucceeds
  BY <1>3, DialSucceedsStep
<1>4. CASE Established
  BY <1>4, EstablishedStep
<1>5. CASE Lost
  BY <1>5, LostStep
<1>6. CASE \E urls \in Advertisements : Info(urls)
  BY <1>6, InfoStep
<1>7. CASE UNCHANGED vars
  BY <1>7 DEF vars, Inv, PoolInv, PassInv, TurnInv, Allowance
<1> QED BY <1>1, <1>2, <1>3, <1>4, <1>5, <1>6, <1>7 DEF Next

\* Every reachable state satisfies the inductive invariant: the pool's lists
\* are as rebuild_order makes them, and each candidate has its turn coming.
THEOREM Invariant == Spec => []Inv
<1>1. Init => Inv
  BY InitInv
<1>2. Inv /\ [Next]_vars => Inv'
  BY StepInv
<1> QED BY <1>1, <1>2, PTL DEF Spec

\* No INFO, success or failure loses a configured seed, dials a candidate
\* twice in one pass or keeps one that is no longer known (rebuild_order,
\* move_to_end), for every set of endpoints and every list of seeds.
THEOREM OrderAlwaysPermutation == Spec => []OrderIsPermutation
<1>1. Inv => OrderIsPermutation
  BY DEF Inv, PoolInv, GoodPool, OrderIsPermutation
<1> QED BY <1>1, Invariant, PTL

\* Whatever is advertised and whichever candidates fail or connect, one that
\* stays known is dialled again within as many passes as there are endpoints
\* (Pool.failed, Pool.connected, dial_candidates).
THEOREM NobodyStarved == Spec => []EveryCandidateTried
<1>1. Inv => EveryCandidateTried
  <2>1. SUFFICES ASSUME Inv, NEW e \in Endpoints PROVE skipped[e] <= Cardinality(Endpoints)
    BY DEF EveryCandidateTried
  <2>2. /\ skipped[e] \in Nat /\ Cardinality(Ahead(e, pool.order)) \in Nat
        /\ Cardinality(Endpoints) \in Nat
    BY <2>1, KnownTyped
  <2>3. CASE e \in Range(pool.order)
    <3>1. skipped[e] + Cardinality(Ahead(e, pool.order)) <= Allowance(e)
      BY <2>1, <2>3 DEF Inv, TurnInv
    <3>2. Allowance(e) \in Int /\ Allowance(e) <= Cardinality(Endpoints)
      BY <2>2 DEF Allowance
    <3> QED BY <2>2, <3>1, <3>2
  <2>4. CASE e \notin Range(pool.order)
    <3>1. skipped[e] = 0
      BY <2>1, <2>4 DEF Inv, TurnInv
    <3> QED BY <2>2, <3>1
  <2> QED BY <2>3, <2>4
<1> QED BY <1>1, Invariant, PTL

=============================================================================
