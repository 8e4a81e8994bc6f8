--------------------------- MODULE LevelsProofs -----------------------------
(***************************************************************************)
(* Proofs about Levels.  First its operators: what                         *)
(* compact_generate_sst_from_iter may drop and how it splits the rest,     *)
(* what is left of a sequence of tables, and what sorting a level does.    *)
(* Then the inductive invariant IInv and the theorems it gives.            *)
(***************************************************************************)
EXTENDS Levels, FiniteSetTheorems, SequenceTheorems, WellFoundedInduction, TLAPS

Distinct(s) == \A p, q \in DOMAIN s : s[p] = s[q] => p = q

\* All of A comes before all of B, or after.
Follows(A, B) == \A v \in A, w \in B : Before(v, w)
Apart(A, B)   == Follows(A, B) \/ Follows(B, A)

-----------------------------------------------------------------------------
(* Sets of numbers.                                                        *)

\* A non-empty set of naturals with an upper bound has a greatest element.
LEMMA Greatest ==
    ASSUME NEW S \in SUBSET Nat, S # {}, NEW n \in Nat, \A x \in S : x <= n
    PROVE  \E m \in S : \A x \in S : x <= m
<1> DEFINE Less == {p \in Nat \X Nat : p[1] < p[2]}
           D == {n - x : x \in S}
<1>1. IsWellFoundedOn(Less, Nat)
  BY NatLessThanWellFounded DEF OpToRel
<1>2. D \in SUBSET Nat /\ D # {}
  <2>1. \A x \in S : n - x \in Nat
    OBVIOUS
  <2> QED BY <2>1
<1>3. PICK d \in D : \A e \in D : ~ (<<e, d>> \in Less)
  BY <1>1, <1>2, WFMin
<1>4. PICK m \in S : d = n - m
  BY <1>3
<1>5. ASSUME NEW x \in S PROVE x <= m
  <2>1. x \in Nat /\ m \in Nat /\ n - x \in Nat /\ n - m \in Nat
    BY <1>5, <1>2, <1>4
  <2>2. n - x \in D /\ ~ (n - x < n - m)
    BY <1>3, <1>4, <1>5, <2>1
  <2> QED BY <2>1, <2>2
<1> QED BY <1>5

\* Max of such a set is that element.
LEMMA MaxOf ==
    ASSUME NEW S \in SUBSET Nat, S # {}, NEW n \in Nat, \A x \in S : x <= n
    PROVE  Max(S) \in S /\ \A x \in S : x <= Max(S)
<1>1. PICK m \in S : \A x \in S : x <= m
  BY Greatest
<1>2. \A x \in S : m >= x
  BY <1>1
<1> QED BY <1>2 DEF Max

\* A non-empty set of naturals has a least element, Min.
LEMMA MinOf ==
    ASSUME NEW S \in SUBSET Nat, S # {}
    PROVE  Min(S) \in S /\ \A x \in S : Min(S) <= x
<1> DEFINE Less == {p \in Nat \X Nat : p[1] < p[2]}
<1>1. IsWellFoundedOn(Less, Nat)
  BY NatLessThanWellFounded DEF OpToRel
<1>2. PICK m \in S : \A x \in S : ~ (<<x, m>> \in Less)
  BY <1>1, WFMin
<1>3. \A x \in S : x >= m
  <2>1. m \in Nat /\ \A x \in S : x \in Nat /\ ~(x < m)
    BY <1>2
  <2> QED BY <2>1
<1>4. \E x \in S : \A y \in S : x <= y
  BY <1>3
<1> QED BY <1>4 DEF Min

-----------------------------------------------------------------------------
(* Sequences of tables.                                                    *)

\* The elements of a set, each where the number of those before it says.
Enumeration(S, R) ==
    [n \in 1 .. Cardinality(S) |->
        CHOOSE x \in S : Cardinality({y \in S : <<y, x>> \in R}) = n - 1]

\* In a strict total order these are all elements, in order.
LEMMA Enumerates ==
    ASSUME NEW S, IsFiniteSet(S), NEW R,
           \A x \in S : <<x, x>> \notin R,
           \A x, y, z \in S : <<x, y>> \in R /\ <<y, z>> \in R => <<x, z>> \in R,
           \A x, y \in S : x = y \/ <<x, y>> \in R \/ <<y, x>> \in R
    PROVE  /\ Enumeration(S, R) \in Seq(S)
           /\ DOMAIN Enumeration(S, R) = 1 .. Cardinality(S)
           /\ ToSet(Enumeration(S, R)) = S
           /\ \A p, q \in 1 .. Cardinality(S) :
                 p < q => <<Enumeration(S, R)[p], Enumeration(S, R)[q]>> \in R
<1> DEFINE N == Cardinality(S)
           e == Enumeration(S, R)
           before(x) == {y \in S : <<y, x>> \in R}
           place == [x \in S |-> Cardinality(before(x)) + 1]
           nth(n) == CHOOSE x \in S : Cardinality(before(x)) = n - 1
<1>1. N \in Nat
  BY FS_CardinalityType
<1>2. ASSUME NEW x \in S
      PROVE  IsFiniteSet(before(x)) /\ Cardinality(before(x)) \in Nat /\ place[x] \in 1 .. N
  <2>1. IsFiniteSet(before(x)) /\ Cardinality(before(x)) <= N
        /\ (Cardinality(before(x)) = N => before(x) = S)
    BY FS_Subset
  <2>2. before(x) # S
    OBVIOUS
  <2>3. Cardinality(before(x)) \in Nat
    BY <2>1, FS_CardinalityType
  <2>4. place[x] = Cardinality(before(x)) + 1
    OBVIOUS
  <2> QED BY <1>1, <2>1, <2>2, <2>3, <2>4
<1>3. ASSUME NEW x \in S, NEW y \in S, <<x, y>> \in R
      PROVE  place[x] < place[y]
  <2>1. before(x) \subseteq before(y) /\ x \in before(y) /\ x \notin before(x)
    BY <1>3
  <2>2. Cardinality(before(x)) <= Cardinality(before(y))
        /\ (Cardinality(before(x)) = Cardinality(before(y)) => before(x) = before(y))
    BY <1>2, <2>1, FS_Subset
  <2>3. Cardinality(before(x)) \in Nat /\ Cardinality(before(y)) \in Nat
    BY <1>2
  <2>4. place[x] = Cardinality(before(x)) + 1 /\ place[y] = Cardinality(before(y)) + 1
    OBVIOUS
  <2>5. before(x) # before(y)
    BY <2>1
  <2> HIDE DEF before
  <2> QED BY <2>2, <2>3, <2>4, <2>5
<1>3a. /\ \A x \in S : place[x] \in 1 .. N
       /\ \A x, y \in S : <<x, y>> \in R => place[x] < place[y]
       /\ \A x \in S : place[x] = Cardinality(before(x)) + 1 /\ Cardinality(before(x)) \in Nat
       /\ place \in [S -> 1 .. N]
  BY <1>2, <1>3
<1> HIDE DEF N, place, before
<1>4. place \in Injection(S, 1 .. N)
  <2>1. place \in [S -> 1 .. N]
    BY <1>3a
  <2>2. ASSUME NEW x \in S, NEW y \in S, place[x] = place[y] PROVE x = y
    <3>1. place[x] \in Nat /\ place[y] \in Nat
      BY <1>3a, <1>1
    <3>2. ~(<<x, y>> \in R) /\ ~(<<y, x>> \in R)
      BY <1>3a, <2>2, <3>1
    <3> QED BY <3>2
  <2> QED BY <2>1, <2>2 DEF Injection, IsInjective
<1>5. IsFiniteSet(1 .. N) /\ Cardinality(1 .. N) = N
  BY <1>1, FS_Interval
<1>6. place \in Surjection(S, 1 .. N)
  BY <1>4, <1>5, FS_Injection DEF N
<1>7. ASSUME NEW n \in 1 .. N
      PROVE  nth(n) \in S /\ place[nth(n)] = n
  <2>1. PICK x \in S : place[x] = n
    BY <1>6 DEF Surjection
  <2>2. Cardinality(before(x)) = n - 1
    BY <1>3a, <2>1
  <2>3. nth(n) \in S /\ Cardinality(before(nth(n))) = n - 1
    BY <2>2
  <2>4. place[nth(n)] = Cardinality(before(nth(n))) + 1 /\ n \in Nat
    BY <1>1, <1>3a, <2>3
  <2> HIDE DEF nth
  <2> QED BY <2>3, <2>4
<1>8. e = [n \in 1 .. N |-> nth(n)]
  BY DEF N, before, Enumeration
<1> HIDE DEF e
<1>9. e \in [1 .. N -> S] /\ \A n \in 1 .. N : e[n] \in S /\ place[e[n]] = n
  <2>1. \A n \in 1 .. N : nth(n) \in S /\ place[nth(n)] = n
    BY <1>7
  <2> HIDE DEF nth
  <2>2. \A n \in 1 .. N : e[n] = nth(n)
    BY <1>8
  <2>3. e \in [1 .. N -> S]
    BY <1>8, <2>1
  <2> QED BY <2>1, <2>2, <2>3
<1> HIDE DEF nth
<1>10. e \in Seq(S) /\ Len(e) = N /\ DOMAIN e = 1 .. N
  <2>1. e \in [1 .. N -> S]
    BY <1>9
  <2> QED BY <1>1, <2>1
<1>11. ASSUME NEW x \in S PROVE \E n \in 1 .. N : e[n] = x
  <2>1. place[x] \in 1 .. N
    BY <1>3a
  <2>2. e[place[x]] \in S /\ place[e[place[x]]] = place[x]
    BY <1>9, <2>1
  <2>3. e[place[x]] = x
    BY <1>4, <2>2 DEF Injection, IsInjective
  <2> QED BY <2>1, <2>3
<1>12. ToSet(e) = S
  <2>1. \A n \in 1 .. N : e[n] \in S
    BY <1>9
  <2> QED BY <1>10, <1>11, <2>1 DEF ToSet
<1>13. ASSUME NEW p \in 1 .. N, NEW q \in 1 .. N, p < q
       PROVE  <<e[p], e[q]>> \in R
  <2>1. e[p] \in S /\ e[q] \in S /\ place[e[p]] = p /\ place[e[q]] = q
    BY <1>9
  <2>2. ~(q < p) /\ p # q
    BY <1>1, <1>13
  <2>3. <<e[q], e[p]>> \notin R
    <3>1. ASSUME <<e[q], e[p]>> \in R PROVE FALSE
      <4>1. place[e[q]] < place[e[p]]
        BY <1>3a, <2>1, <3>1
      <4> QED BY <2>1, <2>2, <4>1
    <3> QED BY <3>1
  <2>4. e[p] # e[q]
    BY <2>1, <2>2
  <2> QED BY <2>1, <2>3, <2>4
<1> QED BY <1>10, <1>12, <1>13 DEF N, e

\* The elements of a sequence are a finite set, and as many as its length when
\* none comes twice.
LEMMA ElementsOf ==
    ASSUME NEW X, NEW s \in Seq(X)
    PROVE  /\ ToSet(s) \subseteq X /\ IsFiniteSet(ToSet(s))
           /\ Distinct(s) => Cardinality(ToSet(s)) = Len(s)
<1> DEFINE f == [i \in 1 .. Len(s) |-> s[i]]
<1>1. Len(s) \in Nat /\ DOMAIN s = 1 .. Len(s) /\ \A i \in 1 .. Len(s) : s[i] \in X
  OBVIOUS
<1>2. IsFiniteSet(1 .. Len(s)) /\ Cardinality(1 .. Len(s)) = Len(s)
  <2>1. \A n \in Nat : IsFiniteSet(1 .. n) /\ Cardinality(1 .. n) = n
    BY FS_Interval
  <2> QED BY <1>1, <2>1
<1>3. f \in Surjection(1 .. Len(s), ToSet(s))
  <2>1. f \in [1 .. Len(s) -> ToSet(s)]
    BY <1>1 DEF ToSet
  <2>2. \A x \in ToSet(s) : \E i \in 1 .. Len(s) : f[i] = x
    BY <1>1 DEF ToSet
  <2> QED BY <2>1, <2>2 DEF Surjection
<1>4. IsFiniteSet(ToSet(s))
  BY <1>2, <1>3, FS_Surjection
<1>5. ASSUME Distinct(s) PROVE Cardinality(ToSet(s)) = Len(s)
  <2>1. f \in Injection(1 .. Len(s), ToSet(s))
    <3>1. \A p, q \in 1 .. Len(s) : f[p] = f[q] => p = q
      BY <1>1, <1>5 DEF Distinct
    <3> HIDE DEF f
    <3> QED BY <1>3, <3>1 DEF Injection, IsInjective, Surjection
  <2> HIDE DEF f
  <2> QED BY <1>2, <1>3, <2>1, FS_Surjection
<1> QED BY <1>1, <1>4, <1>5 DEF ToSet

\* What is left of a sequence is in its order.
LEMMA WithoutKeeps ==
    ASSUME NEW X, NEW s \in Seq(X), NEW gone
    PROVE  /\ Without(s, gone) \in Seq(X)
           /\ ToSet(Without(s, gone)) = ToSet(s) \ gone
           /\ \A p, q \in DOMAIN Without(s, gone) : p < q =>
                 \E i, j \in DOMAIN s : /\ i < j
                                       /\ s[i] = Without(s, gone)[p]
                                       /\ s[j] = Without(s, gone)[q]
           /\ Distinct(s) => Distinct(Without(s, gone))
<1> DEFINE kept == {i \in DOMAIN s : s[i] \notin gone}
           R == {p \in kept \X kept : p[1] < p[2]}
           order == Enumeration(kept, R)
           w == Without(s, gone)
           N == Cardinality(kept)
<1>1. DOMAIN s = 1 .. Len(s) /\ Len(s) \in Nat /\ \A i \in DOMAIN s : s[i] \in X
  OBVIOUS
<1>2. kept \in SUBSET Nat /\ IsFiniteSet(kept)
  <2>1. \A n \in Nat : IsFiniteSet(1 .. n)
    BY FS_Interval
  <2> QED BY <1>1, <2>1, FS_Subset
<1>3. \A x, y : <<x, y>> \in R <=> x \in kept /\ y \in kept /\ x < y
  OBVIOUS
<1>4. \A x \in kept : Cardinality({y \in kept : <<y, x>> \in R}) = Cardinality({y \in kept : y < x})
  <2>1. \A x \in kept : {y \in kept : <<y, x>> \in R} = {y \in kept : y < x}
    BY <1>3
  <2> QED BY <2>1
<1> HIDE DEF R
<1>5. N \in Nat
  BY <1>2, FS_CardinalityType
<1>6. /\ order \in Seq(kept) /\ DOMAIN order = 1 .. N /\ ToSet(order) = kept
      /\ \A p, q \in 1 .. N : p < q => <<order[p], order[q]>> \in R
  <2> HIDE DEF kept
  <2>1. \A x \in kept : <<x, x>> \notin R
    BY <1>2, <1>3
  <2>2. \A x, y, z \in kept : <<x, y>> \in R /\ <<y, z>> \in R => <<x, z>> \in R
    BY <1>2, <1>3
  <2>3. ASSUME NEW x \in kept, NEW y \in kept
        PROVE  x = y \/ <<x, y>> \in R \/ <<y, x>> \in R
    <3>1. x \in Nat /\ y \in Nat
      BY <1>2
    <3> QED BY <1>3, <3>1
  <2> QED BY <1>2, <2>1, <2>2, <2>3, Enumerates
<1>7. w = [n \in 1 .. N |-> s[order[n]]]
  <2> DEFINE nth(n) == CHOOSE i \in kept : Cardinality({j \in kept : j < i}) = n - 1
  <2>1. \A n \in 1 .. N : order[n] = nth(n)
    <3>1. \A n \in 1 .. N : order[n] =
             CHOOSE i \in kept : Cardinality({j \in kept : <<j, i>> \in R}) = n - 1
      BY DEF Enumeration
    <3> QED BY <1>4, <3>1
  <2>2. w = [n \in 1 .. N |-> s[nth(n)]]
    BY DEF Without
  <2> HIDE DEF order, nth, N, w
  <2> QED BY <2>1, <2>2
<1> HIDE DEF order, w
<1>8. \A n \in 1 .. N : order[n] \in kept /\ w[n] = s[order[n]] /\ w[n] \in X
  <2>1. \A n \in 1 .. N : order[n] \in kept
    BY <1>6 DEF ToSet
  <2>2. \A n \in 1 .. N : w[n] = s[order[n]]
    BY <1>7
  <2> QED BY <1>1, <2>1, <2>2
<1>9. w \in Seq(X) /\ DOMAIN w = 1 .. N
  <2>1. w \in [1 .. N -> X]
    BY <1>7, <1>8
  <2> HIDE DEF N
  <2> QED BY <1>5, <2>1
<1>10. ToSet(w) = ToSet(s) \ gone
  <2>1. \A x \in ToSet(w) : x \in ToSet(s) \ gone
    BY <1>8, <1>9 DEF ToSet
  <2>2. ASSUME NEW x \in ToSet(s) \ gone PROVE x \in ToSet(w)
    <3>1. PICK i \in DOMAIN s : s[i] = x
      BY DEF ToSet
    <3>2. i \in ToSet(order)
      BY <1>6, <3>1
    <3>3. PICK n \in 1 .. N : order[n] = i
      BY <1>6, <3>2 DEF ToSet
    <3> QED BY <1>8, <1>9, <3>1, <3>3 DEF ToSet
  <2> QED BY <2>1, <2>2
<1>11. ASSUME NEW p \in 1 .. N, NEW q \in 1 .. N, p < q
       PROVE  /\ order[p] \in DOMAIN s /\ order[q] \in DOMAIN s /\ order[p] < order[q]
              /\ s[order[p]] = w[p] /\ s[order[q]] = w[q]
  BY <1>3, <1>6, <1>8, <1>11
<1>12. ASSUME Distinct(s), NEW p \in 1 .. N, NEW q \in 1 .. N, w[p] = w[q]
       PROVE  p = q
  <2>1. order[p] = order[q] /\ order[p] \in Nat
    BY <1>1, <1>8, <1>12 DEF Distinct
  <2>2. ~(p < q) /\ ~(q < p)
    BY <1>11, <2>1
  <2> QED BY <1>5, <2>2
<1> QED BY <1>9, <1>10, <1>11, <1>12 DEF Distinct, w

-----------------------------------------------------------------------------
(* Sorted tables.                                                          *)

\* Versions that differ differ in their key or their timestamp.
Unique(S) == \A v, w \in S : v.key = w.key /\ v.ts = w.ts => v = w

\* A non-empty set of versions has a first one in the order of Key.
LEMMA FirstKeyOf ==
    ASSUME NEW S \in SUBSET Versions, S # {}, Unique(S)
    PROVE  FirstKey(S) \in S /\ \A w \in S : w = FirstKey(S) \/ Before(FirstKey(S), w)
<1> DEFINE keys == {v.key : v \in S}
           k == Min(keys)
           stamps == {v.ts : v \in {w \in S : w.key = k}}
<1>1. \A v \in S : v.key \in Nat /\ v.ts \in 1 .. MaxTs
  BY LevelsAssumption DEF Versions, Keys
<1>2. k \in keys /\ \A x \in keys : k <= x
  <2>1. keys \in SUBSET Nat /\ keys # {}
    BY <1>1
  <2> QED BY <2>1, MinOf
<1> HIDE DEF k
<1>3. PICK m \in stamps : \A x \in stamps : x <= m
  <2>1. MaxTs \in Nat
    BY LevelsAssumption
  <2>2. stamps \in SUBSET Nat /\ stamps # {} /\ \A x \in stamps : x <= MaxTs
    BY <1>1, <1>2, <2>1
  <2> HIDE DEF stamps
  <2> QED BY <2>1, <2>2, Greatest
<1>4. PICK v \in S : v.key = k /\ v.ts = m
  BY <1>3
<1>5. ASSUME NEW w \in S PROVE w = v \/ Before(v, w)
  <2>1. k <= w.key /\ w.key \in Nat /\ k \in Nat
    BY <1>1, <1>2, <1>4
  <2>2. CASE w.key = k
    <3>1. w.ts <= m /\ w.ts \in Nat /\ m \in Nat
      BY <1>1, <1>3, <1>4, <2>2
    <3>2. CASE w.ts = m
      BY <1>4, <2>2, <3>2 DEF Unique
    <3>3. CASE w.ts < m
      BY <1>4, <2>2, <3>3 DEF Before
    <3> QED BY <3>1, <3>2, <3>3
  <2>3. CASE k < w.key
    BY <1>4, <2>3 DEF Before
  <2> QED BY <2>1, <2>2, <2>3
<1> QED BY <1>5 DEF FirstKey

\* And a last one.
LEMMA LastKeyOf ==
    ASSUME NEW S \in SUBSET Versions, S # {}, Unique(S)
    PROVE  LastKey(S) \in S /\ \A w \in S : w = LastKey(S) \/ Before(w, LastKey(S))
<1> DEFINE keys == {v.key : v \in S}
           stamps(k) == {v.ts : v \in {w \in S : w.key = k}}
<1>1. \A v \in S : v.key \in 1 .. NumKeys /\ v.ts \in Nat
  BY LevelsAssumption DEF Versions, Keys
<1>2. PICK k \in keys : \A x \in keys : x <= k
  <2>1. NumKeys \in Nat
    BY LevelsAssumption
  <2>2. keys \in SUBSET Nat /\ keys # {} /\ \A x \in keys : x <= NumKeys
    BY <1>1, <2>1
  <2> HIDE DEF keys
  <2> QED BY <2>1, <2>2, Greatest
<1>3. Min(stamps(k)) \in stamps(k) /\ \A x \in stamps(k) : Min(stamps(k)) <= x
  <2>1. stamps(k) \in SUBSET Nat /\ stamps(k) # {}
    BY <1>1, <1>2
  <2> HIDE DEF stamps
  <2> QED BY <2>1, MinOf
<1>4. PICK v \in S : v.key = k /\ v.ts = Min(stamps(k))
  BY <1>3
<1>5. ASSUME NEW w \in S PROVE w = v \/ Before(w, v)
  <2>1. w.key <= k /\ w.key \in Nat /\ k \in Nat /\ v.ts \in Nat /\ w.ts \in Nat
    BY <1>1, <1>2, <1>4
  <2>2. CASE w.key = k
    <3>1. v.ts <= w.ts
      BY <1>3, <1>4, <2>2
    <3>2. CASE w.ts = v.ts
      BY <1>4, <2>2, <3>2 DEF Unique
    <3>3. CASE w.ts > v.ts
      BY <1>4, <2>2, <3>3 DEF Before
    <3> QED BY <2>1, <3>1, <3>2, <3>3
  <2>3. CASE w.key < k
    BY <1>4, <2>3 DEF Before
  <2> QED BY <2>1, <2>2, <2>3
<1> QED BY <1>5 DEF LastKey

\* Apart tables are sorted in their order, whatever their order was.
LEMMA SortedFollows ==
    ASSUME NEW files \in Seq(Nat), Distinct(files), NEW contents,
           \A x \in ToSet(files) :
              contents[x] \subseteq Versions /\ contents[x] # {} /\ Unique(contents[x]),
           \A x, y \in ToSet(files) : x # y => Apart(contents[x], contents[y])
    PROVE  /\ SortedByFirstKey(files, contents) \in Seq(Nat)
           /\ ToSet(SortedByFirstKey(files, contents)) = ToSet(files)
           /\ Distinct(SortedByFirstKey(files, contents))
           /\ \A p, q \in DOMAIN SortedByFirstKey(files, contents) : p < q =>
                 Follows(contents[SortedByFirstKey(files, contents)[p]],
                         contents[SortedByFirstKey(files, contents)[q]])
<1> DEFINE S == ToSet(files)
           first(x) == FirstKey(contents[x])
           R == {p \in S \X S : Before(first(p[1]), first(p[2]))}
           s == SortedByFirstKey(files, contents)
<1>1. S \subseteq Nat /\ IsFiniteSet(S) /\ Cardinality(S) = Len(files) /\ Len(files) \in Nat
  BY ElementsOf
<1>2. \A x \in S : first(x) \in contents[x] /\ first(x) \in Versions
  BY FirstKeyOf
<1>3. \A v, w \in Versions : /\ v.key \in Nat /\ v.ts \in Nat
                           /\ ~(Before(v, w) /\ Before(w, v)) /\ ~Before(v, v)
  BY LevelsAssumption DEF Versions, Keys, Before
<1>4. \A u, v, w \in Versions : Before(u, v) /\ Before(v, w) => Before(u, w)
  BY <1>3 DEF Before
<1>5. \A x, y : <<x, y>> \in R <=> x \in S /\ y \in S /\ Before(first(x), first(y))
  OBVIOUS
<1>6. \A x \in S : {y \in S : <<y, x>> \in R} = {y \in S : Before(first(y), first(x))}
  BY <1>5
<1> HIDE DEF R, first
<1>7. ASSUME NEW x \in S, NEW y \in S, x # y
      PROVE  Before(first(x), first(y)) \/ Before(first(y), first(x))
  BY <1>2, <1>7 DEF Apart, Follows
<1>8. /\ Enumeration(S, R) \in Seq(S) /\ DOMAIN Enumeration(S, R) = 1 .. Cardinality(S)
      /\ ToSet(Enumeration(S, R)) = S
      /\ \A p, q \in 1 .. Cardinality(S) :
            p < q => <<Enumeration(S, R)[p], Enumeration(S, R)[q]>> \in R
  <2>1. \A x \in S : <<x, x>> \notin R
    BY <1>2, <1>3, <1>5
  <2>2. ASSUME NEW x \in S, NEW y \in S, NEW z \in S, <<x, y>> \in R, <<y, z>> \in R
        PROVE  <<x, z>> \in R
    <3>1. Before(first(x), first(y)) /\ Before(first(y), first(z))
      BY <1>5, <2>2
    <3> QED BY <1>2, <1>4, <1>5, <3>1
  <2>3. \A x, y \in S : x = y \/ <<x, y>> \in R \/ <<y, x>> \in R
    BY <1>5, <1>7
  <2> HIDE DEF S
  <2> QED BY <1>1, <2>1, <2>2, <2>3, Enumerates
<1>9. s = Enumeration(S, R)
  <2> DEFINE nth(n) == CHOOSE x \in S : Cardinality({y \in S : Before(first(y), first(x))}) = n - 1
             mth(n) == CHOOSE x \in S : Cardinality({y \in S : <<y, x>> \in R}) = n - 1
  <2>1. s = [n \in 1 .. Len(files) |-> nth(n)]
    BY DEF SortedByFirstKey, first
  <2>2. \A n : nth(n) = mth(n)
    BY <1>6
  <2>3. Enumeration(S, R) = [n \in 1 .. Cardinality(S) |-> mth(n)]
    BY DEF Enumeration
  <2> HIDE DEF nth, mth, s, S
  <2> QED BY <1>1, <2>1, <2>2, <2>3
<1> HIDE DEF s
<1>10. s \in Seq(S) /\ s \in Seq(Nat) /\ DOMAIN s = 1 .. Cardinality(S) /\ ToSet(s) = S
       /\ \A p, q \in DOMAIN s : p < q => s[p] \in S /\ s[q] \in S /\ <<s[p], s[q]>> \in R
  <2>1. s \in Seq(S) /\ DOMAIN s = 1 .. Cardinality(S) /\ ToSet(s) = S
        /\ \A p, q \in DOMAIN s : p < q => <<s[p], s[q]>> \in R
    BY <1>8, <1>9
  <2>2. \A p \in DOMAIN s : s[p] \in S
    BY <2>1 DEF ToSet
  <2>3. s \in Seq(Nat)
    BY <1>1, <2>1
  <2> HIDE DEF S
  <2> QED BY <2>1, <2>2, <2>3
<1>11. ASSUME NEW p \in DOMAIN s, NEW q \in DOMAIN s, p < q
       PROVE  Follows(contents[s[p]], contents[s[q]])
  <2>1. /\ s[p] \in S /\ s[q] \in S /\ Before(first(s[p]), first(s[q]))
    BY <1>5, <1>10, <1>11
  <2>2. s[p] # s[q]
    BY <1>2, <1>3, <2>1
  <2>3. Apart(contents[s[p]], contents[s[q]])
    BY <2>1, <2>2
  <2>4. ~Follows(contents[s[q]], contents[s[p]])
    BY <1>2, <1>3, <2>1 DEF Follows
  <2> QED BY <2>3, <2>4 DEF Apart
<1>12. Distinct(s)
  <2>1. ASSUME NEW p \in DOMAIN s, NEW q \in DOMAIN s, s[p] = s[q] PROVE p = q
    <3>1. ASSUME NEW a \in DOMAIN s, NEW b \in DOMAIN s, a < b PROVE s[a] # s[b]
      <4>1. s[a] \in S /\ Before(first(s[a]), first(s[b]))
        BY <1>5, <1>10, <3>1
      <4> QED BY <1>2, <1>3, <4>1
    <3>2. p \in Nat /\ q \in Nat
      <4>1. Cardinality(S) \in Nat
        BY <1>1
      <4> QED BY <1>10, <4>1
    <3>3. ~(p < q) /\ ~(q < p)
      BY <2>1, <3>1
    <3> QED BY <3>2, <3>3
  <2> QED BY <2>1 DEF Distinct
<1> QED BY <1>10, <1>11, <1>12 DEF s

\* The same tables give the same sorted level, and only their contents count.
LEMMA SortedSame ==
    ASSUME NEW a \in Seq(Nat), NEW b \in Seq(Nat), Distinct(a), Distinct(b),
           ToSet(a) = ToSet(b), NEW c, NEW d, \A x \in ToSet(a) : c[x] = d[x]
    PROVE  SortedByFirstKey(a, c) = SortedByFirstKey(b, d)
<1> DEFINE S == ToSet(a)
           nth(n) == CHOOSE x \in S :
              Cardinality({y \in S : Before(FirstKey(c[y]), FirstKey(c[x]))}) = n - 1
           mth(n) == CHOOSE x \in S :
              Cardinality({y \in S : Before(FirstKey(d[y]), FirstKey(d[x]))}) = n - 1
<1>1. Len(a) = Len(b)
  BY ElementsOf
<1>2. \A x \in S : {y \in S : Before(FirstKey(c[y]), FirstKey(c[x]))}
                    = {y \in S : Before(FirstKey(d[y]), FirstKey(d[x]))}
  BY DEF S
<1>3. \A n : nth(n) = mth(n)
  BY <1>2
<1>4. SortedByFirstKey(a, c) = [n \in 1 .. Len(a) |-> nth(n)]
  BY DEF SortedByFirstKey
<1>5. SortedByFirstKey(b, d) = [n \in 1 .. Len(b) |-> mth(n)]
  BY DEF SortedByFirstKey
<1> HIDE DEF nth, mth
<1> QED BY <1>1, <1>3, <1>4, <1>5

-----------------------------------------------------------------------------
(* Splitting.                                                              *)

\* out holds the versions of S with keys up to k, in tables that follow each other.
SplitUpTo(out, S, k) ==
    /\ out \in Seq(SUBSET Versions)
    /\ \A p \in DOMAIN out : out[p] # {}
    /\ UNION ToSet(out) = {v \in S : v.key <= k}
    /\ \A p, q \in DOMAIN out : p < q => Follows(out[p], out[q])

\* It still does when the next key is added.
LEMMA AddKeySplits ==
    ASSUME NEW S \in SUBSET Versions, NEW k \in Nat, NEW out, SplitUpTo(out, S, k)
    PROVE  SplitUpTo(AddKey(out, {v \in S : v.key = k + 1}), S, k + 1)
<1> DEFINE group == {v \in S : v.key = k + 1}
<1>1. \A v \in S : v.key \in Nat
  BY LevelsAssumption DEF Versions, Keys
<1>2. /\ out \in Seq(SUBSET Versions) /\ DOMAIN out = 1 .. Len(out) /\ Len(out) \in Nat
      /\ \A p \in DOMAIN out : out[p] \in SUBSET Versions
  BY DEF SplitUpTo
<1>3. {v \in S : v.key <= k + 1} = {v \in S : v.key <= k} \cup group
  BY <1>1
<1>4. \A p \in DOMAIN out : \A v \in out[p] : v \in S /\ v.key <= k
  BY DEF SplitUpTo, ToSet
<1>5. \A p \in DOMAIN out : Follows(out[p], group)
  <2>1. ASSUME NEW p \in DOMAIN out, NEW v \in out[p], NEW w \in group PROVE v.key < w.key
    <3>1. v \in S /\ v.key <= k /\ v.key \in Nat /\ w.key = k + 1
      BY <1>1, <1>4
    <3> QED BY <3>1
  <2> QED BY <2>1 DEF Follows, Before
<1> HIDE DEF group
<1>6. CASE group = {}
  <2>1. AddKey(out, group) = out
    BY <1>6 DEF AddKey
  <2> QED BY <1>3, <1>6, <2>1 DEF SplitUpTo, group
<1>7. CASE group # {} /\ out # <<>> /\ Cardinality(Last(out)) < TargetSize
  <2> DEFINE n == Len(out)
             new == AddKey(out, group)
  <2>1. n \in Nat \ {0} /\ n \in DOMAIN out /\ Last(out) = out[n]
    BY <1>2, <1>7 DEF Last
  <2>2. group \in SUBSET Versions /\ Last(out) \cup group \in SUBSET Versions
    BY <1>2, <2>1 DEF group
  <2>3. /\ Front(out) \in Seq(SUBSET Versions) /\ Len(Front(out)) = n - 1
        /\ \A p \in 1 .. n - 1 : Front(out)[p] = out[p]
    BY <1>2, <2>1 DEF Front
  <2>4. /\ new \in Seq(SUBSET Versions) /\ Len(new) = n /\ DOMAIN new = 1 .. n
        /\ \A p \in 1 .. n - 1 : new[p] = out[p]
        /\ new[n] = out[n] \cup group
    <3>1. new = Append(Front(out), Last(out) \cup group)
      BY <1>7 DEF AddKey
    <3>2. \A f \in Seq(SUBSET Versions), x \in SUBSET Versions :
             /\ Append(f, x) \in Seq(SUBSET Versions) /\ Len(Append(f, x)) = Len(f) + 1
             /\ \A p \in 1 .. Len(f) : Append(f, x)[p] = f[p]
             /\ Append(f, x)[Len(f) + 1] = x
      OBVIOUS
    <3> HIDE DEF n, new
    <3>3. /\ new \in Seq(SUBSET Versions) /\ Len(new) = (n - 1) + 1
          /\ \A p \in 1 .. n - 1 : new[p] = Front(out)[p]
          /\ new[(n - 1) + 1] = Last(out) \cup group
      BY <2>2, <2>3, <3>1, <3>2
    <3>4. (n - 1) + 1 = n
      BY <2>1
    <3> QED BY <2>1, <2>3, <3>3, <3>4
  <2> HIDE DEF new, n
  <2>5. DOMAIN out = 1 .. n
    BY <1>2 DEF n
  <2>6. \A p \in 1 .. n : new[p] # {}
    BY <1>7, <2>1, <2>4, <2>5 DEF SplitUpTo
  <2>7. UNION ToSet(new) = (UNION ToSet(out)) \cup group
    <3>1. \A p \in 1 .. n : p \in 1 .. n - 1 \/ p = n
      BY <2>1
    <3>2. \A v \in UNION ToSet(new) : \E p \in 1 .. n : v \in new[p]
      BY <2>4 DEF ToSet
    <3>3. \A v \in UNION ToSet(out) : \E p \in 1 .. n : v \in out[p]
      BY <2>5 DEF ToSet
    <3>4. \A p \in 1 .. n : new[p] \subseteq UNION ToSet(new) /\ out[p] \subseteq UNION ToSet(out)
      BY <2>4, <2>5 DEF ToSet
    <3> QED BY <2>1, <2>4, <2>5, <3>1, <3>2, <3>3, <3>4
  <2>8. ASSUME NEW p \in 1 .. n, NEW q \in 1 .. n, p < q PROVE Follows(new[p], new[q])
    <3>1. p \in 1 .. n - 1 /\ Follows(out[p], out[q]) /\ Follows(out[p], group)
      BY <1>5, <2>1, <2>5, <2>8 DEF SplitUpTo
    <3>2. new[p] = out[p] /\ (new[q] = out[q] \/ new[q] = out[q] \cup group)
      BY <2>1, <2>4, <3>1
    <3> QED BY <3>1, <3>2 DEF Follows
  <2>9. UNION ToSet(new) = {v \in S : v.key <= k + 1}
    BY <1>3, <2>7 DEF SplitUpTo
  <2> QED BY <2>4, <2>6, <2>8, <2>9 DEF SplitUpTo, new, group
<1>8. CASE group # {} /\ ~(out # <<>> /\ Cardinality(Last(out)) < TargetSize)
  <2> DEFINE n == Len(out)
             new == AddKey(out, group)
  <2>1. new = Append(out, group)
    BY <1>8 DEF AddKey
  <2>2. group \in SUBSET Versions /\ n \in Nat /\ DOMAIN out = 1 .. n
    BY <1>2 DEF group
  <2>3. /\ new \in Seq(SUBSET Versions) /\ Len(new) = n + 1 /\ DOMAIN new = 1 .. n + 1
        /\ \A p \in 1 .. n : new[p] = out[p]
        /\ new[n + 1] = group
    BY <1>2, <2>1, <2>2
  <2> HIDE DEF new, n
  <2>4. \A p \in 1 .. n + 1 : p \in 1 .. n \/ p = n + 1
    BY <2>2
  <2>5. \A p \in 1 .. n + 1 : new[p] # {}
    BY <1>8, <2>2, <2>3, <2>4 DEF SplitUpTo
  <2>6. UNION ToSet(new) = (UNION ToSet(out)) \cup group
    <3>1. \A v \in UNION ToSet(new) : \E p \in 1 .. n + 1 : v \in new[p]
      BY <2>3 DEF ToSet
    <3>2. \A v \in UNION ToSet(out) : \E p \in 1 .. n : v \in out[p]
      BY <2>2 DEF ToSet
    <3>3. \A p \in 1 .. n + 1 : new[p] \subseteq UNION ToSet(new)
      BY <2>3 DEF ToSet
    <3>4. \A p \in 1 .. n : out[p] \subseteq UNION ToSet(out)
      BY <2>2 DEF ToSet
    <3>5. n + 1 \in 1 .. n + 1 /\ \A p \in 1 .. n : p \in 1 .. n + 1
      BY <2>2
    <3> QED BY <2>3, <2>4, <3>1, <3>2, <3>3, <3>4, <3>5
  <2>7. ASSUME NEW p \in 1 .. n + 1, NEW q \in 1 .. n + 1, p < q
        PROVE  Follows(new[p], new[q])
    <3>1. p \in 1 .. n /\ Follows(out[p], group) /\ (q \in 1 .. n => Follows(out[p], out[q]))
      BY <1>5, <2>2, <2>7 DEF SplitUpTo
    <3> QED BY <2>3, <2>4, <3>1
  <2>8. UNION ToSet(new) = {v \in S : v.key <= k + 1}
    BY <1>3, <2>6 DEF SplitUpTo
  <2> QED BY <2>3, <2>5, <2>7, <2>8 DEF SplitUpTo, new, group
<1> QED BY <1>6, <1>7, <1>8

\* Splitting keeps every version, in non-empty tables that follow each other.
LEMMA SplitKeeps ==
    ASSUME NEW S \in SUBSET Versions
    PROVE  /\ Split(S) \in Seq(SUBSET Versions)
           /\ \A p \in DOMAIN Split(S) : Split(S)[p] # {}
           /\ UNION ToSet(Split(S)) = S
           /\ \A p, q \in DOMAIN Split(S) : p < q => Follows(Split(S)[p], Split(S)[q])
<1> DEFINE group(k) == {v \in S : v.key = k}
           step(f, k) == IF k = 0 THEN <<>> ELSE AddKey(f[k - 1], group(k))
           Solves(f, n) == f = [k \in 0 .. n |-> step(f, k)]
           unsolved == {n \in Nat : \A f : ~Solves(f, n)}
           upto == CHOOSE f : Solves(f, NumKeys)
<1>1. NumKeys \in Nat
  BY LevelsAssumption
<1>2. Split(S) = upto[NumKeys]
  BY DEF Split
\* There is a function that solves the equations: the least n without one would
\* have one, an extension of the function of n - 1.
<1> HIDE DEF group
<1>3. unsolved = {}
  <2>1. SUFFICES ASSUME unsolved # {} PROVE FALSE
    OBVIOUS
  <2> DEFINE n == Min(unsolved)
  <2>2. n \in unsolved /\ n \in Nat /\ \A x \in unsolved : n <= x
    <3>1. unsolved \in SUBSET Nat
      OBVIOUS
    <3> HIDE DEF unsolved
    <3> QED BY <2>1, <3>1, MinOf
  <2> HIDE DEF n
  <2>3. n # 0
    <3>1. ASSUME n = 0 PROVE Solves([k \in 0 .. 0 |-> <<>>], n)
      <4> DEFINE f == [k \in 0 .. 0 |-> <<>>]
      <4>1. \A k \in 0 .. 0 : step(f, k) = <<>>
        OBVIOUS
      <4> HIDE DEF step
      <4> QED BY <3>1, <4>1
    <3> QED BY <2>2, <3>1
  <2>4. n - 1 \in Nat /\ n - 1 \notin unsolved
    BY <2>2, <2>3
  <2>5. PICK f : Solves(f, n - 1)
    BY <2>4
  <2> DEFINE g == [k \in 0 .. n |-> IF k = n THEN AddKey(f[n - 1], group(n)) ELSE f[k]]
  <2>6. ASSUME NEW k \in 0 .. n PROVE g[k] = step(g, k)
    <3>1. CASE k = n
      <4>1. g[n - 1] = f[n - 1]
        BY <2>2, <2>4
      <4> QED BY <2>2, <2>3, <3>1, <4>1
    <3>2. CASE k # n /\ k = 0
      BY <2>4, <2>5, <3>2
    <3>3. CASE k # n /\ k # 0
      <4>1. k \in 0 .. n - 1 /\ k - 1 \in 0 .. n /\ k - 1 # n
        BY <2>2, <3>3
      <4>2. f[k] = AddKey(f[k - 1], group(k))
        BY <2>5, <3>3, <4>1
      <4>3. g[k] = f[k] /\ g[k - 1] = f[k - 1]
        BY <3>3, <4>1
      <4> QED BY <3>3, <4>2, <4>3
    <3> QED BY <3>1, <3>2, <3>3
  <2>7. Solves(g, n)
    <3>1. g = [k \in 0 .. n |-> g[k]]
      OBVIOUS
    <3> HIDE DEF g, step
    <3>2. [k \in 0 .. n |-> g[k]] = [k \in 0 .. n |-> step(g, k)]
      BY <2>6
    <3> QED BY <3>1, <3>2
  <2> HIDE DEF g, Solves
  <2> QED BY <2>2, <2>7
<1>4. Solves(upto, NumKeys)
  <2>1. NumKeys \notin unsolved
    BY <1>3
  <2> HIDE DEF Solves
  <2>2. \E f : Solves(f, NumKeys)
    BY <1>1, <2>1
  <2> QED BY <2>2
<1>5. /\ upto[0] = <<>>
      /\ \A k \in 0 .. NumKeys - 1 : upto[k + 1] = AddKey(upto[k], group(k + 1))
  <2> HIDE DEF upto
  <2>1. \A k \in 0 .. NumKeys : upto[k] = step(upto, k)
    <3> HIDE DEF step
    <3> QED BY <1>4
  <2>2. 0 \in 0 .. NumKeys /\ \A k \in 0 .. NumKeys - 1 : k + 1 \in 0 .. NumKeys /\ k + 1 # 0
                                                      /\ (k + 1) - 1 = k
    BY <1>1
  <2> QED BY <2>1, <2>2
<1> HIDE DEF upto
\* Every upto[k] holds the versions with keys up to k: there is no least k of
\* which this is wrong.
<1> DEFINE wrong == {k \in 0 .. NumKeys : ~SplitUpTo(upto[k], S, k)}
<1>6. wrong = {}
  <2>1. SUFFICES ASSUME wrong # {} PROVE FALSE
    OBVIOUS
  <2> DEFINE k == Min(wrong)
  <2>2. k \in wrong /\ k \in 0 .. NumKeys /\ \A x \in wrong : k <= x
    <3>1. wrong \in SUBSET Nat
      BY <1>1
    <3>2. \A x \in wrong : x \in 0 .. NumKeys
      OBVIOUS
    <3> HIDE DEF wrong
    <3> QED BY <2>1, <3>1, <3>2, MinOf
  <2> HIDE DEF k
  <2>3. k # 0
    <3>1. SplitUpTo(<<>>, S, 0)
      <4>1. {v \in S : v.key <= 0} = {}
        BY LevelsAssumption DEF Versions, Keys
      <4> QED BY <4>1 DEF SplitUpTo, ToSet
    <3> QED BY <1>5, <2>2, <3>1
  <2>4. k - 1 \in Nat /\ k - 1 \in 0 .. NumKeys - 1 /\ k - 1 \in 0 .. NumKeys /\ (k - 1) + 1 = k
        /\ k - 1 \notin wrong
    BY <1>1, <2>2, <2>3
  <2>5. SplitUpTo(upto[k - 1], S, k - 1)
    BY <2>4
  <2>6. SplitUpTo(AddKey(upto[k - 1], {v \in S : v.key = (k - 1) + 1}), S, (k - 1) + 1)
    BY <2>4, <2>5, AddKeySplits
  <2>7. upto[k] = AddKey(upto[k - 1], {v \in S : v.key = k})
    BY <1>5, <2>4 DEF group
  <2> QED BY <2>2, <2>4, <2>6, <2>7
<1>7. SplitUpTo(upto[NumKeys], S, NumKeys)
  BY <1>1, <1>6
<1>8. {v \in S : v.key <= NumKeys} = S
  BY LevelsAssumption DEF Versions, Keys
<1> QED BY <1>2, <1>7, <1>8 DEF SplitUpTo

-----------------------------------------------------------------------------
(* Merging.                                                                *)

\* Of the versions of a key at or below a timestamp one is the newest.
LEMMA NewestExists ==
    ASSUME NEW S \in SUBSET Versions, NEW t \in Nat, NEW v \in S, v.ts <= t
    PROVE  \E n \in S : /\ n.key = v.key /\ n.ts <= t /\ v.ts <= n.ts
                        /\ \A w \in S : w.key = v.key /\ w.ts <= t => w.ts <= n.ts
<1> DEFINE stamps == {w.ts : w \in {x \in S : x.key = v.key /\ x.ts <= t}}
<1>1. stamps \in SUBSET Nat /\ v.ts \in stamps
  BY DEF Versions
<1>2. \A x \in stamps : x <= t
  OBVIOUS
<1>3. PICK m \in stamps : \A x \in stamps : x <= m
  BY <1>1, <1>2, Greatest
<1>4. PICK n \in S : n.key = v.key /\ n.ts <= t /\ n.ts = m
  BY <1>3
<1> QED BY <1>1, <1>3, <1>4

\* A read at or above the watermark finds in the output of a merge what it
\* finds in the merged versions, whether or not the output is the bottom.
THEOREM MergePreservesReads ==
    ASSUME NEW S \in SUBSET Versions, NEW bottom \in BOOLEAN, watermark \in Nat,
           NEW k \in Keys, NEW t \in Nat, watermark <= t
    PROVE  ValueAt(Kept(S, bottom), k, t) = ValueAt(S, k, t)
<1> DEFINE K == Kept(S, bottom)
           Newest(v, V) == /\ v \in V /\ v.key = k /\ v.ts <= t
                           /\ \A x \in V : x.key = k /\ x.ts <= t => x.ts <= v.ts
<1>0. /\ \A v \in S : v.ts \in Nat
      /\ K \subseteq S
  BY DEF Kept, Versions
<1>1. ASSUME NEW v \in S, Newest(v, S), ~v.del PROVE Newest(v, K)
  <2>1. ASSUME NEW w \in S, w.key = v.key, w.ts > v.ts PROVE w.ts > watermark
    BY <1>0, <1>1, <2>1
  <2>2. v \in K
    BY <1>1, <2>1 DEF Kept
  <2> QED BY <1>0, <1>1, <2>2
<1>2. ASSUME NEW v \in K, Newest(v, K) PROVE Newest(v, S)
  <2>1. SUFFICES ASSUME NEW x \in S, x.key = k, x.ts <= t, x.ts > v.ts PROVE FALSE
    BY <1>0, <1>2
  <2>2. x \notin K
    BY <1>0, <1>2, <2>1
  <2>3. x.ts <= watermark
    BY <1>0, <2>2 DEF Kept
  <2>4. PICK n \in S : /\ n.key = k /\ n.ts <= watermark /\ x.ts <= n.ts
                       /\ \A w \in S : w.key = k /\ w.ts <= watermark => w.ts <= n.ts
    BY <2>1, <2>3, NewestExists
  <2>5. n.ts <= t /\ n.ts > v.ts
    BY <1>0, <2>1, <2>4
  <2>6. n \notin K
    BY <1>0, <1>2, <2>4, <2>5
  <2>7. \A w \in S : w.key = n.key /\ w.ts > n.ts => w.ts > watermark
    BY <1>0, <2>4
  \* So n is a tombstone that was dropped, the newest version of k at all,
  \* and v, older than n, was not kept either.
  <2>8. v.ts <= watermark
    BY <1>0, <2>4, <2>5
  <2> QED BY <1>0, <1>2, <2>4, <2>5, <2>8 DEF Kept
<1>3. ASSUME NEW V \in SUBSET S
      PROVE  ValueAt(V, k, t) = {v.ts : v \in {w \in V : Newest(w, V) /\ ~w.del}}
  BY DEF ValueAt
<1>4. ValueAt(S, k, t) \subseteq ValueAt(K, k, t)
  BY <1>0, <1>1, <1>3
<1>5. ValueAt(K, k, t) \subseteq ValueAt(S, k, t)
  BY <1>0, <1>2, <1>3
<1> QED BY <1>4, <1>5
\* Why version v of the merged ones M is not among the kept ones K: a newer one
\* is, or a tombstone that is newer or v itself was dropped at the bottom.
Dropped(v, M, K, bottom) ==
    /\ v.ts <= watermark
    /\ \/ \E n \in K : n.key = v.key /\ v.ts < n.ts /\ n.ts <= watermark
       \/ /\ bottom
          /\ \E n \in M : n.key = v.key /\ v.ts <= n.ts /\ n.ts <= watermark /\ n.del
          /\ \A x \in K : x.key # v.key

\* Nothing else is dropped.
LEMMA KeptDrops ==
    ASSUME NEW M \in SUBSET Versions, Unique(M), NEW bottom \in BOOLEAN, watermark \in Nat
    PROVE  /\ Kept(M, bottom) \subseteq M
           /\ \A v \in M \ Kept(M, bottom) : Dropped(v, M, Kept(M, bottom), bottom)
<1> DEFINE K == Kept(M, bottom)
<1>1. \A v \in M : v.ts \in Nat
  BY DEF Versions
<1>2. K \subseteq M
  BY DEF Kept
<1>3. \A v \in M : v \in K <=>
         \/ v.ts > watermark
         \/ /\ \A w \in M : w.key = v.key /\ w.ts > v.ts => w.ts > watermark
            /\ ~(bottom /\ v.del /\ \A w \in M : ~(w.key = v.key /\ w.ts > v.ts))
  BY DEF Kept
<1> HIDE DEF K
<1>4. ASSUME NEW v \in M \ K PROVE Dropped(v, M, K, bottom)
  <2>1. v.ts <= watermark
    BY <1>1, <1>3
  <2>2. PICK n \in M : /\ n.key = v.key /\ n.ts <= watermark /\ v.ts <= n.ts
                       /\ \A w \in M : w.key = v.key /\ w.ts <= watermark => w.ts <= n.ts
    BY <2>1, NewestExists
  <2>3. CASE n \in K
    <3>1. n.ts # v.ts
      BY <2>2, <2>3 DEF Unique
    <3>2. v.ts < n.ts
      BY <1>1, <2>2, <3>1
    <3> QED BY <2>1, <2>2, <2>3, <3>2 DEF Dropped
  <2>4. CASE n \notin K
    <3>1. \A w \in M : w.key = n.key /\ w.ts > n.ts => w.ts > watermark
      BY <1>1, <2>2
    <3>2. bottom /\ n.del /\ \A w \in M : ~(w.key = n.key /\ w.ts > n.ts)
      BY <1>1, <1>3, <2>2, <2>4, <3>1
    <3>3. ASSUME NEW x \in K, x.key = v.key PROVE FALSE
      <4>1. x \in M /\ x.ts \in Nat /\ n.ts \in Nat /\ x.ts <= n.ts
        BY <1>1, <1>2, <2>2, <3>2, <3>3
      <4>2. x.ts # n.ts
        BY <2>2, <2>4, <3>3, <4>1 DEF Unique
      <4>3. x.ts <= watermark /\ n.ts > x.ts
        BY <2>2, <4>1, <4>2
      <4> QED BY <1>3, <2>2, <3>3, <4>1, <4>3
    <3> QED BY <2>1, <2>2, <3>2, <3>3 DEF Dropped
  <2> QED BY <2>3, <2>4
<1> QED BY <1>2, <1>4 DEF K

\* The output K of a merge of M may take the place of M beside the rest R: only
\* what nobody can read is dropped, and at the bottom only below all the rest.
MayReplace(M, R, K, bottom) ==
    /\ M \in SUBSET Versions /\ R \in SUBSET Versions /\ K \in SUBSET M
    /\ Unique(R \cup M) /\ bottom \in BOOLEAN /\ watermark \in Nat
    /\ \A v \in M \ K : Dropped(v, M, K, bottom)
    /\ \/ ~bottom
       \/ \A v \in M : ~v.del
       \/ \A v \in M, w \in R : v.key = w.key => v.ts < w.ts

\* Then no read at or above the watermark changes.
LEMMA ReplacedReads ==
    ASSUME NEW M, NEW R, NEW K, NEW bottom, MayReplace(M, R, K, bottom),
           NEW k, NEW t \in Nat, watermark <= t
    PROVE  ValueAt(R \cup K, k, t) = ValueAt(R \cup M, k, t)
<1>0. /\ M \in SUBSET Versions /\ R \in SUBSET Versions /\ K \in SUBSET M
      /\ Unique(R \cup M) /\ bottom \in BOOLEAN /\ watermark \in Nat
      /\ \A v \in M \ K : Dropped(v, M, K, bottom)
      /\ \/ ~bottom
         \/ \A v \in M : ~v.del
         \/ \A v \in M, w \in R : v.key = w.key => v.ts < w.ts
  BY DEF MayReplace
<1> USE <1>0
<1> DEFINE Newest(v, V) == /\ v \in V /\ v.key = k /\ v.ts <= t
                           /\ \A x \in V : x.key = k /\ x.ts <= t => x.ts <= v.ts
<1>1. \A v \in R \cup M : v.ts \in Nat
  BY DEF Versions
<1>2. ASSUME NEW V \in SUBSET (R \cup M)
      PROVE  ValueAt(V, k, t) = {v.ts : v \in {w \in V : Newest(w, V) /\ ~w.del}}
  BY DEF ValueAt
<1>3. ASSUME NEW v \in R \cup M, Newest(v, R \cup M), ~v.del
      PROVE  v \in R \cup K /\ Newest(v, R \cup K)
  <2>1. ASSUME v \notin R \cup K PROVE FALSE
    <3>1. Dropped(v, M, K, bottom) /\ v \in M
      BY <2>1
    <3>2. CASE \E n \in K : n.key = v.key /\ v.ts < n.ts /\ n.ts <= watermark
      <4>1. PICK n \in K : n.key = v.key /\ v.ts < n.ts /\ n.ts <= watermark
        BY <3>2
      <4>2. n \in R \cup M /\ n.ts <= t
        BY <1>1, <4>1
      <4> QED BY <1>1, <1>3, <4>1, <4>2
    <3>3. CASE \E n \in M : n.key = v.key /\ v.ts <= n.ts /\ n.ts <= watermark /\ n.del
      <4>1. PICK n \in M : n.key = v.key /\ v.ts <= n.ts /\ n.ts <= watermark /\ n.del
        BY <3>3
      <4>2. n.ts <= t /\ n.ts <= v.ts
        BY <1>1, <1>3, <4>1
      <4>3. n = v
        BY <1>1, <4>1, <4>2 DEF Unique
      <4> QED BY <1>3, <4>1, <4>3
    <3> QED BY <3>1, <3>2, <3>3 DEF Dropped
  <2> QED BY <1>3, <2>1
<1>4. ASSUME NEW v \in R \cup K, Newest(v, R \cup K), ~v.del
      PROVE  Newest(v, R \cup M)
  <2>1. SUFFICES ASSUME NEW x \in M \ K, x.key = k, x.ts <= t, x.ts > v.ts PROVE FALSE
    BY <1>1, <1>4
  <2>2. Dropped(x, M, K, bottom)
    OBVIOUS
  <2>3. CASE \E n \in K : n.key = x.key /\ x.ts < n.ts /\ n.ts <= watermark
    <3>1. PICK n \in K : n.key = x.key /\ x.ts < n.ts /\ n.ts <= watermark
      BY <2>3
    <3>2. n.ts \in Nat /\ x.ts \in Nat /\ v.ts \in Nat /\ n.ts <= t /\ n.ts > v.ts
      BY <1>1, <2>1, <3>1
    <3> QED BY <1>4, <2>1, <3>1, <3>2
  <2>4. CASE /\ bottom
             /\ \E n \in M : n.key = x.key /\ x.ts <= n.ts /\ n.ts <= watermark /\ n.del
             /\ \A y \in K : y.key # x.key
    <3>1. v \in R /\ v.key = x.key
      BY <1>4, <2>1, <2>4
    <3>2. \A y \in M, w \in R : y.key = w.key => y.ts < w.ts
      BY <2>4
    <3>3. x.ts < v.ts
      BY <2>1, <3>1, <3>2
    <3> QED BY <1>1, <2>1, <3>3
  <2> QED BY <2>2, <2>3, <2>4 DEF Dropped
<1>5. ValueAt(R \cup M, k, t) \subseteq ValueAt(R \cup K, k, t)
  BY <1>2, <1>3
<1>6. ValueAt(R \cup K, k, t) \subseteq ValueAt(R \cup M, k, t)
  BY <1>2, <1>4
<1> QED BY <1>5, <1>6

-----------------------------------------------------------------------------
(***************************************************************************)
(* Proofs about Levels, for every strategy, every options of it and every  *)
(* batch.                                                                  *)
(*                                                                         *)
(* The inductive invariant says that no table is listed twice and the ids  *)
(* in use are below those to come; that the replayed records are the       *)
(* levels in memory but for the order in a level, which the sort restores; *)
(* that the tables of a level follow each other and, for the simple and    *)
(* the tiered controller, that what comes first is later; and of the       *)
(* compaction under way that its inputs are where they were, whatever has  *)
(* been flushed in front of them, and which versions its output may lack.  *)
(***************************************************************************)

\* All of A was written after all of B.
Later(A, B) == \A v \in A, w \in B : w.ts < v.ts

LsmState == [l0 : Seq(Nat), levels : Seq(Seq(Nat))]

Tasks == [upper : 0 .. MaxLevels, upperIds : Seq(Nat), lower : 0 .. MaxLevels,
          lowerIds : Seq(Nat), tiers : Seq(Seq(Nat)), bottom : BOOLEAN]

Jobs == [task : Tasks, out : Seq(Nat), tables : Seq(SUBSET Versions)]

Typed ==
    /\ strategy \in Strategies
    /\ lsm \in LsmState
    /\ replayed \in [state : LsmState, maxId : Nat]
    /\ sst \in [Live(lsm) -> (SUBSET Versions) \ {{}}]
    /\ mem \in Nat /\ nextId \in Nat
    /\ ts \in 0 .. MaxTs /\ watermark \in 0 .. ts
    /\ job \subseteq Jobs
    /\ running \in BOOLEAN /\ deleted \in BOOLEAN
    /\ history \subseteq Versions
    /\ reopens \in 0 .. MaxReopens

\* Which places there are, and that no table is in two of them.
Places ==
    /\ strategy = "Tiered" => lsm.l0 = <<>> /\ \A i \in DOMAIN lsm.levels : lsm.levels[i] # <<>>
    /\ strategy # "Tiered" => Len(lsm.levels) = MaxLevels
    /\ Distinct(lsm.l0)
    /\ \A i \in DOMAIN lsm.levels :
          Distinct(lsm.levels[i]) /\ ToSet(lsm.l0) \cap ToSet(lsm.levels[i]) = {}
    /\ \A i, j \in DOMAIN lsm.levels :
          i # j => ToSet(lsm.levels[i]) \cap ToSet(lsm.levels[j]) = {}

\* The ids to come are not in use, now and after a restart.
IdsFresh ==
    /\ \A id \in Live(lsm) : id < nextId /\ id # mem /\ id <= replayed.maxId
    /\ mem < nextId /\ mem <= replayed.maxId

\* The records give the levels of the memory, in another order.
Replays ==
    /\ replayed.state.l0 = lsm.l0
    /\ DOMAIN replayed.state.levels = DOMAIN lsm.levels
    /\ \A i \in DOMAIN lsm.levels :
          /\ Distinct(replayed.state.levels[i])
          /\ ToSet(replayed.state.levels[i]) = ToSet(lsm.levels[i])
    /\ ReplayMatches

Stored == Contents(Live(lsm))

\* No two versions have the same key and timestamp, none is from the future.
VersionsUnique ==
    /\ \A v \in Stored : v.ts <= ts
    /\ Unique(Stored)
    /\ ~deleted => \A v \in Stored : ~v.del

\* The tables of a level or tier follow each other.
LevelsFollow ==
    \A i \in DOMAIN lsm.levels : \A p, q \in DOMAIN lsm.levels[i] :
        p < q => Follows(sst[lsm.levels[i][p]], sst[lsm.levels[i][q]])

\* What comes first in the order L0, level 1, ... is later.
PlacesAge ==
    strategy # "Leveled" =>
        /\ \A p, q \in DOMAIN lsm.l0 : p < q => Later(sst[lsm.l0[p]], sst[lsm.l0[q]])
        /\ \A p \in DOMAIN lsm.l0, i \in DOMAIN lsm.levels :
              Later(sst[lsm.l0[p]], Contents(ToSet(lsm.levels[i])))
        /\ \A i, j \in DOMAIN lsm.levels :
              i < j => Later(Contents(ToSet(lsm.levels[i])), Contents(ToSet(lsm.levels[j])))

\* The number of tiers a task may take, max_merge_width, is None.
WidthUnbounded == strategy = "Tiered" => MaxTs <= MaxMergeWidth

\* The inputs of a task in the levels as they are now.
TiersFit(t) ==
    /\ t.upperIds = <<>> /\ t.lowerIds = <<>> /\ t.tiers # <<>>
    /\ \E u \in 0 .. Len(lsm.levels) :
          /\ u + Len(t.tiers) <= Len(lsm.levels)
          /\ \A i \in DOMAIN t.tiers : t.tiers[i] = lsm.levels[u + i]
          /\ t.bottom /\ WidthUnbounded => u + Len(t.tiers) = Len(lsm.levels)

LevelsFit(t) ==
    /\ t.tiers = <<>>
    /\ t.lower \in 1 .. MaxLevels /\ t.upper < t.lower
    /\ t.upper = 0 =>
          /\ ToSet(t.upperIds) \subseteq ToSet(lsm.l0)
          /\ \A p, q \in DOMAIN lsm.l0 :
                lsm.l0[p] \notin ToSet(t.upperIds) /\ lsm.l0[q] \in ToSet(t.upperIds) => p < q
    /\ t.upper > 0 => ToSet(t.upperIds) \subseteq ToSet(lsm.levels[t.upper])
    /\ ToSet(t.lowerIds) \subseteq ToSet(lsm.levels[t.lower])
    /\ strategy = "Simple" =>
          /\ t.lower = t.upper + 1
          /\ t.lowerIds = lsm.levels[t.lower]
          /\ t.upper > 0 => t.upperIds = lsm.levels[t.upper]
          /\ t.bottom => t.lower = MaxLevels /\ t.upper > 0
    /\ strategy = "Leveled" =>
          \A id \in ToSet(lsm.levels[t.lower]) \ ToSet(t.lowerIds) :
              Apart(sst[id], Contents(Inputs(t)))

Fits(t) == IF strategy = "Tiered" THEN TiersFit(t) ELSE LevelsFit(t)

Output(j) == UNION ToSet(j.tables)

\* The tables of a job are new, in order, and lack only what nobody can read.
Made(j) ==
    /\ Len(j.tables) = Len(j.out) /\ Distinct(j.out)
    /\ \A id \in ToSet(j.out) : id < nextId /\ id # mem /\ id \notin Live(lsm)
    /\ \A p \in DOMAIN j.tables : j.tables[p] # {}
    /\ \A p, q \in DOMAIN j.tables : p < q => Follows(j.tables[p], j.tables[q])
    /\ strategy = "Tiered" => j.out # <<>>
    /\ Output(j) \subseteq Contents(Inputs(j.task))
    /\ \A v \in Contents(Inputs(j.task)) \ Output(j) :
          Dropped(v, Contents(Inputs(j.task)), Output(j), j.task.bottom)

Scheduled ==
    \A j \in job : /\ \A k \in job : k = j
                   /\ Fits(j.task) /\ Made(j)

\* ReadsPreserved, where max_merge_width does not cut a task off.
Reads ==
    (strategy = "Leveled" => ~deleted) /\ WidthUnbounded =>
        SameReads /\ \A v \in history : v.ts <= ts

IInv ==
    /\ Typed /\ Places /\ IdsFresh /\ Replays /\ VersionsUnique
    /\ LevelsFollow /\ PlacesAge /\ Scheduled /\ Reads

-----------------------------------------------------------------------------
(* Applying a result.                                                      *)

\* The leveled controllers change L0 or the upper level, and the lower level.
LEMMA LevelsApplied ==
    ASSUME NEW s \in LsmState, Len(s.levels) = MaxLevels,
           NEW t \in Tasks, t.lower \in 1 .. MaxLevels, t.upper < t.lower,
           NEW out \in Seq(Nat)
    PROVE  /\ ApplyToLevels(s, t, out) \in LsmState
           /\ ApplyToLevels(s, t, out).l0 =
                 IF t.upper = 0 THEN Without(s.l0, ToSet(t.upperIds)) ELSE s.l0
           /\ Len(ApplyToLevels(s, t, out).levels) = MaxLevels
           /\ \A i \in 1 .. MaxLevels : ApplyToLevels(s, t, out).levels[i] =
                 IF i = t.lower THEN Without(s.levels[i], ToSet(t.lowerIds)) \o out
                 ELSE IF i = t.upper THEN Without(s.levels[i], ToSet(t.upperIds))
                 ELSE s.levels[i]
<1> DEFINE upper == IF t.upper = 0
                    THEN [s EXCEPT !.l0 = Without(@, ToSet(t.upperIds))]
                    ELSE [s EXCEPT !.levels[t.upper] = Without(@, ToSet(t.upperIds))]
           r == ApplyToLevels(s, t, out)
<1>1. /\ MaxLevels \in Nat /\ t.upper \in 0 .. MaxLevels
      /\ s.l0 \in Seq(Nat) /\ s.levels \in Seq(Seq(Nat)) /\ DOMAIN s.levels = 1 .. MaxLevels
      /\ \A i \in 1 .. MaxLevels : s.levels[i] \in Seq(Nat)
  <2>1. MaxLevels \in Nat
    BY LevelsAssumption
  <2>2. s.l0 \in Seq(Nat) /\ s.levels \in Seq(Seq(Nat)) /\ t.upper \in 0 .. MaxLevels
    BY DEF LsmState, Tasks
  <2> QED BY <2>1, <2>2
<1>2. \A f \in Seq(Nat) : \A gone : Without(f, gone) \in Seq(Nat)
  BY WithoutKeeps
<1>3. r = [upper EXCEPT !.levels[t.lower] = Without(@, ToSet(t.lowerIds)) \o out]
  BY DEF ApplyToLevels
<1>4. /\ upper \in LsmState
      /\ upper.l0 = IF t.upper = 0 THEN Without(s.l0, ToSet(t.upperIds)) ELSE s.l0
      /\ Len(upper.levels) = MaxLevels /\ DOMAIN upper.levels = 1 .. MaxLevels
      /\ \A i \in 1 .. MaxLevels : upper.levels[i] =
            IF i = t.upper THEN Without(s.levels[i], ToSet(t.upperIds)) ELSE s.levels[i]
  <2>1. CASE t.upper = 0
    <3>1. upper = [l0 |-> Without(s.l0, ToSet(t.upperIds)), levels |-> s.levels]
      BY <2>1 DEF LsmState
    <3> HIDE DEF upper
    <3> QED BY <1>1, <1>2, <2>1, <3>1 DEF LsmState
  <2>2. CASE t.upper # 0
    <3> DEFINE ls == [s.levels EXCEPT ![t.upper] = Without(@, ToSet(t.upperIds))]
    <3>1. upper = [l0 |-> s.l0, levels |-> ls]
      BY <2>2 DEF LsmState
    <3>2. /\ ls \in [1 .. MaxLevels -> Seq(Nat)]
          /\ \A i \in 1 .. MaxLevels : ls[i] =
                IF i = t.upper THEN Without(s.levels[i], ToSet(t.upperIds)) ELSE s.levels[i]
      BY <1>1, <1>2, <2>2
    <3> HIDE DEF upper, ls
    <3>3. ls \in Seq(Seq(Nat)) /\ Len(ls) = MaxLevels /\ DOMAIN ls = 1 .. MaxLevels
      BY <1>1, <3>2
    <3> QED BY <1>1, <2>2, <3>1, <3>2, <3>3 DEF LsmState
  <2> QED BY <2>1, <2>2
<1> HIDE DEF upper, r
<1> DEFINE low == Without(upper.levels[t.lower], ToSet(t.lowerIds)) \o out
           ls == [upper.levels EXCEPT ![t.lower] = low]
<1>5. upper.l0 \in Seq(Nat) /\ upper.levels \in Seq(Seq(Nat))
      /\ \A i \in 1 .. MaxLevels : upper.levels[i] \in Seq(Nat)
  BY <1>4 DEF LsmState
<1>6. low \in Seq(Nat)
  BY <1>2, <1>5
<1>7. r = [l0 |-> upper.l0, levels |-> ls]
  BY <1>3, <1>4 DEF LsmState
<1> HIDE DEF low
<1>8. /\ ls \in [1 .. MaxLevels -> Seq(Nat)]
      /\ \A i \in 1 .. MaxLevels : ls[i] = IF i = t.lower THEN low ELSE upper.levels[i]
  BY <1>4, <1>5, <1>6
<1> HIDE DEF ls
<1>9. ls \in Seq(Seq(Nat)) /\ Len(ls) = MaxLevels
  BY <1>1, <1>8
<1>10. t.lower # t.upper
  BY <1>1
<1>11. low = Without(s.levels[t.lower], ToSet(t.lowerIds)) \o out
  BY <1>4, <1>10 DEF low
<1>12. \A i \in 1 .. MaxLevels : ls[i] =
          IF i = t.lower THEN Without(s.levels[i], ToSet(t.lowerIds)) \o out
          ELSE IF i = t.upper THEN Without(s.levels[i], ToSet(t.upperIds))
          ELSE s.levels[i]
  BY <1>4, <1>8, <1>11
<1>13. r \in LsmState /\ r.l0 = upper.l0 /\ r.levels = ls
  BY <1>5, <1>7, <1>9 DEF LsmState
<1> QED BY <1>4, <1>9, <1>12, <1>13 DEF r

\* Taking a sequence apart and putting it together.
LEMMA PrefixOf ==
    ASSUME NEW X, NEW s \in Seq(X), NEW k \in 0 .. Len(s)
    PROVE  /\ SubSeq(s, 1, k) \in Seq(X) /\ Len(SubSeq(s, 1, k)) = k
           /\ DOMAIN SubSeq(s, 1, k) = 1 .. k
           /\ \A i \in 1 .. k : SubSeq(s, 1, k)[i] = s[i]
  OBVIOUS

LEMMA SuffixOf ==
    ASSUME NEW X, NEW s \in Seq(X), NEW k \in 0 .. Len(s)
    PROVE  /\ SubSeq(s, k + 1, Len(s)) \in Seq(X)
           /\ Len(SubSeq(s, k + 1, Len(s))) = Len(s) - k
           /\ \A i \in 1 .. Len(s) - k : SubSeq(s, k + 1, Len(s))[i] = s[k + i]
  OBVIOUS

LEMMA JoinedSeq ==
    ASSUME NEW A \in Seq(Seq(Nat)), NEW B \in Seq(Seq(Nat)), NEW x \in Seq(Nat)
    PROVE  /\ A \o <<x>> \o B \in Seq(Seq(Nat))
           /\ Len(A \o <<x>> \o B) = Len(A) + 1 + Len(B)
           /\ DOMAIN (A \o <<x>> \o B) = 1 .. Len(A) + 1 + Len(B)
           /\ \A p \in 1 .. Len(A) : (A \o <<x>> \o B)[p] = A[p]
           /\ (A \o <<x>> \o B)[Len(A) + 1] = x
           /\ \A k \in 1 .. Len(B) : (A \o <<x>> \o B)[Len(A) + 1 + k] = B[k]
  OBVIOUS

\* The tiers that are not among the m after the first u of n.
Outside(u, m, n) == (1 .. u) \cup (u + m + 1 .. n)

\* The tiers of t are those of s after the first u.
TiersAt(s, t, u) ==
    /\ u \in Nat /\ t.tiers # <<>> /\ u + Len(t.tiers) <= Len(s.levels)
    /\ \A i \in DOMAIN t.tiers : t.tiers[i] = s.levels[u + i]

\* r has out where s has the tiers of t.
TiersReplaced(s, t, u, out, r) ==
    LET outside == Outside(u, Len(t.tiers), Len(s.levels)) IN
    /\ r \in LsmState /\ r.l0 = s.l0
    /\ \A p \in DOMAIN r.levels :
          r.levels[p] = out \/ \E i \in outside : r.levels[p] = s.levels[i]
    /\ \E p \in DOMAIN r.levels : r.levels[p] = out
    /\ \A i \in outside : \E p \in DOMAIN r.levels : r.levels[p] = s.levels[i]
    /\ \A p, q \in DOMAIN r.levels : p < q =>
          \/ \E i, k \in outside :
                i < k /\ r.levels[p] = s.levels[i] /\ r.levels[q] = s.levels[k]
          \/ \E i \in 1 .. u : r.levels[p] = s.levels[i] /\ r.levels[q] = out
          \/ \E k \in u + Len(t.tiers) + 1 .. Len(s.levels) :
                r.levels[p] = out /\ r.levels[q] = s.levels[k]

\* The tiered controller puts the output where its inputs, a block of tiers, were.
LEMMA TiersApplied ==
    ASSUME NEW s \in LsmState, Distinct(s.levels),
           NEW t \in Tasks, NEW out \in Seq(Nat), NEW u, TiersAt(s, t, u)
    PROVE  TiersReplaced(s, t, u, out, ApplyToTiers(s, t, out))
<1> DEFINE n == Len(s.levels)
           m == Len(t.tiers)
           merged == {i \in DOMAIN s.levels : s.levels[i] \in ToSet(t.tiers)}
           front == SubSeq(s.levels, 1, u + m)
           A == Without(front, ToSet(t.tiers))
           B == SubSeq(s.levels, u + m + 1, n)
           outside == Outside(u, Len(t.tiers), Len(s.levels))
           r == ApplyToTiers(s, t, out)
<1>0. /\ u \in Nat /\ t.tiers # <<>> /\ u + Len(t.tiers) <= Len(s.levels)
      /\ \A i \in DOMAIN t.tiers : t.tiers[i] = s.levels[u + i]
      /\ outside = (1 .. u) \cup (u + Len(t.tiers) + 1 .. Len(s.levels))
  BY DEF TiersAt, Outside
<1> HIDE DEF outside
<1>1. /\ s.l0 \in Seq(Nat) /\ s.levels \in Seq(Seq(Nat)) /\ DOMAIN s.levels = 1 .. n /\ n \in Nat
      /\ \A i \in 1 .. n : s.levels[i] \in Seq(Nat)
      /\ t.tiers \in Seq(Seq(Nat)) /\ DOMAIN t.tiers = 1 .. m /\ m \in Nat \ {0}
      /\ u \in Nat /\ u + m <= n
      /\ \A i \in 1 .. m : t.tiers[i] = s.levels[u + i]
      /\ outside = (1 .. u) \cup (u + m + 1 .. n)
  <2>1. s.l0 \in Seq(Nat) /\ s.levels \in Seq(Seq(Nat)) /\ t.tiers \in Seq(Seq(Nat))
    BY DEF LsmState, Tasks
  <2>2. DOMAIN t.tiers = 1 .. m /\ m \in Nat \ {0}
    BY <1>0, <2>1
  <2>3. DOMAIN s.levels = 1 .. n /\ n \in Nat /\ \A i \in 1 .. n : s.levels[i] \in Seq(Nat)
    BY <2>1
  <2>4. \A i \in 1 .. m : t.tiers[i] = s.levels[u + i]
    BY <1>0, <2>2
  <2> QED BY <1>0, <2>1, <2>2, <2>3, <2>4
<1> HIDE DEF m
<1>a. Len(s.levels) = n
  OBVIOUS
<1>b. m \in Nat /\ n \in Nat /\ u + m \in Nat /\ u + m <= n
  BY <1>1
<1> HIDE DEF n
<1>2. merged = u + 1 .. u + m
  <2>1. ASSUME NEW i \in merged PROVE i \in u + 1 .. u + m
    <3>1. PICK k \in 1 .. m : s.levels[i] = t.tiers[k]
      <4>1. s.levels[i] \in ToSet(t.tiers)
        OBVIOUS
      <4> HIDE DEF merged
      <4> QED BY <1>1, <4>1 DEF ToSet
    <3>2. s.levels[i] = s.levels[u + k] /\ u + k \in 1 .. n /\ i \in 1 .. n
      BY <1>1, <3>1
    <3>3. i = u + k
      BY <1>1, <3>2 DEF Distinct
    <3> QED BY <1>1, <3>3
  <2>2. ASSUME NEW i \in u + 1 .. u + m PROVE i \in merged
    <3>1. i - u \in 1 .. m /\ u + (i - u) = i /\ i \in 1 .. n
      BY <1>1
    <3>2. t.tiers[i - u] = s.levels[i]
      BY <1>1, <3>1
    <3> QED BY <1>1, <3>1, <3>2 DEF ToSet
  <2> QED BY <2>1, <2>2
<1>3. Max(merged) = u + m
  <2> HIDE DEF merged
  <2>1. merged \in SUBSET Nat /\ u + m \in merged /\ u + m \in Nat
        /\ \A x \in merged : x <= u + m
    BY <1>1, <1>2
  <2>2. Max(merged) \in merged /\ \A x \in merged : x <= Max(merged)
    BY <2>1, MaxOf
  <2>3. Max(merged) \in Nat /\ Max(merged) <= u + m /\ u + m <= Max(merged)
    BY <2>1, <2>2
  <2> QED BY <2>1, <2>3
<1>4. r = [l0 |-> s.l0, levels |-> A \o <<out>> \o B]
  <2>1. s = [l0 |-> s.l0, levels |-> s.levels]
    BY DEF LsmState
  <2>2. r = [s EXCEPT !.levels = A \o <<out>> \o SubSeq(s.levels, u + m + 1, Len(s.levels))]
    BY <1>3, <2>1 DEF ApplyToTiers
  <2> QED BY <1>a, <2>1, <2>2
<1> HIDE DEF merged, r
<1>5. /\ front \in Seq(Seq(Nat)) /\ Len(front) = u + m /\ DOMAIN front = 1 .. u + m
      /\ \A i \in 1 .. u + m : front[i] = s.levels[i]
  <2>1. u + m \in 0 .. Len(s.levels)
    BY <1>1, <1>a
  <2> QED BY <1>1, <2>1, PrefixOf
<1> HIDE DEF front
<1>6. /\ A \in Seq(Seq(Nat)) /\ ToSet(A) = ToSet(front) \ ToSet(t.tiers)
      /\ \A p, q \in DOMAIN A : p < q =>
            \E i, j \in DOMAIN front : i < j /\ front[i] = A[p] /\ front[j] = A[q]
  <2>1. front \in Seq(Seq(Nat))
    BY <1>5
  <2> DEFINE X == Seq(Nat)
             gone == ToSet(t.tiers)
  <2> HIDE DEF X, gone
  <2>2. \A f \in Seq(X) : /\ Without(f, gone) \in Seq(X)
                         /\ ToSet(Without(f, gone)) = ToSet(f) \ gone
                         /\ \A p, q \in DOMAIN Without(f, gone) : p < q =>
                               \E i, j \in DOMAIN f : /\ i < j
                                                     /\ f[i] = Without(f, gone)[p]
                                                     /\ f[j] = Without(f, gone)[q]
    BY WithoutKeeps
  <2> QED BY <2>1, <2>2 DEF X, gone
<1>7. ASSUME NEW i \in 1 .. u + m, s.levels[i] \notin ToSet(t.tiers) PROVE i \in 1 .. u
  <2>1. i \notin u + 1 .. u + m
    BY <1>1, <1>2, <1>7 DEF merged
  <2> QED BY <1>1, <2>1
<1>8. \A i \in 1 .. u : s.levels[i] \notin ToSet(t.tiers)
  <2>1. ASSUME NEW i \in 1 .. u PROVE i \in 1 .. n /\ i \notin u + 1 .. u + m
    BY <1>1
  <2> QED BY <1>1, <1>2, <2>1 DEF merged
<1> DEFINE a == Len(A)
           b == n - (u + m)
<1>9. a \in Nat /\ DOMAIN A = 1 .. a /\ b \in Nat
  BY <1>1, <1>6
<1>10. /\ B \in Seq(Seq(Nat)) /\ Len(B) = b
       /\ \A k \in 1 .. b : B[k] = s.levels[u + m + k]
  <2> DEFINE k == u + m
  <2>1. k \in 0 .. Len(s.levels)
    BY <1>b, <1>a
  <2>2. B = SubSeq(s.levels, k + 1, Len(s.levels)) /\ b = Len(s.levels) - k
    BY <1>a
  <2> HIDE DEF k, B, b
  <2>3. /\ SubSeq(s.levels, k + 1, Len(s.levels)) \in Seq(Seq(Nat))
        /\ Len(SubSeq(s.levels, k + 1, Len(s.levels))) = Len(s.levels) - k
        /\ \A i \in 1 .. Len(s.levels) - k :
              SubSeq(s.levels, k + 1, Len(s.levels))[i] = s.levels[k + i]
    BY <1>1, <2>1, SuffixOf
  <2>4. B \in Seq(Seq(Nat)) /\ Len(B) = b /\ \A i \in 1 .. b : B[i] = s.levels[k + i]
    BY <2>2, <2>3
  <2> QED BY <2>4 DEF k
<1> HIDE DEF A, B, a, b
<1>11. \A p \in 1 .. a : A[p] \in ToSet(A)
  BY <1>9 DEF ToSet
<1>12. \A p \in 1 .. a : \E i \in 1 .. u : A[p] = s.levels[i]
  <2>1. ASSUME NEW p \in 1 .. a PROVE \E i \in 1 .. u : A[p] = s.levels[i]
    <3>a. A[p] \in ToSet(front)
      BY <1>6, <1>11
    <3>1. PICK i \in 1 .. u + m : front[i] = A[p]
      BY <1>5, <3>a DEF ToSet
    <3>2. s.levels[i] = A[p] /\ A[p] \notin ToSet(t.tiers)
      BY <1>5, <1>6, <1>11, <3>1
    <3> QED BY <1>7, <3>2
  <2> QED BY <2>1
<1>13. ASSUME NEW p \in 1 .. a, NEW q \in 1 .. a, p < q
       PROVE  \E i, j \in 1 .. u : i < j /\ A[p] = s.levels[i] /\ A[q] = s.levels[j]
  <2>0. p \in DOMAIN A /\ q \in DOMAIN A
    BY <1>9
  <2>a. \E i, j \in DOMAIN front : i < j /\ front[i] = A[p] /\ front[j] = A[q]
    BY <1>6, <1>13, <2>0
  <2>1. PICK i \in 1 .. u + m, j \in 1 .. u + m : i < j /\ front[i] = A[p] /\ front[j] = A[q]
    BY <1>5, <2>a
  <2>2. /\ s.levels[i] = A[p] /\ A[p] \notin ToSet(t.tiers)
        /\ s.levels[j] = A[q] /\ A[q] \notin ToSet(t.tiers)
    BY <1>5, <1>6, <1>11, <2>1
  <2> QED BY <1>7, <2>1, <2>2
<1>14. \A i \in 1 .. u : \E p \in 1 .. a : A[p] = s.levels[i]
  <2>1. ASSUME NEW i \in 1 .. u PROVE s.levels[i] \in ToSet(A)
    <3>1. i \in 1 .. u + m
      BY <1>1
    <3> QED BY <1>5, <1>6, <1>8, <3>1 DEF ToSet
  <2> QED BY <1>9, <2>1 DEF ToSet
<1> DEFINE ls == A \o <<out>> \o B
<1>15. /\ ls \in Seq(Seq(Nat)) /\ Len(ls) = a + 1 + b /\ DOMAIN ls = 1 .. a + 1 + b
       /\ \A p \in 1 .. a : ls[p] = A[p]
       /\ ls[a + 1] = out
       /\ \A k \in 1 .. b : ls[a + 1 + k] = B[k]
  <2>1. A \in Seq(Seq(Nat)) /\ B \in Seq(Seq(Nat)) /\ Len(A) = a /\ Len(B) = b
    BY <1>6, <1>10 DEF a
  <2>2. /\ A \o <<out>> \o B \in Seq(Seq(Nat))
        /\ Len(A \o <<out>> \o B) = Len(A) + 1 + Len(B)
        /\ DOMAIN (A \o <<out>> \o B) = 1 .. Len(A) + 1 + Len(B)
        /\ \A p \in 1 .. Len(A) : (A \o <<out>> \o B)[p] = A[p]
        /\ (A \o <<out>> \o B)[Len(A) + 1] = out
        /\ \A k \in 1 .. Len(B) : (A \o <<out>> \o B)[Len(A) + 1 + k] = B[k]
    BY <2>1, JoinedSeq
  <2> QED BY <2>1, <2>2
<1> HIDE DEF ls
<1>16. \A p \in 1 .. a + 1 + b :
          p \in 1 .. a \/ p = a + 1 \/ (p - (a + 1) \in 1 .. b /\ p = a + 1 + (p - (a + 1)))
  BY <1>9
<1>17. \A k \in 1 .. b : u + m + k \in u + m + 1 .. n
  BY <1>b, <1>9 DEF b
<1>18. \A i \in u + m + 1 .. n : i - (u + m) \in 1 .. b /\ u + m + (i - (u + m)) = i
  BY <1>b, <1>9 DEF b
<1>19. r \in LsmState /\ r.l0 = s.l0 /\ r.levels = ls
  <2>1. r = [l0 |-> s.l0, levels |-> ls]
    BY <1>4 DEF ls
  <2> QED BY <1>1, <1>15, <2>1 DEF LsmState
<1>20. ASSUME NEW p \in 1 .. a + 1 + b
       PROVE  \/ p \in 1 .. a /\ \E i \in 1 .. u : ls[p] = s.levels[i]
              \/ p = a + 1 /\ ls[p] = out
              \/ p > a + 1 /\ \E j \in u + m + 1 .. n :
                                  ls[p] = s.levels[j] /\ j = u + m + (p - (a + 1))
  <2>1. CASE p \in 1 .. a
    BY <1>12, <1>15, <2>1
  <2>2. CASE p = a + 1
    BY <1>15, <2>2
  <2>3. CASE p - (a + 1) \in 1 .. b /\ p = a + 1 + (p - (a + 1))
    <3>1. ls[p] = s.levels[u + m + (p - (a + 1))]
      BY <1>10, <1>15, <2>3
    <3>2. p > a + 1
      BY <1>9, <2>3
    <3> QED BY <1>17, <2>3, <3>1, <3>2
  <2> QED BY <1>16, <2>1, <2>2, <2>3
<1>21. \A i \in outside : i \in 1 .. u \/ i \in u + m + 1 .. n
  BY <1>1
<1>22. 1 .. u \subseteq outside /\ u + m + 1 .. n \subseteq outside
  BY <1>1
<1>23. \A p \in 1 .. a + 1 + b : ls[p] = out \/ \E i \in outside : ls[p] = s.levels[i]
  BY <1>20, <1>22
<1>24. a + 1 \in 1 .. a + 1 + b /\ ls[a + 1] = out
  BY <1>9, <1>15
<1>25. ASSUME NEW i \in outside PROVE \E p \in 1 .. a + 1 + b : ls[p] = s.levels[i]
  <2>1. CASE i \in 1 .. u
    <3>1. PICK p \in 1 .. a : A[p] = s.levels[i]
      BY <1>14, <2>1
    <3>2. p \in 1 .. a + 1 + b
      BY <1>9
    <3> QED BY <1>15, <3>1, <3>2
  <2>2. CASE i \in u + m + 1 .. n
    <3> DEFINE k == i - (u + m)
    <3>1. k \in 1 .. b /\ u + m + k = i
      BY <1>18, <2>2
    <3> HIDE DEF k
    <3>2. a + 1 + k \in 1 .. a + 1 + b /\ ls[a + 1 + k] = s.levels[i]
      BY <1>9, <1>10, <1>15, <3>1
    <3> QED BY <3>2
  <2> QED BY <1>21, <2>1, <2>2
<1>26. ASSUME NEW p \in 1 .. a + 1 + b, NEW q \in 1 .. a + 1 + b, p < q
       PROVE  \/ \E i, j \in outside :
                    i < j /\ ls[p] = s.levels[i] /\ ls[q] = s.levels[j]
              \/ \E i \in 1 .. u : ls[p] = s.levels[i] /\ ls[q] = out
              \/ \E j \in u + m + 1 .. n : ls[p] = out /\ ls[q] = s.levels[j]
  <2>1. CASE p \in 1 .. a /\ q \in 1 .. a
    <3>1. PICK i \in 1 .. u, j \in 1 .. u : i < j /\ A[p] = s.levels[i] /\ A[q] = s.levels[j]
      BY <1>13, <1>26, <2>1
    <3> QED BY <1>15, <1>22, <2>1, <3>1
  <2>2. CASE p \in 1 .. a /\ q = a + 1
    BY <1>12, <1>15, <2>2
  <2>3. CASE p \in 1 .. a /\ q > a + 1
    <3>1. PICK i \in 1 .. u : ls[p] = s.levels[i]
      BY <1>12, <1>15, <2>3
    <3>2. q \notin 1 .. a /\ q # a + 1
      BY <1>9, <2>3
    <3>3. PICK j \in u + m + 1 .. n : ls[q] = s.levels[j]
      BY <1>20, <3>2
    <3>4. i < j
      BY <1>1
    <3> QED BY <1>22, <3>1, <3>3, <3>4
  <2>4. CASE p = a + 1
    <3>1. q \notin 1 .. a /\ q # a + 1
      BY <1>9, <1>26, <2>4
    <3>2. PICK j \in u + m + 1 .. n : ls[q] = s.levels[j]
      BY <1>20, <3>1
    <3> QED BY <1>15, <2>4, <3>2
  <2>5. CASE p > a + 1
    <3>1. p \notin 1 .. a /\ p # a + 1 /\ q \notin 1 .. a /\ q # a + 1
      BY <1>9, <1>26, <2>5
    <3>2. PICK i \in u + m + 1 .. n : ls[p] = s.levels[i] /\ i = u + m + (p - (a + 1))
      BY <1>20, <3>1
    <3>3. PICK j \in u + m + 1 .. n : ls[q] = s.levels[j] /\ j = u + m + (q - (a + 1))
      BY <1>20, <3>1
    <3>4. i < j
      BY <1>1, <1>9, <1>26, <3>2, <3>3
    <3> QED BY <1>22, <3>2, <3>3, <3>4
  <2>6. \/ p \in 1 .. a /\ (q \in 1 .. a \/ q = a + 1 \/ q > a + 1)
        \/ p = a + 1 \/ p > a + 1
    BY <1>9
  <2> QED BY <2>1, <2>2, <2>3, <2>4, <2>5, <2>6
<1>27. DOMAIN r.levels = 1 .. a + 1 + b /\ r.levels = ls
  BY <1>15, <1>19
<1>28. m = Len(t.tiers) /\ n = Len(s.levels)
  BY DEF m, n
<1>29. \A p \in DOMAIN r.levels :
          r.levels[p] = out \/ \E i \in outside : r.levels[p] = s.levels[i]
  BY <1>23, <1>27
<1>30. \E p \in DOMAIN r.levels : r.levels[p] = out
  BY <1>24, <1>27
<1>31. \A i \in outside : \E p \in DOMAIN r.levels : r.levels[p] = s.levels[i]
  BY <1>25, <1>27
<1> DEFINE Pair(x, y) ==
              \/ \E i, j \in outside : i < j /\ x = s.levels[i] /\ y = s.levels[j]
              \/ \E i \in 1 .. u : x = s.levels[i] /\ y = out
              \/ \E j \in u + Len(t.tiers) + 1 .. Len(s.levels) : x = out /\ y = s.levels[j]
<1>32. \A p, q \in DOMAIN r.levels : p < q => Pair(r.levels[p], r.levels[q])
  <2>1. ASSUME NEW p \in 1 .. a + 1 + b, NEW q \in 1 .. a + 1 + b, p < q
        PROVE  Pair(ls[p], ls[q])
    <3>1. CASE \E i, j \in outside : i < j /\ ls[p] = s.levels[i] /\ ls[q] = s.levels[j]
      BY <3>1
    <3>2. CASE \E i \in 1 .. u : ls[p] = s.levels[i] /\ ls[q] = out
      BY <3>2
    <3>3. CASE \E j \in u + m + 1 .. n : ls[p] = out /\ ls[q] = s.levels[j]
      BY <1>28, <3>3
    <3> HIDE DEF Pair
    <3> QED BY <1>26, <2>1, <3>1, <3>2, <3>3
  <2> HIDE DEF Pair
  <2> QED BY <1>27, <2>1
<1> QED BY <1>19, <1>29, <1>30, <1>31, <1>32 DEF TiersReplaced, outside, r

\* Two sequences put together list what they list, once each if apart.
LEMMA JoinedSets ==
    ASSUME NEW a \in Seq(Nat), NEW b \in Seq(Nat)
    PROVE  /\ a \o b \in Seq(Nat)
           /\ ToSet(a \o b) = ToSet(a) \cup ToSet(b)
           /\ Distinct(a) /\ Distinct(b) /\ ToSet(a) \cap ToSet(b) = {} => Distinct(a \o b)
<1> DEFINE n == Len(a)
           m == Len(b)
           c == a \o b
<1>1. /\ n \in Nat /\ m \in Nat /\ DOMAIN a = 1 .. n /\ DOMAIN b = 1 .. m
      /\ c \in Seq(Nat) /\ DOMAIN c = 1 .. n + m
      /\ \A i \in 1 .. n : c[i] = a[i]
      /\ \A k \in 1 .. m : c[n + k] = b[k]
  OBVIOUS
<1> HIDE DEF n, m, c
<1>2. \A i \in 1 .. n + m : i \in 1 .. n \/ (i - n \in 1 .. m /\ i = n + (i - n))
  BY <1>1
<1>3. \A i \in 1 .. n : i \in 1 .. n + m /\ \A k \in 1 .. m : n + k \in 1 .. n + m
  BY <1>1
<1>4. \A i \in 1 .. n : a[i] \in ToSet(a)
  BY <1>1 DEF ToSet
<1>5. \A k \in 1 .. m : b[k] \in ToSet(b)
  BY <1>1 DEF ToSet
<1>6. \A i \in 1 .. n + m : c[i] \in ToSet(c)
  BY <1>1 DEF ToSet
<1>7. ASSUME NEW x \in ToSet(c) PROVE x \in ToSet(a) \cup ToSet(b)
  <2>1. PICK i \in 1 .. n + m : c[i] = x
    BY <1>1 DEF ToSet
  <2>2. CASE i \in 1 .. n
    BY <1>1, <1>4, <2>1, <2>2
  <2>3. CASE i - n \in 1 .. m /\ i = n + (i - n)
    BY <1>1, <1>5, <2>1, <2>3
  <2> QED BY <1>2, <2>2, <2>3
<1>8. ASSUME NEW x \in ToSet(a) PROVE x \in ToSet(c)
  <2>1. PICK i \in 1 .. n : a[i] = x
    BY <1>1 DEF ToSet
  <2> QED BY <1>1, <1>3, <1>6, <2>1
<1>9. ASSUME NEW x \in ToSet(b) PROVE x \in ToSet(c)
  <2>1. PICK k \in 1 .. m : b[k] = x
    BY <1>1 DEF ToSet
  <2>2. n + k \in 1 .. n + m
    BY <1>1
  <2> QED BY <1>1, <1>6, <2>1, <2>2
<1>10. ASSUME Distinct(a), Distinct(b), ToSet(a) \cap ToSet(b) = {} PROVE Distinct(c)
  <2>1. ASSUME NEW p \in 1 .. n + m, NEW q \in 1 .. n + m, c[p] = c[q] PROVE p = q
    <3>1. CASE p \in 1 .. n /\ q \in 1 .. n
      BY <1>1, <1>10, <2>1, <3>1 DEF Distinct
    <3>2. CASE p \in 1 .. n /\ q - n \in 1 .. m /\ q = n + (q - n)
      <4>1. a[p] = b[q - n]
        BY <1>1, <2>1, <3>2
      <4> QED BY <1>4, <1>5, <1>10, <3>2, <4>1
    <3>3. CASE q \in 1 .. n /\ p - n \in 1 .. m /\ p = n + (p - n)
      <4>1. a[q] = b[p - n]
        BY <1>1, <2>1, <3>3
      <4> QED BY <1>4, <1>5, <1>10, <3>3, <4>1
    <3>4. CASE p - n \in 1 .. m /\ p = n + (p - n) /\ q - n \in 1 .. m /\ q = n + (q - n)
      <4>1. b[p - n] = b[q - n]
        BY <1>1, <2>1, <3>4
      <4>2. p - n = q - n
        BY <1>1, <1>10, <3>4, <4>1 DEF Distinct
      <4> QED BY <1>1, <2>1, <4>2
    <3> QED BY <1>2, <3>1, <3>2, <3>3, <3>4
  <2> QED BY <1>1, <2>1 DEF Distinct
<1> QED BY <1>1, <1>7, <1>8, <1>9, <1>10 DEF c

\* The same of ApplyToLevels, as sets: s is the state, r the one with the result.
MayApply(s, t, out) ==
    /\ s \in LsmState /\ Len(s.levels) = MaxLevels
    /\ t \in Tasks /\ t.lower \in 1 .. MaxLevels /\ t.upper < t.lower
    /\ out \in Seq(Nat) /\ Distinct(out) /\ Distinct(s.l0)
    /\ \A i \in DOMAIN s.levels :
          Distinct(s.levels[i]) /\ ToSet(s.levels[i]) \cap ToSet(out) = {}

AppliedTo(s, t, out, r) ==
    /\ Distinct(r.l0)
    /\ ToSet(r.l0) = ToSet(s.l0) \ IF t.upper = 0 THEN ToSet(t.upperIds) ELSE {}
    /\ \A p, q \in DOMAIN r.l0 : p < q =>
          \E i, k \in DOMAIN s.l0 : i < k /\ s.l0[i] = r.l0[p] /\ s.l0[k] = r.l0[q]
    /\ \A i \in 1 .. MaxLevels :
          /\ r.levels[i] \in Seq(Nat) /\ Distinct(r.levels[i])
          /\ ToSet(r.levels[i]) =
                IF i = t.lower THEN (ToSet(s.levels[i]) \ ToSet(t.lowerIds)) \cup ToSet(out)
                ELSE ToSet(s.levels[i]) \ IF i = t.upper THEN ToSet(t.upperIds) ELSE {}

LEMMA LevelsAppliedSets ==
    ASSUME NEW s, NEW t, NEW out, MayApply(s, t, out)
    PROVE  AppliedTo(s, t, out, ApplyToLevels(s, t, out))
<1>0. /\ s \in LsmState /\ Len(s.levels) = MaxLevels
      /\ t \in Tasks /\ t.lower \in 1 .. MaxLevels /\ t.upper < t.lower
      /\ out \in Seq(Nat) /\ Distinct(out) /\ Distinct(s.l0)
      /\ \A i \in DOMAIN s.levels :
            Distinct(s.levels[i]) /\ ToSet(s.levels[i]) \cap ToSet(out) = {}
  BY DEF MayApply
<1> DEFINE r == ApplyToLevels(s, t, out)
<1>1. /\ r.l0 = IF t.upper = 0 THEN Without(s.l0, ToSet(t.upperIds)) ELSE s.l0
      /\ \A i \in 1 .. MaxLevels : r.levels[i] =
            IF i = t.lower THEN Without(s.levels[i], ToSet(t.lowerIds)) \o out
            ELSE IF i = t.upper THEN Without(s.levels[i], ToSet(t.upperIds))
            ELSE s.levels[i]
  BY <1>0, LevelsApplied
<1>2. /\ s.l0 \in Seq(Nat) /\ s.levels \in Seq(Seq(Nat)) /\ DOMAIN s.levels = 1 .. MaxLevels
  BY <1>0, LevelsAssumption DEF LsmState
<1>3. \A i \in 1 .. MaxLevels : s.levels[i] \in Seq(Nat) /\ Distinct(s.levels[i])
                                /\ ToSet(s.levels[i]) \cap ToSet(out) = {}
  <2>1. \A i \in 1 .. MaxLevels : s.levels[i] \in Seq(Nat)
    BY <1>0, <1>2
  <2>2. \A i \in 1 .. MaxLevels : Distinct(s.levels[i]) /\ ToSet(s.levels[i]) \cap ToSet(out) = {}
    BY <1>0, <1>2
  <2> QED BY <2>1, <2>2
<1>4. \A f \in Seq(Nat) : \A gone : Without(f, gone) \in Seq(Nat)
        /\ ToSet(Without(f, gone)) = ToSet(f) \ gone
        /\ (Distinct(f) => Distinct(Without(f, gone)))
  BY WithoutKeeps
<1>5. \A p, q \in DOMAIN Without(s.l0, ToSet(t.upperIds)) : p < q =>
         \E i, j \in DOMAIN s.l0 : /\ i < j
                                  /\ s.l0[i] = Without(s.l0, ToSet(t.upperIds))[p]
                                  /\ s.l0[j] = Without(s.l0, ToSet(t.upperIds))[q]
  <2> DEFINE f == s.l0
             gone == ToSet(t.upperIds)
  <2>1. f \in Seq(Nat)
    BY <1>2
  <2> HIDE DEF f, gone
  <2>2. \A p, q \in DOMAIN Without(f, gone) : p < q =>
           \E i, j \in DOMAIN f : i < j /\ f[i] = Without(f, gone)[p] /\ f[j] = Without(f, gone)[q]
    BY <2>1, WithoutKeeps
  <2> QED BY <2>2 DEF f, gone
<1> HIDE DEF r
<1>6. Distinct(r.l0) /\ ToSet(r.l0) = ToSet(s.l0) \ IF t.upper = 0 THEN ToSet(t.upperIds) ELSE {}
  BY <1>0, <1>1, <1>2, <1>4
<1>7. \A p, q \in DOMAIN r.l0 : p < q =>
         \E i, j \in DOMAIN s.l0 : i < j /\ s.l0[i] = r.l0[p] /\ s.l0[j] = r.l0[q]
  BY <1>1, <1>5
<1>8. ASSUME NEW i \in 1 .. MaxLevels
      PROVE  /\ r.levels[i] \in Seq(Nat) /\ Distinct(r.levels[i])
             /\ ToSet(r.levels[i]) =
                   IF i = t.lower THEN (ToSet(s.levels[i]) \ ToSet(t.lowerIds)) \cup ToSet(out)
                   ELSE ToSet(s.levels[i]) \ IF i = t.upper THEN ToSet(t.upperIds) ELSE {}
  <2>1. CASE i = t.lower
    <3> DEFINE w == Without(s.levels[i], ToSet(t.lowerIds))
    <3>1. /\ w \in Seq(Nat) /\ Distinct(w) /\ ToSet(w) = ToSet(s.levels[i]) \ ToSet(t.lowerIds)
          /\ r.levels[i] = w \o out /\ ToSet(w) \cap ToSet(out) = {}
      <4>1. w \in Seq(Nat) /\ Distinct(w) /\ ToSet(w) = ToSet(s.levels[i]) \ ToSet(t.lowerIds)
        BY <1>3, <1>4
      <4>2. r.levels[i] = w \o out
        BY <1>1, <2>1
      <4>3. ToSet(w) \cap ToSet(out) = {}
        BY <1>3, <4>1
      <4> QED BY <4>1, <4>2, <4>3
    <3> HIDE DEF w
    <3>2. w \o out \in Seq(Nat) /\ ToSet(w \o out) = ToSet(w) \cup ToSet(out) /\ Distinct(w \o out)
      BY <1>0, <3>1, JoinedSets
    <3> QED BY <2>1, <3>1, <3>2
  <2>2. CASE i # t.lower /\ i = t.upper
    BY <1>1, <1>3, <1>4, <2>2
  <2>3. CASE i # t.lower /\ i # t.upper
    BY <1>1, <1>3, <2>3
  <2> QED BY <2>1, <2>2, <2>3
<1> QED BY <1>6, <1>7, <1>8 DEF AppliedTo, r

-----------------------------------------------------------------------------
(* The state in parts.                                                     *)

LEMMA TypedFacts ==
    ASSUME Typed
    PROVE  /\ MaxLevels \in Nat \ {0} /\ MaxTs \in Nat
           /\ strategy \in {"Simple", "Leveled", "Tiered"}
           /\ lsm.l0 \in Seq(Nat) /\ lsm.levels \in Seq(Seq(Nat))
           /\ Len(lsm.levels) \in Nat /\ DOMAIN lsm.levels = 1 .. Len(lsm.levels)
           /\ \A i \in DOMAIN lsm.levels : lsm.levels[i] \in Seq(Nat)
           /\ \A i \in DOMAIN lsm.levels : ToSet(lsm.levels[i]) \subseteq Live(lsm)
           /\ ToSet(lsm.l0) \subseteq Live(lsm)
           /\ Live(lsm) \subseteq Nat /\ DOMAIN sst = Live(lsm)
           /\ \A id \in Live(lsm) : sst[id] \subseteq Versions /\ sst[id] # {}
<1>1. /\ MaxLevels \in Nat \ {0} /\ MaxTs \in Nat
      /\ strategy \in {"Simple", "Leveled", "Tiered"}
  BY LevelsAssumption DEF Typed
<1>2. lsm.l0 \in Seq(Nat) /\ lsm.levels \in Seq(Seq(Nat))
  BY DEF Typed, LsmState
<1>3. /\ Len(lsm.levels) \in Nat /\ DOMAIN lsm.levels = 1 .. Len(lsm.levels)
      /\ \A i \in DOMAIN lsm.levels : lsm.levels[i] \in Seq(Nat)
  BY <1>2
<1>4. /\ \A i \in DOMAIN lsm.levels : ToSet(lsm.levels[i]) \subseteq Live(lsm)
      /\ ToSet(lsm.l0) \subseteq Live(lsm)
  BY DEF Live
<1>5. Live(lsm) \subseteq Nat
  <2>1. ToSet(lsm.l0) \subseteq Nat /\ \A i \in DOMAIN lsm.levels : ToSet(lsm.levels[i]) \subseteq Nat
    BY <1>2, <1>3, ElementsOf
  <2> QED BY <2>1 DEF Live
<1>6. sst \in [Live(lsm) -> (SUBSET Versions) \ {{}}]
  BY DEF Typed
<1>7. DOMAIN sst = Live(lsm) /\ \A id \in Live(lsm) : sst[id] \subseteq Versions /\ sst[id] # {}
  BY <1>6
<1> QED BY <1>1, <1>2, <1>3, <1>4, <1>5, <1>7

\* The compaction under way, in parts.
LEMMA JobFacts ==
    ASSUME Typed, NEW j \in job
    PROVE  /\ j.task \in Tasks /\ j.out \in Seq(Nat) /\ j.tables \in Seq(SUBSET Versions)
           /\ j.task.upper \in 0 .. MaxLevels /\ j.task.lower \in 0 .. MaxLevels
           /\ j.task.upperIds \in Seq(Nat) /\ j.task.lowerIds \in Seq(Nat)
           /\ j.task.tiers \in Seq(Seq(Nat)) /\ j.task.bottom \in BOOLEAN
<1>1. j \in Jobs
  BY DEF Typed
<1>2. j.task \in Tasks /\ j.out \in Seq(Nat) /\ j.tables \in Seq(SUBSET Versions)
  BY <1>1 DEF Jobs
<1> QED BY <1>2 DEF Tasks

\* The inputs of a task that fits are in use, and only in the places it names.
LEMMA LevelInputs ==
    ASSUME Typed, Places, strategy # "Tiered", NEW t \in Tasks, LevelsFit(t)
    PROVE  /\ Inputs(t) = ToSet(t.upperIds) \cup ToSet(t.lowerIds)
           /\ Inputs(t) \subseteq Live(lsm)
           /\ t.lower \in DOMAIN lsm.levels /\ t.lower # t.upper
           /\ ToSet(lsm.l0) \cap Inputs(t) = IF t.upper = 0 THEN ToSet(t.upperIds) ELSE {}
           /\ \A i \in DOMAIN lsm.levels : ToSet(lsm.levels[i]) \cap Inputs(t) =
                 IF i = t.lower THEN ToSet(t.lowerIds)
                 ELSE IF i = t.upper THEN ToSet(t.upperIds) ELSE {}
           /\ Applicable(lsm, t)
<1>1. /\ t.tiers = <<>> /\ t.upper \in 0 .. MaxLevels /\ t.lower \in 1 .. MaxLevels
      /\ t.upper < t.lower
      /\ t.upper = 0 => ToSet(t.upperIds) \subseteq ToSet(lsm.l0)
      /\ t.upper > 0 => ToSet(t.upperIds) \subseteq ToSet(lsm.levels[t.upper])
      /\ ToSet(t.lowerIds) \subseteq ToSet(lsm.levels[t.lower])
  BY DEF LevelsFit, Tasks
<1>2. /\ MaxLevels \in Nat \ {0} /\ DOMAIN lsm.levels = 1 .. MaxLevels
      /\ \A i \in DOMAIN lsm.levels : ToSet(lsm.levels[i]) \subseteq Live(lsm)
      /\ ToSet(lsm.l0) \subseteq Live(lsm)
  BY TypedFacts DEF Places
<1>3. /\ \A i \in DOMAIN lsm.levels : ToSet(lsm.l0) \cap ToSet(lsm.levels[i]) = {}
      /\ \A i, k \in DOMAIN lsm.levels :
            i # k => ToSet(lsm.levels[i]) \cap ToSet(lsm.levels[k]) = {}
  BY DEF Places
<1>4. Inputs(t) = ToSet(t.upperIds) \cup ToSet(t.lowerIds)
  <2>1. ToSet(t.tiers) = {}
    BY <1>1 DEF ToSet
  <2> QED BY <2>1 DEF Inputs
<1>5. t.lower \in DOMAIN lsm.levels /\ t.lower # t.upper
      /\ (t.upper # 0 => t.upper \in DOMAIN lsm.levels /\ t.upper > 0)
  BY <1>1, <1>2
<1>6. Inputs(t) \subseteq Live(lsm)
  BY <1>1, <1>2, <1>4, <1>5
<1>7. ToSet(lsm.l0) \cap Inputs(t) = IF t.upper = 0 THEN ToSet(t.upperIds) ELSE {}
  BY <1>1, <1>3, <1>4, <1>5
<1>8. ASSUME NEW i \in DOMAIN lsm.levels
      PROVE  ToSet(lsm.levels[i]) \cap Inputs(t) =
                 IF i = t.lower THEN ToSet(t.lowerIds)
                 ELSE IF i = t.upper THEN ToSet(t.upperIds) ELSE {}
  <2>1. ToSet(lsm.levels[i]) \cap ToSet(t.lowerIds) = IF i = t.lower THEN ToSet(t.lowerIds) ELSE {}
    BY <1>1, <1>3, <1>5
  <2>2. ToSet(lsm.levels[i]) \cap ToSet(t.upperIds) = IF i = t.upper THEN ToSet(t.upperIds) ELSE {}
    <3>1. CASE t.upper = 0
      <4>1. i # 0
        BY <1>2
      <4> QED BY <1>1, <1>3, <3>1, <4>1
    <3>2. CASE t.upper # 0
      BY <1>1, <1>3, <1>5, <3>2
    <3> QED BY <3>1, <3>2
  <2> QED BY <1>4, <1>5, <2>1, <2>2
<1>9. Applicable(lsm, t)
  <2>1. strategy = "Simple" => /\ t.lowerIds = lsm.levels[t.lower]
                               /\ t.upper > 0 => t.upperIds = lsm.levels[t.upper]
    BY DEF LevelsFit
  <2> QED BY <1>1, <1>5, <2>1 DEF Applicable
<1> QED BY <1>4, <1>5, <1>6, <1>7, <1>8, <1>9

LEMMA TiersDistinct ==
    ASSUME Typed, Places, strategy = "Tiered"
    PROVE  /\ Distinct(lsm.levels) /\ lsm.l0 = <<>> /\ ToSet(lsm.l0) = {}
           /\ \A i \in DOMAIN lsm.levels : ToSet(lsm.levels[i]) # {}
           /\ Live(lsm) = UNION {ToSet(lsm.levels[i]) : i \in DOMAIN lsm.levels}
<1>1. lsm.l0 = <<>> /\ \A i \in DOMAIN lsm.levels : lsm.levels[i] # <<>>
  BY DEF Places
<1>2. \A i \in DOMAIN lsm.levels : lsm.levels[i] \in Seq(Nat)
  BY TypedFacts
<1>3. \A f \in Seq(Nat) : f # <<>> => ToSet(f) # {}
  <2>1. \A f \in Seq(Nat) : f # <<>> => 1 \in DOMAIN f
    OBVIOUS
  <2> QED BY <2>1 DEF ToSet
<1>4. \A i \in DOMAIN lsm.levels : ToSet(lsm.levels[i]) # {}
  BY <1>1, <1>2, <1>3
<1>5. Distinct(lsm.levels)
  BY <1>4 DEF Places, Distinct
<1>6. ToSet(lsm.l0) = {}
  BY <1>1 DEF ToSet
<1> QED BY <1>1, <1>4, <1>5, <1>6 DEF Live

LEMMA TierInputs ==
    ASSUME Typed, Places, strategy = "Tiered", NEW t \in Tasks, NEW u, TiersAt(lsm, t, u),
           t.upperIds = <<>>, t.lowerIds = <<>>
    PROVE  /\ u \in Nat /\ Len(t.tiers) \in Nat \ {0} /\ t.tiers \in Seq(Seq(Nat))
           /\ Inputs(t) = UNION {ToSet(lsm.levels[i]) : i \in u + 1 .. u + Len(t.tiers)}
           /\ Inputs(t) \subseteq Live(lsm)
           /\ \A i \in Outside(u, Len(t.tiers), Len(lsm.levels)) :
                 i \in DOMAIN lsm.levels /\ ToSet(lsm.levels[i]) \cap Inputs(t) = {}
           /\ Live(lsm) \ Inputs(t) =
                 UNION {ToSet(lsm.levels[i]) : i \in Outside(u, Len(t.tiers), Len(lsm.levels))}
           /\ Applicable(lsm, t)
<1> DEFINE n == Len(lsm.levels)
           m == Len(t.tiers)
           block == u + 1 .. u + m
<1>1. /\ u \in Nat /\ m \in Nat \ {0} /\ n \in Nat /\ u + m <= n
      /\ t.tiers \in Seq(Seq(Nat)) /\ DOMAIN t.tiers = 1 .. m /\ DOMAIN lsm.levels = 1 .. n
  <2>1. t.tiers \in Seq(Seq(Nat)) /\ t.tiers # <<>> /\ u \in Nat /\ u + m <= n
    BY DEF Tasks, TiersAt
  <2>2. m \in Nat \ {0} /\ DOMAIN t.tiers = 1 .. m
    BY <2>1
  <2> QED BY <2>1, <2>2, TypedFacts
<1>2. \A i \in 1 .. m : t.tiers[i] = lsm.levels[u + i]
  BY <1>1 DEF TiersAt
<1>3. ToSet(t.tiers) = {lsm.levels[i] : i \in block}
  <2>1. ASSUME NEW i \in block PROVE i - u \in 1 .. m /\ u + (i - u) = i
    BY <1>1
  <2>2. \A i \in 1 .. m : u + i \in block
    BY <1>1
  <2>3. \A x \in ToSet(t.tiers) : x \in {lsm.levels[i] : i \in block}
    BY <1>1, <1>2, <2>2 DEF ToSet
  <2>4. ASSUME NEW i \in block PROVE lsm.levels[i] \in ToSet(t.tiers)
    <3>1. t.tiers[i - u] = lsm.levels[i] /\ i - u \in DOMAIN t.tiers
      BY <1>1, <1>2, <2>1
    <3> QED BY <3>1 DEF ToSet
  <2> QED BY <2>3, <2>4
<1>4. Inputs(t) = UNION {ToSet(lsm.levels[i]) : i \in block}
  <2>1. ToSet(t.upperIds) = {} /\ ToSet(t.lowerIds) = {}
    BY DEF ToSet
  <2>2. Inputs(t) = UNION {ToSet(tier) : tier \in {lsm.levels[i] : i \in block}}
    BY <1>3, <2>1 DEF Inputs
  <2> HIDE DEF block
  <2>3. {ToSet(tier) : tier \in {lsm.levels[i] : i \in block}} = {ToSet(lsm.levels[i]) : i \in block}
    OBVIOUS
  <2> QED BY <2>2, <2>3
<1>5. /\ \A i \in block : i \in 1 .. n
      /\ \A i \in Outside(u, m, n) : i \in 1 .. n /\ i \notin block
      /\ \A i \in 1 .. n : i \in block \/ i \in Outside(u, m, n)
  BY <1>1 DEF Outside
<1> HIDE DEF block, n, m
<1>6. Live(lsm) = UNION {ToSet(lsm.levels[i]) : i \in 1 .. n}
  BY <1>1, TiersDistinct
<1>7. Inputs(t) \subseteq Live(lsm)
  BY <1>4, <1>5, <1>6
<1>8. \A i \in Outside(u, m, n) :
         i \in DOMAIN lsm.levels /\ ToSet(lsm.levels[i]) \cap Inputs(t) = {}
  <2>1. ASSUME NEW i \in Outside(u, m, n), NEW k \in block
        PROVE  ToSet(lsm.levels[i]) \cap ToSet(lsm.levels[k]) = {}
    BY <1>1, <1>5 DEF Places
  <2>2. \A i \in Outside(u, m, n) : ToSet(lsm.levels[i]) \cap Inputs(t) = {}
    BY <1>4, <2>1
  <2>3. \A i \in Outside(u, m, n) : i \in DOMAIN lsm.levels
    BY <1>1, <1>5
  <2> QED BY <2>2, <2>3
<1>9. Live(lsm) \ Inputs(t) = UNION {ToSet(lsm.levels[i]) : i \in Outside(u, m, n)}
  <2>1. Live(lsm) \ Inputs(t) \subseteq UNION {ToSet(lsm.levels[i]) : i \in Outside(u, m, n)}
    BY <1>4, <1>5, <1>6
  <2>2. UNION {ToSet(lsm.levels[i]) : i \in Outside(u, m, n)} \subseteq Live(lsm) \ Inputs(t)
    BY <1>5, <1>6, <1>8
  <2> QED BY <2>1, <2>2
<1>10. Applicable(lsm, t)
  <2>1. ToSet(t.tiers) \subseteq ToSet(lsm.levels)
    BY <1>1, <1>3, <1>5 DEF ToSet
  <2> QED BY <2>1, TiersDistinct DEF Applicable
<1> QED BY <1>1, <1>4, <1>7, <1>8, <1>9, <1>10 DEF n, m, block

\* So a result can always be applied, and its inputs are in use.
LEMMA TaskFits ==
    ASSUME Typed, Places, NEW t \in Tasks, Fits(t)
    PROVE  Inputs(t) \subseteq Live(lsm) /\ Applicable(lsm, t)
<1>1. CASE strategy = "Tiered"
  <2>1. PICK u \in 0 .. Len(lsm.levels) : TiersAt(lsm, t, u)
    BY <1>1 DEF Fits, TiersFit, TiersAt
  <2>2. t.upperIds = <<>> /\ t.lowerIds = <<>>
    BY <1>1 DEF Fits, TiersFit
  <2> QED BY <1>1, <2>1, <2>2, TierInputs
<1>2. CASE strategy # "Tiered"
  BY <1>2, LevelInputs DEF Fits
<1> QED BY <1>1, <1>2

\* The levels with the result in it, before the sort of the leveled controller.
LevelsWith(j, r) ==
    /\ r \in LsmState /\ Len(r.levels) = MaxLevels
    /\ r.l0 \in Seq(Nat) /\ r.levels \in Seq(Seq(Nat)) /\ DOMAIN r.levels = 1 .. MaxLevels
    /\ Distinct(r.l0) /\ ToSet(r.l0) = ToSet(lsm.l0) \ Inputs(j.task)
    /\ \A p, q \in DOMAIN r.l0 : p < q =>
          \E i, k \in DOMAIN lsm.l0 : i < k /\ lsm.l0[i] = r.l0[p] /\ lsm.l0[k] = r.l0[q]
    /\ \A i \in 1 .. MaxLevels :
          /\ r.levels[i] \in Seq(Nat) /\ Distinct(r.levels[i])
          /\ ToSet(r.levels[i]) = (ToSet(lsm.levels[i]) \ Inputs(j.task))
                                     \cup IF i = j.task.lower THEN ToSet(j.out) ELSE {}
    /\ Live(r) = (Live(lsm) \ Inputs(j.task)) \cup ToSet(j.out)

LEMMA AppliedLevels ==
    ASSUME Typed, Places, strategy # "Tiered", NEW j \in job, LevelsFit(j.task), Made(j)
    PROVE  LevelsWith(j, Apply(lsm, j.task, j.out))
<1> DEFINE t == j.task
           out == j.out
           r == Apply(lsm, t, out)
<1>1. t \in Tasks /\ out \in Seq(Nat) /\ lsm \in LsmState
  BY JobFacts DEF Typed
<1>2. t.lower \in 1 .. MaxLevels /\ t.upper < t.lower /\ Len(lsm.levels) = MaxLevels
  BY DEF LevelsFit, Places
<1>3. DOMAIN lsm.levels = 1 .. MaxLevels /\ MaxLevels \in Nat
  BY <1>2, TypedFacts
<1>4. /\ Distinct(out) /\ Distinct(lsm.l0)
      /\ \A i \in DOMAIN lsm.levels :
            Distinct(lsm.levels[i]) /\ ToSet(lsm.levels[i]) \cap ToSet(out) = {}
  <2>1. \A i \in DOMAIN lsm.levels : ToSet(lsm.levels[i]) \cap ToSet(out) = {}
    BY TypedFacts DEF Made
  <2> QED BY <2>1 DEF Made, Places
<1>5. r = ApplyToLevels(lsm, t, out)
  BY DEF Apply
<1>6. /\ ToSet(lsm.l0) \cap Inputs(t) = IF t.upper = 0 THEN ToSet(t.upperIds) ELSE {}
      /\ \A i \in DOMAIN lsm.levels : ToSet(lsm.levels[i]) \cap Inputs(t) =
            IF i = t.lower THEN ToSet(t.lowerIds)
            ELSE IF i = t.upper THEN ToSet(t.upperIds) ELSE {}
  BY <1>1, LevelInputs
<1> HIDE DEF t, out, r
<1>7. /\ r \in LsmState /\ Len(r.levels) = MaxLevels
      /\ r.l0 \in Seq(Nat) /\ r.levels \in Seq(Seq(Nat)) /\ DOMAIN r.levels = 1 .. MaxLevels
  <2>1. r \in LsmState /\ Len(r.levels) = MaxLevels
    BY <1>1, <1>2, <1>5, LevelsApplied
  <2>2. r.l0 \in Seq(Nat) /\ r.levels \in Seq(Seq(Nat))
    BY <2>1 DEF LsmState
  <2> QED BY <1>3, <2>1, <2>2
<1>8. /\ Distinct(r.l0)
      /\ ToSet(r.l0) = ToSet(lsm.l0) \ IF t.upper = 0 THEN ToSet(t.upperIds) ELSE {}
      /\ \A p, q \in DOMAIN r.l0 : p < q =>
            \E i, k \in DOMAIN lsm.l0 : i < k /\ lsm.l0[i] = r.l0[p] /\ lsm.l0[k] = r.l0[q]
      /\ \A i \in 1 .. MaxLevels :
            /\ r.levels[i] \in Seq(Nat) /\ Distinct(r.levels[i])
            /\ ToSet(r.levels[i]) =
                  IF i = t.lower THEN (ToSet(lsm.levels[i]) \ ToSet(t.lowerIds)) \cup ToSet(out)
                  ELSE ToSet(lsm.levels[i]) \ IF i = t.upper THEN ToSet(t.upperIds) ELSE {}
  <2>1. MayApply(lsm, t, out)
    BY <1>1, <1>2, <1>4 DEF MayApply
  <2>2. AppliedTo(lsm, t, out, r)
    BY <1>5, <2>1, LevelsAppliedSets
  <2> QED BY <2>2 DEF AppliedTo
<1>9. ToSet(r.l0) = ToSet(lsm.l0) \ Inputs(t)
  BY <1>6, <1>8
<1>10. ASSUME NEW i \in 1 .. MaxLevels
       PROVE  ToSet(r.levels[i]) = (ToSet(lsm.levels[i]) \ Inputs(t))
                                      \cup IF i = t.lower THEN ToSet(out) ELSE {}
  <2>1. ToSet(lsm.levels[i]) \cap Inputs(t) =
            IF i = t.lower THEN ToSet(t.lowerIds)
            ELSE IF i = t.upper THEN ToSet(t.upperIds) ELSE {}
    BY <1>3, <1>6
  <2>2. ToSet(r.levels[i]) =
            IF i = t.lower THEN (ToSet(lsm.levels[i]) \ ToSet(t.lowerIds)) \cup ToSet(out)
            ELSE ToSet(lsm.levels[i]) \ IF i = t.upper THEN ToSet(t.upperIds) ELSE {}
    BY <1>8
  <2> QED BY <2>1, <2>2
<1>11. Live(r) = (Live(lsm) \ Inputs(t)) \cup ToSet(out)
  <2>1. Live(r) = ToSet(r.l0) \cup UNION {ToSet(r.levels[i]) : i \in 1 .. MaxLevels}
    BY <1>7 DEF Live
  <2>2. Live(lsm) = ToSet(lsm.l0) \cup UNION {ToSet(lsm.levels[i]) : i \in 1 .. MaxLevels}
    BY <1>3 DEF Live
  <2>3. Live(r) \subseteq (Live(lsm) \ Inputs(t)) \cup ToSet(out)
    BY <1>9, <1>10, <2>1, <2>2
  <2>4. (Live(lsm) \ Inputs(t)) \cup ToSet(out) \subseteq Live(r)
    BY <1>2, <1>9, <1>10, <2>1, <2>2
  <2> QED BY <2>3, <2>4
<1> QED BY <1>7, <1>8, <1>9, <1>10, <1>11 DEF LevelsWith, t, out, r

\* The tiers with the result in it.
TiersWith(j, u, r) ==
    /\ r \in LsmState /\ r.l0 = <<>> /\ r.levels \in Seq(Seq(Nat))
    /\ \A p \in DOMAIN r.levels :
          \/ r.levels[p] = j.out
          \/ \E i \in Outside(u, Len(j.task.tiers), Len(lsm.levels)) : r.levels[p] = lsm.levels[i]
    /\ \A p, q \in DOMAIN r.levels : p < q =>
          \/ \E i, k \in Outside(u, Len(j.task.tiers), Len(lsm.levels)) :
                i < k /\ r.levels[p] = lsm.levels[i] /\ r.levels[q] = lsm.levels[k]
          \/ \E i \in 1 .. u : r.levels[p] = lsm.levels[i] /\ r.levels[q] = j.out
          \/ \E k \in u + Len(j.task.tiers) + 1 .. Len(lsm.levels) :
                r.levels[p] = j.out /\ r.levels[q] = lsm.levels[k]
    /\ Live(r) = (Live(lsm) \ Inputs(j.task)) \cup ToSet(j.out)

LEMMA AppliedTiers ==
    ASSUME Typed, Places, strategy = "Tiered", NEW j \in job, Made(j),
           NEW u, TiersAt(lsm, j.task, u), j.task.upperIds = <<>>, j.task.lowerIds = <<>>
    PROVE  TiersWith(j, u, Apply(lsm, j.task, j.out))
<1> DEFINE t == j.task
           out == j.out
           outside == Outside(u, Len(t.tiers), Len(lsm.levels))
           r == Apply(lsm, t, out)
<1>1. t \in Tasks /\ out \in Seq(Nat) /\ lsm \in LsmState
  BY JobFacts DEF Typed
<1>2. /\ u \in Nat /\ t.tiers # <<>> /\ u + Len(t.tiers) <= Len(lsm.levels)
      /\ \A i \in DOMAIN t.tiers : t.tiers[i] = lsm.levels[u + i]
  BY DEF TiersAt
<1>3. Distinct(lsm.levels) /\ lsm.l0 = <<>>
  BY TiersDistinct
<1>4. Live(lsm) \ Inputs(t) = UNION {ToSet(lsm.levels[i]) : i \in outside}
  BY <1>1, TierInputs
<1>5. r = ApplyToTiers(lsm, t, out)
  BY DEF Apply
<1>6. outside = (1 .. u) \cup (u + Len(t.tiers) + 1 .. Len(lsm.levels))
  BY DEF Outside
<1> HIDE DEF t, out, outside, r
<1>7. /\ r \in LsmState /\ r.l0 = lsm.l0
      /\ \A p \in DOMAIN r.levels :
            r.levels[p] = out \/ \E i \in outside : r.levels[p] = lsm.levels[i]
      /\ \E p \in DOMAIN r.levels : r.levels[p] = out
      /\ \A i \in outside : \E p \in DOMAIN r.levels : r.levels[p] = lsm.levels[i]
      /\ \A p, q \in DOMAIN r.levels : p < q =>
            \/ \E i, k \in outside :
                  i < k /\ r.levels[p] = lsm.levels[i] /\ r.levels[q] = lsm.levels[k]
            \/ \E i \in 1 .. u : r.levels[p] = lsm.levels[i] /\ r.levels[q] = out
            \/ \E k \in u + Len(t.tiers) + 1 .. Len(lsm.levels) :
                  r.levels[p] = out /\ r.levels[q] = lsm.levels[k]
  <2>1. TiersReplaced(lsm, t, u, out, r)
    BY <1>1, <1>3, <1>5, TiersApplied DEF t
  <2> QED BY <2>1 DEF TiersReplaced, outside
<1>8. r.levels \in Seq(Seq(Nat))
  BY <1>7 DEF LsmState
<1>9. Live(r) = (Live(lsm) \ Inputs(t)) \cup ToSet(out)
  <2>1. Live(r) = UNION {ToSet(r.levels[p]) : p \in DOMAIN r.levels}
    <3>1. ToSet(r.l0) = {}
      BY <1>3, <1>7 DEF ToSet
    <3> QED BY <3>1 DEF Live
  <2>2. UNION {ToSet(r.levels[p]) : p \in DOMAIN r.levels}
            \subseteq (UNION {ToSet(lsm.levels[i]) : i \in outside}) \cup ToSet(out)
    BY <1>7
  <2>3. \A i \in outside : ToSet(lsm.levels[i])
                              \subseteq UNION {ToSet(r.levels[p]) : p \in DOMAIN r.levels}
    BY <1>7
  <2>4. ToSet(out) \subseteq UNION {ToSet(r.levels[p]) : p \in DOMAIN r.levels}
    BY <1>7
  <2> QED BY <1>4, <2>1, <2>2, <2>3, <2>4
<1>10. r.l0 = <<>>
  BY <1>3, <1>7
<1> QED BY <1>7, <1>8, <1>9, <1>10 DEF TiersWith, t, out, outside, r

\* Sorting the levels of the leveled controller.
MaySort(r, c) ==
    /\ r \in LsmState /\ Len(r.levels) = MaxLevels
    /\ \A i \in 1 .. MaxLevels : Distinct(r.levels[i])
    /\ \A id \in Live(r) : c[id] \subseteq Versions /\ c[id] # {} /\ Unique(c[id])
    /\ \A i \in 1 .. MaxLevels : \A x, y \in ToSet(r.levels[i]) : x # y => Apart(c[x], c[y])

SortedTo(r, c, w) ==
    /\ w \in LsmState /\ Len(w.levels) = MaxLevels /\ w.l0 = r.l0 /\ Live(w) = Live(r)
    /\ DOMAIN w.levels = 1 .. MaxLevels
    /\ \A i \in 1 .. MaxLevels :
          /\ Distinct(w.levels[i]) /\ ToSet(w.levels[i]) = ToSet(r.levels[i])
          /\ \A p, q \in DOMAIN w.levels[i] :
                p < q => Follows(c[w.levels[i][p]], c[w.levels[i][q]])

LEMMA LevelsSorted ==
    ASSUME strategy = "Leveled", NEW r, NEW c, MaySort(r, c)
    PROVE  SortedTo(r, c, SortedLevels(r, c))
<1> DEFINE w == SortedLevels(r, c)
           ls == [i \in DOMAIN r.levels |-> SortedByFirstKey(r.levels[i], c)]
<1>1. /\ MaxLevels \in Nat /\ r.l0 \in Seq(Nat) /\ r.levels \in Seq(Seq(Nat))
      /\ DOMAIN r.levels = 1 .. MaxLevels
      /\ \A i \in 1 .. MaxLevels : r.levels[i] \in Seq(Nat)
  <2>1. r.l0 \in Seq(Nat) /\ r.levels \in Seq(Seq(Nat)) /\ Len(r.levels) = MaxLevels
    BY DEF MaySort, LsmState
  <2> QED BY <2>1, LevelsAssumption
<1>2. \A i \in 1 .. MaxLevels : ToSet(r.levels[i]) \subseteq Live(r)
  BY <1>1 DEF Live
<1>3. w = [l0 |-> r.l0, levels |-> ls]
  <2>1. r = [l0 |-> r.l0, levels |-> r.levels]
    BY DEF MaySort, LsmState
  <2>2. w = [r EXCEPT !.levels = ls]
    BY DEF SortedLevels
  <2> HIDE DEF ls, w
  <2> QED BY <2>1, <2>2
<1>4. ASSUME NEW i \in 1 .. MaxLevels
      PROVE  /\ ls[i] = SortedByFirstKey(r.levels[i], c)
             /\ ls[i] \in Seq(Nat) /\ Distinct(ls[i]) /\ ToSet(ls[i]) = ToSet(r.levels[i])
             /\ \A p, q \in DOMAIN ls[i] : p < q => Follows(c[ls[i][p]], c[ls[i][q]])
  <2> DEFINE files == r.levels[i]
  <2>1. files \in Seq(Nat) /\ Distinct(files)
        /\ (\A x \in ToSet(files) : c[x] \subseteq Versions /\ c[x] # {} /\ Unique(c[x]))
        /\ \A x, y \in ToSet(files) : x # y => Apart(c[x], c[y])
    BY <1>1, <1>2 DEF MaySort
  <2>2. ls[i] = SortedByFirstKey(files, c)
    BY <1>1
  <2> HIDE DEF files, ls
  <2>3. /\ SortedByFirstKey(files, c) \in Seq(Nat)
        /\ ToSet(SortedByFirstKey(files, c)) = ToSet(files)
        /\ Distinct(SortedByFirstKey(files, c))
        /\ \A p, q \in DOMAIN SortedByFirstKey(files, c) : p < q =>
              Follows(c[SortedByFirstKey(files, c)[p]], c[SortedByFirstKey(files, c)[q]])
    BY <2>1, SortedFollows
  <2> QED BY <2>2, <2>3 DEF files
<1>5. ls \in [1 .. MaxLevels -> Seq(Nat)]
  <2>1. DOMAIN ls = 1 .. MaxLevels /\ ls = [i \in DOMAIN ls |-> ls[i]]
    BY <1>1
  <2> HIDE DEF ls
  <2> QED BY <1>4, <2>1
<1> HIDE DEF ls, w
<1>6. ls \in Seq(Seq(Nat)) /\ Len(ls) = MaxLevels /\ DOMAIN ls = 1 .. MaxLevels
  BY <1>1, <1>5
<1>7. w \in LsmState /\ w.l0 = r.l0 /\ w.levels = ls
  BY <1>1, <1>3, <1>6 DEF LsmState
<1>8. Live(w) = Live(r)
  BY <1>1, <1>4, <1>6, <1>7 DEF Live
<1> QED BY <1>4, <1>6, <1>7, <1>8 DEF SortedTo, w

-----------------------------------------------------------------------------
(* Install.                                                                *)

\* The contents of the tables with those of the job.
After(j) ==
    [id \in DOMAIN sst \cup ToSet(j.out) |->
        IF id \in ToSet(j.out) THEN j.tables[CHOOSE i \in DOMAIN j.out : j.out[i] = id]
        ELSE sst[id]]

LEMMA AfterFacts ==
    ASSUME Typed, NEW j \in job, Made(j)
    PROVE  /\ DOMAIN After(j) = Live(lsm) \cup ToSet(j.out)
           /\ ToSet(j.out) \cap Live(lsm) = {}
           /\ \A id \in Live(lsm) : After(j)[id] = sst[id]
           /\ DOMAIN j.out = DOMAIN j.tables
           /\ \A p \in DOMAIN j.out : After(j)[j.out[p]] = j.tables[p]
           /\ \A id \in ToSet(j.out) : \E p \in DOMAIN j.out : id = j.out[p]
           /\ \A id \in ToSet(j.out) :
                 /\ After(j)[id] \subseteq Output(j) /\ After(j)[id] # {}
                 /\ After(j)[id] \subseteq Versions
           /\ UNION {After(j)[id] : id \in ToSet(j.out)} = Output(j)
<1>1. ToSet(j.out) \cap Live(lsm) = {} /\ DOMAIN sst = Live(lsm)
  BY TypedFacts DEF Made
<1>2. j.out \in Seq(Nat) /\ j.tables \in Seq(SUBSET Versions) /\ Len(j.tables) = Len(j.out)
  BY JobFacts DEF Made
<1>3. DOMAIN j.out = DOMAIN j.tables /\ \A p \in DOMAIN j.tables : j.tables[p] \in SUBSET Versions
  BY <1>2
<1>4. \A id \in Live(lsm) : After(j)[id] = sst[id]
  BY <1>1 DEF After
<1>5. ASSUME NEW p \in DOMAIN j.out PROVE After(j)[j.out[p]] = j.tables[p]
  <2>1. j.out[p] \in ToSet(j.out)
    BY DEF ToSet
  <2>2. (CHOOSE i \in DOMAIN j.out : j.out[i] = j.out[p]) = p
    BY DEF Made, Distinct
  <2> QED BY <2>1, <2>2 DEF After
<1>6. \A id \in ToSet(j.out) : \E p \in DOMAIN j.out : id = j.out[p]
  BY DEF ToSet
<1>7. \A p \in DOMAIN j.out : j.out[p] \in ToSet(j.out)
  BY DEF ToSet
<1>8. \A p \in DOMAIN j.tables : j.tables[p] # {} /\ j.tables[p] \in ToSet(j.tables)
  BY DEF Made, ToSet
<1>9. \A x \in ToSet(j.tables) : \E p \in DOMAIN j.tables : x = j.tables[p]
  BY DEF ToSet
<1>10. \A id \in ToSet(j.out) : /\ After(j)[id] \subseteq Output(j) /\ After(j)[id] # {}
                                /\ After(j)[id] \subseteq Versions
  BY <1>3, <1>5, <1>6, <1>8 DEF Output
<1>11. Output(j) \subseteq UNION {After(j)[id] : id \in ToSet(j.out)}
  <2>1. ASSUME NEW v \in Output(j) PROVE \E id \in ToSet(j.out) : v \in After(j)[id]
    <3>1. PICK p \in DOMAIN j.out : v \in j.tables[p]
      BY <1>3, <1>9 DEF Output
    <3> QED BY <1>5, <1>7, <3>1
  <2> QED BY <2>1
<1>12. DOMAIN After(j) = Live(lsm) \cup ToSet(j.out)
  BY <1>1 DEF After
<1> QED BY <1>1, <1>3, <1>4, <1>5, <1>6, <1>10, <1>11, <1>12

\* What the tables ids hold, as f gives the contents.
HeldBy(f, ids) == UNION {f[id] : id \in ids}

LEMMA StoredFacts ==
    ASSUME Typed
    PROVE  /\ Stored \in SUBSET Versions /\ Stored = HeldBy(sst, Live(lsm))
           /\ \A ids \in SUBSET Live(lsm) : /\ Contents(ids) = HeldBy(sst, ids)
                                            /\ Contents(ids) \subseteq Stored
                                            /\ Contents(ids) \in SUBSET Versions
           /\ \A id \in Live(lsm) : sst[id] \subseteq Stored
           /\ \A v \in Stored : v.ts \in 1 .. MaxTs /\ v.key \in Nat /\ v.key \in Keys
<1>1. \A id \in Live(lsm) : sst[id] \subseteq Versions
  BY TypedFacts
<1>2. Stored = HeldBy(sst, Live(lsm)) /\ \A ids : Contents(ids) = HeldBy(sst, ids)
  BY DEF Stored, Contents, HeldBy
<1>3. \A ids \in SUBSET Live(lsm) : HeldBy(sst, ids) \subseteq HeldBy(sst, Live(lsm))
  BY DEF HeldBy
<1>4. HeldBy(sst, Live(lsm)) \subseteq Versions
  BY <1>1 DEF HeldBy
<1>5. \A id \in Live(lsm) : sst[id] \subseteq HeldBy(sst, Live(lsm))
  BY DEF HeldBy
<1>6. \A v \in Versions : v.ts \in 1 .. MaxTs /\ v.key \in Nat /\ v.key \in Keys
  BY LevelsAssumption DEF Versions, Keys
<1> QED BY <1>2, <1>3, <1>4, <1>5, <1>6

\* Two tables of a level are apart.
LEMMA LevelsApart ==
    ASSUME Typed, LevelsFollow, NEW i \in DOMAIN lsm.levels,
           NEW x \in ToSet(lsm.levels[i]), NEW y \in ToSet(lsm.levels[i]), x # y
    PROVE  Apart(sst[x], sst[y])
<1>1. PICK p \in DOMAIN lsm.levels[i] : lsm.levels[i][p] = x
  BY DEF ToSet
<1>2. PICK q \in DOMAIN lsm.levels[i] : lsm.levels[i][q] = y
  BY DEF ToSet
<1>3. p \in Nat /\ q \in Nat /\ p # q
  <2>1. lsm.levels[i] \in Seq(Nat)
    BY TypedFacts
  <2> QED BY <1>1, <1>2, <2>1
<1>4. p < q \/ q < p
  BY <1>3
<1> QED BY <1>1, <1>2, <1>4 DEF LevelsFollow, Apart

\* What an installation does.
Installed(j) ==
    /\ j.task \in Tasks /\ Fits(j.task) /\ Made(j)
    /\ lsm' = SortedLevels(Apply(lsm, j.task, j.out), After(j))
    /\ sst' = [id \in (Live(lsm) \ Inputs(j.task)) \cup ToSet(j.out) |-> After(j)[id]]
    /\ replayed' = RecordCompaction(j.task, j.out)
    /\ job' = {}
    /\ UNCHANGED <<strategy, mem, nextId, ts, watermark, running, history, deleted, reopens>>

LEMMA InstallDoes ==
    ASSUME Typed, Places, Scheduled, Install
    PROVE  \E j \in job : Installed(j)
<1>1. PICK j \in job :
         /\ lsm' = SortedLevels(Apply(lsm, j.task, j.out), After(j))
         /\ sst' = [id \in DOMAIN After(j) \ Inputs(j.task) |-> After(j)[id]]
         /\ replayed' = RecordCompaction(j.task, j.out)
  BY DEF Install, After
<1>2. /\ job' = {}
      /\ UNCHANGED <<strategy, mem, nextId, ts, watermark, running, history, deleted, reopens>>
  BY DEF Install
<1>3. Fits(j.task) /\ Made(j) /\ j.task \in Tasks
  BY JobFacts DEF Scheduled
<1>4. Inputs(j.task) \subseteq Live(lsm)
  BY <1>3, TaskFits
<1>5. DOMAIN After(j) = Live(lsm) \cup ToSet(j.out) /\ ToSet(j.out) \cap Live(lsm) = {}
  BY <1>3, AfterFacts
<1>6. DOMAIN After(j) \ Inputs(j.task) = (Live(lsm) \ Inputs(j.task)) \cup ToSet(j.out)
  BY <1>4, <1>5
<1> QED BY <1>1, <1>2, <1>3, <1>6 DEF Installed

\* The levels it leaves, before the sort, can be sorted.
LEMMA InstalledApart ==
    ASSUME Typed, Places, VersionsUnique, LevelsFollow, strategy = "Leveled",
           NEW j \in job, Fits(j.task), Made(j)
    PROVE  MaySort(Apply(lsm, j.task, j.out), After(j))
<1> DEFINE t == j.task
           r == Apply(lsm, t, j.out)
           c == After(j)
<1>1. /\ r \in LsmState /\ Len(r.levels) = MaxLevels
      /\ \A i \in 1 .. MaxLevels :
            /\ Distinct(r.levels[i])
            /\ ToSet(r.levels[i]) = (ToSet(lsm.levels[i]) \ Inputs(t))
                                       \cup IF i = t.lower THEN ToSet(j.out) ELSE {}
      /\ Live(r) = (Live(lsm) \ Inputs(t)) \cup ToSet(j.out)
  <2>1. LevelsFit(t)
    BY DEF Fits
  <2> QED BY <2>1, AppliedLevels DEF LevelsWith
<1>2. /\ ToSet(j.out) \cap Live(lsm) = {}
      /\ \A id \in Live(lsm) : c[id] = sst[id]
      /\ \A p \in DOMAIN j.out : c[j.out[p]] = j.tables[p]
      /\ \A id \in ToSet(j.out) : \E p \in DOMAIN j.out : id = j.out[p]
      /\ \A id \in ToSet(j.out) : c[id] \subseteq Output(j) /\ c[id] # {} /\ c[id] \subseteq Versions
      /\ DOMAIN j.out = DOMAIN j.tables
  BY AfterFacts
<1>3. Inputs(t) \subseteq Live(lsm) /\ Output(j) \subseteq Contents(Inputs(t))
  BY JobFacts, TaskFits DEF Made
<1>4. Output(j) \subseteq Stored /\ Unique(Stored)
  BY <1>3, StoredFacts DEF VersionsUnique
<1>5. /\ DOMAIN lsm.levels = 1 .. MaxLevels
      /\ \A i \in 1 .. MaxLevels : ToSet(lsm.levels[i]) \subseteq Live(lsm)
  <2>1. Len(lsm.levels) = MaxLevels
    BY DEF Places
  <2> QED BY <2>1, TypedFacts
<1> HIDE DEF r, c
<1>6. ASSUME NEW id \in Live(r) PROVE c[id] \subseteq Versions /\ c[id] # {} /\ Unique(c[id])
  <2>1. c[id] \subseteq Stored /\ c[id] \subseteq Versions /\ c[id] # {}
    <3>1. CASE id \in Live(lsm)
      BY <1>2, <3>1, StoredFacts, TypedFacts
    <3>2. CASE id \in ToSet(j.out)
      BY <1>2, <1>4, <3>2
    <3> QED BY <1>1, <3>1, <3>2
  <2> QED BY <1>4, <2>1 DEF Unique
<1>7. \A id \in ToSet(lsm.levels[t.lower]) \ ToSet(t.lowerIds) : Apart(sst[id], Contents(Inputs(t)))
  BY DEF Fits, LevelsFit
<1>8. ToSet(lsm.levels[t.lower]) \cap Inputs(t) = ToSet(t.lowerIds) /\ t.lower \in 1 .. MaxLevels
  BY <1>5, JobFacts, LevelInputs DEF Fits
<1>9. ASSUME NEW i \in 1 .. MaxLevels, NEW x \in ToSet(r.levels[i]), NEW y \in ToSet(r.levels[i]),
             x # y
      PROVE  Apart(c[x], c[y])
  <2>1. ASSUME NEW a \in ToSet(lsm.levels[i]) \ Inputs(t), i = t.lower, NEW b \in ToSet(j.out)
        PROVE  Apart(c[a], c[b]) /\ Apart(c[b], c[a])
    <3>1. c[a] = sst[a] /\ c[b] \subseteq Contents(Inputs(t))
      BY <1>2, <1>3, <1>5
    <3>2. Apart(sst[a], Contents(Inputs(t)))
      BY <1>7, <1>8, <2>1
    <3> QED BY <3>1, <3>2 DEF Apart, Follows
  <2>2. CASE x \in ToSet(lsm.levels[i]) \ Inputs(t) /\ y \in ToSet(lsm.levels[i]) \ Inputs(t)
    <3>1. Apart(sst[x], sst[y])
      BY <1>5, <1>9, <2>2, LevelsApart
    <3> QED BY <1>2, <1>5, <2>2, <3>1
  <2>3. CASE i = t.lower /\ x \in ToSet(j.out) /\ y \in ToSet(j.out)
    <3>1. PICK p \in DOMAIN j.out : x = j.out[p]
      BY <1>2, <2>3
    <3>2. PICK q \in DOMAIN j.out : y = j.out[q]
      BY <1>2, <2>3
    <3>3. p \in Nat /\ q \in Nat /\ p # q
      <4>1. j.out \in Seq(Nat)
        BY JobFacts
      <4> QED BY <1>9, <3>1, <3>2, <4>1
    <3>4. p < q \/ q < p
      BY <3>3
    <3>5. Follows(j.tables[p], j.tables[q]) \/ Follows(j.tables[q], j.tables[p])
      BY <1>2, <3>4 DEF Made
    <3> QED BY <1>2, <3>1, <3>2, <3>5 DEF Apart
  <2> QED BY <1>1, <1>9, <2>1, <2>2, <2>3
<1> QED BY <1>1, <1>6, <1>9 DEF MaySort, r, c

\* The levels an installation leaves.
LEMMA InstalledLive ==
    ASSUME Typed, Places, VersionsUnique, LevelsFollow, NEW j \in job, Installed(j)
    PROVE  /\ lsm' \in LsmState
           /\ Live(lsm') = (Live(lsm) \ Inputs(j.task)) \cup ToSet(j.out)
           /\ Inputs(j.task) \subseteq Live(lsm)
           /\ strategy # "Leveled" => lsm' = Apply(lsm, j.task, j.out)
           /\ strategy = "Leveled" => SortedTo(Apply(lsm, j.task, j.out), After(j), lsm')
<1> DEFINE r == Apply(lsm, j.task, j.out)
<1>1. /\ j.task \in Tasks /\ Fits(j.task) /\ Made(j)
      /\ lsm' = SortedLevels(r, After(j))
  BY DEF Installed
<1>2. r \in LsmState /\ Live(r) = (Live(lsm) \ Inputs(j.task)) \cup ToSet(j.out)
  <2>1. CASE strategy = "Tiered"
    <3>1. PICK u \in 0 .. Len(lsm.levels) : TiersAt(lsm, j.task, u)
      BY <1>1, <2>1 DEF Fits, TiersFit, TiersAt
    <3>2. j.task.upperIds = <<>> /\ j.task.lowerIds = <<>>
      BY <1>1, <2>1 DEF Fits, TiersFit
    <3> QED BY <1>1, <2>1, <3>1, <3>2, AppliedTiers DEF TiersWith
  <2>2. CASE strategy # "Tiered"
    BY <1>1, <2>2, AppliedLevels DEF Fits, LevelsWith
  <2> QED BY <2>1, <2>2
<1>3. strategy = "Leveled" => SortedTo(r, After(j), lsm')
  BY <1>1, InstalledApart, LevelsSorted
<1>4. strategy # "Leveled" => lsm' = r
  BY <1>1 DEF SortedLevels
<1>5. lsm' \in LsmState /\ Live(lsm') = Live(r)
  BY <1>2, <1>3, <1>4 DEF SortedTo
<1>6. Inputs(j.task) \subseteq Live(lsm)
  BY <1>1, TaskFits
<1> QED BY <1>2, <1>3, <1>4, <1>5, <1>6

\* The tables after an installation.
LEMMA InstalledStored ==
    ASSUME Typed, Places, VersionsUnique, LevelsFollow, NEW j \in job, Installed(j)
    PROVE  /\ DOMAIN sst' = Live(lsm')
           /\ \A id \in Live(lsm') : sst'[id] = After(j)[id]
           /\ \A id \in Live(lsm) \ Inputs(j.task) : id \in Live(lsm') /\ sst'[id] = sst[id]
           /\ \A p \in DOMAIN j.out : j.out[p] \in Live(lsm') /\ sst'[j.out[p]] = j.tables[p]
           /\ HeldBy(sst', ToSet(j.out)) = Output(j)
           /\ \A ids \in SUBSET (Live(lsm) \ Inputs(j.task)) : HeldBy(sst', ids) = Contents(ids)
           /\ sst' \in [Live(lsm') -> (SUBSET Versions) \ {{}}]
           /\ Stored' = Contents(Live(lsm) \ Inputs(j.task)) \cup Output(j)
           /\ Stored = Contents(Live(lsm) \ Inputs(j.task)) \cup Contents(Inputs(j.task))
           /\ Output(j) \subseteq Contents(Inputs(j.task)) /\ Stored' \subseteq Stored
<1> DEFINE rest == Live(lsm) \ Inputs(j.task)
           all == After(j)
<1>1. /\ Made(j)
      /\ sst' = [id \in rest \cup ToSet(j.out) |-> all[id]]
  BY DEF Installed
<1>2. Live(lsm') = rest \cup ToSet(j.out) /\ Inputs(j.task) \subseteq Live(lsm)
  BY InstalledLive
<1>3. /\ ToSet(j.out) \cap Live(lsm) = {}
      /\ \A id \in Live(lsm) : all[id] = sst[id]
      /\ \A p \in DOMAIN j.out : all[j.out[p]] = j.tables[p]
      /\ \A id \in ToSet(j.out) : all[id] # {} /\ all[id] \subseteq Versions
      /\ UNION {all[id] : id \in ToSet(j.out)} = Output(j)
  BY <1>1, AfterFacts
<1> HIDE DEF all
<1>4. DOMAIN sst' = Live(lsm') /\ \A id \in Live(lsm') : sst'[id] = all[id]
  BY <1>1, <1>2
<1>5. \A id \in rest : id \in Live(lsm') /\ sst'[id] = sst[id]
  BY <1>2, <1>3, <1>4
<1>6. \A p \in DOMAIN j.out : j.out[p] \in Live(lsm') /\ sst'[j.out[p]] = j.tables[p]
  <2>1. \A p \in DOMAIN j.out : j.out[p] \in ToSet(j.out)
    BY DEF ToSet
  <2> QED BY <1>2, <1>3, <1>4, <2>1
<1>7. HeldBy(sst', ToSet(j.out)) = Output(j)
  <2>1. \A id \in ToSet(j.out) : sst'[id] = all[id]
    BY <1>2, <1>4
  <2>2. {sst'[id] : id \in ToSet(j.out)} = {all[id] : id \in ToSet(j.out)}
    BY <2>1
  <2> QED BY <1>3, <2>2 DEF HeldBy
<1>8. ASSUME NEW ids \in SUBSET rest PROVE HeldBy(sst', ids) = Contents(ids)
  <2>1. {sst'[id] : id \in ids} = {sst[id] : id \in ids}
    BY <1>5
  <2> QED BY <2>1 DEF HeldBy, Contents
<1>9. \A id \in Live(lsm') : sst'[id] \in (SUBSET Versions) \ {{}}
  <2>1. \A id \in Live(lsm) : all[id] # {} /\ all[id] \subseteq Versions
    BY <1>3, TypedFacts
  <2> QED BY <1>2, <1>3, <1>4, <2>1
<1>10. sst' \in [Live(lsm') -> (SUBSET Versions) \ {{}}]
  <2>1. sst' = [id \in Live(lsm') |-> sst'[id]]
    BY <1>1, <1>2
  <2> QED BY <1>9, <2>1
<1>11. Stored' = HeldBy(sst', Live(lsm'))
  BY DEF Stored, Contents, HeldBy
<1>12. HeldBy(sst', Live(lsm')) = HeldBy(sst', rest) \cup HeldBy(sst', ToSet(j.out))
  BY <1>2 DEF HeldBy
<1>13. Stored' = Contents(rest) \cup Output(j)
  BY <1>7, <1>8, <1>11, <1>12
<1>14. Stored = Contents(rest) \cup Contents(Inputs(j.task))
  BY <1>2 DEF Stored, Contents
<1>15. Output(j) \subseteq Contents(Inputs(j.task))
  BY <1>1 DEF Made
<1> QED BY <1>4, <1>5, <1>6, <1>7, <1>8, <1>10, <1>13, <1>14, <1>15 DEF all

\* The levels of the leveled controllers after it.
LEMMA InstalledLevels ==
    ASSUME Typed, Places, VersionsUnique, LevelsFollow, strategy # "Tiered",
           NEW j \in job, Installed(j)
    PROVE  /\ Len(lsm'.levels) = MaxLevels /\ DOMAIN lsm'.levels = 1 .. MaxLevels
           /\ lsm'.l0 \in Seq(Nat) /\ Distinct(lsm'.l0)
           /\ ToSet(lsm'.l0) = ToSet(lsm.l0) \ Inputs(j.task)
           /\ \A p, q \in DOMAIN lsm'.l0 : p < q =>
                 \E i, k \in DOMAIN lsm.l0 :
                    i < k /\ lsm.l0[i] = lsm'.l0[p] /\ lsm.l0[k] = lsm'.l0[q]
           /\ \A i \in 1 .. MaxLevels :
                 /\ Distinct(lsm'.levels[i])
                 /\ ToSet(lsm'.levels[i]) = (ToSet(lsm.levels[i]) \ Inputs(j.task))
                                               \cup IF i = j.task.lower THEN ToSet(j.out) ELSE {}
<1> DEFINE r == Apply(lsm, j.task, j.out)
<1>1. LevelsWith(j, r)
  BY AppliedLevels DEF Installed, Fits
<1>2. /\ r.l0 \in Seq(Nat) /\ Distinct(r.l0)
      /\ ToSet(r.l0) = ToSet(lsm.l0) \ Inputs(j.task)
      /\ \A p, q \in DOMAIN r.l0 : p < q =>
            \E i, k \in DOMAIN lsm.l0 : i < k /\ lsm.l0[i] = r.l0[p] /\ lsm.l0[k] = r.l0[q]
      /\ Len(r.levels) = MaxLevels /\ DOMAIN r.levels = 1 .. MaxLevels
      /\ \A i \in 1 .. MaxLevels :
          /\ Distinct(r.levels[i])
          /\ ToSet(r.levels[i]) = (ToSet(lsm.levels[i]) \ Inputs(j.task))
                                     \cup IF i = j.task.lower THEN ToSet(j.out) ELSE {}
  BY <1>1 DEF LevelsWith
<1> HIDE DEF r
<1>3. CASE strategy = "Simple"
  <2>1. lsm' = r
    BY <1>3, InstalledLive DEF r
  <2> QED BY <1>2, <2>1
<1>4. CASE strategy = "Leveled"
  <2>1. SortedTo(r, After(j), lsm')
    BY <1>4, InstalledLive DEF r
  <2>2. lsm'.l0 = r.l0 /\ Len(lsm'.levels) = MaxLevels /\ DOMAIN lsm'.levels = 1 .. MaxLevels
        /\ \A i \in 1 .. MaxLevels : /\ Distinct(lsm'.levels[i])
                                     /\ ToSet(lsm'.levels[i]) = ToSet(r.levels[i])
    BY <2>1 DEF SortedTo
  <2>3. /\ lsm'.l0 \in Seq(Nat) /\ Distinct(lsm'.l0)
        /\ ToSet(lsm'.l0) = ToSet(lsm.l0) \ Inputs(j.task)
        /\ \A p, q \in DOMAIN lsm'.l0 : p < q =>
              \E i, k \in DOMAIN lsm.l0 :
                 i < k /\ lsm.l0[i] = lsm'.l0[p] /\ lsm.l0[k] = lsm'.l0[q]
    BY <1>2, <2>2
  <2>4. \A i \in 1 .. MaxLevels :
           /\ Distinct(lsm'.levels[i])
           /\ ToSet(lsm'.levels[i]) = (ToSet(lsm.levels[i]) \ Inputs(j.task))
                                         \cup IF i = j.task.lower THEN ToSet(j.out) ELSE {}
    BY <1>2, <2>2
  <2> QED BY <2>2, <2>3, <2>4
<1> QED BY <1>3, <1>4, TypedFacts

\* Under the tiered controller.
LEMMA InstalledTiers ==
    ASSUME Typed, Places, VersionsUnique, LevelsFollow, strategy = "Tiered",
           NEW j \in job, Installed(j)
    PROVE  \E u \in Nat : /\ TiersAt(lsm, j.task, u) /\ TiersWith(j, u, lsm')
                          /\ j.task.bottom /\ WidthUnbounded =>
                                u + Len(j.task.tiers) = Len(lsm.levels)
<1>1. PICK u \in 0 .. Len(lsm.levels) :
         /\ TiersAt(lsm, j.task, u)
         /\ j.task.bottom /\ WidthUnbounded => u + Len(j.task.tiers) = Len(lsm.levels)
  BY DEF Installed, Fits, TiersFit, TiersAt
<1>2. j.task.upperIds = <<>> /\ j.task.lowerIds = <<>> /\ Made(j)
  BY DEF Installed, Fits, TiersFit
<1>3. TiersWith(j, u, lsm')
  <2>1. lsm' = Apply(lsm, j.task, j.out)
    BY InstalledLive
  <2> QED BY <1>1, <1>2, <2>1, AppliedTiers
<1>4. u \in Nat
  BY TypedFacts
<1> QED BY <1>1, <1>3, <1>4

LEMMA InstallPlaces ==
    ASSUME Typed, Places, VersionsUnique, LevelsFollow, NEW j \in job, Installed(j)
    PROVE  Places'
<1>1. Made(j) /\ strategy' = strategy
  BY DEF Installed
<1>2. /\ \A i, k \in DOMAIN lsm.levels : i # k => ToSet(lsm.levels[i]) \cap ToSet(lsm.levels[k]) = {}
      /\ \A i \in DOMAIN lsm.levels : Distinct(lsm.levels[i])
      /\ \A i \in DOMAIN lsm.levels : ToSet(lsm.l0) \cap ToSet(lsm.levels[i]) = {}
  BY DEF Places
<1>3. /\ ToSet(j.out) \cap Live(lsm) = {} /\ Distinct(j.out)
      /\ \A i \in DOMAIN lsm.levels : ToSet(lsm.levels[i]) \subseteq Live(lsm)
      /\ ToSet(lsm.l0) \subseteq Live(lsm)
  BY <1>1, AfterFacts, TypedFacts DEF Made
<1>4. CASE strategy # "Tiered"
  <2> DEFINE n == MaxLevels
  <2>1. /\ Len(lsm'.levels) = n /\ DOMAIN lsm'.levels = 1 .. n
        /\ Distinct(lsm'.l0) /\ ToSet(lsm'.l0) \subseteq ToSet(lsm.l0)
        /\ \A i \in 1 .. n :
              /\ Distinct(lsm'.levels[i])
              /\ ToSet(lsm'.levels[i]) = (ToSet(lsm.levels[i]) \ Inputs(j.task))
                                            \cup IF i = j.task.lower THEN ToSet(j.out) ELSE {}
    BY <1>4, InstalledLevels
  <2>2. DOMAIN lsm.levels = 1 .. n
    <3>1. Len(lsm.levels) = n
      BY <1>4 DEF Places
    <3> QED BY <3>1, TypedFacts
  <2>3. \A i \in 1 .. n : ToSet(lsm'.l0) \cap ToSet(lsm'.levels[i]) = {}
    BY <1>2, <1>3, <2>1, <2>2
  <2>4. ASSUME NEW i \in 1 .. n, NEW k \in 1 .. n, i # k
        PROVE  ToSet(lsm'.levels[i]) \cap ToSet(lsm'.levels[k]) = {}
    <3>1. ToSet(lsm.levels[i]) \cap ToSet(lsm.levels[k]) = {}
          /\ ToSet(j.out) \cap ToSet(lsm.levels[i]) = {}
          /\ ToSet(j.out) \cap ToSet(lsm.levels[k]) = {}
      BY <1>2, <1>3, <2>2, <2>4
    <3> QED BY <2>1, <2>4, <3>1
  <2> QED BY <1>1, <1>4, <2>1, <2>3, <2>4 DEF Places
<1>5. CASE strategy = "Tiered"
  <2>1. PICK u \in Nat : TiersAt(lsm, j.task, u) /\ TiersWith(j, u, lsm')
    BY <1>5, InstalledTiers
  <2> DEFINE m == Len(j.task.tiers)
             n == Len(lsm.levels)
             outside == Outside(u, m, n)
             ls == lsm'.levels
  <2>2. /\ lsm'.l0 = <<>> /\ ls \in Seq(Seq(Nat))
        /\ \A p \in DOMAIN ls : ls[p] = j.out \/ \E i \in outside : ls[p] = lsm.levels[i]
        /\ \A p, q \in DOMAIN ls : p < q =>
              \/ \E i, k \in outside : i < k /\ ls[p] = lsm.levels[i] /\ ls[q] = lsm.levels[k]
              \/ \E i \in 1 .. u : ls[p] = lsm.levels[i] /\ ls[q] = j.out
              \/ \E k \in u + m + 1 .. n : ls[p] = j.out /\ ls[q] = lsm.levels[k]
    BY <2>1 DEF TiersWith
  <2>3. /\ u \in Nat /\ m \in Nat /\ n \in Nat /\ DOMAIN lsm.levels = 1 .. n
        /\ outside = (1 .. u) \cup (u + m + 1 .. n) /\ u + m <= n
    <3>1. j.task \in Tasks /\ u + m <= n
      BY <2>1, JobFacts DEF TiersAt
    <3>2. m \in Nat
      BY <3>1 DEF Tasks
    <3> QED BY <3>1, <3>2, TypedFacts DEF Outside
  <2>4. j.out # <<>> /\ \A i \in DOMAIN lsm.levels : lsm.levels[i] # <<>>
    BY <1>1, <1>5 DEF Places, Made
  <2> HIDE DEF m, n, outside
  <2>5. /\ \A i \in outside : i \in DOMAIN lsm.levels /\ i \in Nat
        /\ \A i \in 1 .. u : i \in outside
        /\ \A i \in u + m + 1 .. n : i \in outside
    BY <2>3
  <2> HIDE DEF ls
  <2>6. \A p \in DOMAIN ls : ls[p] # <<>> /\ Distinct(ls[p])
    BY <1>2, <1>3, <2>2, <2>4, <2>5
  <2>7. ToSet(lsm'.l0) = {} /\ Distinct(lsm'.l0)
    BY <2>2 DEF ToSet, Distinct
  <2>8. ASSUME NEW p \in DOMAIN ls, NEW q \in DOMAIN ls, p < q
        PROVE  ToSet(ls[p]) \cap ToSet(ls[q]) = {}
    <3>1. CASE \E i, k \in outside : i < k /\ ls[p] = lsm.levels[i] /\ ls[q] = lsm.levels[k]
      <4>1. PICK i \in outside, k \in outside :
                    i < k /\ ls[p] = lsm.levels[i] /\ ls[q] = lsm.levels[k]
        BY <3>1
      <4>2. i # k /\ i \in DOMAIN lsm.levels /\ k \in DOMAIN lsm.levels
        BY <2>5, <4>1
      <4> QED BY <1>2, <4>1, <4>2
    <3>2. ASSUME NEW i \in outside PROVE ToSet(lsm.levels[i]) \cap ToSet(j.out) = {}
      BY <1>3, <2>5
    <3>3. CASE \E i \in 1 .. u : ls[p] = lsm.levels[i] /\ ls[q] = j.out
      BY <2>5, <3>2, <3>3
    <3>4. CASE \E k \in u + m + 1 .. n : ls[p] = j.out /\ ls[q] = lsm.levels[k]
      BY <2>5, <3>2, <3>4
    <3>5. \/ \E i, k \in outside : i < k /\ ls[p] = lsm.levels[i] /\ ls[q] = lsm.levels[k]
          \/ \E i \in 1 .. u : ls[p] = lsm.levels[i] /\ ls[q] = j.out
          \/ \E k \in u + m + 1 .. n : ls[p] = j.out /\ ls[q] = lsm.levels[k]
      BY <2>2, <2>8
    <3> QED BY <3>1, <3>3, <3>4, <3>5
  <2>9. ASSUME NEW p \in DOMAIN ls, NEW q \in DOMAIN ls, p # q
        PROVE  ToSet(ls[p]) \cap ToSet(ls[q]) = {}
    <3>1. p \in Nat /\ q \in Nat
      BY <2>2
    <3>2. p < q \/ q < p
      BY <2>9, <3>1
    <3> QED BY <2>8, <3>2
  <2> QED BY <1>1, <1>5, <2>2, <2>6, <2>7, <2>9 DEF Places, ls
<1> QED BY <1>4, <1>5

LEMMA Emptied ==
    ASSUME NEW f \in Seq(Nat)
    PROVE  Without(f, ToSet(f)) = <<>>
<1> DEFINE w == Without(f, ToSet(f))
<1>1. w \in Seq(Nat) /\ ToSet(w) = {}
  BY WithoutKeeps
<1> HIDE DEF w
<1>2. DOMAIN w = {}
  BY <1>1 DEF ToSet
<1>3. w = <<>>
  BY <1>1, <1>2
<1> QED BY <1>3 DEF w

\* The simple leveled controller merges whole levels.
LEMMA InstalledSimple ==
    ASSUME Typed, Places, VersionsUnique, LevelsFollow, strategy = "Simple",
           NEW j \in job, Installed(j)
    PROVE  \A i \in 1 .. MaxLevels : lsm'.levels[i] =
              IF i = j.task.lower THEN j.out ELSE IF i = j.task.upper THEN <<>> ELSE lsm.levels[i]
<1> DEFINE t == j.task
           out == j.out
<1>1. /\ t \in Tasks /\ out \in Seq(Nat) /\ lsm \in LsmState
      /\ t.lower \in 1 .. MaxLevels /\ t.upper < t.lower /\ t.upper \in 0 .. MaxLevels
      /\ t.lowerIds = lsm.levels[t.lower]
      /\ t.upper > 0 => t.upperIds = lsm.levels[t.upper]
  BY JobFacts DEF Installed, Fits, LevelsFit, Typed
<1>2. Len(lsm.levels) = MaxLevels /\ DOMAIN lsm.levels = 1 .. MaxLevels
      /\ \A i \in 1 .. MaxLevels : lsm.levels[i] \in Seq(Nat)
  BY TypedFacts DEF Places
<1>3. lsm' = ApplyToLevels(lsm, t, out)
  BY InstalledLive DEF Apply
<1> HIDE DEF t, out
<1>4. \A i \in 1 .. MaxLevels : lsm'.levels[i] =
            IF i = t.lower THEN Without(lsm.levels[i], ToSet(t.lowerIds)) \o out
            ELSE IF i = t.upper THEN Without(lsm.levels[i], ToSet(t.upperIds))
            ELSE lsm.levels[i]
  BY <1>1, <1>2, <1>3, LevelsApplied
<1>5. ASSUME NEW i \in 1 .. MaxLevels
      PROVE  lsm'.levels[i] =
                IF i = t.lower THEN out ELSE IF i = t.upper THEN <<>> ELSE lsm.levels[i]
  <2>1. Without(lsm.levels[i], ToSet(lsm.levels[i])) = <<>>
    BY <1>2, Emptied
  <2>2. CASE i = t.lower
    <3>1. Without(lsm.levels[i], ToSet(t.lowerIds)) = <<>>
      BY <1>1, <2>1, <2>2
    <3>2. lsm'.levels[i] = <<>> \o out
      BY <1>4, <2>2, <3>1
    <3> QED BY <1>1, <2>2, <3>2
  <2>3. CASE i # t.lower /\ i = t.upper
    <3>1. t.upper > 0
      BY <1>1, <2>3
    <3> QED BY <1>1, <1>4, <2>1, <2>3, <3>1
  <2>4. CASE i # t.lower /\ i # t.upper
    BY <1>4, <2>4
  <2> QED BY <2>2, <2>3, <2>4
<1> QED BY <1>5 DEF t, out

LEMMA InstallFollow ==
    ASSUME Typed, Places, VersionsUnique, LevelsFollow, NEW j \in job, Installed(j)
    PROVE  LevelsFollow'
<1>1. Made(j) /\ DOMAIN j.out = DOMAIN j.tables
  BY AfterFacts DEF Installed
<1>2. \A id \in Live(lsm) \ Inputs(j.task) : sst'[id] = sst[id]
  BY InstalledStored
<1>3. \A p \in DOMAIN j.out : sst'[j.out[p]] = j.tables[p]
  BY InstalledStored
\* A level that is the output, or one the task left alone, is in order.
<1>4. ASSUME NEW run, run = j.out, NEW p \in DOMAIN run, NEW q \in DOMAIN run, p < q
      PROVE  Follows(sst'[run[p]], sst'[run[q]])
  BY <1>1, <1>3, <1>4 DEF Made
<1>5. ASSUME NEW i \in DOMAIN lsm.levels, ToSet(lsm.levels[i]) \cap Inputs(j.task) = {},
             NEW run, run = lsm.levels[i], NEW p \in DOMAIN run, NEW q \in DOMAIN run, p < q
      PROVE  Follows(sst'[run[p]], sst'[run[q]])
  <2>1. Follows(sst[run[p]], sst[run[q]])
    BY <1>5 DEF LevelsFollow
  <2>2. run[p] \in ToSet(lsm.levels[i]) /\ run[q] \in ToSet(lsm.levels[i])
    BY <1>5 DEF ToSet
  <2>3. run[p] \in Live(lsm) \ Inputs(j.task) /\ run[q] \in Live(lsm) \ Inputs(j.task)
    BY <1>5, <2>2, TypedFacts
  <2> QED BY <1>2, <2>1, <2>3
<1>6. CASE strategy = "Leveled"
  <2>1. SortedTo(Apply(lsm, j.task, j.out), After(j), lsm')
    BY <1>6, InstalledLive
  <2>2. /\ DOMAIN lsm'.levels = 1 .. MaxLevels
        /\ \A i \in 1 .. MaxLevels : \A p, q \in DOMAIN lsm'.levels[i] : p < q =>
              Follows(After(j)[lsm'.levels[i][p]], After(j)[lsm'.levels[i][q]])
    BY <2>1 DEF SortedTo
  <2>3. \A i \in DOMAIN lsm'.levels : \A p \in DOMAIN lsm'.levels[i] :
           lsm'.levels[i][p] \in Live(lsm')
    BY DEF Live, ToSet
  <2>4. \A id \in Live(lsm') : sst'[id] = After(j)[id]
    BY InstalledStored
  <2> QED BY <2>2, <2>3, <2>4 DEF LevelsFollow
<1>7. CASE strategy = "Simple"
  <2>1. \A i \in 1 .. MaxLevels : lsm'.levels[i] =
           IF i = j.task.lower THEN j.out ELSE IF i = j.task.upper THEN <<>> ELSE lsm.levels[i]
    BY <1>7, InstalledSimple
  <2>2. DOMAIN lsm'.levels = 1 .. MaxLevels
    BY <1>7, InstalledLevels
  <2>3. DOMAIN lsm.levels = 1 .. MaxLevels
    BY <1>7, TypedFacts DEF Places
  <2>4. \A i \in 1 .. MaxLevels : i # j.task.lower /\ i # j.task.upper =>
           ToSet(lsm.levels[i]) \cap Inputs(j.task) = {}
    BY <1>7, <2>3, LevelInputs DEF Installed, Fits
  <2>5. ASSUME NEW i \in 1 .. MaxLevels,
               NEW p \in DOMAIN lsm'.levels[i], NEW q \in DOMAIN lsm'.levels[i], p < q
        PROVE  Follows(sst'[lsm'.levels[i][p]], sst'[lsm'.levels[i][q]])
    <3>1. CASE i = j.task.lower
      BY <1>4, <2>1, <2>5, <3>1
    <3>2. CASE i # j.task.lower /\ i = j.task.upper
      BY <2>1, <2>5, <3>2
    <3>3. CASE i # j.task.lower /\ i # j.task.upper
      BY <1>5, <2>1, <2>3, <2>4, <2>5, <3>3
    <3> QED BY <3>1, <3>2, <3>3
  <2> QED BY <2>2, <2>5 DEF LevelsFollow
<1>8. CASE strategy = "Tiered"
  <2>1. PICK u \in Nat : TiersAt(lsm, j.task, u) /\ TiersWith(j, u, lsm')
    BY <1>8, InstalledTiers
  <2> DEFINE outside == Outside(u, Len(j.task.tiers), Len(lsm.levels))
  <2>2. \A x \in DOMAIN lsm'.levels :
           lsm'.levels[x] = j.out \/ \E i \in outside : lsm'.levels[x] = lsm.levels[i]
    BY <2>1 DEF TiersWith
  <2>3. \A i \in outside : i \in DOMAIN lsm.levels /\ ToSet(lsm.levels[i]) \cap Inputs(j.task) = {}
    BY <1>8, <2>1, TierInputs DEF Installed, Fits, TiersFit
  <2> HIDE DEF outside
  <2>4. ASSUME NEW x \in DOMAIN lsm'.levels,
               NEW p \in DOMAIN lsm'.levels[x], NEW q \in DOMAIN lsm'.levels[x], p < q
        PROVE  Follows(sst'[lsm'.levels[x][p]], sst'[lsm'.levels[x][q]])
    <3>1. CASE lsm'.levels[x] = j.out
      BY <1>4, <2>4, <3>1
    <3>2. CASE \E i \in outside : lsm'.levels[x] = lsm.levels[i]
      <4>1. PICK i \in outside : lsm'.levels[x] = lsm.levels[i]
        BY <3>2
      <4> QED BY <1>5, <2>3, <2>4, <4>1
    <3> QED BY <2>2, <3>1, <3>2
  <2> QED BY <2>4 DEF LevelsFollow
<1> QED BY <1>6, <1>7, <1>8, TypedFacts

\* What comes first is later.
LEMMA LaterParts ==
    ASSUME NEW A, NEW B, NEW C, NEW D, Later(A, B), C \subseteq A, D \subseteq B
    PROVE  Later(C, D)
  BY DEF Later

LEMMA LaterBoth ==
    ASSUME NEW A, NEW B, NEW C, NEW D, NEW E,
           Later(A, B), Later(A, C), D \subseteq A, E \subseteq B \cup C
    PROVE  Later(D, E)
  BY DEF Later

LEMMA LaterThanBoth ==
    ASSUME NEW A, NEW B, NEW C, NEW D, NEW E,
           Later(B, A), Later(C, A), D \subseteq A, E \subseteq B \cup C
    PROVE  Later(E, D)
  BY DEF Later

LEMMA InstallAges ==
    ASSUME Typed, Places, VersionsUnique, LevelsFollow, PlacesAge, NEW j \in job, Installed(j)
    PROVE  PlacesAge'
<1>0. SUFFICES ASSUME strategy' # "Leveled" PROVE PlacesAge'
  BY DEF PlacesAge
<1> DEFINE t == j.task
           C(i) == Contents(ToSet(lsm.levels[i]))
           N(i) == HeldBy(sst', ToSet(lsm'.levels[i]))
<1>1. Made(j) /\ strategy' = strategy /\ strategy # "Leveled" /\ t \in Tasks
  BY <1>0 DEF Installed
<1>2. /\ \A p, q \in DOMAIN lsm.l0 : p < q => Later(sst[lsm.l0[p]], sst[lsm.l0[q]])
      /\ \A p \in DOMAIN lsm.l0, i \in DOMAIN lsm.levels : Later(sst[lsm.l0[p]], C(i))
      /\ \A i, k \in DOMAIN lsm.levels : i < k => Later(C(i), C(k))
  BY <1>1 DEF PlacesAge
<1>3. \A i : N(i) = (Contents(ToSet(lsm.levels[i])))'
  BY DEF Contents, HeldBy
<1>4. SUFFICES /\ \A p, q \in DOMAIN lsm'.l0 : p < q => Later(sst'[lsm'.l0[p]], sst'[lsm'.l0[q]])
               /\ \A p \in DOMAIN lsm'.l0, i \in DOMAIN lsm'.levels : Later(sst'[lsm'.l0[p]], N(i))
               /\ \A i, k \in DOMAIN lsm'.levels : i < k => Later(N(i), N(k))
  BY <1>3 DEF PlacesAge
<1>5. /\ Output(j) \subseteq Contents(Inputs(t))
      /\ HeldBy(sst', ToSet(j.out)) = Output(j)
      /\ \A ids \in SUBSET (Live(lsm) \ Inputs(t)) : HeldBy(sst', ids) = Contents(ids)
      /\ \A id \in Live(lsm) \ Inputs(t) : sst'[id] = sst[id]
  BY InstalledStored
<1>6. /\ ToSet(lsm.l0) \subseteq Live(lsm)
      /\ \A i \in DOMAIN lsm.levels : ToSet(lsm.levels[i]) \subseteq Live(lsm)
  BY TypedFacts
<1>7. \A A, B : Contents(A \cup B) = Contents(A) \cup Contents(B)
  BY DEF Contents
<1>8. CASE strategy = "Simple"
  <2>0. j.task \in Tasks /\ LevelsFit(t)
    BY <1>1, <1>8 DEF Installed, Fits
  <2>1. /\ t.lower \in 1 .. MaxLevels /\ t.upper \in 0 .. MaxLevels /\ t.lower = t.upper + 1
        /\ t.lowerIds = lsm.levels[t.lower] /\ (t.upper > 0 => t.upperIds = lsm.levels[t.upper])
        /\ t.upper = 0 => /\ ToSet(t.upperIds) \subseteq ToSet(lsm.l0)
                          /\ \A p, q \in DOMAIN lsm.l0 :
                                lsm.l0[p] \notin ToSet(t.upperIds)
                                /\ lsm.l0[q] \in ToSet(t.upperIds) => p < q
    BY <1>8, <2>0 DEF LevelsFit, Tasks
  <2>2. Inputs(t) = ToSet(t.upperIds) \cup ToSet(t.lowerIds)
        /\ \A i \in DOMAIN lsm.levels : i # t.lower /\ i # t.upper =>
              ToSet(lsm.levels[i]) \cap Inputs(t) = {}
    BY <1>8, <2>0, LevelInputs
  <2>3. DOMAIN lsm.levels = 1 .. MaxLevels /\ DOMAIN lsm'.levels = 1 .. MaxLevels
        /\ ToSet(lsm'.l0) = ToSet(lsm.l0) \ Inputs(t)
        /\ \A p, q \in DOMAIN lsm'.l0 : p < q =>
              \E i, k \in DOMAIN lsm.l0 :
                 i < k /\ lsm.l0[i] = lsm'.l0[p] /\ lsm.l0[k] = lsm'.l0[q]
    BY <1>8, TypedFacts, InstalledLevels DEF Places
  <2>4. \A i \in 1 .. MaxLevels : lsm'.levels[i] =
           IF i = t.lower THEN j.out ELSE IF i = t.upper THEN <<>> ELSE lsm.levels[i]
    BY <1>8, InstalledSimple
  <2> DEFINE U == Contents(ToSet(t.upperIds))
             low == t.lower
             up == t.upper
  <2> HIDE DEF C, N
  <2>5. MaxLevels \in Nat /\ up \in 0 .. MaxLevels /\ low = up + 1 /\ low \in 1 .. MaxLevels
    BY <2>1, LevelsAssumption
  <2>6. N(low) \subseteq U \cup C(low)
    <3>1. N(low) = HeldBy(sst', ToSet(j.out))
      BY <2>1, <2>4 DEF N
    <3>2. Contents(Inputs(t)) = U \cup C(low)
      BY <1>7, <2>1, <2>2 DEF C
    <3> QED BY <1>5, <3>1, <3>2
  <2>7. ASSUME NEW i \in 1 .. MaxLevels, i # low PROVE N(i) \subseteq C(i) /\ (i = up => N(i) = {})
    <3>1. CASE i = up
      <4>1. ToSet(lsm'.levels[i]) = {}
        BY <2>4, <2>7, <3>1 DEF ToSet
      <4> QED BY <4>1 DEF N, HeldBy
    <3>2. CASE i # up
      <4>1. lsm'.levels[i] = lsm.levels[i] /\ ToSet(lsm.levels[i]) \cap Inputs(t) = {}
        BY <2>2, <2>3, <2>4, <2>7, <3>2
      <4>2. ToSet(lsm.levels[i]) \in SUBSET (Live(lsm) \ Inputs(t))
        BY <1>6, <2>3, <4>1
      <4>3. N(i) = C(i)
        BY <1>5, <4>1, <4>2 DEF N, C
      <4> QED BY <3>2, <4>3
    <3> QED BY <3>1, <3>2
  \* The upper inputs.
  <2>8. up > 0 => up \in 1 .. MaxLevels /\ U = C(up)
    BY <2>1, <2>5 DEF C
  <2>9. ASSUME NEW k \in 1 .. MaxLevels, up < k PROVE Later(U, C(k))
    <3>1. CASE up > 0
      BY <1>2, <2>3, <2>8, <2>9, <3>1
    <3>2. CASE up = 0
      <4>1. ASSUME NEW v \in U PROVE \E p \in DOMAIN lsm.l0 : v \in sst[lsm.l0[p]]
        <5>1. PICK id \in ToSet(t.upperIds) : v \in sst[id]
          BY DEF Contents
        <5>2. id \in ToSet(lsm.l0)
          BY <2>1, <3>2, <5>1
        <5> QED BY <5>1, <5>2 DEF ToSet
      <4>2. \A p \in DOMAIN lsm.l0 : Later(sst[lsm.l0[p]], C(k))
        BY <1>2, <2>3
      <4> HIDE DEF U
      <4> QED BY <4>1, <4>2 DEF Later
    <3> QED BY <2>5, <3>1, <3>2
  <2>10. \A p \in DOMAIN lsm'.l0 :
            /\ lsm'.l0[p] \in ToSet(lsm.l0) \ Inputs(t)
            /\ sst'[lsm'.l0[p]] = sst[lsm'.l0[p]]
            /\ \E x \in DOMAIN lsm.l0 : lsm.l0[x] = lsm'.l0[p]
    <3>1. \A p \in DOMAIN lsm'.l0 : lsm'.l0[p] \in ToSet(lsm'.l0)
      BY DEF ToSet
    <3>2. \A p \in DOMAIN lsm'.l0 : lsm'.l0[p] \in ToSet(lsm.l0) \ Inputs(t)
      BY <2>3, <3>1
    <3>3. \A id \in ToSet(lsm.l0) : \E x \in DOMAIN lsm.l0 : lsm.l0[x] = id
      BY DEF ToSet
    <3> QED BY <1>5, <1>6, <3>2, <3>3
  <2>11. ASSUME NEW p \in DOMAIN lsm'.l0, NEW q \in DOMAIN lsm'.l0, p < q
         PROVE  Later(sst'[lsm'.l0[p]], sst'[lsm'.l0[q]])
    BY <1>2, <2>3, <2>10, <2>11
  <2>12. ASSUME NEW p \in DOMAIN lsm'.l0 PROVE Later(sst'[lsm'.l0[p]], U)
    <3>1. PICK x \in DOMAIN lsm.l0 : lsm.l0[x] = lsm'.l0[p]
      BY <2>10
    <3>2. sst'[lsm'.l0[p]] = sst[lsm.l0[x]]
      BY <2>10, <3>1
    <3>3. CASE up > 0
      BY <1>2, <2>3, <2>8, <3>2, <3>3
    <3>4. CASE up = 0
      <4>1. ASSUME NEW id \in ToSet(t.upperIds) PROVE Later(sst[lsm.l0[x]], sst[id])
        <5>1. id \in ToSet(lsm.l0)
          BY <2>1, <3>4
        <5>2. PICK y \in DOMAIN lsm.l0 : lsm.l0[y] = id
          BY <5>1 DEF ToSet
        <5>3. lsm.l0[x] \notin ToSet(t.upperIds)
          BY <2>2, <2>10, <3>1
        <5>4. x < y
          BY <2>1, <3>4, <5>2, <5>3
        <5> QED BY <1>2, <5>2, <5>4
      <4> QED BY <3>2, <4>1 DEF Later, Contents
    <3> QED BY <2>5, <3>3, <3>4
  <2> HIDE DEF U, low, up
  <2>13. ASSUME NEW p \in DOMAIN lsm'.l0, NEW i \in 1 .. MaxLevels
         PROVE  Later(sst'[lsm'.l0[p]], N(i))
    <3>1. Later(sst'[lsm'.l0[p]], C(i))
      BY <1>2, <2>3, <2>10
    <3> QED BY <2>6, <2>7, <2>12, <3>1, LaterBoth, LaterParts
  <2>14. ASSUME NEW i \in 1 .. MaxLevels, NEW k \in 1 .. MaxLevels, i < k
         PROVE  Later(N(i), N(k))
    <3>1. Later(C(i), C(k))
      BY <1>2, <2>3, <2>14
    <3>2. CASE i # low /\ k # low
      BY <2>7, <3>1, <3>2, LaterParts
    <3>3. CASE k = low /\ i # up
      <4>1. i # low /\ i < up /\ up > 0
        BY <2>5, <2>14, <3>3
      <4>2. Later(C(i), U)
        BY <1>2, <2>3, <2>8, <4>1
      <4>3. N(i) \subseteq C(i) /\ N(k) \subseteq U \cup C(k)
        BY <2>6, <2>7, <3>3, <4>1
      <4> QED BY <3>1, <4>2, <4>3, LaterBoth
    <3>4. CASE k = low /\ i = up
      <4>1. N(i) = {}
        BY <2>5, <2>7, <2>14, <3>4
      <4> QED BY <4>1 DEF Later
    <3>5. CASE i = low
      <4>1. Later(U, C(k)) /\ k # low
        BY <2>5, <2>9, <2>14, <3>5
      <4>2. N(k) \subseteq C(k) /\ N(i) \subseteq U \cup C(i)
        BY <2>6, <2>7, <3>5, <4>1
      <4> QED BY <3>1, <4>1, <4>2, LaterThanBoth
    <3> QED BY <3>2, <3>3, <3>4, <3>5
  <2> QED BY <2>3, <2>11, <2>13, <2>14
<1>9. CASE strategy = "Tiered"
  <2>1. PICK u \in Nat : TiersAt(lsm, t, u) /\ TiersWith(j, u, lsm')
    BY <1>9, InstalledTiers
  <2> DEFINE m == Len(t.tiers)
             n == Len(lsm.levels)
             outside == Outside(u, m, n)
             ls == lsm'.levels
  <2>2. /\ lsm'.l0 = <<>>
        /\ \A p, q \in DOMAIN ls : p < q =>
              \/ \E i, k \in outside : i < k /\ ls[p] = lsm.levels[i] /\ ls[q] = lsm.levels[k]
              \/ \E i \in 1 .. u : ls[p] = lsm.levels[i] /\ ls[q] = j.out
              \/ \E k \in u + m + 1 .. n : ls[p] = j.out /\ ls[q] = lsm.levels[k]
    BY <2>1 DEF TiersWith
  <2>3. /\ m \in Nat \ {0} /\ Inputs(t) = UNION {ToSet(lsm.levels[i]) : i \in u + 1 .. u + m}
        /\ \A i \in outside : i \in DOMAIN lsm.levels /\ ToSet(lsm.levels[i]) \cap Inputs(t) = {}
    BY <1>1, <1>9, <2>1, TierInputs DEF Installed, Fits, TiersFit
  <2>4. /\ n \in Nat /\ DOMAIN lsm.levels = 1 .. n /\ u + m <= n
        /\ outside = (1 .. u) \cup (u + m + 1 .. n)
    BY <2>1, TypedFacts DEF Outside, TiersAt
  <2> HIDE DEF m, n, outside, C
  <2>5. /\ \A i \in outside : i \in 1 .. n
        /\ \A i \in 1 .. u : i \in outside
        /\ \A i \in u + m + 1 .. n : i \in outside
        /\ \A i \in u + 1 .. u + m : i \in 1 .. n
    BY <2>3, <2>4
  <2>6. \A i \in outside : HeldBy(sst', ToSet(lsm.levels[i])) = C(i)
    BY <1>5, <1>6, <2>3 DEF C
  <2>7. ASSUME NEW v \in Output(j) PROVE \E x \in u + 1 .. u + m : v \in C(x)
    <3>1. PICK id \in Inputs(t) : v \in sst[id]
      BY <1>5 DEF Contents
    <3>2. PICK x \in u + 1 .. u + m : id \in ToSet(lsm.levels[x])
      BY <2>3
    <3> QED BY <3>1, <3>2 DEF C, Contents
  <2>8. ASSUME NEW i \in 1 .. u PROVE Later(C(i), Output(j))
    <3>1. \A x \in u + 1 .. u + m : Later(C(i), C(x))
      <4>1. \A x \in u + 1 .. u + m : i < x /\ i \in 1 .. n /\ x \in 1 .. n
        BY <2>3, <2>4
      <4> QED BY <1>2, <2>4, <4>1
    <3> QED BY <2>7, <3>1 DEF Later
  <2>9. ASSUME NEW k \in u + m + 1 .. n PROVE Later(Output(j), C(k))
    <3>1. \A x \in u + 1 .. u + m : Later(C(x), C(k))
      <4>1. \A x \in u + 1 .. u + m : x < k /\ k \in 1 .. n /\ x \in 1 .. n
        BY <2>3, <2>4
      <4> QED BY <1>2, <2>4, <4>1
    <3> QED BY <2>7, <3>1 DEF Later
  <2> HIDE DEF ls
  <2>10. ASSUME NEW p \in DOMAIN ls, NEW q \in DOMAIN ls, p < q
         PROVE  Later(HeldBy(sst', ToSet(ls[p])), HeldBy(sst', ToSet(ls[q])))
    <3>1. CASE \E i, k \in outside : i < k /\ ls[p] = lsm.levels[i] /\ ls[q] = lsm.levels[k]
      <4>1. PICK i \in outside, k \in outside :
                    i < k /\ ls[p] = lsm.levels[i] /\ ls[q] = lsm.levels[k]
        BY <3>1
      <4>2. Later(C(i), C(k))
        BY <1>2, <2>4, <2>5, <4>1
      <4> QED BY <2>6, <4>1, <4>2
    <3>2. CASE \E i \in 1 .. u : ls[p] = lsm.levels[i] /\ ls[q] = j.out
      BY <1>5, <2>5, <2>6, <2>8, <3>2
    <3>3. CASE \E k \in u + m + 1 .. n : ls[p] = j.out /\ ls[q] = lsm.levels[k]
      BY <1>5, <2>5, <2>6, <2>9, <3>3
    <3>4. \/ \E i, k \in outside : i < k /\ ls[p] = lsm.levels[i] /\ ls[q] = lsm.levels[k]
          \/ \E i \in 1 .. u : ls[p] = lsm.levels[i] /\ ls[q] = j.out
          \/ \E k \in u + m + 1 .. n : ls[p] = j.out /\ ls[q] = lsm.levels[k]
      BY <2>2, <2>10
    <3> QED BY <3>1, <3>2, <3>3, <3>4
  <2>11. DOMAIN lsm'.l0 = {}
    BY <2>2
  <2> QED BY <2>10, <2>11 DEF ls
<1> QED BY <1>1, <1>8, <1>9, TypedFacts

\* Sorting gives the same levels from the same tables.
LEMMA SortedEqual ==
    ASSUME strategy = "Leveled", NEW r \in LsmState, NEW R \in LsmState,
           Len(r.levels) = MaxLevels, Len(R.levels) = MaxLevels, R.l0 = r.l0,
           NEW c, NEW d, \A id \in Live(r) : c[id] = d[id],
           \A i \in 1 .. MaxLevels : /\ Distinct(r.levels[i]) /\ Distinct(R.levels[i])
                                     /\ ToSet(R.levels[i]) = ToSet(r.levels[i])
    PROVE  SortedLevels(R, d) = SortedLevels(r, c)
<1> DEFINE ls == [i \in DOMAIN r.levels |-> SortedByFirstKey(r.levels[i], c)]
           ms == [i \in DOMAIN R.levels |-> SortedByFirstKey(R.levels[i], d)]
<1>1. /\ r.levels \in Seq(Seq(Nat)) /\ R.levels \in Seq(Seq(Nat)) /\ MaxLevels \in Nat
      /\ r = [l0 |-> r.l0, levels |-> r.levels] /\ R = [l0 |-> R.l0, levels |-> R.levels]
  BY LevelsAssumption DEF LsmState
<1>2. DOMAIN r.levels = 1 .. MaxLevels /\ DOMAIN R.levels = 1 .. MaxLevels
  BY <1>1
<1>3. \A i \in 1 .. MaxLevels : r.levels[i] \in Seq(Nat) /\ R.levels[i] \in Seq(Nat)
  BY <1>1
<1>4. ASSUME NEW i \in 1 .. MaxLevels
      PROVE  SortedByFirstKey(R.levels[i], d) = SortedByFirstKey(r.levels[i], c)
  <2>1. \A x \in ToSet(r.levels[i]) : c[x] = d[x]
    BY <1>2 DEF Live
  <2> QED BY <1>3, <2>1, SortedSame
<1>5. ms = ls
  BY <1>2, <1>4
<1>6. SortedLevels(r, c) = [l0 |-> r.l0, levels |-> ls]
  <2>1. SortedLevels(r, c) = [r EXCEPT !.levels = ls]
    BY DEF SortedLevels
  <2> HIDE DEF ls
  <2> QED BY <1>1, <2>1
<1>7. SortedLevels(R, d) = [l0 |-> R.l0, levels |-> ms]
  <2>1. SortedLevels(R, d) = [R EXCEPT !.levels = ms]
    BY DEF SortedLevels
  <2> HIDE DEF ms
  <2> QED BY <1>1, <2>1
<1> HIDE DEF ls, ms
<1> QED BY <1>5, <1>6, <1>7

\* The id of a record is at least the ids it names.
LEMMA InstallMaxId ==
    ASSUME Typed, NEW j \in job, Made(j), nextId \in Nat
    PROVE  /\ Max({replayed.maxId} \cup ToSet(j.out)) \in Nat
           /\ replayed.maxId <= Max({replayed.maxId} \cup ToSet(j.out))
           /\ \A id \in ToSet(j.out) : id <= Max({replayed.maxId} \cup ToSet(j.out))
<1> DEFINE S == {replayed.maxId} \cup ToSet(j.out)
<1>1. replayed.maxId \in Nat
  BY DEF Typed
<1>2. ToSet(j.out) \subseteq Nat /\ \A id \in ToSet(j.out) : id < nextId
  BY JobFacts, ElementsOf DEF Made
<1>3. S \in SUBSET Nat /\ S # {} /\ replayed.maxId + nextId \in Nat
      /\ \A x \in S : x <= replayed.maxId + nextId
  <2>1. \A a, b, x \in Nat : (x = a \/ x < b) => x <= a + b
    OBVIOUS
  <2>2. \A x \in S : x \in Nat /\ (x = replayed.maxId \/ x < nextId)
    BY <1>1, <1>2
  <2> HIDE DEF S
  <2>3. \A x \in S : x <= replayed.maxId + nextId
    BY <1>1, <2>1, <2>2
  <2>4. replayed.maxId \in S
    BY DEF S
  <2>5. replayed.maxId + nextId \in Nat
    BY <1>1
  <2> QED BY <2>2, <2>3, <2>4, <2>5
<1> HIDE DEF S
<1>4. Max(S) \in S /\ \A x \in S : x <= Max(S)
  BY <1>3, MaxOf
<1> QED BY <1>3, <1>4 DEF S

LEMMA InstallReplays ==
    ASSUME Typed, Places, IdsFresh, Replays, VersionsUnique, LevelsFollow,
           NEW j \in job, Installed(j)
    PROVE  /\ Replays'
           /\ replayed' \in [state : LsmState, maxId : Nat]
           /\ replayed'.maxId = Max({replayed.maxId} \cup ToSet(j.out))
<1> DEFINE t == j.task
           out == j.out
           r == Apply(lsm, t, out)
           R == Apply(replayed.state, t, out)
<1>1. /\ Made(j) /\ strategy' = strategy /\ t \in Tasks /\ Fits(t)
      /\ lsm' = SortedLevels(r, After(j))
      /\ replayed' = [state |-> R, maxId |-> Max({replayed.maxId} \cup ToSet(out))]
  BY DEF Installed, RecordCompaction
<1>2. Max({replayed.maxId} \cup ToSet(out)) \in Nat
  BY <1>1, InstallMaxId DEF Typed
<1>3. replayed.state \in LsmState
  BY DEF Typed
<1>4. /\ replayed.state.l0 = lsm.l0
      /\ DOMAIN replayed.state.levels = DOMAIN lsm.levels
      /\ \A i \in DOMAIN lsm.levels :
            /\ Distinct(replayed.state.levels[i])
            /\ ToSet(replayed.state.levels[i]) = ToSet(lsm.levels[i])
      /\ SortedLevels(replayed.state, sst) = lsm
  BY DEF Replays, ReplayMatches
<1>5. CASE strategy # "Leveled"
  <2>1. replayed.state = lsm
    BY <1>4, <1>5 DEF SortedLevels
  <2>2. lsm' = r /\ R = r
    BY <1>1, <1>5, <2>1 DEF SortedLevels
  <2>3. replayed'.state = lsm' /\ lsm' \in LsmState
    BY <1>1, <2>2, InstalledLive
  <2>4. \A i \in DOMAIN lsm'.levels : Distinct(lsm'.levels[i])
    <3>1. Places'
      BY InstallPlaces
    <3> QED BY <3>1 DEF Places
  <2>5. ReplayMatches'
    BY <1>1, <1>5, <2>3 DEF ReplayMatches, SortedLevels
  <2>6. Replays'
    BY <2>3, <2>4, <2>5 DEF Replays
  <2> HIDE DEF r, R
  <2>7. replayed' \in [state : LsmState, maxId : Nat]
    BY <1>1, <1>2, <2>3
  <2> QED BY <1>1, <2>6, <2>7
<1>6. CASE strategy = "Leveled"
  <2>1. /\ LevelsWith(j, r) /\ LevelsFit(t)
    BY <1>1, <1>6, AppliedLevels DEF Fits
  <2>2. Len(lsm.levels) = MaxLevels /\ DOMAIN lsm.levels = 1 .. MaxLevels /\ MaxLevels \in Nat
        /\ lsm \in LsmState
    BY <1>6, TypedFacts DEF Places, Typed
  <2>3. Len(replayed.state.levels) = MaxLevels
    <3>1. replayed.state.levels \in Seq(Seq(Nat))
      BY <1>3 DEF LsmState
    <3> QED BY <1>4, <2>2, <3>1
  <2>4. /\ t.lower \in 1 .. MaxLevels /\ t.upper < t.lower
        /\ out \in Seq(Nat) /\ Distinct(out) /\ Distinct(lsm.l0)
        /\ \A i \in DOMAIN lsm.levels : ToSet(lsm.levels[i]) \cap ToSet(out) = {}
        /\ \A i \in DOMAIN lsm.levels : Distinct(lsm.levels[i])
    <3>1. \A i \in DOMAIN lsm.levels : ToSet(lsm.levels[i]) \cap ToSet(out) = {}
      BY <1>1, TypedFacts DEF Made
    <3> QED BY <1>1, <2>1, <3>1, JobFacts DEF LevelsFit, Made, Places
  <2>5. MayApply(lsm, t, out) /\ MayApply(replayed.state, t, out)
    <3>1. MayApply(lsm, t, out)
      BY <1>1, <2>2, <2>4 DEF MayApply
    <3>2. MayApply(replayed.state, t, out)
      BY <1>1, <1>3, <1>4, <2>3, <2>4 DEF MayApply
    <3> QED BY <3>1, <3>2
  <2>6. r = ApplyToLevels(lsm, t, out) /\ R = ApplyToLevels(replayed.state, t, out)
    BY <1>6 DEF Apply
  <2>7. AppliedTo(lsm, t, out, r) /\ AppliedTo(replayed.state, t, out, R)
    BY <2>5, <2>6, LevelsAppliedSets
  <2>8. /\ R \in LsmState /\ Len(R.levels) = MaxLevels
        /\ R.l0 = IF t.upper = 0 THEN Without(lsm.l0, ToSet(t.upperIds)) ELSE lsm.l0
    <3> DEFINE s == replayed.state
    <3>1. s \in LsmState /\ s.l0 = lsm.l0 /\ Len(s.levels) = MaxLevels
      BY <1>3, <1>4, <2>3
    <3> HIDE DEF s, t, out
    <3>2. /\ ApplyToLevels(s, t, out) \in LsmState
          /\ ApplyToLevels(s, t, out).l0 =
                IF t.upper = 0 THEN Without(s.l0, ToSet(t.upperIds)) ELSE s.l0
          /\ Len(ApplyToLevels(s, t, out).levels) = MaxLevels
      BY <1>1, <2>4, <3>1, LevelsApplied
    <3> QED BY <2>6, <3>1, <3>2 DEF s
  <2>9. r.l0 = IF t.upper = 0 THEN Without(lsm.l0, ToSet(t.upperIds)) ELSE lsm.l0
    <3> HIDE DEF t, out, r
    <3> QED BY <1>1, <2>2, <2>4, <2>6, LevelsApplied
  <2>10. r \in LsmState /\ Len(r.levels) = MaxLevels
    BY <2>1 DEF LevelsWith
  <2> HIDE DEF r, R
  <2>11. \A i \in 1 .. MaxLevels : /\ Distinct(r.levels[i]) /\ Distinct(R.levels[i])
                                   /\ ToSet(R.levels[i]) = ToSet(r.levels[i])
    <3> DEFINE L(s, i) == IF i = t.lower THEN (ToSet(s.levels[i]) \ ToSet(t.lowerIds)) \cup ToSet(out)
                          ELSE ToSet(s.levels[i]) \ IF i = t.upper THEN ToSet(t.upperIds) ELSE {}
    <3>1. \A i \in 1 .. MaxLevels : L(replayed.state, i) = L(lsm, i)
      BY <1>4, <2>2
    <3>2. \A i \in 1 .. MaxLevels : Distinct(r.levels[i]) /\ ToSet(r.levels[i]) = L(lsm, i)
      BY <2>7 DEF AppliedTo
    <3>3. \A i \in 1 .. MaxLevels : Distinct(R.levels[i]) /\ ToSet(R.levels[i]) = L(replayed.state, i)
      BY <2>7 DEF AppliedTo
    <3> HIDE DEF L
    <3> QED BY <3>1, <3>2, <3>3
  <2>12. \A id \in Live(lsm') : sst'[id] = After(j)[id]
    BY InstalledStored
  <2>13. SortedTo(r, After(j), lsm')
    BY <1>6, InstalledLive DEF r
  <2>14. \A id \in Live(r) : After(j)[id] = sst'[id]
    BY <2>12, <2>13 DEF SortedTo
  <2>15. SortedLevels(R, sst') = SortedLevels(r, After(j))
    BY <1>6, <2>8, <2>9, <2>10, <2>11, <2>14, SortedEqual
  <2>16. replayed'.state = R /\ replayed' \in [state : LsmState, maxId : Nat]
    BY <1>1, <1>2, <2>8
  <2>17. ReplayMatches'
    <3>1. SortedLevels(R, sst') = lsm'
      BY <1>1, <2>15
    <3>2. (SortedLevels(replayed.state, sst))' = SortedLevels(R, sst')
      BY <1>1, <2>16 DEF SortedLevels
    <3> QED BY <3>1, <3>2 DEF ReplayMatches
  <2>18. /\ lsm'.l0 = r.l0 /\ DOMAIN lsm'.levels = 1 .. MaxLevels
         /\ \A i \in 1 .. MaxLevels : ToSet(lsm'.levels[i]) = ToSet(r.levels[i])
    BY <2>13 DEF SortedTo
  <2>19. DOMAIN R.levels = 1 .. MaxLevels
    <3>1. R.levels \in Seq(Seq(Nat))
      BY <2>8 DEF LsmState
    <3> QED BY <2>2, <2>8, <3>1
  <2>20. Replays'
    BY <2>8, <2>9, <2>11, <2>16, <2>17, <2>18, <2>19 DEF Replays
  <2> QED BY <1>1, <2>16, <2>20
<1> QED BY <1>5, <1>6

LEMMA InstallTyped ==
    ASSUME Typed, Places, IdsFresh, Replays, VersionsUnique, LevelsFollow, Scheduled,
           NEW j \in job, Installed(j)
    PROVE  Typed' /\ IdsFresh' /\ VersionsUnique' /\ Scheduled'
<1>1. /\ Made(j) /\ job' = {}
      /\ UNCHANGED <<strategy, mem, nextId, ts, watermark, running, history, deleted, reopens>>
  BY DEF Installed
<1>2. /\ replayed' \in [state : LsmState, maxId : Nat]
      /\ replayed'.maxId = Max({replayed.maxId} \cup ToSet(j.out))
  BY InstallReplays
<1>3. lsm' \in LsmState /\ Live(lsm') = (Live(lsm) \ Inputs(j.task)) \cup ToSet(j.out)
  BY InstalledLive
<1>4. /\ sst' \in [Live(lsm') -> (SUBSET Versions) \ {{}}]
      /\ Stored' \subseteq Stored
  BY InstalledStored
<1>5. /\ strategy \in Strategies /\ mem \in Nat /\ nextId \in Nat
      /\ ts \in 0 .. MaxTs /\ watermark \in 0 .. ts
      /\ running \in BOOLEAN /\ deleted \in BOOLEAN
      /\ history \subseteq Versions /\ reopens \in 0 .. MaxReopens
      /\ replayed.maxId \in Nat
  BY DEF Typed
<1>6. Typed'
  BY <1>1, <1>2, <1>3, <1>4, <1>5 DEF Typed
<1>7. /\ replayed.maxId <= replayed'.maxId /\ replayed'.maxId \in Nat
      /\ \A id \in ToSet(j.out) : id <= replayed'.maxId /\ id < nextId /\ id # mem
  BY <1>1, <1>2, <1>5, InstallMaxId DEF Made
<1>8. IdsFresh'
  <2>1. /\ \A id \in Live(lsm) : id < nextId /\ id # mem /\ id <= replayed.maxId /\ id \in Nat
        /\ mem < nextId /\ mem <= replayed.maxId
    BY TypedFacts DEF IdsFresh
  <2>2. mem <= replayed'.maxId
    BY <1>5, <1>7, <2>1
  <2>3. ASSUME NEW id \in Live(lsm') PROVE id < nextId /\ id # mem /\ id <= replayed'.maxId
    <3>1. CASE id \in Live(lsm)
      BY <1>5, <1>7, <2>1, <3>1
    <3>2. CASE id \in ToSet(j.out)
      BY <1>7, <3>2
    <3> QED BY <1>3, <3>1, <3>2
  <2> QED BY <1>1, <2>1, <2>2, <2>3 DEF IdsFresh
<1>9. VersionsUnique'
  BY <1>1, <1>4 DEF VersionsUnique, Unique
<1>10. Scheduled'
  BY <1>1 DEF Scheduled
<1> QED BY <1>6, <1>8, <1>9, <1>10

LEMMA InstallReads ==
    ASSUME Typed, Places, VersionsUnique, LevelsFollow, PlacesAge, Reads,
           NEW j \in job, Installed(j)
    PROVE  Reads'
<1> DEFINE t == j.task
           M == Contents(Inputs(t))
           R == Contents(Live(lsm) \ Inputs(t))
           K == Output(j)
<1>1. /\ Made(j) /\ t \in Tasks /\ Fits(t)
      /\ UNCHANGED <<strategy, mem, nextId, ts, watermark, running, history, deleted, reopens>>
  BY DEF Installed
<1>2. SUFFICES ASSUME strategy = "Leveled" => ~deleted, WidthUnbounded
               PROVE  (SameReads /\ \A v \in history : v.ts <= ts)'
  BY <1>1 DEF Reads, WidthUnbounded
<1>3. SameReads /\ \A v \in history : v.ts <= ts
  BY <1>2 DEF Reads
<1>4. /\ Stored' = R \cup K /\ Stored = R \cup M /\ K \subseteq M
  BY InstalledStored
<1>5. /\ M \in SUBSET Versions /\ R \in SUBSET Versions /\ Unique(R \cup M)
  <2>1. Inputs(t) \in SUBSET Live(lsm) /\ Live(lsm) \ Inputs(t) \in SUBSET Live(lsm)
    BY InstalledLive
  <2>2. M \in SUBSET Versions /\ R \in SUBSET Versions
    BY <2>1, StoredFacts
  <2> QED BY <1>4, <2>2 DEF VersionsUnique
<1>6. \A v \in M \ K : Dropped(v, M, K, t.bottom)
  BY <1>1 DEF Made
<1>7. t.bottom \in BOOLEAN /\ ts \in Nat /\ watermark \in Nat
  <2>1. ts \in 0 .. MaxTs /\ watermark \in 0 .. ts /\ MaxTs \in Nat
    BY TypedFacts DEF Typed
  <2> QED BY <1>1, <2>1 DEF Tasks
\* What goes to the bottom is older than all the rest.
<1>8. \/ ~t.bottom
      \/ \A v \in M : ~v.del
      \/ \A v \in M, w \in R : v.key = w.key => v.ts < w.ts
  <2>0. SUFFICES ASSUME t.bottom
                 PROVE  (\A v \in M : ~v.del) \/ Later(R, M)
    <3>1. Later(R, M) => \A v \in M, w \in R : v.key = w.key => v.ts < w.ts
      BY DEF Later
    <3> QED BY <2>0, <3>1
  <2>1. CASE strategy = "Leveled"
    <3>1. \A v \in Stored : ~v.del
      BY <1>2, <2>1 DEF VersionsUnique
    <3> QED BY <1>4, <3>1
  <2>2. CASE strategy = "Simple"
    <3> DEFINE C(i) == Contents(ToSet(lsm.levels[i]))
    <3>1. LevelsFit(t)
      BY <1>1, <2>2 DEF Fits
    <3>2. /\ t.lower = MaxLevels /\ t.upper > 0 /\ t.lower = t.upper + 1
          /\ t.upperIds = lsm.levels[t.upper] /\ t.lowerIds = lsm.levels[t.lower]
          /\ t.upper \in 0 .. MaxLevels /\ MaxLevels \in Nat
      BY <1>1, <2>0, <2>2, <3>1, LevelsAssumption DEF LevelsFit, Tasks
    <3>3. Inputs(t) = ToSet(lsm.levels[t.upper]) \cup ToSet(lsm.levels[t.lower])
      BY <1>1, <2>2, <3>1, <3>2, LevelInputs
    <3>4. DOMAIN lsm.levels = 1 .. MaxLevels /\ t.upper \in 1 .. MaxLevels
          /\ t.lower \in 1 .. MaxLevels
      BY <2>2, <3>2, TypedFacts DEF Places
    <3>5. /\ \A p \in DOMAIN lsm.l0, i \in DOMAIN lsm.levels : Later(sst[lsm.l0[p]], C(i))
          /\ \A i, k \in DOMAIN lsm.levels : i < k => Later(C(i), C(k))
      BY <2>2 DEF PlacesAge
    <3> HIDE DEF C
    <3>6. ASSUME NEW v \in R
          PROVE  \/ \E p \in DOMAIN lsm.l0 : v \in sst[lsm.l0[p]]
                 \/ \E i \in DOMAIN lsm.levels : i < t.upper /\ v \in C(i)
      <4>1. PICK id \in Live(lsm) \ Inputs(t) : v \in sst[id]
        BY DEF Contents
      <4>2. CASE id \in ToSet(lsm.l0)
        BY <4>1, <4>2 DEF ToSet
      <4>3. CASE \E i \in DOMAIN lsm.levels : id \in ToSet(lsm.levels[i])
        <5>1. PICK i \in DOMAIN lsm.levels : id \in ToSet(lsm.levels[i])
          BY <4>3
        <5>2. i # t.upper /\ i # t.lower
          BY <3>3, <4>1, <5>1
        <5>3. i < t.upper
          <6>1. i \in 1 .. MaxLevels
            BY <3>4, <5>1
          <6>2. t.upper \in Nat /\ MaxLevels = t.upper + 1 /\ i # t.upper /\ i # MaxLevels
            BY <3>2, <5>2
          <6> HIDE DEF t
          <6> QED BY <6>1, <6>2
        <5>4. v \in C(i)
          BY <4>1, <5>1 DEF C, Contents
        <5> QED BY <5>3, <5>4
      <4> QED BY <4>1, <4>2, <4>3 DEF Live
    <3>7. M = C(t.upper) \cup C(t.lower)
      BY <3>3 DEF C, Contents
    <3>8. ASSUME NEW v \in R, NEW w \in M PROVE w.ts < v.ts
      <4>1. PICK x \in {t.upper, t.lower} : w \in C(x)
        BY <3>7
      <4>2. CASE \E p \in DOMAIN lsm.l0 : v \in sst[lsm.l0[p]]
        BY <3>4, <3>5, <4>1, <4>2 DEF Later
      <4>3. CASE \E i \in DOMAIN lsm.levels : i < t.upper /\ v \in C(i)
        <5>1. PICK i \in DOMAIN lsm.levels : i < t.upper /\ v \in C(i)
          BY <4>3
        <5>2. i < x /\ x \in DOMAIN lsm.levels
          <6>1. i \in 1 .. MaxLevels /\ x \in 1 .. MaxLevels /\ (x = t.upper \/ x = t.lower)
            BY <3>4, <4>1, <5>1
          <6>2. t.upper \in Nat /\ t.lower = t.upper + 1 /\ i < t.upper
            BY <3>2, <5>1
          <6> HIDE DEF t
          <6> QED BY <3>4, <6>1, <6>2
        <5> QED BY <3>5, <4>1, <5>1, <5>2 DEF Later
      <4> QED BY <3>6, <4>2, <4>3
    <3> QED BY <3>8 DEF Later
  <2>3. CASE strategy = "Tiered"
    <3> DEFINE C(i) == Contents(ToSet(lsm.levels[i]))
    <3>1. PICK u \in Nat : TiersAt(lsm, t, u) /\ u + Len(t.tiers) = Len(lsm.levels)
      BY <1>2, <2>0, <2>3, InstalledTiers
    <3>2. /\ Len(t.tiers) \in Nat \ {0}
          /\ Inputs(t) = UNION {ToSet(lsm.levels[i]) : i \in u + 1 .. u + Len(t.tiers)}
          /\ Live(lsm) \ Inputs(t) =
                UNION {ToSet(lsm.levels[i]) : i \in Outside(u, Len(t.tiers), Len(lsm.levels))}
      BY <1>1, <2>3, <3>1, TierInputs DEF Fits, TiersFit
    <3>3. Outside(u, Len(t.tiers), Len(lsm.levels)) = 1 .. u
      BY <3>1, <3>2 DEF Outside
    <3>4. DOMAIN lsm.levels = 1 .. Len(lsm.levels)
      BY TypedFacts
    <3>5. \A i, k \in DOMAIN lsm.levels : i < k => Later(C(i), C(k))
      BY <2>3 DEF PlacesAge
    <3> HIDE DEF C
    <3>6. ASSUME NEW v \in R, NEW w \in M PROVE w.ts < v.ts
      <4>1. PICK i \in 1 .. u : v \in C(i)
        <5>1. PICK id \in Live(lsm) \ Inputs(t) : v \in sst[id]
          BY DEF Contents
        <5>2. PICK i \in 1 .. u : id \in ToSet(lsm.levels[i])
          BY <3>2, <3>3, <5>1
        <5> QED BY <5>1, <5>2 DEF C, Contents
      <4>2. PICK k \in u + 1 .. u + Len(t.tiers) : w \in C(k)
        <5>1. PICK id \in Inputs(t) : w \in sst[id]
          BY DEF Contents
        <5>2. PICK k \in u + 1 .. u + Len(t.tiers) : id \in ToSet(lsm.levels[k])
          BY <3>2, <5>1
        <5> QED BY <5>1, <5>2 DEF C, Contents
      <4>3. i < k /\ i \in DOMAIN lsm.levels /\ k \in DOMAIN lsm.levels
        BY <3>1, <3>2, <3>4
      <4> QED BY <3>5, <4>1, <4>2, <4>3 DEF Later
    <3> QED BY <3>6 DEF Later
  <2> QED BY <2>1, <2>2, <2>3, TypedFacts
<1> HIDE DEF M, R, K
<1>9. ASSUME NEW k \in Keys, NEW x \in watermark .. ts
      PROVE  ValueAt(R \cup K, k, x) = ValueAt(history, k, x)
  <2>1. x \in Nat /\ watermark <= x
    BY <1>7
  <2>2. K \in SUBSET M
    BY <1>4
  <2>3. ValueAt(R \cup K, k, x) = ValueAt(R \cup M, k, x)
    <3>1. MayReplace(M, R, K, t.bottom)
      BY <1>5, <1>6, <1>7, <1>8, <2>2 DEF MayReplace
    <3> QED BY <2>1, <3>1, ReplacedReads
  <2>4. ValueAt(R \cup M, k, x) = ValueAt(history, k, x)
    BY <1>3, <1>4 DEF SameReads, Stored
  <2> QED BY <2>3, <2>4
<1>10. SameReads'
  <2>1. Contents(Live(lsm))' = R \cup K
    BY <1>4 DEF Stored
  <2> QED BY <1>1, <1>9, <2>1 DEF SameReads, ValueAt
<1> QED BY <1>1, <1>3, <1>10

-----------------------------------------------------------------------------
(* ReadersLeave and Reopen.                                                *)

\* A step that changes neither the levels nor their tables.
LEMMA SameAges ==
    ASSUME PlacesAge, strategy' = strategy, lsm' = lsm, sst' = sst
    PROVE  PlacesAge'
<1> DEFINE C(i) == Contents(ToSet(lsm.levels[i]))
<1>1. \A i : C(i) = (Contents(ToSet(lsm.levels[i])))'
  BY DEF Contents
<1>2. strategy # "Leveled" =>
         /\ \A p, q \in DOMAIN lsm.l0 : p < q => Later(sst[lsm.l0[p]], sst[lsm.l0[q]])
         /\ \A p \in DOMAIN lsm.l0, i \in DOMAIN lsm.levels : Later(sst[lsm.l0[p]], C(i))
         /\ \A i, k \in DOMAIN lsm.levels : i < k => Later(C(i), C(k))
  BY DEF PlacesAge
<1> HIDE DEF C
<1>3. strategy' # "Leveled" =>
         /\ \A p, q \in DOMAIN lsm'.l0 : p < q => Later(sst'[lsm'.l0[p]], sst'[lsm'.l0[q]])
         /\ \A p \in DOMAIN lsm'.l0, i \in DOMAIN lsm'.levels : Later(sst'[lsm'.l0[p]], C(i))
         /\ \A i, k \in DOMAIN lsm'.levels : i < k => Later(C(i), C(k))
  BY <1>2
<1> QED BY <1>1, <1>3 DEF PlacesAge

LEMMA SameLevels ==
    ASSUME Places, Replays, VersionsUnique, LevelsFollow, PlacesAge,
           UNCHANGED <<strategy, lsm, sst, deleted>>, replayed'.state = replayed.state, ts' = ts
    PROVE  Places' /\ Replays' /\ VersionsUnique' /\ LevelsFollow' /\ PlacesAge'
<1>1. /\ strategy' = strategy /\ lsm' = lsm /\ sst' = sst /\ deleted' = deleted
      /\ replayed'.state = replayed.state /\ ts' = ts
  OBVIOUS
<1>2. Places'
  BY <1>1 DEF Places
<1>3. Replays'
  BY <1>1 DEF Replays, ReplayMatches, SortedLevels
<1>4. VersionsUnique'
  BY <1>1 DEF VersionsUnique, Stored, Contents
<1>5. LevelsFollow'
  BY <1>1 DEF LevelsFollow
<1>6. PlacesAge'
  BY <1>1, SameAges
<1> QED BY <1>2, <1>3, <1>4, <1>5, <1>6

\* What a job is about, when only the watermark rises.
LEMMA SameJobs ==
    ASSUME Typed, Places, Scheduled,
           UNCHANGED <<strategy, lsm, sst, job, mem, nextId>>,
           watermark' \in Nat, watermark <= watermark'
    PROVE  Scheduled'
<1>1. /\ strategy' = strategy /\ lsm' = lsm /\ sst' = sst /\ job' = job
      /\ mem' = mem /\ nextId' = nextId /\ watermark \in Nat
  BY TypedFacts DEF Typed
<1>2. ASSUME NEW j \in job PROVE (\A k \in job : k = j) /\ Fits(j.task)' /\ Made(j)'
  <2>1. (\A k \in job : k = j) /\ Fits(j.task) /\ Made(j) /\ j.task \in Tasks
    BY JobFacts DEF Scheduled
  <2>2. Fits(j.task)'
    BY <1>1, <2>1 DEF Fits, TiersFit, LevelsFit, WidthUnbounded, Contents
  <2> DEFINE M == Contents(Inputs(j.task))
             K == Output(j)
  <2>3. M \in SUBSET Versions /\ K \subseteq M
    <3>1. Inputs(j.task) \in SUBSET Live(lsm)
      BY <2>1, TaskFits
    <3> QED BY <2>1, <3>1, StoredFacts DEF Made
  <2>4. \A v \in M \ K : Dropped(v, M, K, j.task.bottom)
    BY <2>1 DEF Made
  <2>5. M' = M
    BY <1>1 DEF Contents
  <2> HIDE DEF M, K
  <2>6. \A v \in M \ K :
           /\ v.ts <= watermark'
           /\ \/ \E n \in K : n.key = v.key /\ v.ts < n.ts /\ n.ts <= watermark'
              \/ /\ j.task.bottom
                 /\ \E n \in M : n.key = v.key /\ v.ts <= n.ts /\ n.ts <= watermark' /\ n.del
                 /\ \A x \in K : x.key # v.key
    <3>1. \A v \in M : v.ts \in Nat
      BY <2>3 DEF Versions
    <3>2. \A x \in Nat : x <= watermark => x <= watermark'
      BY <1>1
    <3>3. \A v \in M \ K : v.ts <= watermark'
      BY <2>4, <3>1, <3>2 DEF Dropped
    <3>4. ASSUME NEW v \in M \ K
          PROVE  \/ \E n \in K : n.key = v.key /\ v.ts < n.ts /\ n.ts <= watermark'
                 \/ /\ j.task.bottom
                    /\ \E n \in M : n.key = v.key /\ v.ts <= n.ts /\ n.ts <= watermark' /\ n.del
                    /\ \A x \in K : x.key # v.key
      <4>1. CASE \E n \in K : n.key = v.key /\ v.ts < n.ts /\ n.ts <= watermark
        BY <2>3, <3>1, <3>2, <4>1
      <4>2. CASE /\ j.task.bottom
                 /\ \E n \in M : n.key = v.key /\ v.ts <= n.ts /\ n.ts <= watermark /\ n.del
                 /\ \A x \in K : x.key # v.key
        BY <3>1, <3>2, <4>2
      <4> QED BY <2>4, <4>1, <4>2 DEF Dropped
    <3> QED BY <3>3, <3>4
  <2>7. Made(j)'
    <3>1. /\ Len(j.tables) = Len(j.out) /\ Distinct(j.out)
          /\ \A id \in ToSet(j.out) : id < nextId /\ id # mem /\ id \notin Live(lsm)
          /\ \A p \in DOMAIN j.tables : j.tables[p] # {}
          /\ \A p, q \in DOMAIN j.tables : p < q => Follows(j.tables[p], j.tables[q])
          /\ strategy = "Tiered" => j.out # <<>>
      BY <2>1 DEF Made
    <3>2. (\A v \in M \ K : Dropped(v, M, K, j.task.bottom))'
      BY <2>5, <2>6 DEF Dropped, K
    <3> QED BY <1>1, <2>3, <2>5, <3>1, <3>2 DEF Made, M, K
  <2> QED BY <2>1, <2>2, <2>7
<1> QED BY <1>1, <1>2 DEF Scheduled

LEMMA ReadersLeaveKeeps ==
    ASSUME IInv, ReadersLeave
    PROVE  IInv'
<1>1. /\ Typed /\ Places /\ IdsFresh /\ Replays /\ VersionsUnique
      /\ LevelsFollow /\ PlacesAge /\ Scheduled /\ Reads
  BY DEF IInv
<1>2. PICK w \in watermark + 1 .. ts : watermark' = w
  BY DEF ReadersLeave
<1>3. UNCHANGED <<strategy, lsm, sst, replayed, mem, nextId, ts, job, running,
                  history, deleted, reopens>>
  BY DEF ReadersLeave
<1>4. ts \in 0 .. MaxTs /\ watermark \in 0 .. ts /\ MaxTs \in Nat
  BY <1>1, TypedFacts DEF Typed
<1>5. watermark' \in 0 .. ts /\ watermark' \in Nat /\ watermark <= watermark'
  BY <1>2, <1>4
<1>6. Typed'
  <2>1. /\ strategy \in Strategies /\ lsm \in LsmState
        /\ replayed \in [state : LsmState, maxId : Nat]
        /\ sst \in [Live(lsm) -> (SUBSET Versions) \ {{}}]
        /\ mem \in Nat /\ nextId \in Nat /\ ts \in 0 .. MaxTs
        /\ job \subseteq Jobs /\ running \in BOOLEAN /\ deleted \in BOOLEAN
        /\ history \subseteq Versions /\ reopens \in 0 .. MaxReopens
    BY <1>1 DEF Typed
  <2> QED BY <1>3, <1>5, <2>1 DEF Typed
<1>7. Places' /\ Replays' /\ VersionsUnique' /\ LevelsFollow' /\ PlacesAge'
  BY <1>1, <1>3, SameLevels
<1>8. IdsFresh'
  BY <1>1, <1>3 DEF IdsFresh
<1>9. Scheduled'
  BY <1>1, <1>3, <1>5, SameJobs
<1>10. Reads'
  <2>1. SUFFICES ASSUME strategy = "Leveled" => ~deleted, WidthUnbounded
                 PROVE  (SameReads /\ \A v \in history : v.ts <= ts)'
    BY <1>3 DEF Reads, WidthUnbounded
  <2>2. SameReads /\ \A v \in history : v.ts <= ts
    BY <1>1, <2>1 DEF Reads
  <2>3. \A x \in watermark' .. ts : x \in watermark .. ts
    BY <1>4, <1>5
  <2>4. SameReads'
    BY <1>3, <2>2, <2>3 DEF SameReads, Contents, ValueAt
  <2> QED BY <1>3, <2>2, <2>4
<1> QED BY <1>6, <1>7, <1>8, <1>9, <1>10 DEF IInv

LEMMA StutterKeeps ==
    ASSUME IInv, UNCHANGED vars
    PROVE  IInv'
<1>1. /\ Typed /\ Places /\ IdsFresh /\ Replays /\ VersionsUnique
      /\ LevelsFollow /\ PlacesAge /\ Scheduled /\ Reads
  BY DEF IInv
<1>2. UNCHANGED <<strategy, lsm, sst, replayed, mem, nextId, ts, watermark, job, running,
                  history, deleted, reopens>>
  BY DEF vars
<1>3. ts \in 0 .. MaxTs /\ watermark \in 0 .. ts /\ MaxTs \in Nat
  BY <1>1, TypedFacts DEF Typed
<1>4. Typed'
  BY <1>1, <1>2 DEF Typed
<1>5. Places' /\ Replays' /\ VersionsUnique' /\ LevelsFollow' /\ PlacesAge'
  BY <1>1, <1>2, SameLevels
<1>6. IdsFresh'
  BY <1>1, <1>2 DEF IdsFresh
<1>7. Scheduled'
  <2>1. watermark' \in Nat /\ watermark <= watermark'
    BY <1>2, <1>3
  <2> QED BY <1>1, <1>2, <2>1, SameJobs
<1>8. Reads'
  BY <1>1, <1>2 DEF Reads, WidthUnbounded, SameReads, Contents, ValueAt
<1> QED BY <1>4, <1>5, <1>6, <1>7, <1>8 DEF IInv

\* LatestTs is the largest timestamp in the tables.
LEMMA LatestStored ==
    ASSUME Typed, VersionsUnique
    PROVE  /\ LatestTs(lsm) \in 0 .. ts
           /\ \A v \in Stored : v.ts <= LatestTs(lsm)
<1> DEFINE S == {0} \cup {v.ts : v \in Contents(Live(lsm))}
<1>1. ts \in Nat
  BY TypedFacts DEF Typed
<1>2. \A v \in Stored : v.ts \in Nat /\ v.ts <= ts
  BY StoredFacts DEF VersionsUnique
<1>3. S \in SUBSET Nat /\ S # {} /\ \A x \in S : x <= ts
  BY <1>1, <1>2 DEF Stored
<1>4. \A v \in Stored : v.ts \in S
  BY DEF Stored
<1>5. LatestTs(lsm) = Max(S)
  BY DEF LatestTs
<1> HIDE DEF S
<1>6. Max(S) \in S /\ \A x \in S : x <= Max(S)
  BY <1>1, <1>3, MaxOf
<1>7. LatestTs(lsm) \in Nat /\ LatestTs(lsm) <= ts
  BY <1>3, <1>5, <1>6
<1>8. \A v \in Stored : v.ts <= LatestTs(lsm)
  BY <1>4, <1>5, <1>6
<1> QED BY <1>1, <1>7, <1>8

LEMMA ReopenKeeps ==
    ASSUME IInv, Reopen
    PROVE  IInv'
<1>1. /\ Typed /\ Places /\ IdsFresh /\ Replays /\ VersionsUnique
      /\ LevelsFollow /\ PlacesAge /\ Scheduled /\ Reads
  BY DEF IInv
\* The replay finds the levels as they were.
<1>2. SortedLevels(replayed.state, sst) = lsm
  BY <1>1 DEF Replays, ReplayMatches
<1> DEFINE latest == LatestTs(lsm)
<1>3. /\ lsm' = lsm /\ sst' = [id \in Live(lsm) |-> sst[id]]
      /\ ts' = latest /\ watermark' = latest
      /\ mem' = replayed.maxId + 1 /\ nextId' = replayed.maxId + 2
      /\ replayed' = [replayed EXCEPT !.maxId = @ + 1]
      /\ job' = {} /\ running' = TRUE /\ strategy' = strategy /\ deleted' = deleted
      /\ reopens < MaxReopens /\ reopens' = reopens + 1
      /\ history' = {v \in history : ~v.del /\ \A w \in history : w.key = v.key => w.ts <= v.ts}
  BY <1>2 DEF Reopen
<1>4. sst' = sst
  <2>1. sst \in [Live(lsm) -> (SUBSET Versions) \ {{}}]
    BY <1>1 DEF Typed
  <2> QED BY <1>3, <2>1
<1>5. latest \in 0 .. ts /\ \A v \in Stored : v.ts <= latest
  BY <1>1, LatestStored
<1> HIDE DEF latest
<1>6. /\ ts \in 0 .. MaxTs /\ watermark \in 0 .. ts /\ MaxTs \in Nat
      /\ replayed.state \in LsmState /\ replayed.maxId \in Nat
      /\ replayed = [state |-> replayed.state, maxId |-> replayed.maxId]
      /\ reopens \in 0 .. MaxReopens /\ MaxReopens \in Nat
  BY <1>1, TypedFacts, LevelsAssumption DEF Typed
<1>7. replayed' = [state |-> replayed.state, maxId |-> replayed.maxId + 1]
  BY <1>3, <1>6
<1>8. Typed'
  <2>1. /\ strategy \in Strategies /\ lsm \in LsmState
        /\ sst \in [Live(lsm) -> (SUBSET Versions) \ {{}}]
        /\ deleted \in BOOLEAN /\ history \subseteq Versions
    BY <1>1 DEF Typed
  <2>2. replayed' \in [state : LsmState, maxId : Nat]
    BY <1>6, <1>7
  <2>3. /\ mem' \in Nat /\ nextId' \in Nat /\ reopens' \in 0 .. MaxReopens
        /\ ts' \in 0 .. MaxTs /\ watermark' \in 0 .. ts'
    BY <1>3, <1>5, <1>6
  <2>4. history' \subseteq Versions
    BY <1>3, <2>1
  <2> QED BY <1>3, <1>4, <2>1, <2>2, <2>3, <2>4 DEF Typed
<1>9. Places'
  BY <1>1, <1>3 DEF Places
<1>10. Replays'
  BY <1>1, <1>3, <1>4, <1>7 DEF Replays, ReplayMatches, SortedLevels
<1>11. Stored' = Stored
  BY <1>3, <1>4 DEF Stored, Contents
<1>12. VersionsUnique'
  BY <1>1, <1>3, <1>5, <1>11 DEF VersionsUnique
<1>13. LevelsFollow'
  BY <1>1, <1>3, <1>4 DEF LevelsFollow
<1>14. PlacesAge'
  BY <1>1, <1>3, <1>4, SameAges
<1>15. IdsFresh'
  <2>1. \A id \in Live(lsm) : id \in Nat /\ id <= replayed.maxId
    BY <1>1, TypedFacts DEF IdsFresh
  <2> QED BY <1>3, <1>6, <1>7, <2>1 DEF IdsFresh
<1>16. Scheduled'
  BY <1>3 DEF Scheduled
<1>17. Reads'
  <2>1. SUFFICES ASSUME strategy = "Leveled" => ~deleted, WidthUnbounded
                 PROVE  (SameReads /\ \A v \in history : v.ts <= ts)'
    BY <1>3 DEF Reads, WidthUnbounded
  <2>2. SameReads /\ \A v \in history : v.ts <= ts
    BY <1>1, <2>1 DEF Reads
  <2>3. /\ \A v \in Stored : v.ts \in Nat /\ v.ts <= latest /\ v.ts <= ts
        /\ \A v \in history : v.ts \in Nat /\ v.key \in Keys
        /\ ts \in Nat /\ latest \in Nat
    <3>1. history \subseteq Versions
      BY <1>1 DEF Typed
    <3> QED BY <1>1, <1>5, <1>6, <3>1, StoredFacts DEF VersionsUnique, Versions
  \* A read of now finds in the tables what a read at the latest timestamp finds
  \* after the restart.
  <2>4. \A k \in Keys : ValueAt(Stored, k, ts) = ValueAt(history, k, ts)
    BY <1>6, <2>2 DEF SameReads, Stored
  <2>5. \A k : ValueAt(Stored, k, latest) = ValueAt(Stored, k, ts)
    BY <2>3 DEF ValueAt
  <2>6. \A v \in history' : v.ts \in ValueAt(history, v.key, ts) /\ v.key \in Keys
    BY <1>3, <2>2, <2>3 DEF ValueAt
  <2>7. \A v \in history' : v.ts <= latest
    <3>1. ASSUME NEW v \in history' PROVE v.ts <= latest
      <4>1. v.ts \in ValueAt(Stored, v.key, ts)
        BY <2>4, <2>6
      <4>2. PICK x \in Stored : x.ts = v.ts
        BY <4>1 DEF ValueAt
      <4> QED BY <2>3, <4>2
    <3> QED BY <3>1
  <2>8. ASSUME NEW k \in Keys PROVE ValueAt(history', k, latest) = ValueAt(history, k, ts)
    <3>1. ValueAt(history, k, ts) =
             {v.ts : v \in {x \in history : /\ x.key = k /\ ~x.del
                                            /\ \A y \in history : y.key = k => y.ts <= x.ts}}
      BY <2>2 DEF ValueAt
    <3>2. ValueAt(history', k, latest) =
             {v.ts : v \in {x \in history' : /\ x.key = k /\ ~x.del
                                             /\ \A y \in history' : y.key = k => y.ts <= x.ts}}
      BY <2>7 DEF ValueAt
    <3>3. {x \in history : x.key = k /\ ~x.del /\ \A y \in history : y.key = k => y.ts <= x.ts}
          = {x \in history' : x.key = k /\ ~x.del /\ \A y \in history' : y.key = k => y.ts <= x.ts}
      BY <1>3
    <3> QED BY <3>1, <3>2, <3>3
  <2>9. \A k \in Keys, x \in watermark' .. ts' : ValueAt(Stored, k, x) = ValueAt(history', k, x)
    <3>1. \A x \in watermark' .. ts' : x = latest
      BY <1>3, <2>3
    <3> QED BY <2>4, <2>5, <2>8, <3>1
  <2>10. SameReads'
    <3>1. Contents(Live(lsm))' = Stored
      BY <1>11 DEF Stored
    <3> QED BY <2>9, <3>1 DEF SameReads, ValueAt
  <2> QED BY <1>3, <2>7, <2>10
<1> QED BY <1>8, <1>9, <1>10, <1>12, <1>13, <1>14, <1>15, <1>16, <1>17 DEF IInv

LEMMA InstallKeeps ==
    ASSUME IInv, Install
    PROVE  IInv'
<1>1. /\ Typed /\ Places /\ IdsFresh /\ Replays /\ VersionsUnique
      /\ LevelsFollow /\ PlacesAge /\ Scheduled /\ Reads
  BY DEF IInv
<1>2. PICK j \in job : Installed(j)
  BY <1>1, InstallDoes
<1>3. Typed' /\ IdsFresh' /\ VersionsUnique' /\ Scheduled'
  BY <1>1, <1>2, InstallTyped
<1>4. Places' /\ LevelsFollow'
  BY <1>1, <1>2, InstallPlaces, InstallFollow
<1>5. Replays'
  BY <1>1, <1>2, InstallReplays
<1>6. PlacesAge' /\ Reads'
  BY <1>1, <1>2, InstallAges, InstallReads
<1> QED BY <1>3, <1>4, <1>5, <1>6 DEF IInv

-----------------------------------------------------------------------------
(* Flush.                                                                  *)

\* A sequence with one more element in front.
LEMMA Prepended ==
    ASSUME NEW X, NEW s \in Seq(X), NEW x \in X
    PROVE  /\ <<x>> \o s \in Seq(X) /\ Len(<<x>> \o s) = Len(s) + 1
           /\ DOMAIN (<<x>> \o s) = 1 .. Len(s) + 1
           /\ (<<x>> \o s)[1] = x
           /\ \A i \in 1 .. Len(s) : (<<x>> \o s)[i + 1] = s[i]
  OBVIOUS

LEMMA PrependedParts ==
    ASSUME NEW X, NEW s \in Seq(X), NEW x \in X
    PROVE  /\ ToSet(<<x>> \o s) = {x} \cup ToSet(s)
           /\ \A p \in DOMAIN (<<x>> \o s) : p = 1 \/ p - 1 \in DOMAIN s
           /\ \A p \in DOMAIN (<<x>> \o s) : (<<x>> \o s)[p] = IF p = 1 THEN x ELSE s[p - 1]
           /\ Distinct(s) /\ x \notin ToSet(s) => Distinct(<<x>> \o s)
<1> DEFINE r == <<x>> \o s
           n == Len(s)
<1>1. /\ n \in Nat /\ DOMAIN s = 1 .. n /\ DOMAIN r = 1 .. n + 1 /\ r[1] = x
      /\ \A i \in 1 .. n : r[i + 1] = s[i]
  BY Prepended
<1> HIDE DEF r, n
<1>2. \A p \in 1 .. n + 1 : p = 1 \/ (p - 1 \in 1 .. n /\ (p - 1) + 1 = p)
  BY <1>1
<1>3. \A p \in 1 .. n + 1 : r[p] = IF p = 1 THEN x ELSE s[p - 1]
  BY <1>1, <1>2
<1>4. ToSet(r) = {x} \cup ToSet(s)
  <2>1. \A y \in ToSet(r) : y \in {x} \cup ToSet(s)
    BY <1>1, <1>2, <1>3 DEF ToSet
  <2>2. x \in ToSet(r)
    BY <1>1 DEF ToSet
  <2>3. \A i \in 1 .. n : s[i] \in ToSet(r)
    BY <1>1 DEF ToSet
  <2> QED BY <1>1, <2>1, <2>2, <2>3 DEF ToSet
<1>5. ASSUME Distinct(s), x \notin ToSet(s), NEW p \in 1 .. n + 1, NEW q \in 1 .. n + 1,
             r[p] = r[q]
      PROVE  p = q
  <2>1. \A i \in 1 .. n : s[i] # x
    BY <1>1, <1>5 DEF ToSet
  <2>2. CASE p = 1 \/ q = 1
    BY <1>2, <1>3, <1>5, <2>1, <2>2
  <2>3. CASE p # 1 /\ q # 1
    <3>1. p - 1 = q - 1
      BY <1>1, <1>2, <1>3, <1>5, <2>3 DEF Distinct
    <3> QED BY <1>1, <3>1
  <2> QED BY <2>2, <2>3
<1> QED BY <1>1, <1>2, <1>3, <1>4, <1>5 DEF Distinct, r

\* What a flush does.
Flushed(batch) ==
    /\ ts < MaxTs
    /\ batch \in SUBSET Versions /\ batch # {} /\ Unique(batch) /\ \A v \in batch : v.ts = ts + 1
    /\ sst' = [id \in Live(lsm) \cup {mem} |-> IF id = mem THEN batch ELSE sst[id]]
    /\ history' = history \cup batch
    /\ deleted' = (deleted \/ \E v \in batch : v.del)
    /\ lsm' = AddFlushed(lsm, mem)
    /\ replayed' = RecordFlush(mem, nextId)
    /\ mem' = nextId /\ nextId' = nextId + 1
    /\ ts' = ts + 1
    /\ UNCHANGED <<strategy, watermark, job, running, reopens>>

LEMMA FlushDoes ==
    ASSUME Typed, Flush
    PROVE  \E batch : Flushed(batch)
<1> DEFINE made(b) == {[key |-> v.key, ts |-> ts + 1, del |-> v.del] : v \in b}
<1>1. PICK b \in Batches :
         /\ sst' = [id \in DOMAIN sst \cup {mem} |-> IF id = mem THEN made(b) ELSE sst[id]]
         /\ history' = history \cup made(b)
         /\ deleted' = (deleted \/ \E v \in made(b) : v.del)
  BY DEF Flush
<1>2. /\ ts < MaxTs /\ ts \in Nat /\ MaxTs \in Nat /\ DOMAIN sst = Live(lsm)
  <2>1. ts < MaxTs
    BY DEF Flush
  <2> QED BY <2>1, TypedFacts DEF Typed
<1>3. /\ b # {} /\ \A v \in b : v \in [key : 1 .. NumKeys, del : BOOLEAN]
      /\ \A v, w \in b : v.key = w.key => v = w
  BY <1>1, LevelsAssumption
<1>4. /\ made(b) \in SUBSET Versions /\ made(b) # {} /\ Unique(made(b))
      /\ \A v \in made(b) : v.ts = ts + 1
  <2>1. \A v \in b : [key |-> v.key, ts |-> ts + 1, del |-> v.del] \in Versions
    BY <1>2, <1>3 DEF Versions, Keys
  <2>2. made(b) \in SUBSET Versions /\ made(b) # {} /\ \A v \in made(b) : v.ts = ts + 1
    <3>1. made(b) # {}
      BY <1>3
    <3>2. \A x \in made(b) : x \in Versions /\ x.ts = ts + 1
      BY <2>1
    <3> QED BY <3>1, <3>2
  <2>3. ASSUME NEW x \in made(b), NEW y \in made(b), x.key = y.key PROVE x = y
    <3>1. PICK v \in b : x = [key |-> v.key, ts |-> ts + 1, del |-> v.del]
      OBVIOUS
    <3>2. PICK w \in b : y = [key |-> w.key, ts |-> ts + 1, del |-> w.del]
      OBVIOUS
    <3>3. v = w
      BY <1>3, <2>3, <3>1, <3>2
    <3> QED BY <3>1, <3>2, <3>3
  <2> QED BY <2>2, <2>3 DEF Unique
<1> HIDE DEF made
<1> QED BY <1>1, <1>2, <1>4 DEF Flush, Flushed

LEMMA FlushedLevels ==
    ASSUME Typed, Places, IdsFresh, NEW batch, Flushed(batch)
    PROVE  /\ mem \in Nat /\ mem \notin Live(lsm)
           /\ lsm' \in LsmState /\ Live(lsm') = Live(lsm) \cup {mem}
           /\ strategy = "Tiered" =>
                 /\ lsm'.l0 = lsm.l0 /\ lsm'.levels = <<<<mem>>>> \o lsm.levels
                 /\ Len(lsm'.levels) = Len(lsm.levels) + 1
                 /\ DOMAIN lsm'.levels = 1 .. Len(lsm.levels) + 1
                 /\ lsm'.levels[1] = <<mem>>
                 /\ \A i \in DOMAIN lsm.levels : lsm'.levels[i + 1] = lsm.levels[i]
                 /\ \A i \in DOMAIN lsm'.levels : i = 1 \/ i - 1 \in DOMAIN lsm.levels
                 /\ \A i \in DOMAIN lsm'.levels :
                       lsm'.levels[i] = IF i = 1 THEN <<mem>> ELSE lsm.levels[i - 1]
           /\ strategy # "Tiered" =>
                 /\ lsm'.l0 = <<mem>> \o lsm.l0 /\ lsm'.levels = lsm.levels
                 /\ ToSet(lsm'.l0) = {mem} \cup ToSet(lsm.l0)
                 /\ Distinct(lsm'.l0)
                 /\ \A p \in DOMAIN lsm'.l0 : p = 1 \/ p - 1 \in DOMAIN lsm.l0
                 /\ \A p \in DOMAIN lsm'.l0 :
                       lsm'.l0[p] = IF p = 1 THEN mem ELSE lsm.l0[p - 1]
<1>1. mem \in Nat /\ mem \notin Live(lsm) /\ lsm \in LsmState
  BY DEF Typed, IdsFresh
<1>2. /\ lsm.l0 \in Seq(Nat) /\ lsm.levels \in Seq(Seq(Nat))
      /\ lsm = [l0 |-> lsm.l0, levels |-> lsm.levels]
      /\ ToSet(lsm.l0) \subseteq Live(lsm)
      /\ Len(lsm.levels) \in Nat /\ DOMAIN lsm.levels = 1 .. Len(lsm.levels)
  BY <1>1, TypedFacts DEF LsmState
<1>3. lsm' = AddFlushed(lsm, mem)
  BY DEF Flushed
<1>4. CASE strategy = "Tiered"
  <2> DEFINE ls == <<<<mem>>>> \o lsm.levels
  <2>1. lsm' = [l0 |-> lsm.l0, levels |-> ls]
    BY <1>2, <1>3, <1>4 DEF AddFlushed
  <2>2. <<mem>> \in Seq(Nat)
    BY <1>1
  <2>3. /\ ls \in Seq(Seq(Nat)) /\ Len(ls) = Len(lsm.levels) + 1
        /\ DOMAIN ls = 1 .. Len(lsm.levels) + 1 /\ ls[1] = <<mem>>
        /\ \A i \in 1 .. Len(lsm.levels) : ls[i + 1] = lsm.levels[i]
    BY <1>2, <2>2, Prepended
  <2>4. /\ \A i \in DOMAIN ls : i = 1 \/ i - 1 \in DOMAIN lsm.levels
        /\ \A i \in DOMAIN ls : ls[i] = IF i = 1 THEN <<mem>> ELSE lsm.levels[i - 1]
    BY <1>2, <2>2, PrependedParts
  <2> HIDE DEF ls
  <2>5. lsm' \in LsmState /\ lsm'.l0 = lsm.l0 /\ lsm'.levels = ls
    BY <1>2, <2>1, <2>3 DEF LsmState
  <2>6. ToSet(<<mem>>) = {mem}
    BY DEF ToSet
  <2>7. UNION {ToSet(ls[i]) : i \in DOMAIN ls} =
           {mem} \cup UNION {ToSet(lsm.levels[i]) : i \in DOMAIN lsm.levels}
    <3>1. ASSUME NEW x \in UNION {ToSet(ls[i]) : i \in DOMAIN ls}
          PROVE  x \in {mem} \cup UNION {ToSet(lsm.levels[i]) : i \in DOMAIN lsm.levels}
      <4>1. PICK i \in DOMAIN ls : x \in ToSet(ls[i])
        OBVIOUS
      <4> QED BY <2>4, <2>6, <4>1
    <3>2. 1 \in DOMAIN ls /\ \A i \in DOMAIN lsm.levels : i + 1 \in DOMAIN ls
      <4>1. \A n \in Nat : 1 \in 1 .. n + 1 /\ \A i \in 1 .. n : i + 1 \in 1 .. n + 1
        OBVIOUS
      <4> QED BY <1>2, <2>3, <4>1
    <3>3. mem \in UNION {ToSet(ls[i]) : i \in DOMAIN ls}
      BY <2>3, <2>6, <3>2
    <3>4. ASSUME NEW i \in DOMAIN lsm.levels, NEW x \in ToSet(lsm.levels[i])
          PROVE  x \in UNION {ToSet(ls[k]) : k \in DOMAIN ls}
      <4>1. i + 1 \in DOMAIN ls /\ ls[i + 1] = lsm.levels[i]
        BY <1>2, <2>3, <3>2
      <4> QED BY <4>1
    <3> QED BY <3>1, <3>3, <3>4
  <2>8. Live(lsm') = Live(lsm) \cup {mem}
    BY <2>5, <2>7 DEF Live
  <2> QED BY <1>1, <1>2, <1>4, <2>3, <2>4, <2>5, <2>8 DEF ls
<1>5. CASE strategy # "Tiered"
  <2> DEFINE f == <<mem>> \o lsm.l0
  <2>1. lsm' = [l0 |-> f, levels |-> lsm.levels]
    BY <1>2, <1>3, <1>5 DEF AddFlushed
  <2>2. f \in Seq(Nat)
    BY <1>1, <1>2
  <2>3. /\ ToSet(f) = {mem} \cup ToSet(lsm.l0)
        /\ \A p \in DOMAIN f : p = 1 \/ p - 1 \in DOMAIN lsm.l0
        /\ \A p \in DOMAIN f : f[p] = IF p = 1 THEN mem ELSE lsm.l0[p - 1]
        /\ Distinct(f)
    BY <1>1, <1>2, PrependedParts DEF Places
  <2> HIDE DEF f
  <2>4. lsm' \in LsmState /\ lsm'.l0 = f /\ lsm'.levels = lsm.levels
    BY <1>2, <2>1, <2>2 DEF LsmState
  <2>5. Live(lsm') = Live(lsm) \cup {mem}
    BY <2>3, <2>4 DEF Live
  <2> QED BY <1>1, <1>5, <2>3, <2>4, <2>5 DEF f
<1> QED BY <1>4, <1>5

LEMMA FlushedStored ==
    ASSUME Typed, Places, IdsFresh, NEW batch, Flushed(batch)
    PROVE  /\ \A id \in Live(lsm) : sst'[id] = sst[id]
           /\ sst'[mem] = batch
           /\ \A ids \in SUBSET Live(lsm) : HeldBy(sst', ids) = Contents(ids)
           /\ HeldBy(sst', {mem}) = batch
           /\ sst' \in [Live(lsm') -> (SUBSET Versions) \ {{}}]
           /\ Stored' = Stored \cup batch
           /\ ts \in Nat /\ ts' = ts + 1 /\ ts + 1 \in 0 .. MaxTs
<1>1. mem \notin Live(lsm) /\ Live(lsm') = Live(lsm) \cup {mem}
  BY FlushedLevels
<1>2. /\ sst' = [id \in Live(lsm) \cup {mem} |-> IF id = mem THEN batch ELSE sst[id]]
      /\ batch \in SUBSET Versions /\ batch # {} /\ ts < MaxTs /\ ts' = ts + 1
  BY DEF Flushed
<1>3. (\A id \in Live(lsm) : sst'[id] = sst[id]) /\ sst'[mem] = batch
  BY <1>1, <1>2
<1>4. \A ids \in SUBSET Live(lsm) : HeldBy(sst', ids) = Contents(ids)
  BY <1>3 DEF HeldBy, Contents
<1>5. HeldBy(sst', {mem}) = batch
  BY <1>3 DEF HeldBy
<1>6. sst' \in [Live(lsm') -> (SUBSET Versions) \ {{}}]
  <2>1. \A id \in Live(lsm) : sst[id] \in (SUBSET Versions) \ {{}}
    BY TypedFacts
  <2> QED BY <1>1, <1>2, <2>1
<1>7. Stored' = Stored \cup batch
  <2>1. Stored' = HeldBy(sst', Live(lsm'))
    BY DEF Stored, Contents, HeldBy
  <2>2. HeldBy(sst', Live(lsm')) = HeldBy(sst', Live(lsm)) \cup HeldBy(sst', {mem})
    BY <1>1 DEF HeldBy
  <2> QED BY <1>4, <1>5, <2>1, <2>2 DEF Stored
<1>8. ts \in Nat /\ ts + 1 \in 0 .. MaxTs
  BY <1>2, TypedFacts DEF Typed
<1> QED BY <1>2, <1>3, <1>4, <1>5, <1>6, <1>7, <1>8

LEMMA FlushPlaces ==
    ASSUME Typed, Places, IdsFresh, LevelsFollow, NEW batch, Flushed(batch)
    PROVE  Places' /\ LevelsFollow'
<1>1. strategy' = strategy
  BY DEF Flushed
<1>2. /\ \A i, k \in DOMAIN lsm.levels : i # k => ToSet(lsm.levels[i]) \cap ToSet(lsm.levels[k]) = {}
      /\ \A i \in DOMAIN lsm.levels : Distinct(lsm.levels[i])
      /\ \A i \in DOMAIN lsm.levels : ToSet(lsm.l0) \cap ToSet(lsm.levels[i]) = {}
      /\ strategy = "Tiered" => lsm.l0 = <<>> /\ \A i \in DOMAIN lsm.levels : lsm.levels[i] # <<>>
      /\ strategy # "Tiered" => Len(lsm.levels) = MaxLevels
  BY DEF Places
<1>3. /\ mem \notin Live(lsm)
      /\ \A i \in DOMAIN lsm.levels : ToSet(lsm.levels[i]) \subseteq Live(lsm)
      /\ \A i \in DOMAIN lsm.levels : mem \notin ToSet(lsm.levels[i])
  BY FlushedLevels, TypedFacts
<1>4. ASSUME NEW i \in DOMAIN lsm.levels, NEW p \in DOMAIN lsm.levels[i],
             NEW q \in DOMAIN lsm.levels[i], p < q
      PROVE  Follows(sst'[lsm.levels[i][p]], sst'[lsm.levels[i][q]])
  <2>1. lsm.levels[i][p] \in Live(lsm) /\ lsm.levels[i][q] \in Live(lsm)
    BY <1>3 DEF ToSet
  <2>2. \A id \in Live(lsm) : sst'[id] = sst[id]
    BY FlushedStored
  <2> QED BY <1>4, <2>1, <2>2 DEF LevelsFollow
<1>5. CASE strategy # "Tiered"
  <2>1. /\ lsm'.levels = lsm.levels /\ ToSet(lsm'.l0) = {mem} \cup ToSet(lsm.l0)
        /\ Distinct(lsm'.l0)
    BY <1>5, FlushedLevels
  <2>2. \A i \in DOMAIN lsm.levels : ToSet(lsm'.l0) \cap ToSet(lsm.levels[i]) = {}
    BY <1>2, <1>3, <2>1
  <2>3. Places'
    BY <1>1, <1>2, <1>5, <2>1, <2>2 DEF Places
  <2> QED BY <1>4, <2>1, <2>3 DEF LevelsFollow
<1>6. CASE strategy = "Tiered"
  <2> DEFINE n == Len(lsm.levels)
             ls == lsm'.levels
  <2>1. /\ lsm'.l0 = <<>> /\ n \in Nat /\ DOMAIN lsm.levels = 1 .. n
        /\ DOMAIN ls = 1 .. n + 1
        /\ \A i \in DOMAIN ls : i = 1 \/ i - 1 \in DOMAIN lsm.levels
        /\ \A i \in DOMAIN ls : ls[i] = IF i = 1 THEN <<mem>> ELSE lsm.levels[i - 1]
    BY <1>2, <1>6, FlushedLevels, TypedFacts
  <2>2. ToSet(<<mem>>) = {mem} /\ Distinct(<<mem>>) /\ <<mem>> # <<>> /\ DOMAIN <<mem>> = {1}
    BY DEF ToSet, Distinct
  <2>3. ToSet(<<>>) = {} /\ Distinct(<<>>)
    BY DEF ToSet, Distinct
  <2> HIDE DEF ls
  <2>4. \A i \in DOMAIN ls : ls[i] # <<>> /\ Distinct(ls[i])
    BY <1>2, <1>6, <2>1, <2>2
  <2>5. ASSUME NEW i \in DOMAIN ls, NEW k \in DOMAIN ls, i # k
        PROVE  ToSet(ls[i]) \cap ToSet(ls[k]) = {}
    <3>1. CASE i = 1
      BY <1>3, <2>1, <2>2, <2>5, <3>1
    <3>2. CASE k = 1
      BY <1>3, <2>1, <2>2, <2>5, <3>2
    <3>3. CASE i # 1 /\ k # 1
      <4>1. i - 1 # k - 1
        BY <2>1, <2>5
      <4> QED BY <1>2, <2>1, <3>3, <4>1
    <3> QED BY <3>1, <3>2, <3>3
  <2>6. Places'
    BY <1>1, <1>6, <2>1, <2>3, <2>4, <2>5 DEF Places, ls
  <2>7. ASSUME NEW i \in DOMAIN ls, NEW p \in DOMAIN ls[i], NEW q \in DOMAIN ls[i], p < q
        PROVE  Follows(sst'[ls[i][p]], sst'[ls[i][q]])
    <3>1. CASE i = 1
      <4>1. ls[i] = <<mem>>
        BY <2>1, <3>1
      <4>2. p = 1 /\ q = 1
        BY <2>2, <4>1
      <4> QED BY <2>7, <4>2
    <3>2. CASE i # 1
      BY <1>4, <2>1, <2>7, <3>2
    <3> QED BY <3>1, <3>2
  <2> QED BY <2>6, <2>7 DEF LevelsFollow, ls
<1> QED BY <1>5, <1>6

LEMMA FlushAges ==
    ASSUME Typed, Places, IdsFresh, VersionsUnique, PlacesAge, NEW batch, Flushed(batch)
    PROVE  PlacesAge'
<1> DEFINE C(i) == Contents(ToSet(lsm.levels[i]))
<1>1. /\ strategy' = strategy /\ \A v \in batch : v.ts = ts + 1
  BY DEF Flushed
<1>2. SUFFICES ASSUME strategy # "Leveled" PROVE PlacesAge'
  BY <1>1 DEF PlacesAge
<1>3. /\ \A p, q \in DOMAIN lsm.l0 : p < q => Later(sst[lsm.l0[p]], sst[lsm.l0[q]])
      /\ \A p \in DOMAIN lsm.l0, i \in DOMAIN lsm.levels : Later(sst[lsm.l0[p]], C(i))
      /\ \A i, k \in DOMAIN lsm.levels : i < k => Later(C(i), C(k))
  BY <1>2 DEF PlacesAge
<1>4. /\ \A id \in Live(lsm) : sst'[id] = sst[id]
      /\ sst'[mem] = batch /\ HeldBy(sst', {mem}) = batch
      /\ \A ids \in SUBSET Live(lsm) : HeldBy(sst', ids) = Contents(ids)
  BY FlushedStored
<1>5. ASSUME NEW S, S \subseteq Stored PROVE Later(batch, S)
  <2>1. \A v \in S : v.ts \in Nat /\ v.ts <= ts
    BY <1>5, StoredFacts DEF VersionsUnique
  <2>2. ts \in Nat
    BY FlushedStored
  <2> QED BY <1>1, <2>1, <2>2 DEF Later
<1>6. /\ \A i \in DOMAIN lsm.levels : /\ ToSet(lsm.levels[i]) \in SUBSET Live(lsm)
                                      /\ C(i) \subseteq Stored
      /\ \A p \in DOMAIN lsm.l0 : lsm.l0[p] \in Live(lsm) /\ sst[lsm.l0[p]] \subseteq Stored
  <2>1. /\ \A i \in DOMAIN lsm.levels : ToSet(lsm.levels[i]) \in SUBSET Live(lsm)
        /\ \A p \in DOMAIN lsm.l0 : lsm.l0[p] \in Live(lsm)
    BY TypedFacts DEF ToSet
  <2> QED BY <2>1, StoredFacts
<1>7. \A i \in DOMAIN lsm.levels : HeldBy(sst', ToSet(lsm.levels[i])) = C(i)
  BY <1>4, <1>6
<1> HIDE DEF C
<1>8. SUFFICES /\ \A p, q \in DOMAIN lsm'.l0 :
                     p < q => Later(sst'[lsm'.l0[p]], sst'[lsm'.l0[q]])
               /\ \A p \in DOMAIN lsm'.l0, i \in DOMAIN lsm'.levels :
                     Later(sst'[lsm'.l0[p]], HeldBy(sst', ToSet(lsm'.levels[i])))
               /\ \A i, k \in DOMAIN lsm'.levels :
                     i < k => Later(HeldBy(sst', ToSet(lsm'.levels[i])),
                                    HeldBy(sst', ToSet(lsm'.levels[k])))
  <2>1. \A i : HeldBy(sst', ToSet(lsm'.levels[i])) = (Contents(ToSet(lsm.levels[i])))'
    BY DEF Contents, HeldBy
  <2> QED BY <1>8, <2>1 DEF PlacesAge
<1>9. lsm.l0 \in Seq(Nat) /\ DOMAIN lsm.levels \subseteq Nat
  BY TypedFacts
<1>10. CASE strategy # "Tiered"
  <2>1. /\ lsm'.levels = lsm.levels
        /\ lsm'.l0 = <<mem>> \o lsm.l0
        /\ \A p \in DOMAIN lsm'.l0 : p = 1 \/ p - 1 \in DOMAIN lsm.l0
        /\ \A p \in DOMAIN lsm'.l0 : lsm'.l0[p] = IF p = 1 THEN mem ELSE lsm.l0[p - 1]
        /\ lsm' \in LsmState
    BY <1>10, FlushedLevels
  <2>2. DOMAIN lsm'.l0 \subseteq Nat \ {0}
    <3>1. lsm'.l0 \in Seq(Nat)
      BY <2>1 DEF LsmState
    <3> QED BY <3>1
  <2>3. ASSUME NEW p \in DOMAIN lsm'.l0, NEW q \in DOMAIN lsm'.l0, p < q
        PROVE  Later(sst'[lsm'.l0[p]], sst'[lsm'.l0[q]])
    <3>1. q # 1 /\ q - 1 \in DOMAIN lsm.l0 /\ lsm'.l0[q] = lsm.l0[q - 1]
      <4>1. p \in Nat \ {0} /\ q \in Nat \ {0}
        BY <2>2
      <4>2. q # 1
        BY <2>3, <4>1
      <4> QED BY <2>1, <4>2
    <3>2. sst'[lsm'.l0[q]] = sst[lsm.l0[q - 1]]
      BY <1>4, <1>6, <3>1
    <3>3. CASE p = 1
      BY <1>4, <1>5, <1>6, <2>1, <3>1, <3>2, <3>3
    <3>4. CASE p # 1
      <4>1. p - 1 \in DOMAIN lsm.l0 /\ lsm'.l0[p] = lsm.l0[p - 1] /\ p - 1 < q - 1
        <5>1. p \in Nat \ {0} /\ q \in Nat \ {0}
          BY <2>2
        <5> QED BY <2>1, <2>3, <3>4, <5>1
      <4>2. sst'[lsm'.l0[p]] = sst[lsm.l0[p - 1]]
        BY <1>4, <1>6, <4>1
      <4> QED BY <1>3, <3>1, <3>2, <4>1, <4>2
    <3> QED BY <3>3, <3>4
  <2>4. ASSUME NEW p \in DOMAIN lsm'.l0, NEW i \in DOMAIN lsm.levels
        PROVE  Later(sst'[lsm'.l0[p]], C(i))
    <3>1. CASE p = 1
      BY <1>4, <1>5, <1>6, <2>1, <3>1
    <3>2. CASE p # 1
      BY <1>3, <1>4, <1>6, <2>1, <3>2
    <3> QED BY <3>1, <3>2
  <2> QED BY <1>3, <1>7, <2>1, <2>3, <2>4
<1>11. CASE strategy = "Tiered"
  <2> DEFINE n == Len(lsm.levels)
             ls == lsm'.levels
             D(i) == HeldBy(sst', ToSet(ls[i]))
  <2>1. /\ lsm'.l0 = <<>> /\ n \in Nat /\ DOMAIN lsm.levels = 1 .. n
        /\ DOMAIN ls = 1 .. n + 1
        /\ \A i \in DOMAIN ls : i = 1 \/ i - 1 \in DOMAIN lsm.levels
        /\ \A i \in DOMAIN ls : ls[i] = IF i = 1 THEN <<mem>> ELSE lsm.levels[i - 1]
    BY <1>11, FlushedLevels, TypedFacts DEF Places
  <2>2. ToSet(<<mem>>) = {mem}
    BY DEF ToSet
  <2> HIDE DEF ls, n
  <2>3. \A i \in DOMAIN ls : D(i) = IF i = 1 THEN batch ELSE C(i - 1)
    BY <1>4, <1>7, <2>1, <2>2
  <2> HIDE DEF D
  <2>4. ASSUME NEW i \in DOMAIN ls, NEW k \in DOMAIN ls, i < k
        PROVE  Later(D(i), D(k))
    <3>1. k # 1 /\ i \in Nat /\ k \in Nat
      BY <2>1, <2>4
    <3>2. k - 1 \in DOMAIN lsm.levels /\ D(k) = C(k - 1)
      BY <2>1, <2>3, <3>1
    <3>3. CASE i = 1
      BY <1>5, <1>6, <2>3, <3>2, <3>3
    <3>4. CASE i # 1
      <4>1. i - 1 \in DOMAIN lsm.levels /\ D(i) = C(i - 1) /\ i - 1 < k - 1
        BY <2>1, <2>3, <2>4, <3>1, <3>4
      <4> QED BY <1>3, <3>2, <4>1
    <3> QED BY <3>3, <3>4
  <2>5. DOMAIN lsm'.l0 = {}
    BY <2>1
  <2> QED BY <2>4, <2>5 DEF D, ls
<1> QED BY <1>10, <1>11

LEMMA FlushTyped ==
    ASSUME Typed, Places, IdsFresh, Replays, VersionsUnique, NEW batch, Flushed(batch)
    PROVE  Typed' /\ IdsFresh' /\ VersionsUnique'
<1>1. /\ batch \in SUBSET Versions /\ batch # {} /\ Unique(batch) /\ \A v \in batch : v.ts = ts + 1
      /\ history' = history \cup batch
      /\ deleted' = (deleted \/ \E v \in batch : v.del)
      /\ lsm' = AddFlushed(lsm, mem) /\ replayed' = RecordFlush(mem, nextId)
      /\ mem' = nextId /\ nextId' = nextId + 1 /\ ts' = ts + 1
      /\ UNCHANGED <<strategy, watermark, job, running, reopens>>
  BY DEF Flushed
<1>2. /\ strategy \in Strategies /\ mem \in Nat /\ nextId \in Nat
      /\ ts \in 0 .. MaxTs /\ watermark \in 0 .. ts
      /\ running \in BOOLEAN /\ deleted \in BOOLEAN /\ job \subseteq Jobs
      /\ history \subseteq Versions /\ reopens \in 0 .. MaxReopens
      /\ replayed.maxId \in Nat /\ replayed.state \in LsmState
  BY DEF Typed
<1>3. /\ lsm' \in LsmState /\ Live(lsm') = Live(lsm) \cup {mem}
  BY FlushedLevels
<1>4. /\ sst' \in [Live(lsm') -> (SUBSET Versions) \ {{}}]
      /\ Stored' = Stored \cup batch /\ ts \in Nat /\ ts + 1 \in 0 .. MaxTs
  BY FlushedStored
<1> DEFINE most == Max({replayed.maxId, mem, nextId})
<1>5. replayed.maxId <= most /\ mem <= most /\ nextId <= most /\ most \in Nat
  <2> DEFINE S == {replayed.maxId, mem, nextId}
  <2>1. S \in SUBSET Nat /\ S # {} /\ replayed.maxId + mem + nextId \in Nat
        /\ \A x \in S : x <= replayed.maxId + mem + nextId
    BY <1>2
  <2>2. Max(S) \in S /\ \A x \in S : x <= Max(S)
    <3> HIDE DEF S
    <3> QED BY <2>1, MaxOf
  <2> QED BY <2>1, <2>2
<1> HIDE DEF most
<1>6. AddFlushed(replayed.state, mem) \in LsmState
  <2> DEFINE s == replayed.state
  <2>1. s \in LsmState /\ s.l0 \in Seq(Nat) /\ s.levels \in Seq(Seq(Nat))
        /\ s = [l0 |-> s.l0, levels |-> s.levels]
    BY <1>2 DEF LsmState
  <2> HIDE DEF s
  <2>2. AddFlushed(s, mem) = IF strategy = "Tiered" THEN [l0 |-> s.l0, levels |-> <<<<mem>>>> \o s.levels]
                             ELSE [l0 |-> <<mem>> \o s.l0, levels |-> s.levels]
    <3>0. s \in [l0 : Seq(Nat), levels : Seq(Seq(Nat))]
      BY <2>1 DEF LsmState
    <3>1. CASE strategy = "Tiered"
      <4>1. AddFlushed(s, mem) = [s EXCEPT !.levels = <<<<mem>>>> \o s.levels]
        BY <3>1 DEF AddFlushed
      <4>2. \A x : [s EXCEPT !.levels = x] = [l0 |-> s.l0, levels |-> x]
        BY <3>0
      <4> QED BY <3>1, <4>1, <4>2
    <3>2. CASE strategy # "Tiered"
      <4>1. AddFlushed(s, mem) = [s EXCEPT !.l0 = <<mem>> \o s.l0]
        BY <3>2 DEF AddFlushed
      <4>2. \A x : [s EXCEPT !.l0 = x] = [l0 |-> x, levels |-> s.levels]
        BY <3>0
      <4> QED BY <3>2, <4>1, <4>2
    <3> QED BY <3>1, <3>2
  <2>3. <<mem>> \in Seq(Nat)
    BY <1>2
  <2>4. <<<<mem>>>> \o s.levels \in Seq(Seq(Nat)) /\ <<mem>> \o s.l0 \in Seq(Nat)
    BY <1>2, <2>1, <2>3, Prepended
  <2>5. AddFlushed(s, mem) \in LsmState
    BY <2>1, <2>2, <2>4 DEF LsmState
  <2> QED BY <2>5 DEF s
<1>7. /\ replayed' = [state |-> AddFlushed(replayed.state, mem), maxId |-> most]
      /\ replayed' \in [state : LsmState, maxId : Nat] /\ replayed'.maxId = most
  <2>1. replayed' = [state |-> AddFlushed(replayed.state, mem), maxId |-> most]
    BY <1>1 DEF RecordFlush, most
  <2> QED BY <1>5, <1>6, <2>1
<1>8. Typed'
  <2>1. history' \subseteq Versions
    BY <1>1, <1>2
  <2>2. deleted' \in BOOLEAN
    BY <1>1
  <2>3. watermark' \in 0 .. ts' /\ ts' \in 0 .. MaxTs
    BY <1>1, <1>2, <1>4
  <2> QED BY <1>1, <1>2, <1>3, <1>4, <1>7, <2>1, <2>2, <2>3 DEF Typed
<1>9. IdsFresh'
  <2>1. /\ \A id \in Live(lsm) : id < nextId /\ id # mem /\ id <= replayed.maxId /\ id \in Nat
        /\ mem < nextId /\ mem <= replayed.maxId
    BY TypedFacts DEF IdsFresh
  <2>2. ASSUME NEW id \in Live(lsm')
        PROVE  id < nextId + 1 /\ id # nextId /\ id <= most
    <3>1. CASE id \in Live(lsm)
      BY <1>2, <1>5, <2>1, <3>1
    <3>2. CASE id = mem
      BY <1>2, <1>5, <2>1, <3>2
    <3> QED BY <1>3, <3>1, <3>2
  <2>3. nextId < nextId + 1 /\ nextId <= most
    BY <1>2, <1>5
  <2> QED BY <1>1, <1>7, <2>2, <2>3 DEF IdsFresh
<1>10. VersionsUnique'
  <2>1. \A v \in Stored : v.ts \in Nat /\ v.ts <= ts
    BY StoredFacts DEF VersionsUnique
  <2>2. Unique(Stored)
    BY DEF VersionsUnique
  <2>3. \A v \in Stored \cup batch : v.ts <= ts + 1
    BY <1>1, <1>4, <2>1
  <2>4. Unique(Stored \cup batch)
    <3>1. \A v \in Stored, w \in batch : v.ts # w.ts
      BY <1>1, <1>4, <2>1
    <3> QED BY <1>1, <2>2, <3>1 DEF Unique
  <2>5. ~deleted' => \A v \in Stored \cup batch : ~v.del
    BY <1>1 DEF VersionsUnique
  <2> QED BY <1>1, <1>4, <2>3, <2>4, <2>5 DEF VersionsUnique
<1> QED BY <1>8, <1>9, <1>10

\* The replay of the Flush record puts the table where it was put.
LEMMA FlushReplays ==
    ASSUME Typed, Places, IdsFresh, Replays, NEW batch, Flushed(batch),
           replayed' \in [state : LsmState, maxId : Nat]
    PROVE  Replays'
<1> DEFINE s == replayed.state
           r == AddFlushed(s, mem)
<1>1. /\ lsm' = AddFlushed(lsm, mem) /\ replayed' = RecordFlush(mem, nextId)
      /\ strategy' = strategy
  BY DEF Flushed
<1>2. /\ s.l0 = lsm.l0 /\ DOMAIN s.levels = DOMAIN lsm.levels
      /\ \A i \in DOMAIN lsm.levels :
            Distinct(s.levels[i]) /\ ToSet(s.levels[i]) = ToSet(lsm.levels[i])
      /\ SortedLevels(s, sst) = lsm
  BY DEF Replays, ReplayMatches
<1>3. replayed'.state = r
  BY <1>1 DEF RecordFlush
<1>4. (SortedLevels(replayed.state, sst))' = SortedLevels(r, sst')
  BY <1>1, <1>3 DEF SortedLevels
<1>5. CASE strategy # "Leveled"
  <2>1. s = lsm
    BY <1>2, <1>5 DEF SortedLevels
  <2>2. r = lsm'
    BY <1>1, <2>1
  <2>3. ReplayMatches'
    BY <1>4, <1>5, <2>2 DEF ReplayMatches, SortedLevels
  <2>4. \A i \in DOMAIN lsm'.levels : Distinct(lsm'.levels[i])
    <3>1. CASE strategy = "Tiered"
      <4>1. Distinct(<<mem>>)
        BY DEF Distinct
      <4>2. \A i \in DOMAIN lsm.levels : Distinct(lsm.levels[i])
        BY DEF Places
      <4> QED BY <3>1, <4>1, <4>2, FlushedLevels
    <3>2. CASE strategy # "Tiered"
      BY <3>2, FlushedLevels DEF Places
    <3> QED BY <3>1, <3>2
  <2> QED BY <1>3, <2>2, <2>3, <2>4 DEF Replays
<1>6. CASE strategy = "Leveled"
  <2>1. /\ s \in LsmState /\ r \in LsmState /\ lsm \in LsmState /\ lsm' \in LsmState
    <3>1. replayed'.state \in LsmState
      OBVIOUS
    <3> QED BY <1>3, <3>1, FlushedLevels DEF Typed
  <2>2. r.l0 = <<mem>> \o lsm.l0 /\ r.levels = s.levels
    BY <1>2, <1>6, <2>1 DEF AddFlushed, LsmState
  <2>3. lsm'.l0 = <<mem>> \o lsm.l0 /\ lsm'.levels = lsm.levels
    BY <1>6, FlushedLevels
  <2>4. Len(lsm.levels) = MaxLevels /\ DOMAIN lsm.levels = 1 .. MaxLevels /\ MaxLevels \in Nat
    <3>1. Len(lsm.levels) = MaxLevels
      BY <1>6 DEF Places
    <3> QED BY <3>1, TypedFacts
  <2>5. Len(s.levels) = MaxLevels
    <3>1. s.levels \in Seq(Seq(Nat)) /\ DOMAIN s.levels = 1 .. MaxLevels
      BY <1>2, <2>1, <2>4 DEF LsmState
    <3> QED BY <2>4, <3>1
  \* The sort depends on the levels and the contents of the tables only.
  <2> DEFINE sorted(c) == [i \in DOMAIN s.levels |-> SortedByFirstKey(s.levels[i], c)]
  <2>6. SortedLevels(s, sst) = [s EXCEPT !.levels = sorted(sst)]
    BY <1>6 DEF SortedLevels
  <2>7. SortedLevels(r, sst') = [r EXCEPT !.levels = sorted(sst')]
    BY <1>6, <2>2 DEF SortedLevels
  <2>8. \A id \in Live(s) : sst[id] = sst'[id]
    <3>1. Live(s) = Live(lsm)
      BY <1>2 DEF Live
    <3> QED BY <3>1, FlushedStored
  <2>9. \A i \in 1 .. MaxLevels : Distinct(s.levels[i])
    BY <1>2, <2>4
  <2>10. SortedLevels(s, sst') = SortedLevels(s, sst)
    <3> HIDE DEF s
    <3> QED BY <1>6, <2>1, <2>5, <2>8, <2>9, SortedEqual
  <2>11. SortedLevels(s, sst') = [s EXCEPT !.levels = sorted(sst')]
    BY <1>6 DEF SortedLevels
  <2> HIDE DEF sorted, r, s
  <2>12. sorted(sst') = lsm.levels
    <3>1. [s EXCEPT !.levels = sorted(sst')] = lsm
      BY <1>2, <2>10, <2>11
    <3>2. s = [l0 |-> s.l0, levels |-> s.levels]
      BY <2>1 DEF LsmState
    <3> QED BY <3>1, <3>2
  <2>13. SortedLevels(r, sst') = lsm'
    <3>1. r = [l0 |-> r.l0, levels |-> r.levels] /\ lsm' = [l0 |-> lsm'.l0, levels |-> lsm'.levels]
      BY <2>1 DEF LsmState
    <3>2. [r EXCEPT !.levels = sorted(sst')] = [l0 |-> r.l0, levels |-> sorted(sst')]
      BY <3>1
    <3> QED BY <2>2, <2>3, <2>7, <2>12, <3>1, <3>2
  <2>14. ReplayMatches'
    BY <1>4, <2>13 DEF ReplayMatches
  <2> QED BY <1>2, <1>3, <2>2, <2>3, <2>14 DEF Replays, s
<1> QED BY <1>5, <1>6

\* The inputs of the compaction under way are where they were.
LEMMA FlushScheduled ==
    ASSUME Typed, Places, IdsFresh, Scheduled, NEW batch, Flushed(batch)
    PROVE  Scheduled'
<1>1. /\ strategy' = strategy /\ job' = job /\ watermark' = watermark
      /\ mem' = nextId /\ nextId' = nextId + 1
  BY DEF Flushed
<1>2. mem \notin Live(lsm) /\ mem \in Nat /\ nextId \in Nat /\ Live(lsm') = Live(lsm) \cup {mem}
  BY FlushedLevels DEF Typed
<1>3. ASSUME NEW j \in job
      PROVE  (\A k \in job : k = j) /\ Fits(j.task)' /\ Made(j)'
  <2> DEFINE t == j.task
             M == Contents(Inputs(t))
             K == Output(j)
  <2>1. (\A k \in job : k = j) /\ Fits(t) /\ Made(j) /\ t \in Tasks
    BY JobFacts DEF Scheduled
  <2>2. Inputs(t) \in SUBSET Live(lsm)
    BY <2>1, TaskFits
  <2>3. M' = M
    <3>1. M' = HeldBy(sst', Inputs(t))
      BY DEF Contents, HeldBy
    <3> QED BY <2>2, <3>1, FlushedStored
  <2>4. Made(j)'
    <3>1. /\ Len(j.tables) = Len(j.out) /\ Distinct(j.out)
          /\ \A id \in ToSet(j.out) : id < nextId /\ id # mem /\ id \notin Live(lsm)
          /\ \A p \in DOMAIN j.tables : j.tables[p] # {}
          /\ \A p, q \in DOMAIN j.tables : p < q => Follows(j.tables[p], j.tables[q])
          /\ strategy = "Tiered" => j.out # <<>>
          /\ K \subseteq M
          /\ \A v \in M \ K : Dropped(v, M, K, t.bottom)
      BY <2>1 DEF Made
    <3>2. \A id \in ToSet(j.out) : id < nextId + 1 /\ id # nextId /\ id \notin Live(lsm')
      <4>1. ToSet(j.out) \subseteq Nat
        BY JobFacts, ElementsOf
      <4> QED BY <1>2, <3>1, <4>1
    <3>3. (\A v \in M \ K : Dropped(v, M, K, t.bottom))'
      BY <1>1, <2>3, <3>1 DEF Dropped
    <3> HIDE DEF M, K
    <3> QED BY <1>1, <2>3, <3>1, <3>2, <3>3 DEF Made, M, K
  <2>5. CASE strategy = "Tiered"
    <3>1. /\ t.upperIds = <<>> /\ t.lowerIds = <<>> /\ t.tiers # <<>>
      BY <2>1, <2>5 DEF Fits, TiersFit
    <3>2. PICK u \in 0 .. Len(lsm.levels) :
             /\ u + Len(t.tiers) <= Len(lsm.levels)
             /\ \A i \in DOMAIN t.tiers : t.tiers[i] = lsm.levels[u + i]
             /\ t.bottom /\ WidthUnbounded => u + Len(t.tiers) = Len(lsm.levels)
      BY <2>1, <2>5 DEF Fits, TiersFit
    <3> DEFINE n == Len(lsm.levels)
               m == Len(t.tiers)
    <3>3. /\ n \in Nat /\ m \in Nat /\ DOMAIN lsm.levels = 1 .. n /\ DOMAIN t.tiers = 1 .. m
          /\ Len(lsm'.levels) = n + 1
          /\ \A i \in 1 .. n : lsm'.levels[i + 1] = lsm.levels[i]
      <4>1. t.tiers \in Seq(Seq(Nat))
        BY <2>1 DEF Tasks
      <4>2. m \in Nat /\ DOMAIN t.tiers = 1 .. m
        BY <4>1
      <4> QED BY <2>5, <4>2, TypedFacts, FlushedLevels
    <3> HIDE DEF t
    <3>4. u \in 0 .. n /\ u + m <= n
      BY <3>2
    <3> HIDE DEF n, m
    <3>5. u + 1 \in 0 .. n + 1 /\ (u + 1) + m <= n + 1
      BY <3>3, <3>4
    <3>6. \A i \in 1 .. m : t.tiers[i] = lsm'.levels[(u + 1) + i]
      <4>1. \A i \in 1 .. m : u + i \in 1 .. n /\ (u + i) + 1 = (u + 1) + i
        BY <3>3, <3>4
      <4>2. \A i \in 1 .. m : t.tiers[i] = lsm.levels[u + i]
        BY <3>2, <3>3
      <4> QED BY <3>3, <4>1, <4>2
    <3>7. t.bottom /\ WidthUnbounded => (u + 1) + m = n + 1
      <4>1. t.bottom /\ WidthUnbounded => u + m = n
        BY <3>2 DEF n, m
      <4> QED BY <3>3, <3>4, <4>1
    <3>8. TiersFit(t)'
      BY <1>1, <3>1, <3>3, <3>5, <3>6, <3>7 DEF TiersFit, WidthUnbounded, n, m
    <3> QED BY <1>1, <2>1, <2>4, <2>5, <3>8 DEF Fits, t
  <2>6. CASE strategy # "Tiered"
    <3>1. LevelsFit(t)
      BY <2>1, <2>6 DEF Fits
    <3>2. /\ lsm'.levels = lsm.levels /\ ToSet(lsm'.l0) = {mem} \cup ToSet(lsm.l0)
          /\ \A p \in DOMAIN lsm'.l0 : p = 1 \/ p - 1 \in DOMAIN lsm.l0
          /\ \A p \in DOMAIN lsm'.l0 : lsm'.l0[p] = IF p = 1 THEN mem ELSE lsm.l0[p - 1]
          /\ lsm' \in LsmState
      BY <2>6, FlushedLevels
    <3>3. DOMAIN lsm'.l0 \subseteq Nat \ {0}
      <4>1. lsm'.l0 \in Seq(Nat)
        BY <3>2 DEF LsmState
      <4> QED BY <4>1
    <3>4. t.upper = 0 => ToSet(t.upperIds) \subseteq ToSet(lsm'.l0)
      BY <3>1, <3>2 DEF LevelsFit
    <3>5. ASSUME t.upper = 0, NEW p \in DOMAIN lsm'.l0, NEW q \in DOMAIN lsm'.l0,
                 lsm'.l0[p] \notin ToSet(t.upperIds), lsm'.l0[q] \in ToSet(t.upperIds)
          PROVE  p < q
      <4>1. mem \notin ToSet(t.upperIds)
        <5>1. ToSet(lsm.l0) \subseteq Live(lsm) /\ ToSet(t.upperIds) \subseteq ToSet(lsm.l0)
          BY <3>1, <3>5, TypedFacts DEF LevelsFit
        <5> QED BY <1>2, <5>1
      <4>2. q # 1 /\ q - 1 \in DOMAIN lsm.l0 /\ lsm.l0[q - 1] \in ToSet(t.upperIds)
        BY <3>2, <3>5, <4>1
      <4>3. p \in Nat \ {0} /\ q \in Nat \ {0}
        BY <3>3
      <4>4. CASE p = 1
        BY <4>2, <4>3, <4>4
      <4>5. CASE p # 1
        <5>1. p - 1 \in DOMAIN lsm.l0 /\ lsm.l0[p - 1] \notin ToSet(t.upperIds)
          BY <3>2, <3>5, <4>5
        <5>2. p - 1 < q - 1
          BY <3>1, <3>5, <4>2, <5>1 DEF LevelsFit
        <5> QED BY <4>3, <5>2
      <4> QED BY <4>4, <4>5
    <3>6. strategy = "Leveled" =>
             \A id \in ToSet(lsm'.levels[t.lower]) \ ToSet(t.lowerIds) : Apart(sst'[id], M')
      <4>1. SUFFICES ASSUME strategy = "Leveled",
                            NEW id \in ToSet(lsm.levels[t.lower]) \ ToSet(t.lowerIds)
                     PROVE  Apart(sst'[id], M)
        BY <2>3, <3>2
      <4>2. Apart(sst[id], M)
        BY <3>1, <4>1 DEF LevelsFit
      <4>3. id \in Live(lsm)
        <5>1. t.lower \in DOMAIN lsm.levels
          BY <2>1, <2>6, <3>1, LevelInputs
        <5> QED BY <4>1, <5>1, TypedFacts
      <4>4. sst'[id] = sst[id]
        BY <4>3, FlushedStored
      <4> QED BY <4>2, <4>4
    <3>7. LevelsFit(t)'
      <4>1. /\ t.tiers = <<>>
            /\ t.lower \in 1 .. MaxLevels /\ t.upper < t.lower
            /\ t.upper > 0 => ToSet(t.upperIds) \subseteq ToSet(lsm.levels[t.upper])
            /\ ToSet(t.lowerIds) \subseteq ToSet(lsm.levels[t.lower])
            /\ strategy = "Simple" =>
                  /\ t.lower = t.upper + 1
                  /\ t.lowerIds = lsm.levels[t.lower]
                  /\ t.upper > 0 => t.upperIds = lsm.levels[t.upper]
                  /\ t.bottom => t.lower = MaxLevels /\ t.upper > 0
        BY <3>1 DEF LevelsFit
      <4> HIDE DEF t, M
      <4>2. (strategy = "Leveled" =>
                \A id \in ToSet(lsm.levels[t.lower]) \ ToSet(t.lowerIds) :
                    Apart(sst[id], Contents(Inputs(t))))'
        BY <1>1, <3>6 DEF M, t
      <4>3. t' = t
        BY DEF t
      <4> QED BY <1>1, <3>2, <3>4, <3>5, <4>1, <4>2 DEF LevelsFit
    <3> QED BY <1>1, <2>1, <2>4, <2>6, <3>7 DEF Fits
  <2> QED BY <2>5, <2>6
<1> QED BY <1>1, <1>3 DEF Scheduled

\* Reads at earlier times do not see the batch; those of now see it first.
LEMMA FlushReads ==
    ASSUME Typed, Places, IdsFresh, VersionsUnique, Reads, NEW batch, Flushed(batch)
    PROVE  Reads'
<1>1. /\ batch \in SUBSET Versions /\ Unique(batch) /\ \A v \in batch : v.ts = ts + 1
      /\ history' = history \cup batch
      /\ deleted' = (deleted \/ \E v \in batch : v.del)
      /\ ts' = ts + 1 /\ UNCHANGED <<strategy, watermark>>
  BY DEF Flushed
<1>2. SUFFICES ASSUME strategy = "Leveled" => ~deleted', WidthUnbounded
               PROVE  (SameReads /\ \A v \in history : v.ts <= ts)'
  BY <1>1 DEF Reads, WidthUnbounded
<1>3. SameReads /\ \A v \in history : v.ts <= ts
  BY <1>1, <1>2 DEF Reads
<1>4. Stored' = Stored \cup batch
  BY FlushedStored
<1>5. /\ ts \in Nat /\ watermark \in 0 .. ts
      /\ \A v \in Stored : v.ts \in Nat /\ v.ts <= ts
      /\ \A v \in history : v.ts \in Nat /\ v.ts <= ts
  <2>1. history \subseteq Versions /\ ts \in 0 .. MaxTs /\ MaxTs \in Nat /\ watermark \in 0 .. ts
    BY TypedFacts DEF Typed
  <2>2. \A v \in history : v.ts \in Nat
    BY <2>1 DEF Versions
  <2> QED BY <1>3, <2>1, <2>2, StoredFacts DEF VersionsUnique
\* What reads find in a set of versions that are all at or before ts, with the batch.
<1>6. ASSUME NEW S, NEW k, NEW x \in Nat, x <= ts PROVE ValueAt(S \cup batch, k, x) = ValueAt(S, k, x)
  <2>1. \A v \in batch : ~(v.ts <= x)
    BY <1>1, <1>5, <1>6
  <2> QED BY <2>1 DEF ValueAt
<1>7. ASSUME NEW S, \A v \in S : v.ts \in Nat /\ v.ts <= ts, NEW k
      PROVE  ValueAt(S \cup batch, k, ts + 1) =
                IF \E v \in batch : v.key = k THEN ValueAt(batch, k, ts + 1)
                ELSE ValueAt(S, k, ts)
  <2> DEFINE Newest(v, V) == /\ v \in V /\ v.key = k /\ v.ts <= ts + 1
                             /\ \A y \in V : y.key = k /\ y.ts <= ts + 1 => y.ts <= v.ts
  <2>1. \A V : ValueAt(V, k, ts + 1) = {v.ts : v \in {w \in V : Newest(w, V) /\ ~w.del}}
    BY DEF ValueAt
  <2>2. \A v \in S : v.ts <= ts + 1 /\ v.ts < ts + 1
    BY <1>5, <1>7
  <2>3. \A v \in batch : v.ts = ts + 1 /\ v.ts <= ts + 1 /\ v.ts \in Nat
    BY <1>1, <1>5
  <2>4. CASE \E v \in batch : v.key = k
    <3>1. PICK b \in batch : b.key = k
      BY <2>4
    <3>2. ASSUME NEW v \in S PROVE ~Newest(v, S \cup batch)
      <4>1. ~(b.ts <= v.ts) /\ b.ts <= ts + 1
        BY <1>5, <1>7, <2>3
      <4> QED BY <3>1, <4>1
    <3>3. ASSUME NEW v \in batch PROVE Newest(v, S \cup batch) <=> Newest(v, batch)
      BY <2>2, <2>3
    <3> HIDE DEF Newest
    <3>4. {w \in S \cup batch : Newest(w, S \cup batch) /\ ~w.del} =
             {w \in batch : Newest(w, batch) /\ ~w.del}
      BY <3>2, <3>3
    <3> QED BY <2>1, <2>4, <3>4
  <2>5. CASE ~ \E v \in batch : v.key = k
    <3>1. ValueAt(S, k, ts) =
             {v.ts : v \in {w \in S : /\ w.key = k /\ w.ts <= ts /\ ~w.del
                                      /\ \A y \in S : y.key = k /\ y.ts <= ts => y.ts <= w.ts}}
      BY DEF ValueAt
    <3>2. ASSUME NEW v \in S
          PROVE  Newest(v, S \cup batch) <=>
                    /\ v.key = k /\ v.ts <= ts
                    /\ \A y \in S : y.key = k /\ y.ts <= ts => y.ts <= v.ts
      BY <1>7, <2>2, <2>5
    <3>3. \A v \in batch : ~Newest(v, S \cup batch)
      BY <2>5
    <3> HIDE DEF Newest
    <3>4. {w \in S \cup batch : Newest(w, S \cup batch) /\ ~w.del} =
             {w \in S : /\ w.key = k /\ w.ts <= ts /\ ~w.del
                        /\ \A y \in S : y.key = k /\ y.ts <= ts => y.ts <= w.ts}
      BY <3>2, <3>3
    <3> QED BY <2>1, <2>5, <3>1, <3>4
  <2> QED BY <2>4, <2>5
<1>8. ASSUME NEW k \in Keys, NEW x \in watermark .. ts + 1
      PROVE  ValueAt(Stored \cup batch, k, x) = ValueAt(history \cup batch, k, x)
  <2>1. CASE x <= ts
    <3>1. ValueAt(Stored, k, x) = ValueAt(history, k, x)
      <4>1. x \in watermark .. ts
        BY <1>5, <2>1
      <4> QED BY <1>3, <4>1 DEF SameReads, Stored
    <3>2. x \in Nat
      BY <1>5
    <3> QED BY <1>6, <2>1, <3>1, <3>2
  <2>2. CASE x = ts + 1
    <3>1. ValueAt(Stored, k, ts) = ValueAt(history, k, ts)
      <4>1. ts \in watermark .. ts
        BY <1>5
      <4> QED BY <1>3, <4>1 DEF SameReads, Stored
    <3>2. ValueAt(Stored \cup batch, k, ts + 1) =
             IF \E v \in batch : v.key = k THEN ValueAt(batch, k, ts + 1)
             ELSE ValueAt(Stored, k, ts)
      BY <1>5, <1>7
    <3>3. ValueAt(history \cup batch, k, ts + 1) =
             IF \E v \in batch : v.key = k THEN ValueAt(batch, k, ts + 1)
             ELSE ValueAt(history, k, ts)
      BY <1>5, <1>7
    <3> QED BY <2>2, <3>1, <3>2, <3>3
  <2>3. x <= ts \/ x = ts + 1
    BY <1>5
  <2> QED BY <2>1, <2>2, <2>3
<1>9. SameReads'
  <2>1. Contents(Live(lsm))' = Stored \cup batch
    BY <1>4 DEF Stored
  <2> QED BY <1>1, <1>8, <2>1 DEF SameReads, ValueAt
<1>10. \A v \in history \cup batch : v.ts <= ts + 1
  BY <1>1, <1>5
<1> QED BY <1>1, <1>9, <1>10

LEMMA FlushKeeps ==
    ASSUME IInv, Flush
    PROVE  IInv'
<1>1. /\ Typed /\ Places /\ IdsFresh /\ Replays /\ VersionsUnique
      /\ LevelsFollow /\ PlacesAge /\ Scheduled /\ Reads
  BY DEF IInv
<1>2. PICK batch : Flushed(batch)
  BY <1>1, FlushDoes
<1>3. Typed' /\ IdsFresh' /\ VersionsUnique'
  BY <1>1, <1>2, FlushTyped
<1>4. Places' /\ LevelsFollow' /\ PlacesAge'
  BY <1>1, <1>2, FlushPlaces, FlushAges
<1>5. Replays'
  <2>1. replayed' \in [state : LsmState, maxId : Nat]
    BY <1>3 DEF Typed
  <2> QED BY <1>1, <1>2, <2>1, FlushReplays
<1>6. Scheduled' /\ Reads'
  BY <1>1, <1>2, FlushScheduled, FlushReads
<1> QED BY <1>3, <1>4, <1>5, <1>6 DEF IInv

-----------------------------------------------------------------------------
(* Compact: the task fits the levels.                                      *)

\* Whole levels, as the simple leveled controller merges them.
LEMMA SimpleFits ==
    ASSUME Typed, Places, strategy = "Simple", NEW t \in Task
    PROVE  t \in Tasks /\ Fits(t)
<1>1. /\ MaxLevels \in Nat \ {0} /\ DOMAIN lsm.levels = 1 .. MaxLevels
      /\ lsm.l0 \in Seq(Nat) /\ \A i \in 1 .. MaxLevels : lsm.levels[i] \in Seq(Nat)
  <2>1. Len(lsm.levels) = MaxLevels
    BY DEF Places
  <2> QED BY <2>1, TypedFacts
<1>2. t \in SimpleTask
  BY DEF Task
<1>3. <<>> \in Seq(Seq(Nat))
  OBVIOUS
<1>4. CASE Len(lsm.l0) >= Trigger
  <2>1. t = [upper |-> 0, upperIds |-> lsm.l0, lower |-> 1, lowerIds |-> lsm.levels[1],
             tiers |-> <<>>, bottom |-> FALSE]
    BY <1>2, <1>4 DEF SimpleTask, LevelTask
  <2>2. 1 \in 1 .. MaxLevels /\ 1 \in 0 .. MaxLevels /\ 0 \in 0 .. MaxLevels
    BY <1>1
  <2>3. t \in Tasks
    BY <1>1, <1>3, <2>1, <2>2 DEF Tasks
  <2>4. /\ t.upper = 0 /\ t.lower = 1 /\ t.upperIds = lsm.l0 /\ t.lowerIds = lsm.levels[1]
        /\ t.tiers = <<>> /\ t.bottom = FALSE
    BY <2>1
  <2>5. \A p, q \in DOMAIN lsm.l0 :
           lsm.l0[p] \notin ToSet(lsm.l0) /\ lsm.l0[q] \in ToSet(lsm.l0) => p < q
    BY DEF ToSet
  <2>6. LevelsFit(t)
    BY <2>2, <2>4, <2>5 DEF LevelsFit
  <2> QED BY <2>3, <2>6 DEF Fits
<1>5. CASE ~(Len(lsm.l0) >= Trigger)
  <2>1. PICK i \in 1 .. MaxLevels - 1 :
           t = LevelTask(i, lsm.levels[i], i + 1, lsm.levels[i + 1])
    BY <1>2, <1>5 DEF SimpleTask
  <2>2. /\ i \in 1 .. MaxLevels /\ i \in 0 .. MaxLevels /\ i < i + 1 /\ i > 0 /\ i # 0
        /\ i + 1 \in 1 .. MaxLevels /\ i + 1 \in 0 .. MaxLevels
    BY <1>1, <2>1
  <2>3. /\ t = [upper |-> i, upperIds |-> lsm.levels[i], lower |-> i + 1,
                lowerIds |-> lsm.levels[i + 1], tiers |-> <<>>, bottom |-> i + 1 = MaxLevels]
    BY <2>1 DEF LevelTask
  <2>4. t \in Tasks
    BY <1>1, <1>3, <2>2, <2>3 DEF Tasks
  <2>5. /\ t.upper = i /\ t.lower = i + 1 /\ t.upperIds = lsm.levels[i]
        /\ t.lowerIds = lsm.levels[i + 1]
        /\ t.tiers = <<>> /\ t.bottom = (i + 1 = MaxLevels)
    BY <2>3
  <2>6. LevelsFit(t)
    BY <2>2, <2>5 DEF LevelsFit
  <2> QED BY <2>4, <2>6 DEF Fits
<1> QED BY <1>4, <1>5

\* The first m tiers.
LEMMA FirstTiersFit ==
    ASSUME Typed, strategy = "Tiered", NEW m \in 1 .. Len(lsm.levels), NEW bottom \in BOOLEAN,
           bottom /\ WidthUnbounded => m = Len(lsm.levels)
    PROVE  /\ TierTask(SubSeq(lsm.levels, 1, m), bottom) \in Tasks
           /\ Fits(TierTask(SubSeq(lsm.levels, 1, m), bottom))
<1> DEFINE n == Len(lsm.levels)
           front == SubSeq(lsm.levels, 1, m)
           t == TierTask(front, bottom)
<1>1. MaxLevels \in Nat /\ n \in Nat /\ lsm.levels \in Seq(Seq(Nat))
  BY TypedFacts
<1>2. /\ front \in Seq(Seq(Nat)) /\ Len(front) = m /\ DOMAIN front = 1 .. m
      /\ \A i \in 1 .. m : front[i] = lsm.levels[i]
  <2>1. m \in 0 .. Len(lsm.levels)
    BY <1>1
  <2> QED BY <1>1, <2>1, PrefixOf
<1> HIDE DEF front
<1>3. t = [upper |-> 0, upperIds |-> <<>>, lower |-> 0, lowerIds |-> <<>>,
           tiers |-> front, bottom |-> bottom]
  BY DEF TierTask
<1> HIDE DEF t
<1>4. t \in Tasks
  <2>1. 0 \in 0 .. MaxLevels /\ <<>> \in Seq(Nat)
    BY <1>1
  <2> QED BY <1>2, <1>3, <2>1 DEF Tasks
<1>5. t.upperIds = <<>> /\ t.lowerIds = <<>> /\ t.tiers = front /\ t.bottom = bottom
  BY <1>3
<1>6. front # <<>>
  BY <1>1, <1>2
<1>7. \A i \in 1 .. m : front[i] = lsm.levels[0 + i]
  BY <1>1, <1>2
<1>8. 0 \in 0 .. n /\ 0 + m <= n /\ 0 + m = m
  BY <1>1
<1>9. TiersFit(t)
  <2>1. bottom /\ WidthUnbounded => 0 + m = n
    BY <1>8
  <2>2. /\ 0 \in 0 .. Len(lsm.levels) /\ 0 + Len(t.tiers) <= Len(lsm.levels)
        /\ \A i \in DOMAIN t.tiers : t.tiers[i] = lsm.levels[0 + i]
        /\ t.bottom /\ WidthUnbounded => 0 + Len(t.tiers) = Len(lsm.levels)
    BY <1>2, <1>5, <1>7, <1>8, <2>1
  <2> QED BY <1>5, <1>6, <2>2 DEF TiersFit
<1> QED BY <1>4, <1>9 DEF Fits, t, front

\* Every tier has a version of a time of its own.
LEMMA TiersBounded ==
    ASSUME Typed, Places, PlacesAge, strategy = "Tiered"
    PROVE  Len(lsm.levels) <= MaxTs
<1> DEFINE n == Len(lsm.levels)
           C(i) == Contents(ToSet(lsm.levels[i]))
           time == [i \in 1 .. n |-> CHOOSE x \in 1 .. MaxTs : \E v \in C(i) : v.ts = x]
<1>1. n \in Nat /\ MaxTs \in Nat /\ DOMAIN lsm.levels = 1 .. n
  BY TypedFacts
<1>2. ASSUME NEW i \in 1 .. n PROVE \E x \in 1 .. MaxTs : \E v \in C(i) : v.ts = x
  <2>1. ToSet(lsm.levels[i]) # {} /\ ToSet(lsm.levels[i]) \in SUBSET Live(lsm)
    BY <1>1, TiersDistinct, TypedFacts
  <2>2. PICK id \in ToSet(lsm.levels[i]) : id \in Live(lsm)
    BY <2>1
  <2>3. PICK v \in sst[id] : v \in Versions
    BY <2>2, TypedFacts
  <2>4. v \in C(i) /\ v.ts \in 1 .. MaxTs
    BY <2>2, <2>3 DEF Contents, Versions
  <2> HIDE DEF C
  <2> QED BY <2>4
<1>3. \A i, k \in 1 .. n : i < k => Later(C(i), C(k))
  BY <1>1 DEF PlacesAge
<1> HIDE DEF C, n
<1>4. \A i \in 1 .. n : time[i] \in 1 .. MaxTs /\ \E v \in C(i) : v.ts = time[i]
  BY <1>2
<1>5. time \in [1 .. n -> 1 .. MaxTs]
  BY <1>4
<1> HIDE DEF time
<1>6. ASSUME NEW i \in 1 .. n, NEW k \in 1 .. n, i < k PROVE time[i] # time[k]
  <2>1. PICK v \in C(i) : v.ts = time[i]
    BY <1>4
  <2>2. PICK w \in C(k) : w.ts = time[k]
    BY <1>4
  <2>3. time[k] < time[i] /\ time[i] \in Nat
    BY <1>3, <1>4, <1>6, <2>1, <2>2 DEF Later
  <2> QED BY <2>3
<1>7. ASSUME NEW i \in 1 .. n, NEW k \in 1 .. n, time[i] = time[k] PROVE i = k
  BY <1>1, <1>6, <1>7
<1>8. time \in Injection(1 .. n, 1 .. MaxTs)
  BY <1>5, <1>7 DEF Injection, IsInjective
<1>9. /\ IsFiniteSet(1 .. MaxTs) /\ Cardinality(1 .. MaxTs) = MaxTs
      /\ Cardinality(1 .. n) = n
  <2>1. \A k \in Nat : IsFiniteSet(1 .. k) /\ Cardinality(1 .. k) = k
    BY FS_Interval
  <2> QED BY <1>1, <2>1
<1>10. Cardinality(1 .. n) <= Cardinality(1 .. MaxTs)
  BY <1>8, <1>9, FS_Injection
<1> QED BY <1>9, <1>10 DEF n

\* A block of tiers from the first on; what is called the bottom is all of them,
\* unless max_merge_width cuts it off.
LEMMA TieredFits ==
    ASSUME Typed, Places, PlacesAge, strategy = "Tiered", NEW t \in Task
    PROVE  t \in Tasks /\ Fits(t)
<1> DEFINE n == Len(lsm.levels)
           Upto(i) == SubSeq(lsm.levels, 1, i)
           width == Min({n, MaxMergeWidth})
<1>1. /\ n \in Nat /\ NumTiers \in Nat \ {0} /\ MaxMergeWidth \in Nat \ {0} /\ MaxTs \in Nat
      /\ lsm.levels \in Seq(Seq(Nat))
  BY TypedFacts, LevelsAssumption
<1>2. t \in TieredTask
  BY DEF Task
<1>3. ~(n < NumTiers)
  BY <1>2 DEF TieredTask
<1>4. n \in 1 .. n
  BY <1>1, <1>3
<1>5. Upto(n) = lsm.levels
  BY <1>1
<1>6. n <= MaxTs
  BY TiersBounded
<1>7. width \in 1 .. n /\ (WidthUnbounded => width = n)
  <2> DEFINE S == {n, MaxMergeWidth}
  <2>1. S \in SUBSET Nat /\ S # {}
    BY <1>1
  <2>2. Min(S) \in S /\ \A x \in S : Min(S) <= x
    <3> HIDE DEF S
    <3> QED BY <2>1, MinOf
  <2>3. width \in {n, MaxMergeWidth} /\ width <= n /\ width <= MaxMergeWidth
    BY <2>2
  <2> HIDE DEF width, n
  <2>4. WidthUnbounded => n <= MaxMergeWidth
    BY <1>1, <1>6 DEF WidthUnbounded
  <2> QED BY <1>1, <1>4, <2>3, <2>4
<1>8. \/ t = TierTask(lsm.levels, TRUE)
      \/ \E i \in 1 .. n - 1 : t = TierTask(Upto(i), FALSE)
      \/ t = TierTask(Upto(width), n >= width)
  <2> DEFINE Files(i) == Len(FlattenSeq(Upto(i)))
             large == {i \in 1 .. n - 1 :
                          /\ i >= MinMergeWidth
                          /\ Len(lsm.levels[i + 1]) * 100 > Files(i) * (100 + SizeRatio)}
  <2>1. \/ t = TierTask(lsm.levels, TRUE)
        \/ large # {} /\ t = TierTask(Upto(Min(large)), FALSE)
        \/ t = TierTask(Upto(width), n >= width)
    BY <1>2 DEF TieredTask
  <2>2. large # {} => Min(large) \in large
    <3>1. large \in SUBSET Nat
      BY <1>1
    <3> HIDE DEF large
    <3> QED BY <3>1, MinOf
  <2>3. large \subseteq 1 .. n - 1
    OBVIOUS
  <2> HIDE DEF large, Upto, width
  <2> QED BY <2>1, <2>2, <2>3
<1> HIDE DEF width
<1>9. CASE t = TierTask(lsm.levels, TRUE)
  BY <1>4, <1>5, <1>9, FirstTiersFit
<1>10. CASE \E i \in 1 .. n - 1 : t = TierTask(Upto(i), FALSE)
  <2>1. PICK i \in 1 .. n - 1 : t = TierTask(Upto(i), FALSE)
    BY <1>10
  <2>2. i \in 1 .. n
    BY <1>1
  <2> QED BY <2>1, <2>2, FirstTiersFit
<1>11. CASE t = TierTask(Upto(width), n >= width)
  <2>1. (n >= width) \in BOOLEAN
    OBVIOUS
  <2> QED BY <1>7, <1>11, <2>1, FirstTiersFit
<1> QED BY <1>8, <1>9, <1>10, <1>11

\* There are finitely many versions.
LEMMA VersionsFinite == IsFiniteSet(Versions)
<1> DEFINE Stamps == (1 .. MaxTs) \X BOOLEAN
           All == Keys \X Stamps
           version == [p \in All |-> [key |-> p[1], ts |-> p[2][1], del |-> p[2][2]]]
<1>1. NumKeys \in Nat /\ MaxTs \in Nat
  BY LevelsAssumption
<1>2. \A k \in Nat : IsFiniteSet(1 .. k)
  BY FS_Interval
<1>3. IsFiniteSet(BOOLEAN)
  <2>1. BOOLEAN = {TRUE, FALSE}
    OBVIOUS
  <2>2. IsFiniteSet({TRUE}) /\ IsFiniteSet({FALSE})
    BY FS_Singleton
  <2>3. IsFiniteSet({TRUE} \cup {FALSE})
    BY <2>2, FS_Union
  <2>4. {TRUE} \cup {FALSE} = BOOLEAN
    BY <2>1
  <2> QED BY <2>3, <2>4
<1>4. IsFiniteSet(Stamps)
  <2>1. IsFiniteSet(1 .. MaxTs)
    BY <1>1, <1>2
  <2> QED BY <1>3, <2>1, FS_Product
<1>5. IsFiniteSet(All)
  <2>1. IsFiniteSet(Keys)
    BY <1>1, <1>2 DEF Keys
  <2> HIDE DEF Stamps
  <2> QED BY <1>4, <2>1, FS_Product
<1>6. version \in Surjection(All, Versions)
  <2>1. version \in [All -> Versions]
    BY DEF Versions
  <2>2. ASSUME NEW v \in Versions PROVE \E p \in All : version[p] = v
    <3> DEFINE p == <<v.key, <<v.ts, v.del>>>>
    <3>1. p \in All
      BY DEF Versions
    <3>2. version[p] = [key |-> v.key, ts |-> v.ts, del |-> v.del]
      BY <3>1
    <3>3. v = [key |-> v.key, ts |-> v.ts, del |-> v.del]
      BY DEF Versions
    <3> HIDE DEF version, p
    <3> QED BY <3>1, <3>2, <3>3
  <2> HIDE DEF version, All
  <2> QED BY <2>1, <2>2 DEF Surjection
<1> HIDE DEF version, All
<1> QED BY <1>5, <1>6, FS_Surjection

\* So a level has a size, and tables if that is not 0.
LEMMA SizeOf ==
    ASSUME Typed, NEW i \in DOMAIN lsm.levels
    PROVE  /\ Size(lsm.levels[i]) \in Nat
           /\ Size(lsm.levels[i]) # 0 => ToSet(lsm.levels[i]) # {}
<1> DEFINE C == Contents(ToSet(lsm.levels[i]))
<1>1. C \in SUBSET Versions
  <2>1. ToSet(lsm.levels[i]) \in SUBSET Live(lsm)
    BY TypedFacts
  <2> QED BY <2>1, StoredFacts
<1>2. IsFiniteSet(C)
  BY <1>1, VersionsFinite, FS_Subset
<1>3. ToSet(lsm.levels[i]) = {} => C = {}
  BY DEF Contents
<1>4. Cardinality({}) = 0
  BY FS_EmptySet
<1>5. Size(lsm.levels[i]) = Cardinality(C)
  BY DEF Size
<1> HIDE DEF C
<1>6. Cardinality(C) \in Nat
  BY <1>2, FS_CardinalityType
<1>7. ToSet(lsm.levels[i]) = {} => Cardinality(C) = 0
  BY <1>3, <1>4
<1> QED BY <1>5, <1>6, <1>7

\* The target sizes are numbers, and the last level never exceeds its own.
LEMMA TargetsOf ==
    ASSUME Typed, DOMAIN lsm.levels = 1 .. MaxLevels
    PROVE  /\ \A i \in 1 .. MaxLevels : TargetSizes[i] \in Nat
           /\ Size(lsm.levels[MaxLevels]) <= TargetSizes[MaxLevels]
<1> DEFINE M == MaxLevels
           last == Max({Size(lsm.levels[M]), BaseLevelSize})
           step(f, i) == IF i = M THEN last
                         ELSE IF f[i + 1] > BaseLevelSize THEN f[i + 1] \div Multiplier ELSE 0
           Solves(f, d) == f = [i \in M - d .. M |-> step(f, i)]
           unsolved == {d \in 0 .. M - 1 : \A f : ~Solves(f, d)}
           target == CHOOSE f : f = [i \in 1 .. M |-> step(f, i)]
<1>1. /\ M \in Nat \ {0} /\ BaseLevelSize \in Nat /\ Multiplier \in Nat \ {0}
      /\ Size(lsm.levels[M]) \in Nat
  <2>1. M \in Nat \ {0} /\ BaseLevelSize \in Nat /\ Multiplier \in Nat \ {0}
    BY LevelsAssumption
  <2> QED BY <2>1, SizeOf
<1>2. last \in Nat /\ Size(lsm.levels[M]) <= last
  <2> DEFINE S == {Size(lsm.levels[M]), BaseLevelSize}
  <2>1. /\ S \in SUBSET Nat /\ S # {} /\ Size(lsm.levels[M]) + BaseLevelSize \in Nat
        /\ \A x \in S : x <= Size(lsm.levels[M]) + BaseLevelSize
    BY <1>1
  <2>2. Max(S) \in S /\ \A x \in S : x <= Max(S)
    <3> HIDE DEF S
    <3> QED BY <2>1, MaxOf
  <2> QED BY <2>1, <2>2
<1>3. TargetSizes = target
  BY DEF TargetSizes
<1> HIDE DEF last, M
<1>4. \A f : Solves(f, M - 1) <=> f = [i \in 1 .. M |-> step(f, i)]
  <2>1. M - (M - 1) = 1
    BY <1>1
  <2> QED BY <2>1
\* There is a function that solves the equations: the least d without one would
\* have one, an extension of the function of d - 1.
<1>5. unsolved = {}
  <2>1. SUFFICES ASSUME unsolved # {} PROVE FALSE
    OBVIOUS
  <2> DEFINE d == Min(unsolved)
  <2>2. d \in unsolved /\ d \in 0 .. M - 1 /\ d \in Nat /\ \A x \in unsolved : d <= x
    <3>1. unsolved \in SUBSET Nat
      BY <1>1
    <3>2. \A x \in unsolved : x \in 0 .. M - 1
      OBVIOUS
    <3> HIDE DEF unsolved
    <3>3. d \in unsolved /\ \A x \in unsolved : d <= x
      BY <2>1, <3>1, MinOf
    <3> HIDE DEF d
    <3> QED BY <3>1, <3>2, <3>3
  <2> HIDE DEF d
  <2>3. d # 0
    <3>1. ASSUME d = 0 PROVE Solves([i \in M - 0 .. M |-> last], d)
      <4> DEFINE f == [i \in M - 0 .. M |-> last]
      <4>1. \A i \in M - 0 .. M : step(f, i) = last
        BY <1>1
      <4> HIDE DEF step
      <4> QED BY <3>1, <4>1
    <3> QED BY <2>2, <3>1
  <2>4. d - 1 \in 0 .. M - 1 /\ d - 1 \notin unsolved
    <3>1. d - 1 \in 0 .. M - 1 /\ ~(d <= d - 1)
      BY <1>1, <2>2, <2>3
    <3> HIDE DEF unsolved
    <3> QED BY <2>2, <3>1
  <2>5. PICK f : Solves(f, d - 1)
    BY <2>4
  <2> DEFINE k == M - d
             new == IF f[k + 1] > BaseLevelSize THEN f[k + 1] \div Multiplier ELSE 0
             g == [i \in k .. M |-> IF i = k THEN new ELSE f[i]]
  <2>6. /\ k \in Nat /\ M \in Nat /\ k < M /\ M - (d - 1) = k + 1 /\ k # M
    BY <1>1, <2>2, <2>3
  <2>7. f = [i \in k + 1 .. M |-> step(f, i)]
    BY <2>5, <2>6
  <2> HIDE DEF k, new
  <2>8. \A i \in k + 1 .. M : f[i] = step(f, i)
    <3> HIDE DEF step
    <3> QED BY <2>7
  <2>9. ASSUME NEW i \in k .. M PROVE g[i] = step(g, i)
    <3>1. CASE i = k
      <4>1. g[k + 1] = f[k + 1] /\ g[k] = new
        BY <2>6
      <4> QED BY <2>6, <3>1, <4>1 DEF new
    <3>2. CASE i # k
      <4>1. i \in k + 1 .. M
        BY <2>6, <3>2
      <4>2. g[i] = step(f, i)
        BY <2>8, <3>2, <4>1
      <4>3. i # M => g[i + 1] = f[i + 1]
        BY <2>6, <4>1
      <4> QED BY <4>2, <4>3
    <3> QED BY <3>1, <3>2
  <2>10. Solves(g, d)
    <3>1. g = [i \in k .. M |-> g[i]]
      OBVIOUS
    <3> HIDE DEF g, step
    <3>2. [i \in k .. M |-> g[i]] = [i \in k .. M |-> step(g, i)]
      BY <2>9
    <3> QED BY <3>1, <3>2 DEF k
  <2> HIDE DEF g, Solves
  <2> QED BY <2>2, <2>10
<1>6. \E f : f = [i \in 1 .. M |-> step(f, i)]
  <2>1. M - 1 \in 0 .. M - 1
    BY <1>1
  <2>2. M - 1 \notin unsolved
    BY <1>5
  <2> HIDE DEF Solves
  <2>3. \E f : Solves(f, M - 1)
    BY <2>1, <2>2
  <2> QED BY <1>4, <2>3
<1>7. target = [i \in 1 .. M |-> step(target, i)]
  BY <1>6
<1> HIDE DEF target, unsolved
<1>8. \A i \in 1 .. M : target[i] = step(target, i)
  <2> HIDE DEF step
  <2> QED BY <1>7
\* There is no last level whose target is not a number.
<1> DEFINE wrong == {d \in 0 .. M - 1 : target[M - d] \notin Nat}
<1>9. wrong = {}
  <2>1. SUFFICES ASSUME wrong # {} PROVE FALSE
    OBVIOUS
  <2> DEFINE d == Min(wrong)
  <2>2. d \in wrong /\ d \in 0 .. M - 1 /\ \A x \in wrong : d <= x
    <3>1. wrong \in SUBSET Nat
      BY <1>1
    <3>2. \A x \in wrong : x \in 0 .. M - 1
      OBVIOUS
    <3> HIDE DEF wrong
    <3> QED BY <2>1, <3>1, <3>2, MinOf
  <2> HIDE DEF d
  <2>3. target[M - d] \notin Nat /\ M - d \in 1 .. M
    BY <1>1, <2>2
  <2>4. d # 0
    <3>1. M - 0 = M /\ M \in 1 .. M
      BY <1>1
    <3>2. target[M] = last
      BY <1>8, <3>1
    <3> QED BY <1>2, <2>3, <3>1, <3>2
  <2>5. d - 1 \in 0 .. M - 1 /\ M - (d - 1) = (M - d) + 1 /\ d - 1 \notin wrong /\ M - d # M
    BY <1>1, <2>2, <2>4
  <2>6. target[(M - d) + 1] \in Nat
    BY <2>5
  <2>7. target[M - d] = IF target[(M - d) + 1] > BaseLevelSize
                        THEN target[(M - d) + 1] \div Multiplier ELSE 0
    BY <1>8, <2>3, <2>5
  <2>8. \A x \in Nat, m \in Nat \ {0} : x \div m \in Nat
    OBVIOUS
  <2> QED BY <1>1, <2>3, <2>6, <2>7, <2>8
<1>10. ASSUME NEW i \in 1 .. M PROVE target[i] \in Nat
  <2>1. M - i \in 0 .. M - 1 /\ M - (M - i) = i
    BY <1>1
  <2> QED BY <1>9, <2>1
<1>11. target[M] = last
  <2>1. M \in 1 .. M
    BY <1>1
  <2> QED BY <1>8, <2>1
<1> QED BY <1>2, <1>3, <1>10, <1>11 DEF M

\* The base level is a level.
LEMMA BaseLevelOf ==
    ASSUME Typed
    PROVE  BaseLevel \in 1 .. MaxLevels
<1> DEFINE S == {MaxLevels} \cup {i \in 1 .. MaxLevels : TargetSizes[i] > 0}
<1>1. MaxLevels \in Nat \ {0}
  BY TypedFacts
<1>2. S \in SUBSET Nat /\ S # {} /\ \A x \in S : x \in 1 .. MaxLevels
  BY <1>1
<1>3. BaseLevel = Min(S)
  BY DEF BaseLevel
<1> HIDE DEF S
<1>4. Min(S) \in S
  BY <1>2, MinOf
<1> QED BY <1>2, <1>3, <1>4

\* The order of Key is transitive.
LEMMA BeforeTransitive ==
    ASSUME NEW u \in Versions, NEW v \in Versions, NEW w \in Versions, Before(u, v), Before(v, w)
    PROVE  Before(u, w)
<1>1. /\ u.key \in Nat /\ v.key \in Nat /\ w.key \in Nat
      /\ u.ts \in Nat /\ v.ts \in Nat /\ w.ts \in Nat
  BY LevelsAssumption DEF Versions, Keys
<1> QED BY <1>1 DEF Before

\* The first and the last version of some tables.
LEMMA EndsOf ==
    ASSUME Typed, VersionsUnique, NEW S, S \subseteq Stored, S # {}
    PROVE  /\ S \in SUBSET Versions
           /\ FirstKey(S) \in S /\ \A w \in S : w = FirstKey(S) \/ Before(FirstKey(S), w)
           /\ LastKey(S) \in S /\ \A w \in S : w = LastKey(S) \/ Before(w, LastKey(S))
<1>1. S \in SUBSET Versions /\ Unique(S)
  BY StoredFacts DEF VersionsUnique, Unique
<1> QED BY <1>1, FirstKeyOf, LastKeyOf

\* A set that ends before another one starts comes before it.
LEMMA EndsBefore ==
    ASSUME Typed, VersionsUnique, NEW S, S \subseteq Stored, S # {},
           NEW T, T \subseteq Stored, T # {}, Before(LastKey(S), FirstKey(T))
    PROVE  Follows(S, T)
<1>1. S \in SUBSET Versions /\ LastKey(S) \in S /\ \A w \in S : w = LastKey(S) \/ Before(w, LastKey(S))
  BY EndsOf
<1>2. T \in SUBSET Versions /\ FirstKey(T) \in T /\ \A w \in T : w = FirstKey(T) \/ Before(FirstKey(T), w)
  BY EndsOf
<1>3. ASSUME NEW v \in S, NEW w \in T PROVE Before(v, w)
  <2>1. /\ v \in Versions /\ w \in Versions /\ LastKey(S) \in Versions /\ FirstKey(T) \in Versions
    BY <1>1, <1>2
  <2>2. v = LastKey(S) \/ Before(v, LastKey(S))
    BY <1>1
  <2>3. w = FirstKey(T) \/ Before(FirstKey(T), w)
    BY <1>2
  <2>4. Before(v, FirstKey(T))
    BY <2>1, <2>2, BeforeTransitive
  <2> QED BY <2>1, <2>3, <2>4, BeforeTransitive
<1> QED BY <1>3 DEF Follows

\* The tables that overlap the range of the tables ids; the others are apart from
\* those and from all that overlap.
LEMMA OverlappingOf ==
    ASSUME Typed, VersionsUnique, LevelsFollow, NEW ids \in SUBSET Live(lsm), ids # {},
           NEW i \in DOMAIN lsm.levels
    PROVE  /\ Overlapping(ids, i) \in Seq(Nat)
           /\ ToSet(Overlapping(ids, i)) \subseteq ToSet(lsm.levels[i])
           /\ \A id \in ToSet(lsm.levels[i]) \ ToSet(Overlapping(ids, i)) :
                 Apart(sst[id], Contents(ids \cup ToSet(Overlapping(ids, i))))
<1> DEFINE level == ToSet(lsm.levels[i])
           U == Contents(ids)
           begin == FirstKey(U)
           end == LastKey(U)
           gone == {id \in level : Before(LastKey(sst[id]), begin) \/ Before(end, FirstKey(sst[id]))}
           over == ToSet(Overlapping(ids, i))
<1>1. Overlapping(ids, i) = Without(lsm.levels[i], gone)
  BY DEF Overlapping
<1>2. lsm.levels[i] \in Seq(Nat) /\ level \in SUBSET Live(lsm)
  BY TypedFacts
<1>3. Overlapping(ids, i) \in Seq(Nat) /\ over = level \ gone
  <2> HIDE DEF gone
  <2> QED BY <1>1, <1>2, WithoutKeeps
<1>4. \A id \in Live(lsm) : sst[id] \subseteq Stored /\ sst[id] # {} /\ sst[id] \in SUBSET Versions
  BY TypedFacts, StoredFacts
<1>5. U \subseteq Stored /\ U # {}
  <2>1. PICK id \in ids : id \in Live(lsm)
    OBVIOUS
  <2>2. sst[id] \subseteq U
    BY <2>1 DEF Contents
  <2> HIDE DEF U
  <2>3. U # {}
    BY <1>4, <2>1, <2>2
  <2> QED BY <2>3, StoredFacts DEF U
<1>6. /\ U \in SUBSET Versions /\ begin \in U /\ end \in U
  BY <1>5, EndsOf
<1> HIDE DEF U, begin, end, over
<1>7. ASSUME NEW id \in level \ over
      PROVE  Apart(sst[id], Contents(ids \cup over))
  <2>1. id \in gone /\ id \in Live(lsm) /\ id \in level
    BY <1>2, <1>3
  <2>2. /\ LastKey(sst[id]) \in sst[id] /\ FirstKey(sst[id]) \in sst[id]
        /\ sst[id] \in SUBSET Versions
    BY <1>4, <2>1, EndsOf
  <2>3. ASSUME NEW y \in over
        PROVE  /\ Apart(sst[id], sst[y]) /\ y \in Live(lsm)
               /\ ~Before(LastKey(sst[y]), begin) /\ ~Before(end, FirstKey(sst[y]))
               /\ LastKey(sst[y]) \in sst[y] /\ FirstKey(sst[y]) \in sst[y]
               /\ sst[y] \in SUBSET Versions
    <3>1. y \in level /\ y \notin gone /\ y \in Live(lsm) /\ y # id
      BY <1>2, <1>3, <2>1
    <3>2. Apart(sst[id], sst[y])
      BY <2>1, <3>1, LevelsApart
    <3>3. /\ LastKey(sst[y]) \in sst[y] /\ FirstKey(sst[y]) \in sst[y]
          /\ sst[y] \in SUBSET Versions
      BY <1>4, <3>1, EndsOf
    <3> QED BY <3>1, <3>2, <3>3
  <2>4. \A v \in Contents(ids \cup over) : v \in U \/ \E y \in over : v \in sst[y]
    BY DEF Contents, U
  <2> HIDE DEF level
  <2>5. CASE Before(LastKey(sst[id]), begin)
    <3>1. Follows(sst[id], U)
      BY <1>4, <1>5, <2>1, <2>5, EndsBefore DEF begin
    <3>2. ASSUME NEW y \in over PROVE Follows(sst[id], sst[y])
      <4>1. ASSUME Follows(sst[y], sst[id]) PROVE FALSE
        <5>1. Before(LastKey(sst[y]), LastKey(sst[id]))
          BY <2>2, <2>3, <4>1 DEF Follows
        <5>2. /\ LastKey(sst[y]) \in Versions /\ LastKey(sst[id]) \in Versions
              /\ begin \in Versions
          BY <1>6, <2>2, <2>3
        <5>3. Before(LastKey(sst[y]), begin)
          BY <2>5, <5>1, <5>2, BeforeTransitive
        <5> QED BY <2>3, <5>3
      <4> QED BY <2>3, <4>1 DEF Apart
    <3>3. Follows(sst[id], Contents(ids \cup over))
      BY <2>4, <3>1, <3>2 DEF Follows
    <3> QED BY <3>3 DEF Apart
  <2>6. CASE Before(end, FirstKey(sst[id]))
    <3>1. Follows(U, sst[id])
      BY <1>4, <1>5, <2>1, <2>6, EndsBefore DEF end
    <3>2. ASSUME NEW y \in over PROVE Follows(sst[y], sst[id])
      <4>1. ASSUME Follows(sst[id], sst[y]) PROVE FALSE
        <5>1. Before(FirstKey(sst[id]), FirstKey(sst[y]))
          BY <2>2, <2>3, <4>1 DEF Follows
        <5>2. /\ FirstKey(sst[y]) \in Versions /\ FirstKey(sst[id]) \in Versions
              /\ end \in Versions
          BY <1>6, <2>2, <2>3
        <5>3. Before(end, FirstKey(sst[y]))
          BY <2>6, <5>1, <5>2, BeforeTransitive
        <5> QED BY <2>3, <5>3
      <4> QED BY <2>3, <4>1 DEF Apart
    <3>3. Follows(Contents(ids \cup over), sst[id])
      BY <2>4, <3>1, <3>2 DEF Follows
    <3> QED BY <3>3 DEF Apart
  <2> QED BY <2>1, <2>5, <2>6
<1> QED BY <1>3, <1>7 DEF over

\* Tables of the upper level with all those of the lower that they overlap.
LEMMA LeveledTaskFits ==
    ASSUME Typed, Places, VersionsUnique, LevelsFollow, strategy = "Leveled",
           NEW i \in 0 .. MaxLevels, NEW k \in 1 .. MaxLevels, i < k,
           NEW f \in Seq(Nat), ToSet(f) # {},
           ToSet(f) \subseteq ToSet(IF i = 0 THEN lsm.l0 ELSE lsm.levels[i]),
           i = 0 => f = lsm.l0
    PROVE  /\ LevelTask(i, f, k, Overlapping(ToSet(f), k)) \in Tasks
           /\ Fits(LevelTask(i, f, k, Overlapping(ToSet(f), k)))
<1> DEFINE over == Overlapping(ToSet(f), k)
           t == LevelTask(i, f, k, over)
<1>1. /\ MaxLevels \in Nat \ {0} /\ DOMAIN lsm.levels = 1 .. MaxLevels
      /\ i \in Nat /\ k \in 0 .. MaxLevels /\ (i # 0 => i \in 1 .. MaxLevels)
  <2>1. Len(lsm.levels) = MaxLevels
    BY DEF Places
  <2> QED BY <2>1, TypedFacts
<1>2. ToSet(f) \in SUBSET Live(lsm)
  BY <1>1, TypedFacts
<1>3. /\ over \in Seq(Nat) /\ ToSet(over) \subseteq ToSet(lsm.levels[k])
      /\ \A id \in ToSet(lsm.levels[k]) \ ToSet(over) :
            Apart(sst[id], Contents(ToSet(f) \cup ToSet(over)))
  BY <1>1, <1>2, OverlappingOf
<1> HIDE DEF over
<1>4. t = [upper |-> i, upperIds |-> f, lower |-> k, lowerIds |-> over,
           tiers |-> <<>>, bottom |-> k = MaxLevels]
  BY DEF LevelTask
<1> HIDE DEF t
<1>5. t \in Tasks
  <2>1. <<>> \in Seq(Seq(Nat)) /\ (k = MaxLevels) \in BOOLEAN
    OBVIOUS
  <2> QED BY <1>1, <1>3, <1>4, <2>1 DEF Tasks
<1>6. t.upper = i /\ t.upperIds = f /\ t.lower = k /\ t.lowerIds = over /\ t.tiers = <<>>
  BY <1>4
<1>7. Inputs(t) = ToSet(f) \cup ToSet(over)
  <2>1. ToSet(<<>>) = {}
    BY DEF ToSet
  <2> QED BY <1>6, <2>1 DEF Inputs
<1>8. i = 0 => \A p, q \in DOMAIN lsm.l0 :
                  lsm.l0[p] \notin ToSet(f) /\ lsm.l0[q] \in ToSet(f) => p < q
  BY DEF ToSet
<1>9. LevelsFit(t)
  <2>1. i > 0 => i # 0
    BY <1>1
  <2>2. t.upper = 0 => ToSet(t.upperIds) \subseteq ToSet(lsm.l0)
    BY <1>6
  <2>3. t.upper > 0 => ToSet(t.upperIds) \subseteq ToSet(lsm.levels[t.upper])
    BY <1>6, <2>1
  <2> QED BY <1>3, <1>6, <1>7, <1>8, <2>2, <2>3 DEF LevelsFit
<1> QED BY <1>5, <1>9 DEF Fits, t, over

LEMMA LeveledFits ==
    ASSUME Typed, Places, VersionsUnique, LevelsFollow, strategy = "Leveled", NEW t \in Task
    PROVE  t \in Tasks /\ Fits(t)
<1>1. /\ MaxLevels \in Nat \ {0} /\ DOMAIN lsm.levels = 1 .. MaxLevels
      /\ lsm.l0 \in Seq(Nat) /\ \A i \in 1 .. MaxLevels : lsm.levels[i] \in Seq(Nat)
      /\ Trigger \in Nat \ {0}
  <2>1. Len(lsm.levels) = MaxLevels
    BY DEF Places
  <2> QED BY <2>1, TypedFacts, LevelsAssumption
<1>2. t \in LeveledTask
  BY DEF Task
<1>3. CASE Len(lsm.l0) >= Trigger
  <2>1. t = LevelTask(0, lsm.l0, BaseLevel, Overlapping(ToSet(lsm.l0), BaseLevel))
    BY <1>2, <1>3 DEF LeveledTask
  <2>2. BaseLevel \in 1 .. MaxLevels
    BY BaseLevelOf
  <2>3. 0 \in 0 .. MaxLevels /\ 0 < BaseLevel
    BY <1>1, <2>2
  <2>4. ToSet(lsm.l0) # {}
    <3>1. Len(lsm.l0) >= 1 /\ 1 \in DOMAIN lsm.l0
      BY <1>1, <1>3
    <3> QED BY <3>1 DEF ToSet
  <2> HIDE DEF BaseLevel
  <2> QED BY <1>1, <2>1, <2>2, <2>3, <2>4, LeveledTaskFits
<1>4. CASE ~(Len(lsm.l0) >= Trigger)
  <2> DEFINE id(i) == Min(ToSet(lsm.levels[i]))
  <2>1. PICK i \in 1 .. MaxLevels :
           /\ Size(lsm.levels[i]) > TargetSizes[i]
           /\ t = LevelTask(i, <<id(i)>>, i + 1, Overlapping({id(i)}, i + 1))
    <3> DEFINE real == [i \in 1 .. MaxLevels |-> Size(lsm.levels[i])]
               target == TargetSizes
               exceeding == {i \in 1 .. MaxLevels : real[i] > target[i]}
               Push(i) == LevelTask(i, <<id(i)>>, i + 1, Overlapping({id(i)}, i + 1))
    <3>1. \E i \in exceeding : t = Push(i)
      BY <1>2, <1>4 DEF LeveledTask
    <3> HIDE DEF target, Push, id
    <3> QED BY <3>1 DEF target, Push
  <2>2. /\ TargetSizes[i] \in Nat /\ Size(lsm.levels[i]) \in Nat
        /\ Size(lsm.levels[i]) # 0 => ToSet(lsm.levels[i]) # {}
        /\ Size(lsm.levels[MaxLevels]) <= TargetSizes[MaxLevels]
    BY <1>1, SizeOf, TargetsOf
  <2>3. ToSet(lsm.levels[i]) # {}
    BY <2>1, <2>2
  <2>4. i # MaxLevels
    BY <2>1, <2>2
  <2>5. i \in 0 .. MaxLevels /\ i # 0 /\ i + 1 \in 1 .. MaxLevels /\ i < i + 1
    BY <1>1, <2>4
  <2>6. id(i) \in ToSet(lsm.levels[i]) /\ id(i) \in Nat
    <3>1. ToSet(lsm.levels[i]) \in SUBSET Nat
      BY <1>1, ElementsOf
    <3> QED BY <2>3, <3>1, MinOf
  <2> HIDE DEF id
  <2>7. <<id(i)>> \in Seq(Nat) /\ ToSet(<<id(i)>>) = {id(i)} /\ {id(i)} # {}
    BY <2>6 DEF ToSet
  <2>8. ToSet(<<id(i)>>) \subseteq ToSet(IF i = 0 THEN lsm.l0 ELSE lsm.levels[i])
    BY <2>5, <2>6, <2>7
  <2>9. /\ LevelTask(i, <<id(i)>>, i + 1, Overlapping(ToSet(<<id(i)>>), i + 1)) \in Tasks
        /\ Fits(LevelTask(i, <<id(i)>>, i + 1, Overlapping(ToSet(<<id(i)>>), i + 1)))
    <3>1. ToSet(<<id(i)>>) # {}
      BY <2>7
    <3> QED BY <2>5, <2>7, <2>8, <3>1, LeveledTaskFits
  <2> QED BY <2>1, <2>7, <2>9
<1> QED BY <1>3, <1>4

\* Whatever task a controller gives, it fits.
LEMMA TaskIsFit ==
    ASSUME Typed, Places, VersionsUnique, LevelsFollow, PlacesAge, NEW t \in Task
    PROVE  /\ t \in Tasks /\ Fits(t)
           /\ Inputs(t) \subseteq Live(lsm)
           /\ Contents(Inputs(t)) \in SUBSET Versions /\ Unique(Contents(Inputs(t)))
           /\ strategy = "Tiered" => Contents(Inputs(t)) # {}
<1>1. t \in Tasks /\ Fits(t)
  BY SimpleFits, LeveledFits, TieredFits, TypedFacts
<1>2. Inputs(t) \in SUBSET Live(lsm)
  BY <1>1, TaskFits
<1>3. Contents(Inputs(t)) \in SUBSET Versions /\ Contents(Inputs(t)) \subseteq Stored
  BY <1>2, StoredFacts
<1>4. Unique(Contents(Inputs(t)))
  BY <1>3 DEF VersionsUnique, Unique
<1>5. ASSUME strategy = "Tiered" PROVE Contents(Inputs(t)) # {}
  <2>1. PICK u \in Nat : TiersAt(lsm, t, u) /\ t.upperIds = <<>> /\ t.lowerIds = <<>>
    BY <1>1, <1>5 DEF Fits, TiersFit, TiersAt
  <2>2. /\ Len(t.tiers) \in Nat \ {0} /\ u + Len(t.tiers) <= Len(lsm.levels)
        /\ Inputs(t) = UNION {ToSet(lsm.levels[i]) : i \in u + 1 .. u + Len(t.tiers)}
    BY <1>1, <1>5, <2>1, TierInputs DEF TiersAt
  <2>3. u + 1 \in u + 1 .. u + Len(t.tiers) /\ u + 1 \in DOMAIN lsm.levels
    BY <2>2, TypedFacts
  <2>4. PICK id \in ToSet(lsm.levels[u + 1]) : id \in Inputs(t) /\ id \in Live(lsm)
    <3>1. ToSet(lsm.levels[u + 1]) # {} /\ ToSet(lsm.levels[u + 1]) \subseteq Live(lsm)
      BY <1>5, <2>3, TiersDistinct, TypedFacts
    <3> QED BY <2>2, <2>3, <3>1
  <2>5. sst[id] # {} /\ sst[id] \subseteq Contents(Inputs(t))
    BY <2>4, TypedFacts DEF Contents
  <2> QED BY <2>5
<1> QED BY <1>1, <1>2, <1>3, <1>4, <1>5

\* The job of a task: its tables with the next ids.
JobOf(t, tables) ==
    [task |-> t, out |-> [i \in DOMAIN tables |-> nextId + i - 1], tables |-> tables]

\* The tables a task is merged into, when the merge leaves any.
MergedInto(t, tables) ==
    /\ t \in Task /\ tables = Split(Kept(Contents(Inputs(t)), t.bottom))
    /\ ~(Contents(Inputs(t)) # {} /\ tables = <<>>)

\* They are those of a job as Made has it, once its ids are taken.
JobReady(t, tables) ==
    /\ JobOf(t, tables) \in Jobs /\ JobOf(t, tables).task = t /\ Len(tables) \in Nat
    /\ \A id \in ToSet(JobOf(t, tables).out) :
          id < nextId + Len(tables) /\ id # mem /\ id \notin Live(lsm)
    /\ Len(JobOf(t, tables).tables) = Len(JobOf(t, tables).out)
    /\ Distinct(JobOf(t, tables).out)
    /\ \A p \in DOMAIN tables : tables[p] # {}
    /\ \A p, q \in DOMAIN tables : p < q => Follows(tables[p], tables[q])
    /\ strategy = "Tiered" => JobOf(t, tables).out # <<>>
    /\ UNION ToSet(tables) \subseteq Contents(Inputs(t))
    /\ \A v \in Contents(Inputs(t)) \ UNION ToSet(tables) :
          Dropped(v, Contents(Inputs(t)), UNION ToSet(tables), t.bottom)

LEMMA JobMade ==
    ASSUME Typed, Places, IdsFresh, VersionsUnique, LevelsFollow, PlacesAge,
           NEW t, NEW tables, MergedInto(t, tables)
    PROVE  JobReady(t, tables)
<1>0. /\ t \in Task /\ tables = Split(Kept(Contents(Inputs(t)), t.bottom))
      /\ ~(Contents(Inputs(t)) # {} /\ tables = <<>>)
  BY DEF MergedInto
<1> USE <1>0
<1> DEFINE M == Contents(Inputs(t))
           K == Kept(M, t.bottom)
           n == Len(tables)
           out == [i \in DOMAIN tables |-> nextId + i - 1]
           j == JobOf(t, tables)
<1>1. /\ t \in Tasks /\ t.bottom \in BOOLEAN /\ M \in SUBSET Versions /\ Unique(M)
      /\ strategy = "Tiered" => M # {}
  BY TaskIsFit DEF Tasks
<1>2. watermark \in Nat /\ nextId \in Nat /\ mem \in Nat /\ mem < nextId
      /\ \A id \in Live(lsm) : id < nextId /\ id \in Nat
  <2>1. ts \in 0 .. MaxTs /\ watermark \in 0 .. ts /\ nextId \in Nat /\ mem \in Nat
    BY DEF Typed
  <2> QED BY <2>1, TypedFacts DEF IdsFresh
<1> HIDE DEF M
<1>3. K \subseteq M /\ \A v \in M \ K : Dropped(v, M, K, t.bottom)
  BY <1>1, <1>2, KeptDrops
<1>4. /\ tables \in Seq(SUBSET Versions)
      /\ \A p \in DOMAIN tables : tables[p] # {}
      /\ UNION ToSet(tables) = K
      /\ \A p, q \in DOMAIN tables : p < q => Follows(tables[p], tables[q])
  <2>1. K \in SUBSET Versions /\ tables = Split(K)
    BY <1>1, <1>3 DEF M
  <2> HIDE DEF K
  <2> QED BY <2>1, SplitKeeps
<1> HIDE DEF K
<1>5. n \in Nat /\ DOMAIN tables = 1 .. n
  BY <1>4
<1>6. out \in [1 .. n -> Nat] /\ \A i \in 1 .. n : out[i] = nextId + i - 1
  BY <1>2, <1>5
<1>7. j = [task |-> t, out |-> out, tables |-> tables]
  BY DEF JobOf
<1> HIDE DEF out, n
<1>8. out \in Seq(Nat) /\ Len(out) = n /\ DOMAIN out = 1 .. n
  BY <1>5, <1>6
<1>9. \A id \in ToSet(out) : id < nextId + n /\ id # mem /\ id \notin Live(lsm)
  <2>1. SUFFICES ASSUME NEW i \in 1 .. n
                 PROVE  out[i] < nextId + n /\ out[i] # mem /\ out[i] \notin Live(lsm)
    BY <1>8 DEF ToSet
  <2>2. out[i] < nextId + n /\ out[i] >= nextId /\ out[i] \in Nat
    BY <1>2, <1>5, <1>6
  <2> QED BY <1>2, <2>2
<1>10. Distinct(out)
  <2>1. ASSUME NEW p \in 1 .. n, NEW q \in 1 .. n, out[p] = out[q] PROVE p = q
    <3>1. nextId + p - 1 = nextId + q - 1 /\ p \in Nat /\ q \in Nat
      BY <1>5, <1>6, <2>1
    <3> QED BY <1>2, <3>1
  <2> QED BY <1>8, <2>1 DEF Distinct
<1>11. strategy = "Tiered" => out # <<>>
  <2>1. SUFFICES ASSUME strategy = "Tiered", out = <<>> PROVE FALSE
    OBVIOUS
  <2>2. n = 0
    BY <1>8, <2>1
  <2>3. tables = <<>>
    BY <1>4, <2>2 DEF n
  <2> QED BY <1>1, <2>1, <2>3 DEF M
<1>12. j \in Jobs /\ j.task = t /\ j.out = out /\ j.tables = tables
  BY <1>1, <1>4, <1>7, <1>8 DEF Jobs
<1> QED BY <1>3, <1>4, <1>5, <1>8, <1>9, <1>10, <1>11, <1>12 DEF JobReady, M, n

LEMMA CompactKeeps ==
    ASSUME IInv, Compact
    PROVE  IInv'
<1>1. /\ Typed /\ Places /\ IdsFresh /\ Replays /\ VersionsUnique
      /\ LevelsFollow /\ PlacesAge /\ Scheduled /\ Reads
  BY DEF IInv
<1>2. /\ job = {}
      /\ UNCHANGED <<strategy, lsm, sst, replayed, mem, ts, watermark, history, deleted, reopens>>
  BY DEF Compact
<1>3. \/ job' = job /\ nextId' = nextId /\ running' = FALSE
      \/ \E t, tables :
            /\ MergedInto(t, tables)
            /\ job' = {JobOf(t, tables)} /\ nextId' = nextId + Len(tables)
            /\ running' = running
  BY DEF Compact, JobOf, MergedInto
<1>4. /\ strategy \in Strategies /\ lsm \in LsmState
      /\ replayed \in [state : LsmState, maxId : Nat]
      /\ sst \in [Live(lsm) -> (SUBSET Versions) \ {{}}]
      /\ mem \in Nat /\ nextId \in Nat
      /\ ts \in 0 .. MaxTs /\ watermark \in 0 .. ts
      /\ running \in BOOLEAN /\ deleted \in BOOLEAN
      /\ history \subseteq Versions /\ reopens \in 0 .. MaxReopens
  BY <1>1 DEF Typed
<1>5. Places' /\ Replays' /\ VersionsUnique' /\ LevelsFollow' /\ PlacesAge'
  BY <1>1, <1>2, SameLevels
<1>6. Reads'
  BY <1>1, <1>2 DEF Reads, WidthUnbounded, SameReads, Contents, ValueAt
<1>7. ASSUME nextId' \in Nat, nextId <= nextId' PROVE IdsFresh'
  <2>1. /\ \A id \in Live(lsm) : id < nextId /\ id # mem /\ id <= replayed.maxId /\ id \in Nat
        /\ mem < nextId /\ mem <= replayed.maxId
    BY <1>1, TypedFacts DEF IdsFresh
  <2>2. \A x \in Nat : x < nextId => x < nextId'
    BY <1>4, <1>7
  <2> QED BY <1>2, <1>4, <2>1, <2>2 DEF IdsFresh
<1>8. CASE job' = job /\ nextId' = nextId /\ running' = FALSE
  <2>1. Typed'
    BY <1>2, <1>4, <1>8 DEF Typed
  <2>2. IdsFresh'
    BY <1>4, <1>7, <1>8
  <2>3. Scheduled'
    BY <1>2, <1>8 DEF Scheduled
  <2> QED BY <1>5, <1>6, <2>1, <2>2, <2>3 DEF IInv
<1>9. ASSUME NEW t, NEW tables, MergedInto(t, tables),
             job' = {JobOf(t, tables)}, nextId' = nextId + Len(tables), running' = running
      PROVE  IInv'
  <2> DEFINE j == JobOf(t, tables)
             M == Contents(Inputs(t))
             K == UNION ToSet(tables)
  <2>1. /\ j \in Jobs /\ j.task = t /\ Len(tables) \in Nat
        /\ \A id \in ToSet(j.out) : id < nextId + Len(tables) /\ id # mem /\ id \notin Live(lsm)
        /\ Len(j.tables) = Len(j.out) /\ Distinct(j.out)
        /\ \A p \in DOMAIN tables : tables[p] # {}
        /\ \A p, q \in DOMAIN tables : p < q => Follows(tables[p], tables[q])
        /\ strategy = "Tiered" => j.out # <<>>
        /\ K \subseteq M
        /\ \A v \in M \ K : Dropped(v, M, K, t.bottom)
    <3>1. JobReady(t, tables)
      BY <1>1, <1>9, JobMade
    <3> QED BY <3>1 DEF JobReady
  <2>2. t \in Tasks /\ Fits(t)
    <3>1. t \in Task
      BY <1>9 DEF MergedInto
    <3> QED BY <1>1, <3>1, TaskIsFit
  <2>3. j.tables = tables
    BY DEF JobOf
  <2>4. nextId' \in Nat /\ nextId <= nextId'
    BY <1>4, <1>9, <2>1
  <2>5. job' = {j}
    BY <1>9
  <2> HIDE DEF j
  <2>6. Typed'
    BY <1>2, <1>4, <1>9, <2>1, <2>4, <2>5 DEF Typed
  <2>7. IdsFresh'
    BY <1>7, <2>4
  \* The job, the task and the tables are constants of the step.
  <2>8. ASSUME NEW k \in job' PROVE Fits(k.task)' /\ Made(k)'
    <3>1. k = j
      BY <2>5
    <3>2. k.task = t /\ k.tables = tables /\ k.out = j.out
      BY <2>1, <2>3, <3>1
    <3>3. Fits(k.task)
      BY <2>2, <3>2
    <3>4. Fits(k.task)'
      BY <1>2, <3>3 DEF Fits, TiersFit, LevelsFit, WidthUnbounded, Contents
    <3>5. Contents(Inputs(k.task)) = M /\ Output(k) = K
      BY <3>2 DEF Output
    <3>6. Contents(Inputs(k.task))' = Contents(Inputs(k.task))
      BY <1>2 DEF Contents
    <3>7. \A v \in Contents(Inputs(k.task)) \ Output(k) :
             Dropped(v, Contents(Inputs(k.task)), Output(k), k.task.bottom)
      BY <2>1, <3>2, <3>5
    <3>8. (\A v \in Contents(Inputs(k.task)) \ Output(k) :
              Dropped(v, Contents(Inputs(k.task)), Output(k), k.task.bottom))'
      BY <1>2, <3>6, <3>7 DEF Dropped
    <3>9. /\ Len(k.tables) = Len(k.out) /\ Distinct(k.out)
          /\ \A id \in ToSet(k.out) : id < nextId' /\ id # mem /\ id \notin Live(lsm)
          /\ \A p \in DOMAIN k.tables : k.tables[p] # {}
          /\ \A p, q \in DOMAIN k.tables : p < q => Follows(k.tables[p], k.tables[q])
          /\ strategy = "Tiered" => k.out # <<>>
          /\ Output(k) \subseteq Contents(Inputs(k.task))
      BY <1>9, <2>1, <2>3, <3>1, <3>2, <3>5
    <3> HIDE DEF M, K
    <3>10. Made(k)'
      BY <1>2, <3>6, <3>8, <3>9 DEF Made
    <3> QED BY <3>4, <3>10
  <2>9. Scheduled'
    BY <2>5, <2>8 DEF Scheduled
  <2> QED BY <1>5, <1>6, <2>6, <2>7, <2>9 DEF IInv
<1> QED BY <1>3, <1>8, <1>9

-----------------------------------------------------------------------------
(* The invariant, and what follows from it.                                *)

\* The engine is created with empty levels.
LEMMA InitIInv ==
    ASSUME Init
    PROVE  IInv
<1> DEFINE s == Created(strategy)
<1>1. /\ strategy \in Strategies /\ lsm = s /\ sst = <<>>
      /\ replayed = [state |-> s, maxId |-> 0] /\ mem = 0 /\ nextId = 1 /\ ts = 0 /\ watermark = 0
      /\ job = {} /\ running = TRUE /\ history = {} /\ deleted = FALSE /\ reopens = 0
  BY DEF Init
<1>2. MaxLevels \in Nat /\ MaxTs \in Nat /\ MaxReopens \in Nat
  BY LevelsAssumption
<1>3. /\ s.l0 = <<>>
      /\ strategy = "Tiered" => s.levels = <<>>
      /\ strategy # "Tiered" => s.levels = [i \in 1 .. MaxLevels |-> <<>>]
      /\ s = [l0 |-> s.l0, levels |-> s.levels]
  BY DEF Created
<1> HIDE DEF s
<1>4. <<>> \in Seq(Nat) /\ ToSet(<<>>) = {} /\ Distinct(<<>>) /\ DOMAIN <<>> = {}
  BY DEF ToSet, Distinct
<1>5. /\ s.levels \in Seq(Seq(Nat)) /\ \A i \in DOMAIN s.levels : s.levels[i] = <<>>
      /\ strategy # "Tiered" => Len(s.levels) = MaxLevels /\ DOMAIN s.levels = 1 .. MaxLevels
      /\ strategy = "Tiered" => DOMAIN s.levels = {}
  <2>1. CASE strategy = "Tiered"
    <3>1. s.levels = <<>> /\ DOMAIN s.levels = {}
      BY <1>3, <1>4, <2>1
    <3>2. <<>> \in Seq(Seq(Nat))
      OBVIOUS
    <3> QED BY <2>1, <3>1, <3>2
  <2>2. CASE strategy # "Tiered"
    <3>1. s.levels \in [1 .. MaxLevels -> Seq(Nat)]
      BY <1>3, <1>4, <2>2
    <3>2. s.levels \in Seq(Seq(Nat)) /\ Len(s.levels) = MaxLevels
      BY <1>2, <3>1
    <3> QED BY <1>3, <2>2, <3>1, <3>2
  <2> QED BY <2>1, <2>2
<1>6. s \in LsmState
  BY <1>3, <1>4, <1>5 DEF LsmState
<1>7. Live(lsm) = {}
  <2>1. \A i \in DOMAIN s.levels : ToSet(s.levels[i]) = {}
    BY <1>4, <1>5
  <2> QED BY <1>1, <1>3, <1>4, <2>1 DEF Live
<1>8. sst \in [Live(lsm) -> (SUBSET Versions) \ {{}}]
  BY <1>1, <1>7
<1>9. Typed
  <2>1. lsm \in LsmState /\ replayed \in [state : LsmState, maxId : Nat]
    BY <1>1, <1>6
  <2>2. mem \in Nat /\ nextId \in Nat /\ ts \in 0 .. MaxTs /\ watermark \in 0 .. ts
        /\ reopens \in 0 .. MaxReopens
    BY <1>1, <1>2
  <2>3. strategy \in Strategies /\ job \subseteq Jobs /\ history \subseteq Versions
        /\ running \in BOOLEAN /\ deleted \in BOOLEAN
    BY <1>1
  <2> QED BY <1>8, <2>1, <2>2, <2>3 DEF Typed
<1>10. Places
  BY <1>1, <1>3, <1>4, <1>5 DEF Places
<1>11. IdsFresh
  BY <1>1, <1>7 DEF IdsFresh
<1>12. ReplayMatches
  <2>1. CASE strategy = "Leveled"
    <3> DEFINE c(i) == SortedByFirstKey(s.levels[i], sst)
    <3>1. SortedByFirstKey(<<>>, sst) = <<>>
      <4>1. /\ SortedByFirstKey(<<>>, sst) \in Seq(Nat)
            /\ ToSet(SortedByFirstKey(<<>>, sst)) = ToSet(<<>>)
        BY <1>4, SortedFollows
      <4> DEFINE f == SortedByFirstKey(<<>>, sst)
      <4>2. \A i \in DOMAIN f : f[i] \in ToSet(f)
        BY DEF ToSet
      <4>3. f \in Seq(Nat) /\ DOMAIN f = {}
        BY <1>4, <4>1, <4>2
      <4> HIDE DEF f
      <4>4. Len(f) = 0
        BY <4>3
      <4>5. f = <<>>
        BY <4>3, <4>4
      <4> QED BY <4>5 DEF f
    <3>2. \A i \in 1 .. MaxLevels : c(i) = <<>>
      BY <1>5, <2>1, <3>1
    <3> HIDE DEF c
    <3>3. [i \in 1 .. MaxLevels |-> c(i)] = s.levels
      BY <1>3, <2>1, <3>2
    <3>4. SortedLevels(s, sst) = [s EXCEPT !.levels = [i \in 1 .. MaxLevels |-> c(i)]]
      BY <1>5, <2>1 DEF SortedLevels, c
    <3>5. SortedLevels(s, sst) = s
      BY <1>6, <3>3, <3>4 DEF LsmState
    <3> QED BY <1>1, <3>5 DEF ReplayMatches
  <2>2. CASE strategy # "Leveled"
    BY <1>1, <2>2 DEF ReplayMatches, SortedLevels
  <2> QED BY <2>1, <2>2
<1>13. Replays
  BY <1>1, <1>4, <1>5, <1>12 DEF Replays
<1>14. Stored = {}
  BY <1>7 DEF Stored, Contents
<1>15. VersionsUnique
  BY <1>14 DEF VersionsUnique, Unique
<1>16. LevelsFollow
  BY <1>1, <1>4, <1>5 DEF LevelsFollow
<1>17. PlacesAge
  <2>1. DOMAIN lsm.l0 = {}
    BY <1>1, <1>3, <1>4
  <2>2. \A i \in DOMAIN lsm.levels : Contents(ToSet(lsm.levels[i])) = {}
    BY <1>1, <1>4, <1>5 DEF Contents
  <2> QED BY <2>1, <2>2 DEF PlacesAge, Later
<1>18. Scheduled
  BY <1>1 DEF Scheduled
<1>19. Reads
  BY <1>1, <1>14 DEF Reads, SameReads, ValueAt, Stored
<1> QED BY <1>9, <1>10, <1>11, <1>13, <1>15, <1>16, <1>17, <1>18, <1>19 DEF IInv

\* Every step of every controller keeps the invariant.
THEOREM Inductive == Spec => []IInv
<1>1. Init => IInv
  BY InitIInv
<1>2. IInv /\ [Next]_vars => IInv'
  <2> SUFFICES ASSUME IInv, [Next]_vars PROVE IInv'
    OBVIOUS
  <2>1. CASE Flush
    BY <2>1, FlushKeeps
  <2>2. CASE ReadersLeave
    BY <2>2, ReadersLeaveKeeps
  <2>3. CASE Compact
    BY <2>3, CompactKeeps
  <2>4. CASE Install
    BY <2>4, InstallKeeps
  <2>5. CASE Reopen
    BY <2>5, ReopenKeeps
  <2>6. CASE UNCHANGED vars
    BY <2>6, StutterKeeps
  <2> QED BY <2>1, <2>2, <2>3, <2>4, <2>5, <2>6 DEF Next
<1> QED BY <1>1, <1>2, PTL DEF Spec

\* Variables have their types, sstables holds exactly the tables the levels
\* list, and no id that comes next is in use, not even after a restart.
THEOREM LevelsTypeCorrect == Spec => []TypeOK
<1>1. IInv => TypeOK
  <2> SUFFICES ASSUME IInv PROVE TypeOK
    OBVIOUS
  <2>1. Typed /\ Places /\ IdsFresh /\ Scheduled
    BY DEF IInv
  <2>2. /\ strategy \in Strategies /\ mem < nextId
        /\ ts \in 0 .. MaxTs /\ watermark \in 0 .. ts
        /\ running \in BOOLEAN /\ deleted \in BOOLEAN
        /\ history \subseteq Versions /\ reopens \in 0 .. MaxReopens
    BY <2>1 DEF Typed, IdsFresh
  <2>3. Len(lsm.levels) = MaxLevels \/ strategy = "Tiered"
    BY <2>1 DEF Places
  <2>4. DOMAIN sst = Live(lsm) /\ \A id \in DOMAIN sst : sst[id] \subseteq Versions /\ sst[id] # {}
    BY <2>1, TypedFacts
  <2>5. \A id \in DOMAIN sst \cup UNION {ToSet(j.out) : j \in job} : id < nextId /\ id # mem
    <3>1. \A id \in Live(lsm) : id < nextId /\ id # mem
      BY <2>1 DEF IdsFresh
    <3>2. \A j \in job : \A id \in ToSet(j.out) : id < nextId /\ id # mem
      BY <2>1 DEF Scheduled, Made
    <3> QED BY <2>4, <3>1, <3>2
  <2>6. Cardinality(job) <= 1
    <3>1. CASE job = {}
      BY <3>1, FS_EmptySet
    <3>2. CASE job # {}
      <4>1. PICK j \in job : TRUE
        BY <3>2
      <4>2. job = {j}
        BY <2>1, <4>1 DEF Scheduled
      <4>3. Cardinality({j}) = 1
        BY FS_Singleton
      <4> QED BY <4>2, <4>3
    <3> QED BY <3>1, <3>2
  <2> QED BY <2>2, <2>3, <2>4, <2>5, <2>6 DEF TypeOK
<1> QED BY <1>1, Inductive, PTL

\* Whatever was flushed, or whoever opened the engine, since the task was
\* chosen: the assertions of apply_compaction_result hold.
THEOREM InstallIsSafe == Spec => []InstallSafe
<1>1. IInv => InstallSafe
  BY JobFacts, TaskFits DEF IInv, Scheduled, InstallSafe
<1> QED BY <1>1, Inductive, PTL

\* What is written next is newer than everything in the tables.
THEOREM NewestIsFirst == Spec => []NewestFirst
<1>1. IInv => NewestFirst
  BY DEF IInv, VersionsUnique, Stored, NewestFirst
<1> QED BY <1>1, Inductive, PTL

\* Open rebuilds from the records of the manifest the levels that were in memory.
THEOREM ReplayRebuilds == Spec => []ReplayMatches
<1>1. IInv => ReplayMatches
  BY DEF IInv, Replays
<1> QED BY <1>1, Inductive, PTL

\* The tables of a level or a tier do not overlap.
THEOREM RunsSorted == Spec => []SortedRuns
<1>1. IInv => SortedRuns
  <2> SUFFICES ASSUME IInv, NEW n \in DOMAIN lsm.levels,
                      NEW p \in DOMAIN lsm.levels[n], NEW q \in DOMAIN lsm.levels[n], p < q
               PROVE  Before(LastKey(sst[lsm.levels[n][p]]), FirstKey(sst[lsm.levels[n][q]]))
    BY DEF SortedRuns, Runs
  <2>1. Typed /\ VersionsUnique /\ LevelsFollow
    BY DEF IInv
  <2>2. lsm.levels[n][p] \in Live(lsm) /\ lsm.levels[n][q] \in Live(lsm)
    BY <2>1, TypedFacts DEF ToSet
  <2>3. \A id \in Live(lsm) : sst[id] \subseteq Stored /\ sst[id] # {}
    BY <2>1, TypedFacts, StoredFacts
  <2>4. \A id \in Live(lsm) : LastKey(sst[id]) \in sst[id] /\ FirstKey(sst[id]) \in sst[id]
    BY <2>1, <2>3, EndsOf
  <2>5. Follows(sst[lsm.levels[n][p]], sst[lsm.levels[n][q]])
    BY <2>1 DEF LevelsFollow
  <2> QED BY <2>2, <2>4, <2>5 DEF Follows
<1> QED BY <1>1, Inductive, PTL

\* One sequence after another.
LEMMA Appended ==
    ASSUME NEW X, NEW a \in Seq(X), NEW b \in Seq(X)
    PROVE  /\ DOMAIN (a \o b) = 1 .. Len(a) + Len(b)
           /\ \A p \in 1 .. Len(a) + Len(b) :
                 (a \o b)[p] = IF p <= Len(a) THEN a[p] ELSE b[p - Len(a)]
  OBVIOUS

\* Under the simple leveled and the tiered controller a place before another one
\* has the newer versions of every key.
THEOREM PlacesInAgeOrder == Spec => []AgeOrder
<1>1. IInv => AgeOrder
  <2> DEFINE l0 == [i \in DOMAIN lsm.l0 |-> <<lsm.l0[i]>>]
             places == l0 \o lsm.levels
             At(i) == Contents(ToSet(places[i]))
             m == Len(lsm.l0)
             n == Len(lsm.levels)
             C(i) == Contents(ToSet(lsm.levels[i]))
  <2> SUFFICES ASSUME IInv, strategy # "Leveled",
                      NEW i \in DOMAIN places, NEW j \in DOMAIN places, i < j
               PROVE  Later(At(i), At(j))
    BY DEF AgeOrder, Later
  <2>1. /\ lsm.l0 \in Seq(Nat) /\ lsm.levels \in Seq(Seq(Nat))
        /\ m \in Nat /\ n \in Nat /\ DOMAIN lsm.levels = 1 .. n /\ DOMAIN lsm.l0 = 1 .. m
    BY TypedFacts DEF IInv
  <2>2. l0 \in Seq(Seq(Nat)) /\ Len(l0) = m /\ \A p \in 1 .. m : l0[p] = <<lsm.l0[p]>>
    <3>1. \A p \in 1 .. m : <<lsm.l0[p]>> \in Seq(Nat)
      <4> HIDE DEF m
      <4>1. \A p \in 1 .. m : lsm.l0[p] \in Nat
        <5>1. \A f \in Seq(Nat) : \A p \in DOMAIN f : f[p] \in Nat
          OBVIOUS
        <5> QED BY <5>1, <2>1
      <4>2. \A x \in Nat : <<x>> \in Seq(Nat)
        OBVIOUS
      <4> QED BY <4>1, <4>2
    <3>2. l0 \in [1 .. m -> Seq(Nat)] /\ \A p \in 1 .. m : l0[p] = <<lsm.l0[p]>>
      BY <2>1, <3>1
    <3> HIDE DEF l0, m
    <3>3. l0 \in Seq(Seq(Nat)) /\ Len(l0) = m
      BY <2>1, <3>2
    <3> QED BY <3>2, <3>3
  <2> HIDE DEF l0, m, n
  <2>3. /\ DOMAIN places = 1 .. m + n
        /\ \A p \in 1 .. m + n : places[p] = IF p <= m THEN l0[p] ELSE lsm.levels[p - m]
    <3> DEFINE b == lsm.levels
    <3>1. b \in Seq(Seq(Nat)) /\ Len(b) = n
      BY <2>1 DEF n
    <3> HIDE DEF b
    <3>2. /\ DOMAIN (l0 \o b) = 1 .. Len(l0) + Len(b)
          /\ \A p \in 1 .. Len(l0) + Len(b) :
                (l0 \o b)[p] = IF p <= Len(l0) THEN l0[p] ELSE b[p - Len(l0)]
      BY <2>2, <3>1, Appended
    <3>3. /\ DOMAIN (l0 \o b) = 1 .. m + n
          /\ \A p \in 1 .. m + n : (l0 \o b)[p] = IF p <= m THEN l0[p] ELSE b[p - m]
      BY <2>2, <3>1, <3>2
    <3> QED BY <3>3 DEF b
  <2> HIDE DEF places
  <2>4. /\ \A p, q \in DOMAIN lsm.l0 : p < q => Later(sst[lsm.l0[p]], sst[lsm.l0[q]])
        /\ \A p \in DOMAIN lsm.l0, q \in DOMAIN lsm.levels : Later(sst[lsm.l0[p]], C(q))
        /\ \A p, q \in DOMAIN lsm.levels : p < q => Later(C(p), C(q))
    BY DEF IInv, PlacesAge
  <2>5. \A p \in 1 .. m : At(p) = sst[lsm.l0[p]]
    <3>1. ASSUME NEW p \in 1 .. m PROVE At(p) = sst[lsm.l0[p]]
      <4>1. places[p] = <<lsm.l0[p]>>
        BY <2>1, <2>2, <2>3
      <4>2. ToSet(<<lsm.l0[p]>>) = {lsm.l0[p]}
        BY DEF ToSet
      <4> QED BY <4>1, <4>2 DEF Contents
    <3> QED BY <3>1
  <2>6. \A p \in m + 1 .. m + n : p - m \in 1 .. n /\ At(p) = C(p - m)
    <3>1. ASSUME NEW p \in m + 1 .. m + n PROVE p - m \in 1 .. n /\ places[p] = lsm.levels[p - m]
      BY <2>1, <2>3
    <3> QED BY <3>1
  <2> HIDE DEF At, C
  <2>7. i \in 1 .. m + n /\ j \in 1 .. m + n /\ i < j
    BY <2>3
  <2>8. CASE j <= m
    <3>1. i \in 1 .. m /\ j \in 1 .. m
      BY <2>1, <2>7, <2>8
    <3> QED BY <2>1, <2>4, <2>5, <2>7, <3>1
  <2>9. CASE i <= m /\ m < j
    <3>1. i \in 1 .. m /\ j \in m + 1 .. m + n
      BY <2>1, <2>7, <2>9
    <3> QED BY <2>1, <2>4, <2>5, <2>6, <3>1
  <2>10. CASE m < i
    <3>1. i \in m + 1 .. m + n /\ j \in m + 1 .. m + n /\ i - m < j - m
      BY <2>1, <2>7, <2>10
    <3> QED BY <2>1, <2>4, <2>6, <3>1
  <2> QED BY <2>1, <2>7, <2>8, <2>9, <2>10
<1> QED BY <1>1, Inductive, PTL

\* No compaction changes what a read finds that the watermark still allows:
\* with any options, except that a max_merge_width must not cut a task off, and
\* under the leveled controller as long as nothing is deleted.
THEOREM ReadsArePreserved ==
    ASSUME "Tiered" \notin Strategies \/ MaxTs <= MaxMergeWidth
    PROVE  Spec => []ReadsPreserved
<1>1. IInv => ReadsPreserved
  <2> SUFFICES ASSUME IInv PROVE ReadsPreserved
    OBVIOUS
  <2>1. Typed /\ Reads
    BY DEF IInv
  <2>2. WidthUnbounded
    BY <2>1 DEF Typed, WidthUnbounded
  <2> QED BY <2>1, <2>2 DEF Reads, ReadsPreserved
<1> QED BY <1>1, Inductive, PTL

=============================================================================
