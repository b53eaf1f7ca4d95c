------------------------- MODULE CandidateBatchProofs -------------------------
(* Counting the blocks of a category, for every batch of the policy schema. *)
EXTENDS CandidateBatch, TLAPS, FunctionTheorems, FiniteSetTheorems

\* The batch is one an allocation may be called with, spelled out.
LEMMA BatchFacts ==
    ASSUME batch \in Batches
    PROVE  /\ batch.tokens \in [Block -> Nat]
           /\ batch.required \in SUBSET Block
           /\ batch.category \in [Block -> Category \cup {NoCategory}]
           /\ batch.score \in [Block -> Nat]
           /\ batch.minBlocks \in [Category -> Nat]
           /\ batch.maxBlocks \in [Category -> Nat]
           /\ batch.available \in Nat
           /\ \A c \in Category : batch.minBlocks[c] <= batch.maxBlocks[c]
    BY BatchesAssumption DEF BatchType, PolicyIsParsed

\* The blocks of one category are finitely many.
LEMMA CountIsNat ==
    ASSUME NEW S \in SUBSET Block, NEW c
    PROVE  IsFiniteSet(InCategory(S, c)) /\ CountIn(S, c) \in Nat
<1>1. IsFiniteSet(S)
    BY BlockAssumption, FS_Subset
<1>2. IsFiniteSet(InCategory(S, c))
    <2>1. InCategory(S, c) \in SUBSET S
        BY DEF InCategory
    <2>2. QED BY <1>1, <2>1, FS_Subset
<1>3. QED
    BY <1>2, FS_CardinalityType DEF CountIn

\* More blocks never count for less.
LEMMA CountMonotone ==
    ASSUME NEW T \in SUBSET Block, NEW S \in SUBSET T, NEW c
    PROVE  CountIn(S, c) <= CountIn(T, c)
<1>1. InCategory(S, c) \in SUBSET InCategory(T, c)
    BY DEF InCategory
<1>2. QED
    BY <1>1, CountIsNat, FS_Subset DEF CountIn

\* One block more counts in its own category only.
LEMMA CountAdd ==
    ASSUME NEW S \in SUBSET Block, NEW b \in Block \ S, NEW c
    PROVE  CountIn(S \cup {b}, c) =
              IF batch.category[b] = c THEN CountIn(S, c) + 1 ELSE CountIn(S, c)
<1>1. CASE batch.category[b] = c
    <2>1. InCategory(S \cup {b}, c) = InCategory(S, c) \cup {b}
        BY <1>1 DEF InCategory
    <2>2. b \notin InCategory(S, c)
        BY DEF InCategory
    <2>3. QED
        BY <1>1, <2>1, <2>2, CountIsNat, FS_AddElement DEF CountIn
<1>2. CASE batch.category[b] # c
    <2>1. InCategory(S \cup {b}, c) = InCategory(S, c)
        BY <1>2 DEF InCategory
    <2>2. QED BY <1>2, <2>1 DEF CountIn
<1>3. QED BY <1>1, <1>2

\* One block less counts in its own category only.
LEMMA CountRemove ==
    ASSUME NEW S \in SUBSET Block, NEW b \in S, NEW c
    PROVE  CountIn(S \ {b}, c) =
              IF batch.category[b] = c THEN CountIn(S, c) - 1 ELSE CountIn(S, c)
<1>1. (S \ {b}) \cup {b} = S
    OBVIOUS
<1>2. CountIn(S, c) =
         IF batch.category[b] = c THEN CountIn(S \ {b}, c) + 1 ELSE CountIn(S \ {b}, c)
    BY <1>1, CountAdd
<1>3. QED
    BY <1>2, CountIsNat

\* Disjoint selections add up.
LEMMA CountUnion ==
    ASSUME NEW S \in SUBSET Block, NEW T \in SUBSET Block, S \cap T = {}, NEW c
    PROVE  CountIn(S \cup T, c) = CountIn(S, c) + CountIn(T, c)
<1>1. InCategory(S \cup T, c) = InCategory(S, c) \cup InCategory(T, c)
    BY DEF InCategory
<1>2. InCategory(S, c) \cap InCategory(T, c) = {}
    BY DEF InCategory
<1>3. Cardinality(InCategory(S, c) \cup InCategory(T, c)) =
         Cardinality(InCategory(S, c)) + Cardinality(InCategory(T, c)) - Cardinality({})
    BY <1>2, CountIsNat, FS_Union
<1>4. /\ Cardinality({}) = 0
      /\ Cardinality(InCategory(S, c)) \in Nat
      /\ Cardinality(InCategory(T, c)) \in Nat
    BY CountIsNat, FS_EmptySet DEF CountIn
<1>5. CountIn(S \cup T, c) = Cardinality(InCategory(S, c) \cup InCategory(T, c))
    BY <1>1 DEF CountIn
<1>6. CountIn(S \cup T, c) =
         Cardinality(InCategory(S, c)) + Cardinality(InCategory(T, c)) - 0
    BY <1>3, <1>4, <1>5, Zenon
<1>7. QED
    BY <1>4, <1>6 DEF CountIn

-----------------------------------------------------------------------------
(* The K cheapest of a pool are K, whatever the costs and the ties. *)

\* The places in a strict total order of a finite set are distinct and cover it.
LEMMA PlacesCover ==
    ASSUME NEW S, IsFiniteSet(S), NEW R,
           \A a \in S : << a, a >> \notin R,
           \A a, b \in S : a # b => << a, b >> \in R \/ << b, a >> \in R,
           \A a, b, c \in S : << a, b >> \in R /\ << b, c >> \in R => << a, c >> \in R
    PROVE  LET place == [b \in S |-> Cardinality({ a \in S : << a, b >> \in R })]
           IN  /\ place \in Bijection(S, 0..(Cardinality(S) - 1))
               /\ \A a, b \in S : << a, b >> \in R <=> place[a] < place[b]
<1> DEFINE n == Cardinality(S)
           before(b) == { a \in S : << a, b >> \in R }
           place == [b \in S |-> Cardinality(before(b))]
<1>1. n \in Nat
    BY FS_CardinalityType
<1>2. \A b \in S : IsFiniteSet(before(b)) /\ place[b] \in Nat
    <2> SUFFICES ASSUME NEW b \in S PROVE IsFiniteSet(before(b)) /\ Cardinality(before(b)) \in Nat
        OBVIOUS
    <2>1. before(b) \in SUBSET S
        OBVIOUS
    <2>2. QED BY <2>1, FS_Subset, FS_CardinalityType
<1>3. \A b \in S : place[b] < n
    <2> SUFFICES ASSUME NEW b \in S PROVE Cardinality(before(b)) < n
        OBVIOUS
    <2>1. before(b) \in SUBSET (S \ {b})
        OBVIOUS
    <2>2. IsFiniteSet(S \ {b}) /\ Cardinality(S \ {b}) = n - 1
        BY FS_RemoveElement
    <2> DEFINE others == S \ {b}
    <2>3. IsFiniteSet(others) /\ before(b) \in SUBSET others
        BY <2>1, <2>2
    <2> HIDE DEF before, others
    <2>4. Cardinality(before(b)) <= Cardinality(others)
        BY <2>3, FS_Subset, Zenon
    <2>5. Cardinality(before(b)) \in Nat /\ Cardinality(others) = n - 1
        BY <1>2, <2>2 DEF others
    <2> HIDE DEF n
    <2>6. QED BY <1>1, <2>4, <2>5
<1>4. \A a, b \in S : << a, b >> \in R => place[a] < place[b]
    <2> SUFFICES ASSUME NEW a \in S, NEW b \in S, << a, b >> \in R
                 PROVE  place[a] < place[b]
        OBVIOUS
    <2>1. a \notin before(a) /\ before(a) \cup {a} \in SUBSET before(b)
        OBVIOUS
    <2>2. Cardinality(before(a) \cup {a}) = Cardinality(before(a)) + 1
        BY <1>2, <2>1, FS_AddElement
    <2>3. Cardinality(before(a) \cup {a}) <= Cardinality(before(b))
        BY <1>2, <2>1, FS_Subset
    <2>4. /\ place[a] = Cardinality(before(a)) /\ place[b] = Cardinality(before(b))
          /\ place[a] \in Nat /\ place[b] \in Nat
        BY <1>2
    <2> HIDE DEF before, place
    <2>5. QED BY <2>2, <2>3, <2>4
<1>5. place \in [S -> 0..(n - 1)]
    <2>1. \A b \in S : Cardinality(before(b)) \in 0..(n - 1)
        <3> SUFFICES ASSUME NEW b \in S PROVE Cardinality(before(b)) \in 0..(n - 1)
            OBVIOUS
        <3>1. Cardinality(before(b)) \in Nat /\ Cardinality(before(b)) < n
            BY <1>2, <1>3
        <3> HIDE DEF before, n
        <3>2. QED BY <1>1, <3>1
    <2> HIDE DEF before, n
    <2>2. QED BY <2>1
<1>6. \A a, b \in S : place[a] = place[b] => a = b
    <2> SUFFICES ASSUME NEW a \in S, NEW b \in S, a # b PROVE place[a] # place[b]
        OBVIOUS
    <2>1. place[a] < place[b] \/ place[b] < place[a]
        BY <1>4
    <2>2. place[a] \in Nat /\ place[b] \in Nat
        BY <1>2
    <2> HIDE DEF place
    <2>3. QED BY <2>1, <2>2
<1>7. place \in Injection(S, 0..(n - 1))
    BY <1>5, <1>6, Fun_IsInj
<1>8. IsFiniteSet(0..(n - 1)) /\ Cardinality(0..(n - 1)) = n
    <2> HIDE DEF n
    <2>1. 0 \in Int /\ n - 1 \in Int
        BY <1>1
    <2>2. IsFiniteSet(0..(n - 1)) /\ Cardinality(0..(n - 1)) = IF 0 > n - 1 THEN 0 ELSE (n - 1) - 0 + 1
        BY <2>1, FS_Interval, Zenon
    <2>3. QED BY <1>1, <2>2
<1>9. place \in Surjection(S, 0..(n - 1))
    BY <1>7, <1>8, FS_Injection
<1>10. \A a, b \in S : place[a] < place[b] => << a, b >> \in R
    <2> SUFFICES ASSUME NEW a \in S, NEW b \in S, place[a] < place[b] PROVE << a, b >> \in R
        OBVIOUS
    <2>1. place[a] \in Nat /\ place[b] \in Nat
        BY <1>2
    <2>2. a # b /\ ~ (place[b] < place[a])
        <3> HIDE DEF place
        <3>1. QED BY <2>1
    <2>3. QED BY <1>4, <2>2
<1>11. place \in Bijection(S, 0..(n - 1))
    BY <1>7, <1>9 DEF Bijection
<1>12. QED
    <2>1. \A a, b \in S : << a, b >> \in R <=> place[a] < place[b]
        <3> HIDE DEF place
        <3>1. QED BY <1>4, <1>10
    <2>2. QED BY <1>11, <2>1

\* How many blocks of the pool precede b under the minimum-cost comparator.
Rank(pool, b) == Cardinality({ a \in pool : CheaperMinimum(a, b) })

\* The comparator breaks every tie, so ranks are distinct and cover the pool.
LEMMA RankBijective ==
    ASSUME batch \in Batches, NEW pool \in SUBSET Block
    PROVE  [b \in pool |-> Rank(pool, b)] \in Bijection(pool, 0..(Cardinality(pool) - 1))
<1> DEFINE R == { p \in Block \X Block : CheaperMinimum(p[1], p[2]) }
<1>1. IsFiniteSet(pool)
    BY BlockAssumption, FS_Subset
<1>2. \A a, b, c \in Block :
         /\ ~ CheaperMinimum(a, a)
         /\ a # b => CheaperMinimum(a, b) \/ CheaperMinimum(b, a)
         /\ CheaperMinimum(a, b) /\ CheaperMinimum(b, c) => CheaperMinimum(a, c)
    BY BlockAssumption, BatchFacts DEF CheaperMinimum
<1>3. \A a, b \in Block : << a, b >> \in R <=> CheaperMinimum(a, b)
    OBVIOUS
<1> HIDE DEF R
<1>4. [b \in pool |-> Cardinality({ a \in pool : << a, b >> \in R })] \in Bijection(pool, 0..(Cardinality(pool) - 1))
    BY <1>1, <1>2, <1>3, PlacesCover
<1>5. \A b \in pool : { a \in pool : << a, b >> \in R } = { a \in pool : CheaperMinimum(a, b) }
    BY <1>3
<1>6. [b \in pool |-> Rank(pool, b)] = [b \in pool |-> Cardinality({ a \in pool : << a, b >> \in R })]
    BY <1>5 DEF Rank
<1>7. QED BY <1>4, <1>6

\* #allocateCategoryMinimums slices exactly the number of blocks it needs as
\* soon as the pool holds that many, and never more.
LEMMA CheapestForCount ==
    ASSUME batch \in Batches, NEW c \in Category
    PROVE  /\ CheapestFor(c) \in SUBSET InCategory(Optional, c)
           /\ Needed(c) \in Nat
           /\ Cardinality(CheapestFor(c)) \in Nat
           /\ Cardinality(CheapestFor(c)) <= Needed(c)
           /\ CountIn(Optional, c) >= Needed(c) => Cardinality(CheapestFor(c)) = Needed(c)
<1> DEFINE pool == InCategory(Optional, c)
           n == Cardinality(pool)
           K == Needed(c)
           rank == [b \in pool |-> Rank(pool, b)]
           picks == CheapestFor(c)
<1>1. pool \in SUBSET Block /\ IsFiniteSet(pool) /\ n \in Nat
    <2>1. Optional \in SUBSET Block
        BY DEF Optional
    <2>2. QED
        BY <2>1, CountIsNat, FS_CardinalityType DEF InCategory
<1>2. K \in Nat
    <2>1. CountIn(Required, c) \in Nat /\ batch.minBlocks[c] \in Nat
        BY BatchFacts, CountIsNat DEF Required
    <2>2. QED BY <2>1 DEF Needed
<1>3. rank \in Bijection(pool, 0..(n - 1))
    BY <1>1, RankBijective
<1>4. /\ rank \in [pool -> 0..(n - 1)]
      /\ \A a, b \in pool : rank[a] = rank[b] => a = b
      /\ \A i \in 0..(n - 1) : \E b \in pool : rank[b] = i
    <2>1. rank \in Injection(pool, 0..(n - 1)) /\ rank \in Surjection(pool, 0..(n - 1))
        BY <1>3 DEF Bijection
    <2> HIDE DEF rank, n, pool
    <2>2. QED
        BY <2>1 DEF Injection, Surjection, IsInjective
<1>5. picks = { b \in pool : rank[b] < K }
    BY DEF CheapestFor, Rank
<1>6. IsFiniteSet(picks) /\ Cardinality(picks) \in Nat /\ Cardinality(picks) <= n
    <2>1. picks \in SUBSET pool
        BY <1>5
    <2>2. QED BY <1>1, <2>1, FS_Subset, FS_CardinalityType
<1>7. CASE K <= n
    <2> DEFINE f == [b \in picks |-> rank[b]]
    <2>1. f \in [picks -> 0..(K - 1)]
        BY <1>2, <1>4, <1>5
    <2>2. \A a, b \in picks : f[a] = f[b] => a = b
        BY <1>4, <1>5
    <2>3. \A i \in 0..(K - 1) : \E b \in picks : f[b] = i
        <3> SUFFICES ASSUME NEW i \in 0..(K - 1) PROVE \E b \in picks : f[b] = i
            OBVIOUS
        <3>1. i \in 0..(n - 1) /\ i < K
            BY <1>1, <1>2, <1>7
        <3>2. PICK b \in pool : rank[b] = i
            BY <1>4, <3>1
        <3>3. b \in picks
            BY <1>5, <3>1, <3>2
        <3>4. f[b] = i
            BY <3>2, <3>3
        <3>5. QED BY <3>3, <3>4
    <2>4. f \in Injection(picks, 0..(K - 1)) /\ f \in Surjection(picks, 0..(K - 1))
        BY <2>1, <2>2, <2>3, Fun_IsInj, Fun_IsSurj
    <2>5. IsFiniteSet(0..(K - 1)) /\ Cardinality(0..(K - 1)) = K
        BY <1>2, FS_Interval
    <2>6. Cardinality(picks) = K
        BY <2>4, <2>5, FS_Injection
    <2>7. QED
        BY <1>2, <1>5, <1>6, <2>6
<1>8. CASE ~ (K <= n)
    BY <1>1, <1>2, <1>5, <1>6, <1>8 DEF CountIn
<1>9. QED BY <1>7, <1>8

-----------------------------------------------------------------------------
(* Induction on finite sets, in the form the provers can use: a family of    *)
(* subsets of a finite set has a member none of the others is a part of.     *)

\* A family of subsets of a finite set has a minimal member.
LEMMA MinimalMember ==
    ASSUME NEW S, IsFiniteSet(S), NEW F \in SUBSET SUBSET S, F # {}
    PROVE  \E T \in F : \A U \in F : U \subseteq T => U = T
<1>1. IsWellFoundedOn(StrictSubsetOrdering(S), SUBSET S)
    BY FS_StrictSubsetOrderingWellFounded, FS_FiniteSubsetsOfFinite
<1>2. \E T \in F : \A U \in F : ~ (<<U, T>> \in StrictSubsetOrdering(S))
    BY <1>1, WFMin, Zenon
<1>3. QED BY <1>2, Zenon DEF StrictSubsetOrdering

\* What holds of the empty set, and of a set and one element more, holds of a
\* finite set.
LEMMA SubsetInduction ==
    ASSUME NEW S, IsFiniteSet(S), NEW G \in SUBSET SUBSET S, {} \in G,
           \A T \in G : \A x \in S \ T : T \cup {x} \in G
    PROVE  S \in G
<1> SUFFICES ASSUME S \notin G PROVE FALSE
    OBVIOUS
<1> DEFINE F == (SUBSET S) \ G
<1>1. F # {} /\ F \in SUBSET SUBSET S
    OBVIOUS
<1>2. PICK T \in F : \A U \in F : U \subseteq T => U = T
    <2> HIDE DEF F
    <2>1. QED BY <1>1, MinimalMember
<1>3. PICK x \in T : TRUE
    BY <1>2
<1>4. T \ {x} \in SUBSET S /\ T \ {x} \subseteq T /\ T \ {x} # T
    BY <1>2, <1>3
<1>5. T \ {x} \in G
    BY <1>2, <1>4
<1>6. (T \ {x}) \cup {x} = T /\ x \in S \ (T \ {x})
    BY <1>2, <1>3
<1>7. QED BY <1>2, <1>5, <1>6

-----------------------------------------------------------------------------
(* The sum over a set does not depend on the order it is taken in.           *)

Pick(s) == CHOOSE x \in s : TRUE

\* The function the fold of a set is defined with.
IsSum(g, w, D) ==
    g = [s \in SUBSET D |-> IF s = {} THEN 0 ELSE w[Pick(s)] + g[s \ {Pick(s)}]]

\* What IsSum says of one set.
LEMMA SumAt ==
    ASSUME NEW w, NEW D, NEW g, IsSum(g, w, D), NEW s \in SUBSET D
    PROVE  /\ s = {} => g[s] = 0
           /\ s # {} => /\ Pick(s) \in s
                        /\ s \ {Pick(s)} \in SUBSET D
                        /\ g[s] = w[Pick(s)] + g[s \ {Pick(s)}]
<1> DEFINE F(x) == IF x = {} THEN 0 ELSE w[Pick(x)] + g[x \ {Pick(x)}]
<1>1. g = [x \in SUBSET D |-> F(x)]
    BY DEF IsSum
<1>2. g[s] = F(s)
    <2> HIDE DEF F
    <2>1. QED BY <1>1
<1>3. s # {} => Pick(s) \in s
    BY DEF Pick
<1>4. QED BY <1>2, <1>3

\* Two of them agree wherever both are defined.
LEMMA SumsAgree ==
    ASSUME NEW w, NEW D, IsFiniteSet(D), NEW E \in SUBSET D, NEW g, NEW h,
           IsSum(g, w, D), IsSum(h, w, E)
    PROVE  \A s \in SUBSET E : g[s] = h[s]
<1> DEFINE F == { s \in SUBSET E : g[s] # h[s] }
<1> SUFFICES ASSUME F # {} PROVE FALSE
    OBVIOUS
<1>1. F \in SUBSET SUBSET E /\ IsFiniteSet(E)
    BY FS_Subset
<1>2. PICK T \in F : \A U \in F : U \subseteq T => U = T
    <2> HIDE DEF F
    <2>1. QED BY <1>1, MinimalMember
<1>3. T \in SUBSET E /\ T \in SUBSET D /\ g[T] # h[T]
    BY <1>2
<1>4. T # {}
    <2> HIDE DEF F
    <2>1. ASSUME T = {} PROVE g[T] = 0 /\ h[T] = 0
        BY <1>3, <2>1, SumAt
    <2>2. QED BY <1>3, <2>1
<1>5. /\ Pick(T) \in T
      /\ g[T] = w[Pick(T)] + g[T \ {Pick(T)}]
      /\ h[T] = w[Pick(T)] + h[T \ {Pick(T)}]
    BY <1>3, <1>4, SumAt
<1>6. g[T \ {Pick(T)}] = h[T \ {Pick(T)}]
    <2>1. T \ {Pick(T)} \in SUBSET E /\ T \ {Pick(T)} \subseteq T /\ T \ {Pick(T)} # T
        BY <1>3, <1>5
    <2>2. QED BY <1>2, <2>1
<1>7. QED BY <1>3, <1>5, <1>6

\* There is one for every finite set.
LEMMA SumExists ==
    ASSUME NEW w, NEW D, IsFiniteSet(D)
    PROVE  \E g : IsSum(g, w, D)
<1> DEFINE F == { s \in SUBSET D : ~ \E g : IsSum(g, w, s) }
<1> SUFFICES ASSUME F # {} PROVE FALSE
    BY Zenon
<1>1. F \in SUBSET SUBSET D
    OBVIOUS
<1>2. PICK T \in F : \A U \in F : U \subseteq T => U = T
    <2> HIDE DEF F
    <2>1. QED BY <1>1, MinimalMember
<1> DEFINE h(s) == CHOOSE g : IsSum(g, w, s)
           val(s) == IF s = {} THEN 0 ELSE w[Pick(s)] + h(s \ {Pick(s)})[s \ {Pick(s)}]
           g == [s \in SUBSET T |-> val(s)]
<1>3. T \in SUBSET D /\ ~ \E x : IsSum(x, w, T)
    BY <1>2
<1>4. ASSUME NEW u \in SUBSET T, u # T PROVE IsSum(h(u), w, u) /\ IsFiniteSet(u)
    <2>1. u \notin F /\ u \in SUBSET D
        BY <1>2, <1>3, <1>4
    <2>2. \E x : IsSum(x, w, u)
        BY <2>1
    <2>3. IsSum(h(u), w, u)
        BY <2>2, Zenon
    <2>4. QED BY <2>1, <2>3, FS_Subset
<1>5. ASSUME NEW u \in SUBSET T, u # T PROVE val(u) = h(u)[u]
    <2>1. CASE u = {}
        <3>1. IsSum(h(u), w, u) /\ u \in SUBSET u
            BY <1>4, <1>5
        <3>2. h(u)[u] = 0
            <4> HIDE DEF h
            <4>1. QED BY <2>1, <3>1, SumAt
        <3>3. QED BY <2>1, <3>2
    <2>2. CASE u # {}
        <3> DEFINE r == u \ {Pick(u)}
        <3>1. /\ Pick(u) \in u
              /\ h(u)[u] = w[Pick(u)] + h(u)[r]
            BY <1>4, <1>5, <2>2, SumAt
        <3>2. r \in SUBSET u /\ r \in SUBSET T /\ r # T
            BY <1>5, <3>1
        <3>3. IsSum(h(r), w, r) /\ IsSum(h(u), w, u) /\ IsFiniteSet(u)
            BY <1>4, <1>5, <3>2
        <3>4. h(u)[r] = h(r)[r]
            <4> HIDE DEF h, r
            <4>1. r \in SUBSET r
                OBVIOUS
            <4>2. QED BY <3>2, <3>3, <4>1, SumsAgree
        <3>5. QED BY <2>2, <3>1, <3>4
    <2>3. QED BY <2>1, <2>2
<1>6. \A s \in SUBSET T : s # {} => g[s \ {Pick(s)}] = h(s \ {Pick(s)})[s \ {Pick(s)}]
    <2> SUFFICES ASSUME NEW s \in SUBSET T, s # {}
                 PROVE  g[s \ {Pick(s)}] = h(s \ {Pick(s)})[s \ {Pick(s)}]
        OBVIOUS
    <2>1. Pick(s) \in s
        BY DEF Pick
    <2>2. s \ {Pick(s)} \in SUBSET T /\ s \ {Pick(s)} # T
        BY <2>1
    <2> HIDE DEF val, h
    <2>3. g[s \ {Pick(s)}] = val(s \ {Pick(s)})
        BY <2>2
    <2>4. QED BY <1>5, <2>2, <2>3
<1>7. \A s \in SUBSET T :
         val(s) = IF s = {} THEN 0 ELSE w[Pick(s)] + g[s \ {Pick(s)}]
    <2> HIDE DEF h, g
    <2>1. QED BY <1>6
<1>8. IsSum(g, w, T)
    <2> HIDE DEF h, val
    <2>1. g = [s \in SUBSET T |-> val(s)]
        OBVIOUS
    <2> HIDE DEF g
    <2>2. QED BY <1>7, <2>1 DEF IsSum
<1>9. QED BY <1>3, <1>8, Zenon

\* A sum is what its first element adds to the sum of the others.
LEMMA SumStarts ==
    ASSUME NEW w, NEW S, IsFiniteSet(S)
    PROVE  /\ S = {} => TokenSum(w, S) = 0
           /\ S # {} => /\ Pick(S) \in S
                        /\ TokenSum(w, S) = w[Pick(S)] + TokenSum(w, S \ {Pick(S)})
<1> DEFINE h(s) == CHOOSE g : IsSum(g, w, s)
           r == S \ {Pick(S)}
<1>1. \A s : TokenSum(w, s) = h(s)[s]
    BY Zenon DEF TokenSum, MapThenSumSet, MapThenFoldSet, IsSum, Pick
<1>2. \A s \in SUBSET S : IsFiniteSet(s) /\ IsSum(h(s), w, s)
    <2> SUFFICES ASSUME NEW s \in SUBSET S PROVE IsFiniteSet(s) /\ IsSum(h(s), w, s)
        OBVIOUS
    <2>1. IsFiniteSet(s)
        BY FS_Subset
    <2>2. \E g : IsSum(g, w, s)
        BY <2>1, SumExists
    <2>3. QED BY <2>1, <2>2, Zenon
<1> HIDE DEF h
<1>3. S = {} => h(S)[S] = 0
    BY <1>2, SumAt
<1>4. ASSUME S # {}
      PROVE  Pick(S) \in S /\ h(S)[S] = w[Pick(S)] + h(r)[r]
    <2>1. Pick(S) \in S /\ h(S)[S] = w[Pick(S)] + h(S)[r]
        BY <1>2, <1>4, SumAt
    <2>2. r \in SUBSET S /\ r \in SUBSET r
        OBVIOUS
    <2> HIDE DEF r
    <2>3. h(S)[r] = h(r)[r]
        BY <1>2, <2>2, SumsAgree
    <2>4. QED BY <2>1, <2>3
<1>5. QED BY <1>1, <1>3, <1>4

\* The sum of naturals is a natural.
LEMMA SumIsNat ==
    ASSUME NEW w, NEW S, IsFiniteSet(S), \A x \in S : w[x] \in Nat
    PROVE  TokenSum(w, S) \in Nat
<1> DEFINE F == { s \in SUBSET S : TokenSum(w, s) \notin Nat }
<1> SUFFICES ASSUME F # {} PROVE FALSE
    OBVIOUS
<1>1. PICK T \in F : \A U \in F : U \subseteq T => U = T
    <2>1. F \in SUBSET SUBSET S
        OBVIOUS
    <2> HIDE DEF F
    <2>2. QED BY <2>1, MinimalMember
<1>2. T \in SUBSET S /\ IsFiniteSet(T) /\ TokenSum(w, T) \notin Nat
    BY <1>1, FS_Subset
<1>3. T # {} /\ Pick(T) \in T /\ TokenSum(w, T) = w[Pick(T)] + TokenSum(w, T \ {Pick(T)})
    <2> HIDE DEF F
    <2>1. T = {} => TokenSum(w, T) = 0
        BY <1>2, SumStarts
    <2>2. T # {}
        BY <1>2, <2>1
    <2>3. QED BY <1>2, <2>2, SumStarts
<1>4. T \ {Pick(T)} \notin F
    BY <1>1, <1>3
<1>5. TokenSum(w, T \ {Pick(T)}) \in Nat /\ w[Pick(T)] \in Nat
    BY <1>2, <1>3, <1>4
<1>6. QED BY <1>2, <1>3, <1>5

\* One element more adds itself, whichever it is.
LEMMA SumAdd ==
    ASSUME NEW w, NEW S, IsFiniteSet(S), NEW b, b \notin S, w[b] \in Nat,
           \A x \in S : w[x] \in Nat
    PROVE  TokenSum(w, S \cup {b}) = TokenSum(w, S) + w[b]
<1> DEFINE N == S \cup {b}
           Adds(s, x) == TokenSum(w, s \cup {x}) = TokenSum(w, s) + w[x]
           F == { s \in SUBSET N : \E x \in N \ s : ~ Adds(s, x) }
<1>1. /\ IsFiniteSet(N) /\ (\A x \in N : w[x] \in Nat)
      /\ \A s \in SUBSET N : IsFiniteSet(s) /\ TokenSum(w, s) \in Nat
    <2>1. IsFiniteSet(N) /\ (\A x \in N : w[x] \in Nat)
        BY FS_AddElement
    <2> HIDE DEF N
    <2>2. ASSUME NEW s \in SUBSET N PROVE IsFiniteSet(s) /\ TokenSum(w, s) \in Nat
        <3>1. IsFiniteSet(s) /\ (\A x \in s : w[x] \in Nat)
            BY <2>1, FS_Subset
        <3>2. QED BY <3>1, SumIsNat
    <2>3. QED BY <2>1, <2>2
<1> SUFFICES ASSUME F # {} PROVE FALSE
    <2>1. S \in SUBSET N /\ S \notin F => \A x \in N \ S : Adds(S, x)
        OBVIOUS
    <2>2. S \in SUBSET N /\ b \in N \ S
        OBVIOUS
    <2>3. QED BY <2>1, <2>2
<1>2. PICK T \in F : \A U \in F : U \subseteq T => U = T
    <2>1. F \in SUBSET SUBSET N
        OBVIOUS
    <2> HIDE DEF F, N
    <2>2. QED BY <1>1, <2>1, MinimalMember
<1>3. PICK x \in N \ T : ~ Adds(T, x)
    BY <1>2
<1> DEFINE p == Pick(T \cup {x})
<1>4. T \in SUBSET N /\ T \cup {x} \in SUBSET N /\ T \cup {x} # {}
    BY <1>2, <1>3
<1>5. /\ p \in T \cup {x}
      /\ TokenSum(w, T \cup {x}) = w[p] + TokenSum(w, (T \cup {x}) \ {p})
    <2> HIDE DEF N, Adds
    <2>1. QED BY <1>1, <1>4, SumStarts
<1> HIDE DEF p
<1>6. CASE p = x
    <2>1. (T \cup {x}) \ {p} = T
        BY <1>3, <1>6
    <2> HIDE DEF N
    <2>2. w[x] \in Nat /\ TokenSum(w, T) \in Nat
        BY <1>1, <1>3, <1>4
    <2>3. TokenSum(w, (T \cup {x}) \ {p}) = TokenSum(w, T)
        BY <2>1, Zenon
    <2>4. QED BY <1>3, <1>5, <1>6, <2>2, <2>3
<1>7. CASE p \in T /\ p # x
    <2> DEFINE r == T \ {p}
    <2>1. r \in SUBSET N /\ r \subseteq T /\ r # T /\ x \in N \ r /\ p \in N \ r
        BY <1>3, <1>4, <1>7
    <2>2. r \notin F
        BY <1>2, <2>1
    <2>3. Adds(r, x) /\ Adds(r, p)
        <3>1. \A y \in N \ r : Adds(r, y)
            <4> HIDE DEF r, N, Adds
            <4>1. QED BY <2>1, <2>2
        <3> HIDE DEF Adds, r, N
        <3>2. QED BY <2>1, <3>1
    <2>4. (T \cup {x}) \ {p} = r \cup {x} /\ r \cup {p} = T
        BY <1>3, <1>7
    <2> HIDE DEF r, N
    <2>5. w[x] \in Nat /\ w[p] \in Nat /\ TokenSum(w, r) \in Nat
        BY <1>1, <1>3, <2>1
    <2>6. /\ TokenSum(w, (T \cup {x}) \ {p}) = TokenSum(w, r \cup {x})
          /\ TokenSum(w, T) = TokenSum(w, r \cup {p})
        BY <2>4, Zenon
    <2>7. QED BY <1>3, <1>5, <2>3, <2>5, <2>6
<1>8. QED BY <1>5, <1>6, <1>7

\* A part of a set of naturals never sums to more than the set.
LEMMA SumMonotone ==
    ASSUME NEW w, NEW S, IsFiniteSet(S), \A x \in S : w[x] \in Nat, NEW T \in SUBSET S
    PROVE  TokenSum(w, T) <= TokenSum(w, S)
<1> DEFINE G == { U \in SUBSET (S \ T) : TokenSum(w, T) <= TokenSum(w, T \cup U) }
<1>1. IsFiniteSet(S \ T) /\ IsFiniteSet(T) /\ TokenSum(w, T) \in Nat
    BY FS_Subset, SumIsNat
<1>2. G \in SUBSET SUBSET (S \ T) /\ {} \in G
    <2>1. T \cup {} = T
        OBVIOUS
    <2>2. TokenSum(w, T \cup {}) = TokenSum(w, T)
        BY <2>1, Zenon
    <2>3. QED BY <1>1, <2>2
<1>3. ASSUME NEW U \in G, NEW x \in (S \ T) \ U PROVE U \cup {x} \in G
    <2> DEFINE V == T \cup U
    <2>1. V \in SUBSET S /\ x \in S /\ x \notin V
        BY <1>3
    <2>2. IsFiniteSet(V) /\ \A y \in V : w[y] \in Nat
        BY <2>1, FS_Subset
    <2>3. TokenSum(w, T) <= TokenSum(w, V)
        BY <1>3
    <2>4. T \cup (U \cup {x}) = V \cup {x}
        OBVIOUS
    <2>5. TokenSum(w, T \cup (U \cup {x})) = TokenSum(w, V \cup {x})
        BY <2>4, Zenon
    <2>6. w[x] \in Nat
        BY <2>1
    <2> HIDE DEF V
    <2>7. TokenSum(w, V \cup {x}) = TokenSum(w, V) + w[x]
        BY <2>1, <2>2, <2>6, SumAdd
    <2>8. TokenSum(w, V) \in Nat
        BY <2>2, SumIsNat
    <2>9. TokenSum(w, T) <= TokenSum(w, T \cup (U \cup {x}))
        BY <1>1, <2>3, <2>5, <2>6, <2>7, <2>8
    <2>10. QED BY <1>3, <2>9
<1>4. S \ T \in G
    <2> HIDE DEF G
    <2>1. QED BY <1>1, <1>2, <1>3, SubsetInduction
<1>5. T \cup (S \ T) = S
    OBVIOUS
<1>6. TokenSum(w, T \cup (S \ T)) = TokenSum(w, S)
    BY <1>5, Zenon
<1>7. QED BY <1>4, <1>6

\* Disjoint sets sum to the sum of their sums.
LEMMA SumUnion ==
    ASSUME NEW w, NEW S, NEW T, IsFiniteSet(S), IsFiniteSet(T), S \cap T = {},
           \A x \in S \cup T : w[x] \in Nat
    PROVE  TokenSum(w, S \cup T) = TokenSum(w, S) + TokenSum(w, T)
<1> DEFINE G == { U \in SUBSET T : TokenSum(w, S \cup U) = TokenSum(w, S) + TokenSum(w, U) }
<1>1. TokenSum(w, S) \in Nat /\ TokenSum(w, {}) = 0
    BY SumIsNat, SumStarts, FS_EmptySet
<1>2. G \in SUBSET SUBSET T /\ {} \in G
    <2>1. S \cup {} = S
        OBVIOUS
    <2>2. TokenSum(w, S \cup {}) = TokenSum(w, S)
        BY <2>1, Zenon
    <2>3. QED BY <1>1, <2>2
<1>3. ASSUME NEW U \in G, NEW x \in T \ U PROVE U \cup {x} \in G
    <2> DEFINE V == S \cup U
    <2>1. U \in SUBSET T /\ x \in T /\ x \notin V /\ x \notin U
        BY <1>3
    <2>2. IsFiniteSet(U) /\ IsFiniteSet(V) /\ \A y \in V : w[y] \in Nat
        BY <2>1, FS_Subset, FS_Union
    <2>3. TokenSum(w, V) = TokenSum(w, S) + TokenSum(w, U)
        BY <1>3
    <2>4. S \cup (U \cup {x}) = V \cup {x}
        OBVIOUS
    <2>5. TokenSum(w, S \cup (U \cup {x})) = TokenSum(w, V \cup {x})
        BY <2>4, Zenon
    <2>6. w[x] \in Nat /\ \A y \in U : w[y] \in Nat
        BY <2>1
    <2> HIDE DEF V
    <2>7. TokenSum(w, V \cup {x}) = TokenSum(w, V) + w[x]
        BY <2>1, <2>2, <2>6, SumAdd
    <2>8. TokenSum(w, U \cup {x}) = TokenSum(w, U) + w[x]
        BY <2>1, <2>2, <2>6, SumAdd
    <2>9. TokenSum(w, U) \in Nat
        BY <2>2, <2>6, SumIsNat
    <2>10. TokenSum(w, S \cup (U \cup {x})) = TokenSum(w, S) + TokenSum(w, U \cup {x})
        BY <1>1, <2>3, <2>5, <2>6, <2>7, <2>8, <2>9
    <2>11. QED BY <2>1, <2>10
<1>4. T \in G
    <2> HIDE DEF G
    <2>1. QED BY <1>2, <1>3, SubsetInduction
<1>5. QED BY <1>4

\* If no element of S costs more than any of T, and T has as many elements, S
\* sums to no more than T.
LEMMA SumExchange ==
    ASSUME NEW w, NEW S, NEW T, IsFiniteSet(S), IsFiniteSet(T),
           Cardinality(S) <= Cardinality(T), \A x \in S \cup T : w[x] \in Nat,
           \A x \in S, y \in T : w[x] <= w[y]
    PROVE  TokenSum(w, S) <= TokenSum(w, T)
<1> DEFINE Below(U) == \A V \in SUBSET T : Cardinality(U) <= Cardinality(V) =>
                                         TokenSum(w, U) <= TokenSum(w, V)
           G == { U \in SUBSET S : Below(U) }
<1>1. \A V \in SUBSET T : IsFiniteSet(V) /\ Cardinality(V) \in Nat /\ TokenSum(w, V) \in Nat
    <2> SUFFICES ASSUME NEW V \in SUBSET T
                 PROVE  IsFiniteSet(V) /\ Cardinality(V) \in Nat /\ TokenSum(w, V) \in Nat
        OBVIOUS
    <2>1. IsFiniteSet(V) /\ \A x \in V : w[x] \in Nat
        BY FS_Subset
    <2>2. QED BY <2>1, FS_CardinalityType, SumIsNat
<1>2. \A U \in SUBSET S : IsFiniteSet(U) /\ Cardinality(U) \in Nat /\ TokenSum(w, U) \in Nat
    <2> SUFFICES ASSUME NEW U \in SUBSET S
                 PROVE  IsFiniteSet(U) /\ Cardinality(U) \in Nat /\ TokenSum(w, U) \in Nat
        OBVIOUS
    <2>1. IsFiniteSet(U) /\ \A x \in U : w[x] \in Nat
        BY FS_Subset
    <2>2. QED BY <2>1, FS_CardinalityType, SumIsNat
<1>3. G \in SUBSET SUBSET S /\ {} \in G
    <2>1. TokenSum(w, {}) = 0
        BY SumStarts, FS_EmptySet
    <2>2. QED BY <1>1, <2>1
<1>4. ASSUME NEW U \in G, NEW x \in S \ U PROVE U \cup {x} \in G
    <2> SUFFICES ASSUME NEW V \in SUBSET T, Cardinality(U \cup {x}) <= Cardinality(V)
                 PROVE  TokenSum(w, U \cup {x}) <= TokenSum(w, V)
        BY <1>4
    <2>1. U \in SUBSET S /\ Below(U)
        BY <1>4
    <2>2. IsFiniteSet(U) /\ Cardinality(U) \in Nat /\ Cardinality(V) \in Nat
        BY <1>1, <1>2, <2>1
    <2>3. Cardinality(U \cup {x}) = Cardinality(U) + 1
        BY <1>4, <2>2, FS_AddElement
    <2>4. V # {}
        <3>1. V = {} => Cardinality(V) = 0
            BY FS_EmptySet, Zenon
        <3>2. QED BY <2>2, <2>3, <3>1
    <2>5. PICK y \in V : TRUE
        BY <2>4
    <2> DEFINE W == V \ {y}
    <2>6. W \in SUBSET T /\ y \in T /\ y \notin W /\ IsFiniteSet(W) /\ Cardinality(W) = Cardinality(V) - 1
        BY <1>1, <2>5, FS_RemoveElement
    <2>7. TokenSum(w, U) <= TokenSum(w, W)
        <3> HIDE DEF W
        <3>1. Cardinality(U) <= Cardinality(W)
            BY <2>2, <2>3, <2>6
        <3>2. QED BY <2>1, <2>6, <3>1
    <2>8. W \cup {y} = V
        BY <2>5
    <2>9. TokenSum(w, W \cup {y}) = TokenSum(w, V)
        BY <2>8, Zenon
    <2>10. w[x] \in Nat /\ w[y] \in Nat /\ w[x] <= w[y]
        BY <1>4, <2>6
    <2> HIDE DEF W, Below
    <2>11. (\A z \in W : w[z] \in Nat) /\ (\A z \in U : w[z] \in Nat)
        BY <2>1, <2>6
    <2>12. TokenSum(w, W \cup {y}) = TokenSum(w, W) + w[y]
        BY <2>6, <2>10, <2>11, SumAdd
    <2>13. TokenSum(w, U \cup {x}) = TokenSum(w, U) + w[x]
        BY <1>4, <2>2, <2>10, <2>11, SumAdd
    <2>14. TokenSum(w, U) \in Nat /\ TokenSum(w, W) \in Nat
        BY <1>1, <1>2, <2>1, <2>6
    <2>15. QED BY <2>7, <2>9, <2>10, <2>12, <2>13, <2>14
<1>5. S \in G
    <2> HIDE DEF G
    <2>1. QED BY <1>3, <1>4, SubsetInduction
<1>6. QED BY <1>5

\* Disjoint finite sets count for what each counts.
LEMMA DisjointCount ==
    ASSUME NEW S, NEW T, IsFiniteSet(S), IsFiniteSet(T), S \cap T = {}
    PROVE  Cardinality(S \cup T) = Cardinality(S) + Cardinality(T)
<1>1. Cardinality(S \cup T) = Cardinality(S) + Cardinality(T) - Cardinality(S \cap T)
    BY FS_Union
<1>2. Cardinality(S \cap T) = 0
    BY FS_EmptySet, Zenon
<1>3. Cardinality(S) \in Nat /\ Cardinality(T) \in Nat
    BY FS_CardinalityType
<1>4. QED BY <1>1, <1>2, <1>3

\* No selection of blocks of c that reaches what its minimum needs costs less
\* than the slice #allocateCategoryMinimums takes.
LEMMA CheapestIsCheapest ==
    ASSUME batch \in Batches, NEW c \in Category, NEW U \in SUBSET InCategory(Optional, c),
           Cardinality(U) >= Needed(c)
    PROVE  ContentTokens(CheapestFor(c)) <= ContentTokens(U)
<1> DEFINE pool == InCategory(Optional, c)
           P == CheapestFor(c)
           w == batch.tokens
<1>1. /\ pool \in SUBSET Block /\ IsFiniteSet(pool) /\ P \in SUBSET pool
      /\ Cardinality(P) \in Nat /\ Needed(c) \in Nat /\ Cardinality(P) <= Needed(c)
    <2>1. Optional \in SUBSET Block
        BY DEF Optional
    <2>2. QED
        BY <2>1, CountIsNat, CheapestForCount DEF InCategory
<1>2. \A S \in SUBSET pool :
         IsFiniteSet(S) /\ Cardinality(S) \in Nat /\ (\A x \in S : w[x] \in Nat)
    <2> SUFFICES ASSUME NEW S \in SUBSET pool
                 PROVE  IsFiniteSet(S) /\ Cardinality(S) \in Nat /\ (\A x \in S : w[x] \in Nat)
        OBVIOUS
    <2>1. IsFiniteSet(S)
        BY <1>1, FS_Subset
    <2>2. \A x \in S : w[x] \in Nat
        BY <1>1, BatchFacts
    <2>3. QED BY <2>1, <2>2, FS_CardinalityType
<1>3. \A a \in P, b \in pool \ P : w[a] <= w[b]
    <2> SUFFICES ASSUME NEW a \in P, NEW b \in pool \ P, w[b] < w[a] PROVE FALSE
        <3>1. \A x \in pool : w[x] \in Nat
            BY <1>2
        <3>2. P \in SUBSET pool
            BY <1>1
        <3> HIDE DEF P, pool, w
        <3>3. QED BY <3>1, <3>2
    <2> DEFINE before(x) == { y \in pool : CheaperMinimum(y, x) }
    <2>1. before(b) \in SUBSET before(a)
        <3>1. a \in Block /\ b \in Block /\ pool \in SUBSET Block
            BY <1>1
        <3>2. \A y \in Block : CheaperMinimum(y, b) => CheaperMinimum(y, a)
            BY <3>1, BlockAssumption, BatchFacts DEF CheaperMinimum
        <3>3. QED BY <3>1, <3>2
    <2>2. /\ Cardinality(before(a)) \in Nat /\ Cardinality(before(b)) \in Nat
          /\ Cardinality(before(b)) <= Cardinality(before(a))
        <3>1. before(a) \in SUBSET pool /\ before(b) \in SUBSET pool
            OBVIOUS
        <3>2. QED BY <1>2, <2>1, <3>1, FS_Subset
    <2>3. Cardinality(before(a)) < Needed(c) /\ ~ (Cardinality(before(b)) < Needed(c))
        BY DEF CheapestFor
    <2> HIDE DEF before, P, pool
    <2>4. QED BY <1>1, <2>2, <2>3
<1> DEFINE kept == P \cap U
           paid == P \ U
           swap == U \ P
<1>4. /\ kept \in SUBSET pool /\ paid \in SUBSET pool /\ swap \in SUBSET pool /\ U \in SUBSET pool
      /\ kept \cap paid = {} /\ kept \cap swap = {}
      /\ P = kept \cup paid /\ U = kept \cup swap
    BY <1>1
<1>5. \A a \in paid, b \in swap : w[a] <= w[b]
    BY <1>3, <1>4
<1>6. ContentTokens(P) = TokenSum(w, kept \cup paid) /\ ContentTokens(U) = TokenSum(w, kept \cup swap)
    <2>1. ContentTokens(P) = TokenSum(w, P) /\ ContentTokens(U) = TokenSum(w, U)
        BY Zenon DEF ContentTokens
    <2>2. QED BY <1>4, <2>1, Zenon
<1>7. /\ Cardinality(P) = Cardinality(kept) + Cardinality(paid)
      /\ Cardinality(U) = Cardinality(kept) + Cardinality(swap)
    <2>1. /\ Cardinality(kept \cup paid) = Cardinality(kept) + Cardinality(paid)
          /\ Cardinality(kept \cup swap) = Cardinality(kept) + Cardinality(swap)
        <3> HIDE DEF kept, paid, swap
        <3>1. QED BY <1>2, <1>4, DisjointCount
    <2>2. Cardinality(P) = Cardinality(kept \cup paid) /\ Cardinality(U) = Cardinality(kept \cup swap)
        BY <1>4, Zenon
    <2>3. QED BY <2>1, <2>2
<1> HIDE DEF kept, paid, swap, pool, P, w
<1>8. Cardinality(paid) <= Cardinality(swap)
    BY <1>1, <1>2, <1>4, <1>7
<1>9. TokenSum(w, paid) <= TokenSum(w, swap)
    BY <1>2, <1>4, <1>5, <1>8, SumExchange
<1>10. /\ TokenSum(w, kept \cup paid) = TokenSum(w, kept) + TokenSum(w, paid)
       /\ TokenSum(w, kept \cup swap) = TokenSum(w, kept) + TokenSum(w, swap)
    BY <1>2, <1>4, SumUnion
<1>11. /\ TokenSum(w, kept) \in Nat /\ TokenSum(w, paid) \in Nat /\ TokenSum(w, swap) \in Nat
    BY <1>2, <1>4, SumIsNat
<1>12. TokenSum(w, kept \cup paid) <= TokenSum(w, kept \cup swap)
    BY <1>9, <1>10, <1>11
<1>13. ContentTokens(P) <= ContentTokens(U)
    BY <1>6, <1>12
<1>14. QED BY <1>13 DEF P

\* The content of a selection is a number, and no selection costs less than a
\* part of it.
LEMMA ContentFacts ==
    ASSUME batch \in Batches, NEW S \in SUBSET Block
    PROVE  /\ IsFiniteSet(S)
           /\ ContentTokens(S) \in Nat
           /\ \A T \in SUBSET S : ContentTokens(T) <= ContentTokens(S)
           /\ \A b \in Block \ S :
                 ContentTokens(S \cup {b}) = ContentTokens(S) + batch.tokens[b]
<1>1. IsFiniteSet(S) /\ \A x \in Block : batch.tokens[x] \in Nat
    BY BlockAssumption, FS_Subset, BatchFacts
<1>2. \A T : ContentTokens(T) = TokenSum(batch.tokens, T)
    BY Zenon DEF ContentTokens
<1>3. TokenSum(batch.tokens, S) \in Nat
    BY <1>1, SumIsNat
<1>4. \A T \in SUBSET S : TokenSum(batch.tokens, T) <= TokenSum(batch.tokens, S)
    BY <1>1, SumMonotone
<1>5. ASSUME NEW b \in Block \ S
      PROVE  TokenSum(batch.tokens, S \cup {b}) = TokenSum(batch.tokens, S) + batch.tokens[b]
    BY <1>1, SumAdd
<1>6. QED BY <1>1, <1>2, <1>3, <1>4, <1>5

\* Disjoint selections cost what each costs.
LEMMA ContentUnion ==
    ASSUME batch \in Batches, NEW S \in SUBSET Block, NEW T \in SUBSET Block, S \cap T = {}
    PROVE  ContentTokens(S \cup T) = ContentTokens(S) + ContentTokens(T)
<1>1. IsFiniteSet(S) /\ IsFiniteSet(T) /\ \A x \in S \cup T : batch.tokens[x] \in Nat
    BY BlockAssumption, FS_Subset, BatchFacts
<1>2. \A U : ContentTokens(U) = TokenSum(batch.tokens, U)
    BY Zenon DEF ContentTokens
<1>3. TokenSum(batch.tokens, S \cup T) = TokenSum(batch.tokens, S) + TokenSum(batch.tokens, T)
    BY <1>1, SumUnion
<1>4. QED BY <1>2, <1>3

-----------------------------------------------------------------------------
(* The cheapest slice, block by block. *)

\* A nonempty set of numbers has a least member.
LEMMA LeastMember ==
    ASSUME NEW D \in SUBSET Nat, D # {}
    PROVE  \E c \in D : \A d \in D : ~ (d < c)
<1> DEFINE Below == { p \in Nat \X Nat : p[1] < p[2] }
<1>1. IsWellFoundedOn(Below, Nat)
    BY NatLessThanWellFounded, SMT DEF OpToRel
<1>2. PICK c \in D : \A d \in D : ~ (<<d, c>> \in Below)
    <2> HIDE DEF Below
    <2>1. QED BY <1>1, WFMin, Zenon
<1>3. QED BY <1>2

\* Of two blocks of a pool the one of lower rank is the cheaper.
LEMMA LowerRankIsCheaper ==
    ASSUME batch \in Batches, NEW c \in Category,
           NEW a \in CheapestFor(c), NEW b \in InCategory(Optional, c) \ CheapestFor(c)
    PROVE  CheaperMinimum(a, b)
<1> DEFINE pool == InCategory(Optional, c)
           before(x) == { y \in pool : CheaperMinimum(y, x) }
<1>1. a \in pool /\ b \in pool /\ a # b /\ pool \in SUBSET Block /\ IsFiniteSet(pool)
    BY BlockAssumption, FS_Subset DEF CheapestFor, InCategory, Optional
<1>2. \A x, y, z \in Block :
         /\ x # y => CheaperMinimum(x, y) \/ CheaperMinimum(y, x)
         /\ CheaperMinimum(x, y) /\ CheaperMinimum(y, z) => CheaperMinimum(x, z)
    <2>1. \A x \in Block : x \in Nat /\ batch.tokens[x] \in Nat /\ batch.score[x] \in Nat
        BY BlockAssumption, BatchFacts
    <2>2. \A x, y \in Block : x # y => CheaperMinimum(x, y) \/ CheaperMinimum(y, x)
        BY <2>1 DEF CheaperMinimum
    <2>3. \A x, y, z \in Block :
             CheaperMinimum(x, y) /\ CheaperMinimum(y, z) => CheaperMinimum(x, z)
        BY <2>1 DEF CheaperMinimum
    <2>4. QED BY <2>2, <2>3
<1>3. Cardinality(before(a)) < Needed(c) /\ ~ (Cardinality(before(b)) < Needed(c))
    BY <1>1 DEF CheapestFor
<1>4. /\ Needed(c) \in Nat /\ IsFiniteSet(before(a)) /\ IsFiniteSet(before(b))
      /\ Cardinality(before(a)) \in Nat /\ Cardinality(before(b)) \in Nat
    <2>1. before(a) \in SUBSET pool /\ before(b) \in SUBSET pool
        OBVIOUS
    <2> HIDE DEF before, pool
    <2>2. QED BY <1>1, <2>1, CheapestForCount, FS_Subset, FS_CardinalityType
<1>5. SUFFICES ASSUME CheaperMinimum(b, a) PROVE FALSE
    BY <1>1, <1>2
<1>6. before(b) \in SUBSET before(a)
    BY <1>1, <1>2, <1>5
<1> HIDE DEF before, pool
<1>7. Cardinality(before(b)) <= Cardinality(before(a))
    BY <1>4, <1>6, FS_Subset
<1>8. QED BY <1>3, <1>4, <1>7

=============================================================================
