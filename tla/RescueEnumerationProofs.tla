----------------------- MODULE RescueEnumerationProofs -----------------------
(***************************************************************************)
(* The two generators of the correction search yield what they promise,    *)
(* whatever the batch: the pruned walk every policy-valid selection, and   *)
(* the nested combinations every minimal base, each exactly once and in    *)
(* the documented order.                                                   *)
(*                                                                         *)
(* The walk first.  A subset of the pool is the set T of its positions;    *)
(* the walk has decided the positions below `at`, of which it holds the    *)
(* ones in `taken`.  Its work is bounded by what was yielded: every call   *)
(* of `walk` has a caller, and one that passed the prunes can complete its *)
(* branch.  Then, from Combinations on, the bases: what is awaited of them *)
(* agrees with the tuples of the running generators or comes after them.   *)
(***************************************************************************)
EXTENDS RescueEnumeration, HardBaseEnumeration, CandidateBatchProofs

-----------------------------------------------------------------------------
(* The pool.                                                               *)

Places == 1..Len(pool)

\* The blocks at some positions, and the selection they complete.
At(T)          == { pool[i] : i \in T }
SelectionAt(T) == Required \cup At(T)
HeldBy(T, c)   == CountIn(At(T), c)

\* The pool is the optional blocks, each once, in rescue order.
PoolInv ==
    /\ batch \in Batches
    /\ Len(pool) \in Nat
    /\ pool \in [Places -> Optional]
    /\ \A i, j \in Places : pool[i] = pool[j] => i = j
    /\ \A b \in Optional : \E i \in Places : pool[i] = b
    /\ \A i, j \in Places : i < j => RescueEarlier(pool[i], pool[j])

\* The rescue order is a strict total order of blocks.
LEMMA RescueOrderIsTotal ==
    ASSUME batch \in Batches
    PROVE  \A a, b, c \in Block :
              /\ ~ RescueEarlier(a, a)
              /\ a # b => RescueEarlier(a, b) \/ RescueEarlier(b, a)
              /\ RescueEarlier(a, b) /\ RescueEarlier(b, c) => RescueEarlier(a, c)
<1> SUFFICES ASSUME NEW a \in Block, NEW b \in Block, NEW c \in Block
             PROVE  /\ ~ RescueEarlier(a, a)
                    /\ a # b => RescueEarlier(a, b) \/ RescueEarlier(b, a)
                    /\ RescueEarlier(a, b) /\ RescueEarlier(b, c) => RescueEarlier(a, c)
    OBVIOUS
<1>1. /\ batch.category[a] \in Nat /\ batch.category[b] \in Nat /\ batch.category[c] \in Nat
      /\ a \in Nat /\ b \in Nat /\ c \in Nat
    <2>1. batch.category \in [Block -> Category \cup {NoCategory}]
        BY BatchFacts
    <2>2. Category \cup {NoCategory} \subseteq Nat
        BY CategoryAssumption DEF NoCategory
    <2>3. QED BY <2>1, <2>2, BlockAssumption
<1>2. QED BY <1>1 DEF RescueEarlier

\* The members of a finite set, each at its place.
ByPlace(S, place) == [ i \in 1..Cardinality(S) |-> CHOOSE b \in S : place[b] = i - 1 ]

LEMMA SortedMembers ==
    ASSUME NEW S, IsFiniteSet(S), NEW place \in Bijection(S, 0..(Cardinality(S) - 1))
    PROVE  LET list == ByPlace(S, place)
           IN  /\ Len(list) \in Nat /\ Len(list) = Cardinality(S) /\ list \in [1..Len(list) -> S]
               /\ \A i, j \in 1..Len(list) : list[i] = list[j] => i = j
               /\ \A b \in S : \E i \in 1..Len(list) : list[i] = b
               /\ \A i, j \in 1..Len(list) : i < j => place[list[i]] < place[list[j]]
<1> DEFINE n == Cardinality(S)
           member(i) == CHOOSE b \in S : place[b] = i - 1
           list == ByPlace(S, place)
<1>1. n \in Nat
    BY FS_CardinalityType
<1>2. list = [ i \in 1..n |-> member(i) ]
    BY DEF ByPlace
<1>3. place \in Injection(S, 0..(n - 1)) /\ place \in Surjection(S, 0..(n - 1))
    BY DEF Bijection
<1> HIDE DEF n, list
<1>4. /\ place \in [S -> 0..(n - 1)]
      /\ \A a, b \in S : place[a] = place[b] => a = b
      /\ \A i \in 0..(n - 1) : \E b \in S : place[b] = i
    BY <1>3 DEF Injection, Surjection, IsInjective
<1>5. \A i \in 1..n : member(i) \in S /\ place[member(i)] = i - 1
    <2> SUFFICES ASSUME NEW i \in 1..n PROVE member(i) \in S /\ place[member(i)] = i - 1
        OBVIOUS
    <2>1. i - 1 \in 0..(n - 1)
        BY <1>1
    <2>2. \E b \in S : place[b] = i - 1
        BY <1>4, <2>1
    <2>3. QED BY <2>2, Zenon
<1> HIDE DEF member
<1>6. list \in [1..n -> S] /\ \A i \in 1..n : place[list[i]] = i - 1
    BY <1>2, <1>5
<1>7. Len(list) = n
    BY <1>1, <1>6
<1>8. \A i, j \in 1..n : list[i] = list[j] => i = j
    BY <1>1, <1>6
<1>9. \A b \in S : \E i \in 1..n : list[i] = b
    <2> SUFFICES ASSUME NEW b \in S PROVE \E i \in 1..n : list[i] = b
        OBVIOUS
    <2>1. place[b] \in 0..(n - 1)
        BY <1>4
    <2>2. place[b] + 1 \in 1..n
        BY <1>1, <2>1
    <2>3. place[list[place[b] + 1]] = place[b] /\ list[place[b] + 1] \in S
        BY <1>1, <1>6, <2>1, <2>2
    <2>4. list[place[b] + 1] = b
        BY <1>4, <2>3
    <2>5. QED BY <2>2, <2>4
<1>10. \A i, j \in 1..n : i < j => place[list[i]] < place[list[j]]
    BY <1>1, <1>6
<1>11. QED BY <1>1, <1>6, <1>7, <1>8, <1>9, <1>10 DEF n, list

\* What the order says of two blocks of the pool.
LEMMA PoolIsSorted ==
    ASSUME batch \in Batches, pool = Ascending(Optional, RescueEarlier)
    PROVE  PoolInv
<1> DEFINE R == { p \in Block \X Block : RescueEarlier(p[1], p[2]) }
           n == Cardinality(Optional)
           place == [b \in Optional |-> Cardinality({ a \in Optional : << a, b >> \in R })]
<1>1. Optional \in SUBSET Block /\ IsFiniteSet(Optional) /\ n \in Nat
    <2>1. Optional \in SUBSET Block
        BY DEF Optional
    <2>2. QED BY <2>1, BlockAssumption, FS_Subset, FS_CardinalityType
<1>2. \A a, b \in Block : << a, b >> \in R <=> RescueEarlier(a, b)
    OBVIOUS
<1>3. /\ place \in Bijection(Optional, 0..(n - 1))
      /\ \A a, b \in Optional : << a, b >> \in R <=> place[a] < place[b]
    <2>1. /\ \A a \in Optional : << a, a >> \notin R
          /\ \A a, b \in Optional : a # b => << a, b >> \in R \/ << b, a >> \in R
          /\ \A a, b, c \in Optional : << a, b >> \in R /\ << b, c >> \in R => << a, c >> \in R
        BY <1>1, <1>2, RescueOrderIsTotal
    <2> HIDE DEF R
    <2>2. QED BY <1>1, <2>1, PlacesCover
<1>4. pool = ByPlace(Optional, place)
    <2>1. \A b \in Optional : { a \in Optional : RescueEarlier(a, b) } = { a \in Optional : << a, b >> \in R }
        BY <1>1, <1>2
    <2>2. \A b \in Optional : Cardinality({ a \in Optional : RescueEarlier(a, b) }) = place[b]
        BY <2>1
    <2> DEFINE by(i)     == CHOOSE b \in Optional : Cardinality({ a \in Optional : RescueEarlier(a, b) }) = i - 1
               member(i) == CHOOSE b \in Optional : place[b] = i - 1
    <2>3. pool = [ i \in 1..n |-> by(i) ]
        BY DEF Ascending
    <2> HIDE DEF place, R, n
    <2>4. \A i : by(i) = member(i)
        BY <2>2
    <2> HIDE DEF by, member
    <2>5. pool = [ i \in 1..n |-> member(i) ]
        BY <2>3, <2>4
    <2>6. QED BY <2>5 DEF ByPlace, member, n
<1>5. /\ Len(pool) \in Nat /\ pool \in [Places -> Optional]
      /\ \A i, j \in Places : pool[i] = pool[j] => i = j
      /\ \A b \in Optional : \E i \in Places : pool[i] = b
      /\ \A i, j \in Places : i < j => place[pool[i]] < place[pool[j]]
    <2> HIDE DEF place
    <2>1. QED BY <1>1, <1>3, <1>4, SortedMembers DEF Places
<1> HIDE DEF place, R
<1>6. \A i, j \in Places : i < j => RescueEarlier(pool[i], pool[j])
    BY <1>1, <1>2, <1>3, <1>5
<1>7. QED BY <1>5, <1>6 DEF PoolInv

-----------------------------------------------------------------------------
(* Sets of positions and the selections they stand for.                    *)

\* A set of positions has as many members as the blocks at them.
LEMMA AtFacts ==
    ASSUME PoolInv, NEW T \in SUBSET Places
    PROVE  /\ IsFiniteSet(T) /\ Cardinality(T) \in Nat
           /\ At(T) \in SUBSET Optional /\ At(T) \in SUBSET Block /\ IsFiniteSet(At(T))
           /\ Cardinality(At(T)) = Cardinality(T)
           /\ \A i \in Places : pool[i] \in At(T) <=> i \in T
           /\ \A c : HeldBy(T, c) \in Nat
<1>1. IsFiniteSet(Places)
    BY FS_Interval DEF PoolInv, Places
<1>2. IsFiniteSet(T) /\ Cardinality(T) \in Nat
    BY <1>1, FS_Subset, FS_CardinalityType
<1>3. At(T) \in SUBSET Optional /\ Optional \in SUBSET Block
    BY DEF At, PoolInv, Optional
<1>4. \A i \in Places : pool[i] \in At(T) <=> i \in T
    BY DEF At, PoolInv
<1>5. IsFiniteSet(At(T)) /\ Cardinality(At(T)) = Cardinality(T)
    <2> DEFINE f == [i \in T |-> pool[i]]
    <2>1. f \in [T -> At(T)]
        BY DEF At
    <2>2. \A i, j \in T : f[i] = f[j] => i = j
        BY DEF PoolInv
    <2>3. \A b \in At(T) : \E i \in T : f[i] = b
        BY DEF At
    <2> HIDE DEF f
    <2>4. f \in Injection(T, At(T)) /\ f \in Surjection(T, At(T))
        BY <2>1, <2>2, <2>3, Fun_IsInj, Fun_IsSurj
    <2>5. IsFiniteSet(At(T)) /\ Cardinality(At(T)) <= Cardinality(T)
                /\ (Cardinality(T) = Cardinality(At(T)) <=> f \in Injection(T, At(T)))
        BY <1>2, <2>4, FS_Surjection
    <2>6. QED BY <2>4, <2>5
<1>6. \A c : HeldBy(T, c) \in Nat
    BY <1>3, CountIsNat DEF HeldBy
<1>7. QED BY <1>2, <1>3, <1>4, <1>5, <1>6

\* Taking one position more takes one block of its category more.
LEMMA HeldAdd ==
    ASSUME PoolInv, NEW T \in SUBSET Places, NEW i \in Places \ T, NEW c
    PROVE  HeldBy(T \cup {i}, c) =
              IF batch.category[pool[i]] = c THEN HeldBy(T, c) + 1 ELSE HeldBy(T, c)
<1>1. At(T \cup {i}) = At(T) \cup {pool[i]}
    BY DEF At
<1>2. At(T) \in SUBSET Block /\ pool[i] \in Block \ At(T)
    BY AtFacts DEF PoolInv, Optional
<1>3. CountIn(At(T) \cup {pool[i]}, c) =
         IF batch.category[pool[i]] = c THEN CountIn(At(T), c) + 1 ELSE CountIn(At(T), c)
    <2> DEFINE S == At(T)
               b == pool[i]
    <2>1. S \in SUBSET Block /\ b \in Block \ S
        BY <1>2
    <2> HIDE DEF S, b
    <2>2. CountIn(S \cup {b}, c) = IF batch.category[b] = c THEN CountIn(S, c) + 1 ELSE CountIn(S, c)
        BY <2>1, CountAdd
    <2>3. QED BY <2>2 DEF S, b
<1>4. QED BY <1>1, <1>3 DEF HeldBy

\* Fewer positions hold no more.
LEMMA HeldMonotone ==
    ASSUME PoolInv, NEW T \in SUBSET Places, NEW V \in SUBSET T, NEW c
    PROVE  HeldBy(V, c) <= HeldBy(T, c)
<1>1. At(V) \in SUBSET At(T) /\ At(T) \in SUBSET Block
    BY AtFacts DEF At
<1>2. QED BY <1>1, CountMonotone DEF HeldBy

\* Disjoint sets of positions add up.
LEMMA HeldUnion ==
    ASSUME PoolInv, NEW T \in SUBSET Places, NEW V \in SUBSET Places, T \cap V = {}, NEW c
    PROVE  HeldBy(T \cup V, c) = HeldBy(T, c) + HeldBy(V, c)
<1>1. At(T \cup V) = At(T) \cup At(V)
    BY DEF At
<1>2. At(T) \in SUBSET Block /\ At(V) \in SUBSET Block
    BY AtFacts
<1>3. At(T) \cap At(V) = {}
    <2>1. \A i \in T, j \in V : pool[i] # pool[j]
        BY DEF PoolInv
    <2>2. QED BY <2>1 DEF At
<1>4. QED BY <1>1, <1>2, <1>3, CountUnion DEF HeldBy

\* The sets of positions that complete the required blocks to a valid selection.
Fitting ==
    { T \in SUBSET Places :
        \A c \in Category : Deficit(c) <= HeldBy(T, c) /\ HeldBy(T, c) <= Capacity(c) }

\* They stand for the rescue selections, one for one.
LEMMA FittingIsValid ==
    ASSUME PoolInv
    PROVE  /\ \A T \in SUBSET Places : SelectionAt(T) \in RescueSelections <=> T \in Fitting
           /\ \A S \in RescueSelections : \E T \in Fitting : S = SelectionAt(T)
           /\ \A T, V \in SUBSET Places : SelectionAt(T) = SelectionAt(V) => T = V
<1>1. batch \in Batches /\ Required \in SUBSET Block /\ Optional = Block \ Required
    BY BatchFacts DEF PoolInv, Required, Optional
<1>2. ASSUME NEW T \in SUBSET Places
      PROVE  SelectionAt(T) \in RescueSelections <=> T \in Fitting
    <2>1. SelectionAt(T) \in Selection /\ Required \subseteq SelectionAt(T)
        BY <1>1, <1>2, AtFacts DEF SelectionAt, Selection
    <2>2. \A c : /\ CountIn(SelectionAt(T), c) = CountIn(Required, c) + HeldBy(T, c)
                 /\ CountIn(Required, c) \in Nat /\ HeldBy(T, c) \in Nat
        <3>1. At(T) \in SUBSET Block /\ Required \cap At(T) = {}
            BY <1>1, <1>2, AtFacts
        <3>2. QED BY <1>1, <1>2, <3>1, AtFacts, CountUnion, CountIsNat DEF SelectionAt, HeldBy
    <2>3. \A c \in Category :
            /\ CountIn(SelectionAt(T), c) >= batch.minBlocks[c] <=> Deficit(c) <= HeldBy(T, c)
            /\ CountIn(SelectionAt(T), c) <= batch.maxBlocks[c] <=> HeldBy(T, c) <= Capacity(c)
        <3> SUFFICES ASSUME NEW c \in Category
                     PROVE  /\ CountIn(SelectionAt(T), c) >= batch.minBlocks[c] <=> Deficit(c) <= HeldBy(T, c)
                            /\ CountIn(SelectionAt(T), c) <= batch.maxBlocks[c] <=> HeldBy(T, c) <= Capacity(c)
            OBVIOUS
        <3>1. batch.minBlocks[c] \in Nat /\ batch.maxBlocks[c] \in Nat
            BY <1>1, BatchFacts
        <3>2. QED BY <2>2, <3>1 DEF Deficit, Needed, Capacity
    <2>4. QED BY <1>2, <2>1, <2>3 DEF RescueSelections, PolicyValid, MeetsMinimums, MeetsMaximums, Fitting
<1>3. ASSUME NEW S \in RescueSelections PROVE \E T \in Fitting : S = SelectionAt(T)
    <2> DEFINE T == { i \in Places : pool[i] \in S }
    <2>1. S \in SUBSET Block /\ Required \subseteq S
        BY <1>3 DEF RescueSelections, Selection, PolicyValid
    <2>2. At(T) = S \ Required
        BY <1>1, <2>1 DEF At, PoolInv
    <2>3. S = SelectionAt(T) /\ T \in SUBSET Places
        BY <2>1, <2>2 DEF SelectionAt
    <2>4. T \in Fitting
        BY <1>2, <1>3, <2>3
    <2>5. QED BY <2>3, <2>4
<1>4. ASSUME NEW T \in SUBSET Places, NEW V \in SUBSET Places, SelectionAt(T) = SelectionAt(V)
      PROVE  T = V
    <2>1. \A i \in Places : i \in T <=> pool[i] \in SelectionAt(T) /\ pool[i] \notin Required
        BY <1>1, AtFacts DEF SelectionAt, PoolInv
    <2>2. \A i \in Places : i \in V <=> pool[i] \in SelectionAt(V) /\ pool[i] \notin Required
        BY <1>1, AtFacts DEF SelectionAt, PoolInv
    <2>3. QED BY <1>4, <2>1, <2>2
<1>5. QED BY <1>2, <1>3, <1>4

\* V before T in the order of the indices.
Earlier(V, T) == \E a \in V \ T : \A b \in T \ V : a < b

\* The rescue order of the selections is that of the positions, the smaller
\* sets first.
LEMMA OrderOfPlaces ==
    ASSUME PoolInv, NEW V \in SUBSET Places, NEW T \in SUBSET Places,
           \/ Cardinality(V) < Cardinality(T)
           \/ Cardinality(V) = Cardinality(T) /\ Earlier(V, T)
    PROVE  RescueBefore(SelectionAt(V), SelectionAt(T))
<1>1. Required \in SUBSET Block /\ Optional = Block \ Required /\ IsFiniteSet(Required)
    BY BatchFacts, BlockAssumption, FS_Subset DEF PoolInv, Required, Optional
<1>2. \A W \in SUBSET Places :
         Cardinality(SelectionAt(W)) = Cardinality(Required) + Cardinality(W)
    <2> SUFFICES ASSUME NEW W \in SUBSET Places
                 PROVE  Cardinality(SelectionAt(W)) = Cardinality(Required) + Cardinality(W)
        OBVIOUS
    <2>1. IsFiniteSet(At(W)) /\ Required \cap At(W) = {} /\ Cardinality(At(W)) = Cardinality(W)
        BY <1>1, AtFacts
    <2>2. QED BY <1>1, <2>1, DisjointCount DEF SelectionAt
<1>3. Cardinality(Required) \in Nat /\ Cardinality(V) \in Nat /\ Cardinality(T) \in Nat
    BY <1>1, AtFacts, FS_CardinalityType
<1>4. CASE Cardinality(V) < Cardinality(T)
    BY <1>2, <1>3, <1>4 DEF RescueBefore
<1>5. CASE Cardinality(V) = Cardinality(T) /\ Earlier(V, T)
    <2>1. PICK a \in V \ T : \A b \in T \ V : a < b
        BY <1>5 DEF Earlier
    <2>2. pool[a] \in SelectionAt(V) \ SelectionAt(T)
        BY <1>1, <2>1, AtFacts DEF SelectionAt, PoolInv
    <2>3. \A x \in SelectionAt(T) \ SelectionAt(V) : RescueEarlier(pool[a], x)
        <3> SUFFICES ASSUME NEW x \in SelectionAt(T) \ SelectionAt(V) PROVE RescueEarlier(pool[a], x)
            OBVIOUS
        <3>1. PICK b \in T : x = pool[b]
            BY DEF SelectionAt, At
        <3>2. b \notin V
            BY <3>1 DEF SelectionAt, At
        <3>3. QED BY <2>1, <3>1, <3>2 DEF PoolInv
    <2>4. Lexicographic(SelectionAt(V), SelectionAt(T), RescueEarlier)
        BY <2>2, <2>3 DEF Lexicographic
    <2>5. QED BY <1>2, <1>5, <2>4 DEF RescueBefore
<1>6. QED BY <1>4, <1>5

-----------------------------------------------------------------------------
(* Sums over the categories.                                               *)

\* Greater counts have a greater sum.
LEMMA SumPointwise ==
    ASSUME NEW S, IsFiniteSet(S), NEW v, NEW w,
           \A x \in S : v[x] \in Nat /\ w[x] \in Nat /\ v[x] <= w[x]
    PROVE  TokenSum(v, S) <= TokenSum(w, S)
<1> DEFINE G == { D \in SUBSET S : TokenSum(v, D) <= TokenSum(w, D) }
<1>1. G \in SUBSET SUBSET S /\ {} \in G
    <2>1. TokenSum(v, {}) = 0 /\ TokenSum(w, {}) = 0
        BY SumStarts, FS_EmptySet
    <2>2. QED BY <2>1
<1>2. ASSUME NEW D \in G, NEW x \in S \ D PROVE D \cup {x} \in G
    <2>1. D \in SUBSET S /\ IsFiniteSet(D) /\ TokenSum(v, D) <= TokenSum(w, D)
        BY <1>2, FS_Subset
    <2>2. TokenSum(v, D) \in Nat /\ TokenSum(w, D) \in Nat
        BY <2>1, SumIsNat
    <2>3. /\ TokenSum(v, D \cup {x}) = TokenSum(v, D) + v[x]
          /\ TokenSum(w, D \cup {x}) = TokenSum(w, D) + w[x]
        BY <1>2, <2>1, SumAdd
    <2>4. TokenSum(v, D \cup {x}) <= TokenSum(w, D \cup {x})
        BY <1>2, <2>1, <2>2, <2>3
    <2>5. QED BY <1>2, <2>1, <2>4
<1> HIDE DEF G
<1>3. S \in G
    BY <1>1, <1>2, SubsetInduction
<1>4. QED BY <1>3 DEF G

\* The blocks of a selection are those of its categories and those of none.
LEMMA CategorySum ==
    ASSUME batch \in Batches, NEW S \in SUBSET Block
    PROVE  /\ Total([c \in Category |-> CountIn(S, c)]) \in Nat
           /\ Cardinality({ b \in S : batch.category[b] \notin Category }) \in Nat
           /\ Cardinality(S) = Total([c \in Category |-> CountIn(S, c)])
                               + Cardinality({ b \in S : batch.category[b] \notin Category })
<1> DEFINE w == [c \in Category |-> CountIn(S, c)]
           within(D) == { b \in S : batch.category[b] \in D }
           G == { D \in SUBSET Category : TokenSum(w, D) = Cardinality(within(D)) }
           others == { b \in S : batch.category[b] \notin Category }
<1>1. IsFiniteSet(S)
    BY BlockAssumption, FS_Subset
<1>2. \A D : within(D) \in SUBSET S /\ IsFiniteSet(within(D)) /\ Cardinality(within(D)) \in Nat
    <2> SUFFICES ASSUME NEW D
                 PROVE  within(D) \in SUBSET S /\ IsFiniteSet(within(D)) /\ Cardinality(within(D)) \in Nat
        OBVIOUS
    <2>1. within(D) \in SUBSET S
        OBVIOUS
    <2> HIDE DEF within
    <2>2. QED BY <1>1, <2>1, FS_Subset, FS_CardinalityType
<1>3. \A c \in Category : w[c] \in Nat /\ w[c] = Cardinality(InCategory(S, c))
    BY CountIsNat DEF CountIn
<1>4. G \in SUBSET SUBSET Category /\ {} \in G
    <2>1. within({}) = {}
        OBVIOUS
    <2>2. TokenSum(w, {}) = Cardinality(within({}))
        <3> HIDE DEF w, within
        <3>1. QED BY <2>1, SumStarts, FS_EmptySet
    <2>3. QED BY <2>2
<1>5. ASSUME NEW D \in G, NEW x \in Category \ D PROVE D \cup {x} \in G
    <2>1. D \in SUBSET Category /\ IsFiniteSet(D) /\ TokenSum(w, D) = Cardinality(within(D))
        BY <1>5, FS_Subset, RescueAssumption
    <2>2. TokenSum(w, D \cup {x}) = TokenSum(w, D) + w[x]
        <3> HIDE DEF w
        <3>1. QED BY <1>3, <1>5, <2>1, SumAdd
    <2>3. within(D \cup {x}) = within(D) \cup InCategory(S, x) /\ within(D) \cap InCategory(S, x) = {}
        BY <1>5 DEF InCategory
    <2>4. Cardinality(within(D) \cup InCategory(S, x)) = Cardinality(within(D)) + Cardinality(InCategory(S, x))
        <3>1. IsFiniteSet(InCategory(S, x)) /\ IsFiniteSet(within(D))
            BY <1>2, CountIsNat
        <3> HIDE DEF within
        <3>2. QED BY <2>3, <3>1, DisjointCount
    <2>5. TokenSum(w, D \cup {x}) = Cardinality(within(D \cup {x}))
        <3> HIDE DEF w, within
        <3>1. QED BY <1>3, <1>5, <2>1, <2>2, <2>3, <2>4
    <2>6. QED BY <1>5, <2>1, <2>5
<1>6. Category \in G
    <2> HIDE DEF G
    <2>1. QED BY <1>4, <1>5, SubsetInduction, RescueAssumption
<1>7. Total(w) = Cardinality(within(Category))
    BY <1>6 DEF Total
<1>8. others \in SUBSET S /\ within(Category) \cup others = S /\ within(Category) \cap others = {}
    OBVIOUS
<1>9. IsFiniteSet(others) /\ Cardinality(others) \in Nat
    <2> HIDE DEF others
    <2>1. QED BY <1>1, <1>8, FS_Subset, FS_CardinalityType
<1>10. Cardinality(S) = Cardinality(within(Category)) + Cardinality(others)
    <2>1. IsFiniteSet(within(Category))
        BY <1>2
    <2> HIDE DEF within, others
    <2>2. QED BY <1>8, <1>9, <2>1, DisjointCount
<1>11. QED
    <2> HIDE DEF w, within, others
    <2>1. Total(w) \in Nat /\ Cardinality(S) = Total(w) + Cardinality(others)
        BY <1>2, <1>7, <1>10
    <2>2. QED BY <1>9, <2>1 DEF w, others

-----------------------------------------------------------------------------
(* The sizes.                                                              *)

\* Types of the bounds of one category.
LEMMA BoundTypes ==
    ASSUME PoolInv, NEW c \in Category
    PROVE  Deficit(c) \in Nat /\ Members(c) \in Nat /\ Capacity(c) \in Int
<1>1. Required \in SUBSET Block /\ Optional \in SUBSET Block
    BY BatchFacts DEF PoolInv, Required, Optional
<1>2. CountIn(Required, c) \in Nat /\ CountIn(Optional, c) \in Nat
    BY <1>1, CountIsNat
<1>3. batch.minBlocks[c] \in Nat /\ batch.maxBlocks[c] \in Nat
    BY BatchFacts DEF PoolInv
<1>4. QED BY <1>2, <1>3 DEF Deficit, Needed, Members, Capacity, CountIn

\* categoryBudgets gives up only where no selection is valid, and no valid one
\* is smaller or larger than the bounds it sets.
LEMMA FittingSizes ==
    ASSUME PoolInv, NEW T \in Fitting
    PROVE  /\ Satisfiable
           /\ MinCardinality \in Nat /\ Cardinality(T) \in Nat /\ MaxCardinality \in Nat
           /\ MinCardinality <= Cardinality(T) /\ Cardinality(T) <= MaxCardinality
<1>1. /\ T \in SUBSET Places
      /\ \A c \in Category : Deficit(c) <= HeldBy(T, c) /\ HeldBy(T, c) <= Capacity(c)
    BY DEF Fitting
<1>2. At(T) \in SUBSET Optional /\ At(T) \in SUBSET Block /\ Cardinality(At(T)) = Cardinality(T)
      /\ \A c : HeldBy(T, c) \in Nat
    BY <1>1, AtFacts
<1>3. \A c \in Category : HeldBy(T, c) <= Members(c)
    <2>1. Optional \in SUBSET Block
        BY DEF Optional
    <2>2. QED BY <1>2, <2>1, CountMonotone DEF HeldBy, Members, CountIn
<1>4. Satisfiable
    <2> SUFFICES ASSUME NEW c \in Category
                 PROVE  /\ CountIn(Required, c) <= batch.maxBlocks[c]
                        /\ Deficit(c) <= Members(c)
                        /\ Deficit(c) <= Capacity(c)
        BY DEF Satisfiable
    <2>1. CountIn(Required, c) \in Nat /\ batch.maxBlocks[c] \in Nat
        BY CountIsNat, BatchFacts DEF PoolInv, Required
    <2>2. QED BY <1>1, <1>2, <1>3, <2>1, BoundTypes DEF Capacity
<1> DEFINE held == [c \in Category |-> CountIn(At(T), c)]
           least == [c \in Category |-> Deficit(c)]
           most == [c \in Category |-> IF Members(c) < Capacity(c) THEN Members(c) ELSE Capacity(c)]
           free == { b \in At(T) : batch.category[b] \notin Category }
<1>5. \A c \in Category :
         /\ least[c] \in Nat /\ held[c] \in Nat /\ most[c] \in Nat
         /\ least[c] <= held[c] /\ held[c] <= most[c]
    BY <1>1, <1>2, <1>3, BoundTypes DEF HeldBy
<1>6. /\ TokenSum(least, Category) <= TokenSum(held, Category)
      /\ TokenSum(held, Category) <= TokenSum(most, Category)
      /\ TokenSum(least, Category) \in Nat /\ TokenSum(most, Category) \in Nat
    <2> HIDE DEF held, least, most
    <2>1. QED BY <1>5, SumPointwise, SumIsNat, RescueAssumption
<1>7. /\ Total(held) \in Nat /\ Cardinality(free) \in Nat
      /\ Cardinality(T) = Total(held) + Cardinality(free)
    BY <1>2, CategorySum DEF PoolInv
<1>8. Cardinality(free) <= Cardinality(Unconstrained) /\ Cardinality(Unconstrained) \in Nat
    <2>1. IsFiniteSet(Optional)
        BY BlockAssumption, FS_Subset DEF Optional
    <2>2. Unconstrained \in SUBSET Optional /\ free \in SUBSET Unconstrained
        BY <1>2 DEF Unconstrained
    <2> HIDE DEF free
    <2>3. QED BY <2>1, <2>2, FS_Subset, FS_CardinalityType
<1>9. MinCardinality = TokenSum(least, Category)
    BY DEF MinCardinality, Total
<1>10. MaxCardinality = Cardinality(Unconstrained) + TokenSum(most, Category)
    BY DEF MaxCardinality, Total
<1>11. Total(held) = TokenSum(held, Category)
    BY DEF Total
<1> HIDE DEF held, least, most, free
<1>12. QED BY <1>4, <1>6, <1>7, <1>8, <1>9, <1>10, <1>11

-----------------------------------------------------------------------------
(* The prunes.                                                             *)

\* The pool holds the members of a category side by side.
LEMMA CategoryRange ==
    ASSUME PoolInv, NEW c \in Category
    PROVE  /\ First(c) \in Nat /\ First(c) >= 1 /\ Beyond(c) \in Nat
           /\ \A i \in Places : batch.category[pool[i]] = c => First(c) <= i /\ i < Beyond(c)
           /\ \A i \in Nat : First(c) <= i /\ i < Beyond(c) => i \in Places /\ batch.category[pool[i]] = c
<1> DEFINE P == { i \in Places : batch.category[pool[i]] = c }
<1>1. P \in SUBSET Places /\ IsFiniteSet(P) /\ Cardinality(P) = Members(c) /\ Members(c) \in Nat
    <2>1. P \in SUBSET Places
        OBVIOUS
    <2>2. At(P) = InCategory(Optional, c)
        BY DEF At, InCategory, PoolInv
    <2> HIDE DEF P
    <2>3. IsFiniteSet(P) /\ Cardinality(P) \in Nat /\ Cardinality(At(P)) = Cardinality(P)
        BY <2>1, AtFacts
    <2>4. QED BY <2>1, <2>2, <2>3 DEF Members
<1>2. First(c) = IF P = {} THEN Len(pool) + 1 ELSE Min(P)
    <2>1. DOMAIN pool = Places
        BY DEF PoolInv
    <2>2. QED BY <2>1 DEF First
<1>3. CASE P = {}
    <2>1. Members(c) = 0
        <3> HIDE DEF P
        <3>1. QED BY <1>1, <1>3, FS_EmptySet
    <2>2. First(c) = Len(pool) + 1 /\ Beyond(c) = Len(pool) + 1
        BY <1>2, <1>3, <2>1 DEF Beyond
    <2>3. \A i \in Nat : ~ (First(c) <= i /\ i < Beyond(c))
        <3>1. Len(pool) + 1 \in Nat
            BY DEF PoolInv
        <3>2. QED BY <2>2, <3>1
    <2>4. QED BY <1>3, <2>2, <2>3 DEF PoolInv
<1>4. CASE P # {}
    <2>1. P \in SUBSET Nat /\ \A i \in P : i >= 1 /\ i <= Len(pool)
        BY DEF Places, PoolInv
    <2>2. PICK f \in P : \A i \in P : f <= i
        <3> HIDE DEF P
        <3>1. PICK f \in P : \A i \in P : ~ (i < f)
            BY <1>4, <2>1, LeastMember
        <3>2. QED BY <2>1, <3>1
    <2>3. PICK g \in P : \A i \in P : i <= g
        <3> DEFINE D == { Len(pool) - i : i \in P }
        <3> HIDE DEF P
        <3>1. D \in SUBSET Nat /\ D # {}
            BY <1>4, <2>1 DEF PoolInv
        <3>2. PICK d \in D : \A e \in D : ~ (e < d)
            <4> HIDE DEF D
            <4>1. QED BY <3>1, LeastMember
        <3>3. PICK g \in P : d = Len(pool) - g
            BY <3>2
        <3>4. \A i \in P : i <= g
            <4> SUFFICES ASSUME NEW i \in P PROVE i <= g
                OBVIOUS
            <4>1. Len(pool) - i \in D
                OBVIOUS
            <4>2. ~ (Len(pool) - i < Len(pool) - g)
                BY <3>2, <3>3, <4>1
            <4>3. QED BY <2>1, <4>2 DEF PoolInv
        <3>5. QED BY <3>4
    <2>4. f \in Places /\ g \in Places /\ f \in Nat /\ g \in Nat /\ f <= g
          /\ batch.category[pool[f]] = c /\ batch.category[pool[g]] = c
        BY <2>1, <2>2, <2>3
    <2>5. P = f..g
        <3>1. ASSUME NEW i \in f..g PROVE i \in P
            <4>1. i \in Places
                BY <2>4 DEF Places, PoolInv
            <4>2. /\ i = f \/ RescueEarlier(pool[f], pool[i])
                  /\ i = g \/ RescueEarlier(pool[i], pool[g])
                BY <2>4, <4>1 DEF PoolInv
            <4>3. /\ batch.category[pool[i]] \in Nat /\ c \in Nat /\ c # NoCategory
                <5>1. pool[i] \in Block
                    BY <4>1 DEF PoolInv, Optional
                <5>2. batch.category[pool[i]] \in Category \cup {NoCategory}
                    BY <5>1, BatchFacts DEF PoolInv
                <5>3. Category \cup {NoCategory} \subseteq Nat /\ c \in Nat /\ c # NoCategory
                    BY CategoryAssumption DEF NoCategory
                <5>4. QED BY <5>2, <5>3
            <4>4. batch.category[pool[i]] = c
                BY <2>4, <4>2, <4>3 DEF RescueEarlier
            <4>5. QED BY <4>1, <4>4
        <3>2. ASSUME NEW i \in P PROVE i \in f..g
            <4> HIDE DEF P
            <4>1. i \in Nat /\ f <= i /\ i <= g
                BY <2>1, <2>2, <2>3, <3>2
            <4>2. QED BY <2>4, <4>1
        <3>3. QED BY <3>1, <3>2
    <2>6. Cardinality(P) = g - f + 1
        <3> HIDE DEF P
        <3>1. f \in Int /\ g \in Int /\ ~ (f > g)
            BY <2>4
        <3>2. Cardinality(f..g) = IF f > g THEN 0 ELSE g - f + 1
            BY <3>1, FS_Interval, Zenon
        <3>3. QED BY <2>5, <3>1, <3>2
    <2>7. Min(P) = f
        <3> HIDE DEF P
        <3>1. \A x \in P : (\A y \in P : x <= y) => x = f
            BY <2>1, <2>2
        <3>2. QED BY <2>2, <3>1 DEF Min
    <2>8. First(c) = f /\ Beyond(c) = g + 1
        <3> HIDE DEF P
        <3>1. First(c) = f
            BY <1>2, <1>4, <2>7
        <3>2. Members(c) = g - f + 1 /\ Members(c) # 0
            BY <1>1, <2>4, <2>6
        <3>3. QED BY <2>4, <3>1, <3>2 DEF Beyond
    <2>9. \A i \in P : f <= i /\ i < g + 1
        BY <2>5, <2>4
    <2>10. f >= 1
        BY <2>1, <2>2
    <2>11. \A i \in Nat : f <= i /\ i < g + 1 => i \in P
        <3>1. \A i \in Nat : f <= i /\ i < g + 1 => i \in f..g
            BY <2>4
        <3> HIDE DEF P
        <3>2. QED BY <2>5, <3>1
    <2>12. QED BY <2>4, <2>8, <2>9, <2>10, <2>11
<1>5. QED BY <1>3, <1>4

\* Ahead(c, from) counts the members of c from the position on.
LEMMA AheadCounts ==
    ASSUME PoolInv, NEW c \in Category, NEW from \in 1..(Len(pool) + 1),
           NEW R \in SUBSET Places, \A i \in R : i >= from
    PROVE  HeldBy(R, c) <= Ahead(c, from) /\ Ahead(c, from) \in Nat
<1> DEFINE lo == IF from > First(c) THEN from ELSE First(c)
           mine == { i \in R : batch.category[pool[i]] = c }
<1>1. lo \in Nat /\ Beyond(c) \in Nat /\ First(c) \in Nat
    BY CategoryRange DEF PoolInv
<1>2. mine \in SUBSET (lo..(Beyond(c) - 1)) /\ mine \in SUBSET Places
    <2> SUFFICES ASSUME NEW i \in mine PROVE i \in lo..(Beyond(c) - 1) /\ i \in Places
        OBVIOUS
    <2>1. i \in Places /\ First(c) <= i /\ i < Beyond(c) /\ i >= from /\ i \in Int
        BY CategoryRange DEF Places, PoolInv
    <2>2. QED BY <1>1, <2>1
<1>3. IsFiniteSet(lo..(Beyond(c) - 1)) /\ Cardinality(lo..(Beyond(c) - 1)) = Ahead(c, from)
    <2>1. lo \in Int /\ Beyond(c) - 1 \in Int
        BY <1>1
    <2>2. Ahead(c, from) = IF Beyond(c) > lo THEN Beyond(c) - lo ELSE 0
        BY DEF Ahead
    <2> HIDE DEF lo
    <2>3. IsFiniteSet(lo..(Beyond(c) - 1))
          /\ Cardinality(lo..(Beyond(c) - 1)) = IF lo > Beyond(c) - 1 THEN 0 ELSE (Beyond(c) - 1) - lo + 1
        BY <2>1, FS_Interval, Zenon
    <2>4. QED BY <1>1, <2>2, <2>3
<1>4. HeldBy(R, c) = Cardinality(mine)
    <2>1. InCategory(At(R), c) = At(mine)
        BY DEF InCategory, At
    <2>2. Cardinality(At(mine)) = Cardinality(mine)
        <3> HIDE DEF mine
        <3>1. QED BY <1>2, AtFacts
    <2>3. QED BY <2>1, <2>2 DEF HeldBy, CountIn
<1>5. Cardinality(mine) <= Ahead(c, from)
    <2> HIDE DEF mine, lo
    <2>1. QED BY <1>2, <1>3, FS_Subset
<1>6. Ahead(c, from) \in Nat
    <2> HIDE DEF lo
    <2>1. QED BY <1>3, FS_CardinalityType
<1>7. QED BY <1>4, <1>5, <1>6

\* A branch the walk abandons holds no valid subset.
LEMMA PruneIsSafe ==
    ASSUME PoolInv, at \in 1..(Len(pool) + 1), ToSet(taken) \in SUBSET Places,
           Cardinality(ToSet(taken)) = Len(taken), Len(taken) \in Nat, size \in Nat,
           NEW T \in Fitting, Cardinality(T) = size,
           T \cap (1..(at - 1)) = ToSet(taken)
    PROVE  ~ Unreachable(at)
<1> DEFINE U == ToSet(taken)
           R == T \ U
<1>1. /\ U \in SUBSET Places /\ R \in SUBSET Places /\ T = U \cup R /\ U \cap R = {}
      /\ \A i \in R : i >= at
      /\ \A c \in Category : Deficit(c) <= HeldBy(T, c)
    <2>1. T \in SUBSET Places /\ \A c \in Category : Deficit(c) <= HeldBy(T, c)
        BY DEF Fitting
    <2>2. U \subseteq T
        OBVIOUS
    <2>3. ASSUME NEW i \in R PROVE i >= at
        <3>1. i \in T /\ i \notin 1..(at - 1) /\ i \in 1..Len(pool)
            BY <2>1, <2>3 DEF Places
        <3>2. QED BY <3>1 DEF PoolInv
    <2>4. QED BY <2>1, <2>2, <2>3
<1>2. /\ Cardinality(U) \in Nat /\ Cardinality(R) \in Nat /\ IsFiniteSet(R)
      /\ Cardinality(R) = size - Len(taken)
    <2> HIDE DEF U, R
    <2>1. IsFiniteSet(U) /\ IsFiniteSet(R) /\ Cardinality(U) \in Nat /\ Cardinality(R) \in Nat
        BY <1>1, AtFacts
    <2>2. Cardinality(T) = Cardinality(U) + Cardinality(R)
        BY <1>1, <2>1, DisjointCount
    <2>3. QED BY <2>1, <2>2 DEF U
<1>3. Chosen = At(U) /\ \A c : Held(c) = HeldBy(U, c)
    BY DEF Chosen, Held, At, HeldBy
<1> HIDE DEF U, R
<1>4. \A c \in Category :
         /\ HeldBy(T, c) = HeldBy(U, c) + HeldBy(R, c)
         /\ HeldBy(U, c) \in Nat /\ HeldBy(R, c) \in Nat
         /\ Unmet(c) \in Nat /\ Unmet(c) <= HeldBy(R, c)
    <2> SUFFICES ASSUME NEW c \in Category
                 PROVE  /\ HeldBy(T, c) = HeldBy(U, c) + HeldBy(R, c)
                        /\ HeldBy(U, c) \in Nat /\ HeldBy(R, c) \in Nat
                        /\ Unmet(c) \in Nat /\ Unmet(c) <= HeldBy(R, c)
        OBVIOUS
    <2>1. HeldBy(T, c) = HeldBy(U, c) + HeldBy(R, c)
        BY <1>1, HeldUnion
    <2>2. HeldBy(U, c) \in Nat /\ HeldBy(R, c) \in Nat
        BY <1>1, AtFacts
    <2>3. Deficit(c) \in Nat /\ Deficit(c) <= HeldBy(T, c) /\ Held(c) = HeldBy(U, c)
        BY <1>1, <1>3, BoundTypes
    <2>4. Unmet(c) \in Nat /\ Unmet(c) <= HeldBy(R, c)
        BY <2>1, <2>2, <2>3 DEF Unmet
    <2>5. QED BY <2>1, <2>2, <2>4
<1>5. ~ (Len(pool) + 1 - at < Remaining)
    <2>1. R \in SUBSET (at..Len(pool))
        BY <1>1 DEF Places, PoolInv
    <2>2. IsFiniteSet(at..Len(pool)) /\ Cardinality(at..Len(pool)) = Len(pool) + 1 - at
        <3>1. at \in Int /\ Len(pool) \in Int /\ at <= Len(pool) + 1
            BY DEF PoolInv
        <3>2. IsFiniteSet(at..Len(pool))
              /\ Cardinality(at..Len(pool)) = IF at > Len(pool) THEN 0 ELSE Len(pool) - at + 1
            BY <3>1, FS_Interval, Zenon
        <3>3. QED BY <3>1, <3>2
    <2>3. Cardinality(R) <= Len(pool) + 1 - at
        BY <2>1, <2>2, FS_Subset
    <2>4. QED BY <1>2, <2>3 DEF Remaining, PoolInv
<1>6. \A c \in Category : ~ (Ahead(c, at) < Unmet(c))
    <2> SUFFICES ASSUME NEW c \in Category PROVE ~ (Ahead(c, at) < Unmet(c))
        OBVIOUS
    <2>1. HeldBy(R, c) <= Ahead(c, at) /\ Ahead(c, at) \in Nat
        BY <1>1, AheadCounts
    <2>2. QED BY <1>4, <2>1
<1>7. ~ (Total([c \in Category |-> Unmet(c)]) > Remaining)
    <2> DEFINE unmet == [c \in Category |-> Unmet(c)]
               more == [c \in Category |-> CountIn(At(R), c)]
    <2>1. \A c \in Category : unmet[c] \in Nat /\ more[c] \in Nat /\ unmet[c] <= more[c]
        BY <1>4 DEF HeldBy
    <2>2. At(R) \in SUBSET Block /\ Cardinality(At(R)) = Cardinality(R)
        BY <1>1, AtFacts
    <2>3. Total(more) \in Nat /\ Total(more) <= Cardinality(R)
        <3>1. batch \in Batches
            BY DEF PoolInv
        <3>2. /\ Total(more) \in Nat
              /\ Cardinality({ b \in At(R) : batch.category[b] \notin Category }) \in Nat
              /\ Cardinality(At(R)) = Total(more) + Cardinality({ b \in At(R) : batch.category[b] \notin Category })
            BY <2>2, <3>1, CategorySum
        <3> HIDE DEF more
        <3>3. QED BY <2>2, <3>2
    <2> HIDE DEF unmet, more
    <2>4. Total(unmet) <= Total(more) /\ Total(unmet) \in Nat
        BY <2>1, SumPointwise, SumIsNat, RescueAssumption DEF Total
    <2>5. ~ (Total(unmet) > Remaining)
        BY <1>2, <2>3, <2>4 DEF Remaining
    <2>6. QED BY <2>5 DEF unmet
<1>8. QED BY <1>5, <1>6, <1>7 DEF Unreachable

-----------------------------------------------------------------------------
(* Where a subset stands in the walk.                                      *)

\* With the positions below k decided and U taken of them, T is still to come
\* if it agrees with U so far, or follows it.
Later(U, T, k) == Earlier(U, T \cap (1..(k - 1)))
Rest(U, T, k)  == T \cap (1..(k - 1)) = U \/ Later(U, T, k)

\* A position skipped: what contains it and agrees so far is lost.
LEMMA SkipKeeps ==
    ASSUME NEW k \in Nat \ {0}, NEW U \in SUBSET (1..(k - 1)), NEW T \in SUBSET Nat,
           ~ (T \cap (1..(k - 1)) = U /\ k \in T)
    PROVE  Rest(U, T, k) <=> Rest(U, T, k + 1)
<1>1. 1..((k + 1) - 1) = (1..(k - 1)) \cup {k} /\ k \notin 1..(k - 1)
    OBVIOUS
<1>2. \A i \in 1..(k - 1) : i < k
    OBVIOUS
<1> DEFINE C == 1..(k - 1)
           D == 1..((k + 1) - 1)
<1>3. /\ D = C \cup {k} /\ k \notin C /\ U \in SUBSET C /\ \A i \in C : i < k
      /\ ~ (T \cap C = U /\ k \in T)
    BY <1>1, <1>2
<1>4. Rest(U, T, k) <=> T \cap C = U \/ Earlier(U, T \cap C)
    BY DEF Rest, Later
<1>5. Rest(U, T, k + 1) <=> T \cap D = U \/ Earlier(U, T \cap D)
    BY DEF Rest, Later
<1> HIDE DEF C, D
<1>6. Earlier(U, T \cap C) <=> Earlier(U, T \cap D)
    <2>1. ASSUME Earlier(U, T \cap C) PROVE Earlier(U, T \cap D)
        <3>1. PICK a \in U \ (T \cap C) : \A b \in (T \cap C) \ U : a < b
            BY <2>1 DEF Earlier
        <3>2. a \in U \ (T \cap D) /\ \A b \in (T \cap D) \ U : a < b
            BY <1>3, <3>1
        <3>3. QED BY <3>2 DEF Earlier
    <2>2. ASSUME Earlier(U, T \cap D) PROVE Earlier(U, T \cap C)
        <3>1. PICK a \in U \ (T \cap D) : \A b \in (T \cap D) \ U : a < b
            BY <2>2 DEF Earlier
        <3>2. a \in U \ (T \cap C) /\ \A b \in (T \cap C) \ U : a < b
            BY <1>3, <3>1
        <3>3. QED BY <3>2 DEF Earlier
    <2>3. QED BY <2>1, <2>2
<1>7. T \cap C = U <=> T \cap D = U
    BY <1>3
<1>8. QED BY <1>4, <1>5, <1>6, <1>7

\* A position taken: what agrees so far without it comes after what has it.
LEMMA TakeKeeps ==
    ASSUME NEW k \in Nat \ {0}, NEW U \in SUBSET (1..(k - 1)), NEW T \in SUBSET Nat
    PROVE  Rest(U, T, k) <=> Rest(U \cup {k}, T, k + 1)
<1>1. 1..((k + 1) - 1) = (1..(k - 1)) \cup {k} /\ k \notin 1..(k - 1)
    OBVIOUS
<1>2. \A i \in 1..(k - 1) : i < k /\ ~ (k < i)
    OBVIOUS
<1> DEFINE C == 1..(k - 1)
           D == 1..((k + 1) - 1)
           V == U \cup {k}
<1>3. D = C \cup {k} /\ k \notin C /\ U \in SUBSET C /\ \A i \in C : i < k /\ ~ (k < i)
    BY <1>1, <1>2
<1>4. Rest(U, T, k) <=> T \cap C = U \/ Earlier(U, T \cap C)
    BY DEF Rest, Later
<1>5. Rest(V, T, k + 1) <=> T \cap D = V \/ Earlier(V, T \cap D)
    BY DEF Rest, Later
<1> HIDE DEF C, D
<1>6. ASSUME T \cap C = U PROVE T \cap D = V \/ Earlier(V, T \cap D)
    <2>1. CASE k \in T
        BY <1>3, <1>6, <2>1
    <2>2. CASE k \notin T
        <3>1. k \in V \ (T \cap D) /\ \A b \in (T \cap D) \ V : k < b
            BY <1>3, <1>6, <2>2
        <3>2. QED BY <3>1, Zenon DEF Earlier
    <2>3. QED BY <2>1, <2>2
<1>7. ASSUME Earlier(U, T \cap C) PROVE Earlier(V, T \cap D)
    <2>1. PICK a \in U \ (T \cap C) : \A b \in (T \cap C) \ U : a < b
        BY <1>7 DEF Earlier
    <2>2. a \in V \ (T \cap D) /\ \A b \in (T \cap D) \ V : a < b
        BY <1>3, <2>1
    <2>3. QED BY <2>2, Zenon DEF Earlier
<1>8. ASSUME T \cap D = V PROVE T \cap C = U
    BY <1>3, <1>8
<1>9. ASSUME Earlier(V, T \cap D) PROVE T \cap C = U \/ Earlier(U, T \cap C)
    <2>1. PICK a \in V \ (T \cap D) : \A b \in (T \cap D) \ V : a < b
        BY <1>9 DEF Earlier
    <2>2. CASE a = k
        <3>1. (T \cap C) \ U = {}
            BY <1>3, <2>1, <2>2
        <3>2. CASE T \cap C = U
            BY <3>2
        <3>3. CASE T \cap C # U
            <4>1. PICK x \in U \ (T \cap C) : TRUE
                BY <3>1, <3>3
            <4>2. x \in U \ (T \cap C) /\ \A b \in (T \cap C) \ U : x < b
                BY <3>1
            <4>3. QED BY <4>2, Zenon DEF Earlier
        <3>4. QED BY <3>2, <3>3
    <2>3. CASE a # k
        <3>1. a \in U \ (T \cap C) /\ \A b \in (T \cap C) \ U : a < b
            BY <1>3, <2>1, <2>3
        <3>2. QED BY <3>1, Zenon DEF Earlier
    <2>4. QED BY <2>2, <2>3
<1>10. QED BY <1>4, <1>5, <1>6, <1>7, <1>8, <1>9

\* The last position given back: what is left of its branch is what agrees with
\* the others and does not have it, or follows them.
LEMMA BacktrackKeeps ==
    ASSUME NEW k \in Nat \ {0}, NEW U \in SUBSET (1..(k - 1)), NEW T \in SUBSET Nat,
           NEW l \in U, \A i \in U : i <= l
    PROVE  Later(U, T, k) <=> Rest(U \ {l}, T, l + 1)
<1> DEFINE C == 1..(k - 1)
           D == 1..((l + 1) - 1)
           V == U \ {l}
<1>1. /\ D \subseteq C /\ U \subseteq D /\ l \in D
      /\ \A i \in C : i \in D \/ l < i
      /\ \A i \in D : i < l \/ i = l
      /\ \A i \in C : ~ (i < i)
    OBVIOUS
<1>2. \A i \in D, j \in C : j \notin D => i < j
    OBVIOUS
<1>3. Later(U, T, k) <=> Earlier(U, T \cap C)
    BY DEF Later
<1>4. Rest(V, T, l + 1) <=> T \cap D = V \/ Earlier(V, T \cap D)
    BY DEF Rest, Later
<1>5. \A i \in D : ~ (l < i)
    OBVIOUS
<1> HIDE DEF C, D
<1>6. ASSUME Earlier(U, T \cap C) PROVE T \cap D = V \/ Earlier(V, T \cap D)
    <2>1. PICK a \in U \ (T \cap C) : \A b \in (T \cap C) \ U : a < b
        BY <1>6 DEF Earlier
    <2>2. CASE a = l
        <3>1. (T \cap D) \ V = {}
            BY <1>1, <1>5, <2>1, <2>2
        <3>2. CASE T \cap D = V
            BY <3>2
        <3>3. CASE T \cap D # V
            <4>1. PICK x \in V \ (T \cap D) : TRUE
                BY <3>1, <3>3
            <4>2. x \in V \ (T \cap D) /\ \A b \in (T \cap D) \ V : x < b
                BY <3>1
            <4>3. QED BY <4>2, Zenon DEF Earlier
        <3>4. QED BY <3>2, <3>3
    <2>3. CASE a # l
        <3>1. a \in V \ (T \cap D) /\ \A b \in (T \cap D) \ V : a < b
            BY <1>1, <2>1, <2>3
        <3>2. QED BY <3>1, Zenon DEF Earlier
    <2>4. QED BY <2>2, <2>3
<1>7. ASSUME T \cap D = V PROVE Earlier(U, T \cap C)
    <2>1. l \in U \ (T \cap C) /\ \A b \in (T \cap C) \ U : l < b
        BY <1>1, <1>7
    <2>2. QED BY <2>1, Zenon DEF Earlier
<1>8. ASSUME Earlier(V, T \cap D) PROVE Earlier(U, T \cap C)
    <2>1. PICK a \in V \ (T \cap D) : \A b \in (T \cap D) \ V : a < b
        BY <1>8 DEF Earlier
    <2>2. a \in U \ (T \cap C) /\ \A b \in (T \cap C) \ U : a < b
        BY <1>1, <1>2, <2>1
    <2>3. QED BY <2>2, Zenon DEF Earlier
<1>9. QED BY <1>3, <1>4, <1>6, <1>7, <1>8

-----------------------------------------------------------------------------
(* The invariant.                                                          *)

Taken == ToSet(taken)

\* The positions taken are decided, in ascending order, and hold no category
\* beyond its capacity.
WalkInv ==
    /\ PoolInv
    /\ mode \in {"call", "loop", "return", "done"}
    /\ size \in Nat /\ at \in 1..(Len(pool) + 1)
    /\ taken \in Seq(Places)
    /\ \A i \in 1..Len(taken) : taken[i] < at
    /\ \A i, j \in 1..Len(taken) : i < j => taken[i] < taken[j]
    /\ Len(taken) <= size
    /\ mode = "loop" => Len(taken) < size
    /\ mode # "done" => \A c \in Category : HeldBy(Taken, c) <= Capacity(c)

\* What the walk has still to yield.
Open(T) ==
    /\ mode # "done"
    /\ \/ Cardinality(T) > size
       \/ /\ Cardinality(T) = size
          /\ IF mode = "return" THEN Later(Taken, T, at) ELSE Rest(Taken, T, at)

\* Everything else was yielded, and nothing but valid selections was.
YieldInv ==
    /\ yielded \in Seq(Selection)
    /\ ToSet(yielded) = { SelectionAt(T) : T \in { T \in Fitting : ~ Open(T) } }

\* As many positions as entries.
LEMMA TakenFacts ==
    ASSUME WalkInv
    PROVE  /\ Taken \in SUBSET Places /\ Taken \in SUBSET (1..(at - 1)) /\ IsFiniteSet(Taken)
           /\ Len(taken) \in Nat /\ Cardinality(Taken) = Len(taken)
           /\ Places \in SUBSET Nat /\ at \in Nat \ {0} /\ Len(pool) \in Nat
<1>1. /\ taken \in [1..Len(taken) -> Places] /\ Len(taken) \in Nat /\ DOMAIN taken = 1..Len(taken)
    BY DEF WalkInv
<1>2. Taken = { taken[i] : i \in 1..Len(taken) }
    BY <1>1 DEF Taken, ToSet
<1>3. Taken \in SUBSET Places
    BY <1>1, <1>2
<1>4. Places \in SUBSET Nat /\ at \in Nat \ {0} /\ Len(pool) \in Nat
    BY DEF Places, WalkInv, PoolInv
<1>5. Taken \in SUBSET (1..(at - 1))
    <2>1. ASSUME NEW i \in 1..Len(taken) PROVE taken[i] \in 1..(at - 1)
        <3>1. taken[i] \in Places /\ taken[i] < at
            BY <1>1, <2>1 DEF WalkInv
        <3>2. QED BY <1>4, <3>1 DEF Places
    <2>2. QED BY <1>2, <2>1
<1>6. IsFiniteSet(Taken) /\ Cardinality(Taken) = Len(taken)
    <2>1. \A i, j \in 1..Len(taken) : taken[i] = taken[j] => i = j
        <3> SUFFICES ASSUME NEW i \in 1..Len(taken), NEW j \in 1..Len(taken), i # j
                     PROVE  taken[i] # taken[j]
            OBVIOUS
        <3>1. i < j \/ j < i
            BY <1>1
        <3>2. taken[i] \in Nat /\ taken[j] \in Nat
            BY <1>1, <1>4
        <3>3. QED BY <3>1, <3>2 DEF WalkInv
    <2>2. taken \in [1..Len(taken) -> Taken] /\ \A x \in Taken : \E i \in 1..Len(taken) : taken[i] = x
        BY <1>1, <1>2
    <2>3. taken \in Injection(1..Len(taken), Taken) /\ taken \in Surjection(1..Len(taken), Taken)
        BY <2>1, <2>2, Fun_IsInj, Fun_IsSurj
    <2>4. IsFiniteSet(1..Len(taken)) /\ Cardinality(1..Len(taken)) = Len(taken)
        <3>1. 1 \in Int /\ Len(taken) \in Int
            BY <1>1
        <3>2. /\ IsFiniteSet(1..Len(taken))
              /\ Cardinality(1..Len(taken)) = IF 1 > Len(taken) THEN 0 ELSE Len(taken) - 1 + 1
            BY <3>1, FS_Interval, Zenon
        <3>3. QED BY <1>1, <3>2
    <2>5. IsFiniteSet(Taken) /\ (Cardinality(1..Len(taken)) = Cardinality(Taken) <=> taken \in Injection(1..Len(taken), Taken))
        BY <2>3, <2>4, FS_Surjection
    <2>6. QED BY <2>3, <2>4, <2>5
<1>7. QED BY <1>1, <1>3, <1>4, <1>5, <1>6

\* The batch and the pool fix what a set of positions stands for.
LEMMA PlacesFixed ==
    ASSUME UNCHANGED << batch, pool >>
    PROVE  /\ PoolInv' <=> PoolInv
           /\ Places' = Places /\ Fitting' = Fitting
           /\ \A T : SelectionAt(T)' = SelectionAt(T)
           /\ \A T, c : HeldBy(T, c)' = HeldBy(T, c)
           /\ \A c : Capacity(c)' = Capacity(c) /\ Deficit(c)' = Deficit(c)
<1>1. Required' = Required /\ Optional' = Optional /\ Places' = Places
    BY DEF Required, Optional, Places
<1>2. \A S, c : CountIn(S, c)' = CountIn(S, c)
    BY DEF CountIn, InCategory
<1>3. \A T : At(T)' = At(T)
    BY DEF At
<1>4. \A T : SelectionAt(T)' = SelectionAt(T)
    BY <1>1, <1>3 DEF SelectionAt
<1>5. \A T, c : HeldBy(T, c)' = HeldBy(T, c)
    BY <1>2, <1>3 DEF HeldBy
<1>6. \A c : Capacity(c)' = Capacity(c) /\ Deficit(c)' = Deficit(c)
    BY <1>1, <1>2 DEF Capacity, Deficit, Needed
<1>7. Fitting' = Fitting
    BY <1>1, <1>5, <1>6 DEF Fitting
<1>8. PoolInv' <=> PoolInv
    BY <1>1 DEF PoolInv, RescueEarlier
<1>9. QED BY <1>1, <1>4, <1>5, <1>6, <1>7, <1>8

\* A step that yields nothing loses no valid subset and repeats none.
LEMMA NothingYielded ==
    ASSUME UNCHANGED << batch, pool, yielded >>, YieldInv,
           \A T \in Fitting : Open(T)' <=> Open(T)
    PROVE  YieldInv'
<1>1. /\ Fitting' = Fitting /\ \A T : SelectionAt(T)' = SelectionAt(T)
    BY PlacesFixed
<1>2. { T \in Fitting : ~ Open(T) }' = { T \in Fitting : ~ Open(T) }
    BY <1>1
<1>3. Selection' = Selection /\ ToSet(yielded)' = ToSet(yielded)
    BY DEF Selection, ToSet
<1> DEFINE closed == { T \in Fitting : ~ Open(T) }
<1>4. { SelectionAt(T) : T \in closed }' = { SelectionAt(T) : T \in closed }
    BY <1>1, <1>2
<1>5. QED BY <1>3, <1>4 DEF YieldInv

-----------------------------------------------------------------------------
(* The steps.                                                              *)

\* Nothing is decided before anything is.
LEMMA NothingTaken ==
    ASSUME NEW T
    PROVE  Rest({}, T, 1) /\ \A k : ~ Later({}, T, k)
    BY DEF Rest, Later, Earlier

\* At the start every valid selection is still to come.
LEMMA WalkInit ==
    ASSUME Init
    PROVE  WalkInv /\ YieldInv
<1>1. PoolInv
    BY PoolIsSorted DEF Init
<1>2. Taken = {} /\ Len(taken) = 0 /\ taken \in Seq(Places)
    BY DEF Init, Taken, ToSet
<1>3. size \in Nat /\ size = MinCardinality
    <2> DEFINE least == [c \in Category |-> Deficit(c)]
    <2>1. \A c \in Category : least[c] \in Nat
        BY <1>1, BoundTypes
    <2>2. TokenSum(least, Category) \in Nat
        <3> HIDE DEF least
        <3>1. QED BY <2>1, SumIsNat, RescueAssumption
    <2>3. QED BY <2>2 DEF Init, MinCardinality, Total
<1>4. mode # "done" => \A c \in Category : HeldBy(Taken, c) <= Capacity(c)
    <2> SUFFICES ASSUME mode # "done", NEW c \in Category PROVE HeldBy({}, c) <= Capacity(c)
        BY <1>2
    <2>1. Deficit(c) <= Capacity(c) /\ Deficit(c) \in Nat /\ Capacity(c) \in Int
        BY <1>1, BoundTypes DEF Init, Satisfiable
    <2>2. InCategory(At({}), c) = {}
        BY DEF InCategory, At
    <2>3. HeldBy({}, c) = 0
        BY <2>2, FS_EmptySet DEF HeldBy, CountIn
    <2>4. QED BY <2>1, <2>3
<1>5. WalkInv
    <2>1. at \in 1..(Len(pool) + 1) /\ mode \in {"call", "done"}
        BY <1>1 DEF Init, PoolInv
    <2>2. QED BY <1>1, <1>2, <1>3, <1>4, <2>1 DEF WalkInv
<1>6. \A T \in Fitting : Open(T)
    <2> SUFFICES ASSUME NEW T \in Fitting PROVE Open(T)
        OBVIOUS
    <2>1. /\ Satisfiable /\ MinCardinality <= MaxCardinality
          /\ MinCardinality \in Nat /\ Cardinality(T) \in Nat /\ MinCardinality <= Cardinality(T)
        BY <1>1, FittingSizes
    <2>2. mode = "call" /\ at = 1
        BY <2>1 DEF Init
    <2>3. Rest(Taken, T, at)
        BY <1>2, <2>2, NothingTaken
    <2>4. QED BY <1>3, <2>1, <2>2, <2>3 DEF Open
<1>7. YieldInv
    <2>1. yielded = <<>> /\ ToSet(yielded) = {}
        BY DEF Init, ToSet
    <2>2. QED BY <1>6, <2>1 DEF YieldInv
<1>8. QED BY <1>5, <1>7

\* A subset of the size that agrees with the taken ones everywhere is them.
LEMMA CompleteIsTaken ==
    ASSUME WalkInv, NEW T \in SUBSET Places, Cardinality(T) = Len(taken), Taken \subseteq T
    PROVE  T = Taken
<1>1. IsFiniteSet(T) /\ Cardinality(Taken) = Cardinality(T)
    BY TakenFacts, AtFacts DEF WalkInv
<1>2. QED BY <1>1, FS_Subset

\* What the walk holds is what is at the positions taken.
LEMMA ChosenIsTaken ==
    /\ Chosen = At(Taken)
    /\ Required \cup Chosen = SelectionAt(Taken)
    /\ \A c : Held(c) = HeldBy(Taken, c)
    BY DEF Chosen, At, Taken, SelectionAt, Held, HeldBy

\* walk() with every slot filled: only the subset taken is decided by it.
LEMMA CompleteDecides ==
    ASSUME WalkInv, CompleteSubset
    PROVE  /\ WalkInv'
           /\ \A T \in Fitting : T # Taken => (Open(T)' <=> Open(T))
           /\ Open(Taken) /\ ~ Open(Taken)' /\ Cardinality(Taken) = size
           /\ Taken \in Fitting <=> \A c \in Category : Held(c) >= Deficit(c)
<1>1. /\ mode = "call" /\ mode' = "return" /\ UNCHANGED << batch, pool, size, taken, at >>
      /\ Taken' = Taken /\ size = Len(taken)
    <2>1. Remaining = 0 /\ Len(taken) \in Nat /\ size \in Nat
        BY TakenFacts DEF CompleteSubset, WalkInv
    <2>2. QED BY <2>1 DEF CompleteSubset, Remaining, Taken, ToSet
<1>2. WalkInv'
    <2>1. /\ PoolInv' /\ Places' = Places
          /\ \A c \in Category : HeldBy(Taken, c)' <= Capacity(c)'
        BY <1>1, PlacesFixed DEF WalkInv
    <2>2. Len(taken)' = Len(taken) /\ Len(pool)' = Len(pool)
        BY <1>1
    <2>3. QED BY <1>1, <2>1, <2>2 DEF WalkInv
<1>3. Cardinality(Taken) = size /\ Taken \in SUBSET Places /\ Taken \in SUBSET (1..(at - 1))
    BY <1>1, TakenFacts
<1>4. ASSUME NEW T \in Fitting, T # Taken PROVE Open(T)' <=> Open(T)
    <2>1. Cardinality(T) = size => T \cap (1..(at - 1)) # Taken
        <3>1. T \in SUBSET Places
            BY DEF Fitting
        <3>2. QED BY <1>1, <1>4, <3>1, CompleteIsTaken
    <2>2. Rest(Taken, T, at) <=> T \cap (1..(at - 1)) = Taken \/ Later(Taken, T, at)
        BY DEF Rest
    <2>3. Open(T)' <=> Cardinality(T) > size \/ (Cardinality(T) = size /\ Later(Taken, T, at))
        BY <1>1 DEF Open, Later, Earlier
    <2>4. QED BY <1>1, <2>1, <2>2, <2>3 DEF Open
<1>5. Open(Taken) /\ ~ Open(Taken)'
    <2>1. Taken \cap (1..(at - 1)) = Taken
        BY <1>3
    <2>2. Rest(Taken, Taken, at) /\ ~ Later(Taken, Taken, at)
        BY <2>1 DEF Rest, Later, Earlier
    <2>3. Open(Taken)' <=> Cardinality(Taken) > size \/ (Cardinality(Taken) = size /\ Later(Taken, Taken, at))
        BY <1>1 DEF Open, Later, Earlier
    <2>4. ~ (Cardinality(Taken) > size)
        BY <1>3 DEF WalkInv
    <2>5. QED BY <1>1, <1>3, <2>2, <2>3, <2>4 DEF Open
<1>6. Taken \in Fitting <=> \A c \in Category : Held(c) >= Deficit(c)
    <2>1. \A c \in Category : /\ HeldBy(Taken, c) \in Nat /\ HeldBy(Taken, c) <= Capacity(c)
                              /\ Held(c) = HeldBy(Taken, c) /\ Deficit(c) \in Nat
        BY <1>1, <1>3, AtFacts, ChosenIsTaken, BoundTypes DEF WalkInv
    <2>2. QED BY <1>3, <2>1 DEF Fitting
<1>7. QED BY <1>2, <1>3, <1>4, <1>5, <1>6

\* It yields the subset exactly if that is a valid one.
LEMMA CompleteStep ==
    ASSUME WalkInv, YieldInv, CompleteSubset
    PROVE  WalkInv' /\ YieldInv'
<1>1. WalkInv'
    BY CompleteDecides
<1>2. UNCHANGED << batch, pool >>
    BY DEF CompleteSubset
<1>3. CASE \A c \in Category : Held(c) >= Deficit(c)
    <2> DEFINE S == SelectionAt(Taken)
    <2>1. yielded' = Append(yielded, S) /\ S \in Selection /\ Taken \in Fitting
        <3>1. Taken \in Fitting
            BY <1>3, CompleteDecides
        <3>2. S \in Selection
            <4>1. Taken \in SUBSET Places
                BY TakenFacts
            <4>2. S \in RescueSelections
                BY <3>1, <4>1, FittingIsValid DEF WalkInv
            <4>3. QED BY <4>2 DEF RescueSelections
        <3>3. yielded' = Append(yielded, Required \cup Chosen)
            BY <1>3 DEF CompleteSubset
        <3>4. QED BY <3>1, <3>2, <3>3, ChosenIsTaken
    <2> HIDE DEF S
    <2>2. yielded' \in Seq(Selection) /\ ToSet(yielded') = ToSet(yielded) \cup {S}
        <3>1. yielded \in Seq(Selection)
            BY DEF YieldInv
        <3>2. /\ DOMAIN yielded' = (DOMAIN yielded) \cup {Len(yielded) + 1}
              /\ \A i \in DOMAIN yielded : yielded'[i] = yielded[i]
              /\ yielded'[Len(yielded) + 1] = S
              /\ yielded' \in Seq(Selection)
            BY <2>1, <3>1
        <3>3. QED BY <3>2 DEF ToSet
    <2> DEFINE closed == { T \in Fitting : ~ Open(T) }
    <2>3. Fitting' = Fitting /\ \A T : SelectionAt(T)' = SelectionAt(T)
        BY <1>2, PlacesFixed
    <2>4. closed' = closed \cup {Taken}
        <3>1. closed' = { T \in Fitting : ~ Open(T)' }
            BY <2>3
        <3>2. ASSUME NEW T \in Fitting PROVE ~ Open(T)' <=> ~ Open(T) \/ T = Taken
            <4>1. Taken' = Taken
                BY DEF CompleteSubset, Taken, ToSet
            <4>2. CASE T = Taken
                BY <4>1, <4>2, CompleteDecides
            <4>3. CASE T # Taken
                BY <4>3, CompleteDecides
            <4>4. QED BY <4>2, <4>3
        <3>3. Taken \in Fitting
            BY <2>1
        <3>4. QED BY <3>1, <3>2, <3>3
    <2>5. { SelectionAt(T) : T \in closed }' = { SelectionAt(T) : T \in closed \cup {Taken} }
        BY <2>3, <2>4
    <2> HIDE DEF closed
    <2>6. { SelectionAt(T) : T \in closed \cup {Taken} } = { SelectionAt(T) : T \in closed } \cup {S}
        BY DEF S
    <2>7. ToSet(yielded) = { SelectionAt(T) : T \in closed }
        BY DEF YieldInv, closed
    <2>8. Selection' = Selection
        BY DEF Selection
    <2>9. ToSet(yielded') = { SelectionAt(T) : T \in closed }'
        BY <2>2, <2>5, <2>6, <2>7
    <2>10. QED BY <1>1, <2>2, <2>8, <2>9 DEF YieldInv, closed, ToSet
<1>4. CASE ~ \A c \in Category : Held(c) >= Deficit(c)
    <2>1. Taken \notin Fitting
        BY <1>4, CompleteDecides
    <2>2. \A T \in Fitting : Open(T)' <=> Open(T)
        BY <2>1, CompleteDecides
    <2>3. yielded' = yielded
        BY <1>4 DEF CompleteSubset
    <2>4. QED BY <1>1, <1>2, <2>2, <2>3, NothingYielded
<1>5. QED BY <1>3, <1>4

\* The invariant after a step, where the batch and the pool are as before.
LEMMA WalkKept ==
    ASSUME WalkInv, UNCHANGED << batch, pool >>,
           mode' \in {"call", "loop", "return", "done"},
           size' \in Nat, at' \in 1..(Len(pool) + 1), taken' \in Seq(Places),
           \A i \in 1..Len(taken') : taken'[i] < at',
           \A i, j \in 1..Len(taken') : i < j => taken'[i] < taken'[j],
           Len(taken') <= size', mode' = "loop" => Len(taken') < size',
           mode' # "done" => \A c \in Category : HeldBy(Taken', c) <= Capacity(c)
    PROVE  WalkInv'
<1>1. PoolInv' /\ Places' = Places /\ Len(pool)' = Len(pool)
    BY PlacesFixed DEF WalkInv
<1>2. \A T, c : HeldBy(T, c)' = HeldBy(T, c)
    BY PlacesFixed
<1>3. \A c : Capacity(c)' = Capacity(c)
    BY PlacesFixed
<1>4. \A c : HeldBy(Taken, c)' = HeldBy(Taken', c)
    BY <1>2
<1>5. mode' # "done" => \A c \in Category : HeldBy(Taken, c)' <= Capacity(c)'
    BY <1>3, <1>4
<1>6. QED BY <1>1, <1>5 DEF WalkInv

\* What the walk has still to yield after a step.
LEMMA OpenNext ==
    ASSUME NEW T
    PROVE  Open(T)' <=>
             /\ mode' # "done"
             /\ \/ Cardinality(T) > size'
                \/ /\ Cardinality(T) = size'
                   /\ IF mode' = "return" THEN Later(Taken', T, at') ELSE Rest(Taken', T, at')
    BY DEF Open, Later, Rest, Earlier

\* A branch that cannot become a valid subset.
LEMMA PruneStep ==
    ASSUME WalkInv, YieldInv, Prune
    PROVE  WalkInv' /\ YieldInv'
<1>1. /\ mode = "call" /\ mode' = "return" /\ Unreachable(at)
      /\ UNCHANGED << batch, pool, size, taken, at, yielded >> /\ Taken' = Taken
    BY DEF Prune, Taken, ToSet
<1>2. WalkInv'
    <2>1. /\ size \in Nat /\ at \in 1..(Len(pool) + 1) /\ taken \in Seq(Places)
          /\ \A i \in 1..Len(taken) : taken[i] < at
          /\ \A i, j \in 1..Len(taken) : i < j => taken[i] < taken[j]
          /\ Len(taken) <= size
          /\ \A c \in Category : HeldBy(Taken, c) <= Capacity(c)
        BY <1>1 DEF WalkInv
    <2>2. QED BY <1>1, <2>1, WalkKept
<1>3. ASSUME NEW T \in Fitting PROVE Open(T)' <=> Open(T)
    <2>1. Cardinality(T) = size => T \cap (1..(at - 1)) # Taken
        <3>1. /\ PoolInv /\ at \in 1..(Len(pool) + 1) /\ size \in Nat
              /\ ToSet(taken) \in SUBSET Places
              /\ Cardinality(ToSet(taken)) = Len(taken) /\ Len(taken) \in Nat
            BY TakenFacts DEF WalkInv, Taken
        <3>2. QED BY <1>1, <3>1, PruneIsSafe DEF Taken
    <2>2. Rest(Taken, T, at) <=> T \cap (1..(at - 1)) = Taken \/ Later(Taken, T, at)
        BY DEF Rest
    <2>3. Open(T)' <=> Cardinality(T) > size \/ (Cardinality(T) = size /\ Later(Taken, T, at))
        BY <1>1, OpenNext
    <2>4. QED BY <1>1, <2>1, <2>2, <2>3 DEF Open
<1>4. QED BY <1>1, <1>2, <1>3, NothingYielded

\* The loop of a call begins where the call did.
LEMMA BeginLoopStep ==
    ASSUME WalkInv, YieldInv, BeginLoop
    PROVE  WalkInv' /\ YieldInv'
<1>1. /\ mode = "call" /\ mode' = "loop" /\ Remaining # 0
      /\ UNCHANGED << batch, pool, size, taken, at, yielded >> /\ Taken' = Taken
    BY DEF BeginLoop, Taken, ToSet
<1>2. WalkInv'
    <2>1. /\ size \in Nat /\ at \in 1..(Len(pool) + 1) /\ taken \in Seq(Places)
          /\ \A i \in 1..Len(taken) : taken[i] < at
          /\ \A i, j \in 1..Len(taken) : i < j => taken[i] < taken[j]
          /\ Len(taken) <= size
          /\ \A c \in Category : HeldBy(Taken, c) <= Capacity(c)
        BY <1>1 DEF WalkInv
    <2>2. Len(taken) < size
        BY <1>1, <2>1, TakenFacts DEF Remaining
    <2>3. QED BY <1>1, <2>1, <2>2, WalkKept
<1>3. ASSUME NEW T \in Fitting PROVE Open(T)' <=> Open(T)
    BY <1>1, OpenNext DEF Open
<1>4. QED BY <1>1, <1>2, <1>3, NothingYielded

\* A position of a category that is full.
LEMMA SkipStep ==
    ASSUME WalkInv, YieldInv, SkipFull
    PROVE  WalkInv' /\ YieldInv'
<1>1. /\ mode = "loop" /\ mode' = "loop" /\ at <= Len(pool) /\ Full(at) /\ at' = at + 1
      /\ UNCHANGED << batch, pool, size, taken, yielded >> /\ Taken' = Taken
    BY DEF SkipFull, Taken, ToSet
<1>2. WalkInv'
    <2>1. /\ size \in Nat /\ taken \in Seq(Places)
          /\ \A i, j \in 1..Len(taken) : i < j => taken[i] < taken[j]
          /\ Len(taken) <= size /\ Len(taken) < size
          /\ \A c \in Category : HeldBy(Taken, c) <= Capacity(c)
        BY <1>1 DEF WalkInv
    <2>2. at' \in 1..(Len(pool) + 1)
        BY <1>1, TakenFacts
    <2>3. \A i \in 1..Len(taken) : taken[i] < at'
        <3> SUFFICES ASSUME NEW i \in 1..Len(taken) PROVE taken[i] < at'
            OBVIOUS
        <3>1. taken[i] < at /\ taken[i] \in Nat
            BY <2>1, TakenFacts DEF WalkInv
        <3>2. QED BY <1>1, <3>1, TakenFacts
    <2>4. QED BY <1>1, <2>1, <2>2, <2>3, WalkKept
<1>3. at \in Nat \ {0} /\ Taken \in SUBSET (1..(at - 1)) /\ at \in Places \ Taken
    <2>1. at \in Nat \ {0} /\ Taken \in SUBSET (1..(at - 1)) /\ at \notin 1..(at - 1) /\ Len(pool) \in Nat
        BY TakenFacts
    <2>2. at \in Places
        BY <1>1, <2>1 DEF Places
    <2>3. QED BY <2>1, <2>2
<1>4. ASSUME NEW T \in Fitting PROVE Open(T)' <=> Open(T)
    <2>1. T \in SUBSET Places /\ T \in SUBSET Nat
        BY TakenFacts DEF Fitting
    <2>2. ~ (T \cap (1..(at - 1)) = Taken /\ at \in T)
        <3> SUFFICES ASSUME Taken \subseteq T, at \in T PROVE FALSE
            OBVIOUS
        <3> DEFINE c == batch.category[pool[at]]
        <3>1. c \in Category /\ HeldBy(Taken, c) >= Capacity(c)
            BY <1>1, ChosenIsTaken DEF Full
        <3>2. HeldBy(Taken \cup {at}, c) = HeldBy(Taken, c) + 1
            BY <1>3, HeldAdd, TakenFacts DEF WalkInv
        <3>3. HeldBy(Taken \cup {at}, c) <= HeldBy(T, c)
            BY <2>1, HeldMonotone DEF WalkInv
        <3>4. HeldBy(T, c) <= Capacity(c)
            BY <3>1 DEF Fitting
        <3>5. HeldBy(Taken, c) \in Nat /\ HeldBy(T, c) \in Nat
            BY <2>1, AtFacts, TakenFacts DEF WalkInv
        <3>6. Capacity(c) \in Int
            BY <3>1, BoundTypes DEF WalkInv
        <3> HIDE DEF c
        <3>7. QED BY <3>1, <3>2, <3>3, <3>4, <3>5, <3>6
    <2>3. Rest(Taken, T, at) <=> Rest(Taken, T, at + 1)
        BY <1>3, <2>1, <2>2, SkipKeeps
    <2>4. QED BY <1>1, <2>3, OpenNext DEF Open
<1>5. QED BY <1>1, <1>2, <1>4, NothingYielded

\* A position taken: chosen.push().
LEMMA TakeStep ==
    ASSUME WalkInv, YieldInv, Take
    PROVE  WalkInv' /\ YieldInv'
<1>1. /\ mode = "loop" /\ mode' = "call" /\ at <= Len(pool) /\ ~ Full(at) /\ at' = at + 1
      /\ taken' = Append(taken, at)
      /\ UNCHANGED << batch, pool, size, yielded >>
    BY DEF Take
<1>2. /\ taken \in Seq(Places) /\ Len(taken) \in Nat /\ at \in Nat \ {0} /\ Len(pool) \in Nat
      /\ Taken \in SUBSET (1..(at - 1)) /\ Taken \in SUBSET Places /\ at \in Places \ Taken
    <2>1. /\ at \in Nat \ {0} /\ Taken \in SUBSET (1..(at - 1)) /\ at \notin 1..(at - 1)
          /\ Len(pool) \in Nat /\ Taken \in SUBSET Places
        BY TakenFacts
    <2>2. at \in Places
        BY <1>1, <2>1 DEF Places
    <2>3. QED BY <2>1, <2>2 DEF WalkInv
<1>3. /\ taken' \in Seq(Places) /\ Len(taken') = Len(taken) + 1
      /\ \A i \in 1..Len(taken) : taken'[i] = taken[i]
      /\ taken'[Len(taken) + 1] = at
      /\ DOMAIN taken = 1..Len(taken) /\ DOMAIN taken' = 1..(Len(taken) + 1)
    BY <1>1, <1>2
<1>4. Taken' = Taken \cup {at}
    <2>1. 1..(Len(taken) + 1) = (1..Len(taken)) \cup {Len(taken) + 1}
        BY <1>2
    <2>2. Taken' = { taken'[i] : i \in 1..(Len(taken) + 1) }
        BY <1>3 DEF Taken, ToSet
    <2>3. Taken = { taken[i] : i \in 1..Len(taken) }
        BY <1>3 DEF Taken, ToSet
    <2>4. QED BY <1>3, <2>1, <2>2, <2>3
<1>5. WalkInv'
    <2>1. size \in Nat /\ Len(taken) < size
        BY <1>1 DEF WalkInv
    <2>2. at' \in 1..(Len(pool) + 1)
        BY <1>1, <1>2
    <2>3. \A i \in 1..Len(taken) : taken[i] < at /\ taken[i] \in Nat
        <3>1. taken \in [1..Len(taken) -> Places]
            BY <1>2
        <3>2. QED BY <3>1, TakenFacts DEF WalkInv
    <2>4. \A i \in 1..Len(taken') : taken'[i] < at'
        BY <1>1, <1>2, <1>3, <2>3
    <2>5. \A i, j \in 1..Len(taken') : i < j => taken'[i] < taken'[j]
        <3> SUFFICES ASSUME NEW i \in 1..Len(taken'), NEW j \in 1..Len(taken'), i < j
                     PROVE  taken'[i] < taken'[j]
            OBVIOUS
        <3>1. i \in 1..Len(taken) /\ taken'[i] = taken[i]
            BY <1>2, <1>3
        <3>2. CASE j = Len(taken) + 1
            BY <1>3, <2>3, <3>1, <3>2
        <3>3. CASE j \in 1..Len(taken)
            BY <1>3, <3>1, <3>3 DEF WalkInv
        <3>4. QED BY <1>2, <1>3, <3>2, <3>3
    <2>6. \A c \in Category : HeldBy(Taken', c) <= Capacity(c)
        <3> SUFFICES ASSUME NEW c \in Category PROVE HeldBy(Taken', c) <= Capacity(c)
            OBVIOUS
        <3>1. HeldBy(Taken', c) = IF batch.category[pool[at]] = c THEN HeldBy(Taken, c) + 1 ELSE HeldBy(Taken, c)
            BY <1>2, <1>4, HeldAdd DEF WalkInv
        <3>2. HeldBy(Taken, c) <= Capacity(c) /\ HeldBy(Taken, c) \in Nat /\ Capacity(c) \in Int
            BY <1>1, <1>2, AtFacts, BoundTypes DEF WalkInv
        <3>3. batch.category[pool[at]] = c => ~ (HeldBy(Taken, c) >= Capacity(c))
            BY <1>1, ChosenIsTaken DEF Full
        <3>4. QED BY <3>1, <3>2, <3>3
    <2>7. Len(taken') <= size' /\ size' \in Nat
        BY <1>1, <1>2, <1>3, <2>1
    <2>8. QED BY <1>1, <1>3, <2>2, <2>4, <2>5, <2>6, <2>7, WalkKept
<1>6. ASSUME NEW T \in Fitting PROVE Open(T)' <=> Open(T)
    <2>1. T \in SUBSET Nat
        BY TakenFacts DEF Fitting
    <2>2. Rest(Taken, T, at) <=> Rest(Taken \cup {at}, T, at + 1)
        BY <1>2, <2>1, TakeKeeps
    <2>3. QED BY <1>1, <1>4, <2>2, OpenNext DEF Open
<1>7. QED BY <1>1, <1>5, <1>6, NothingYielded

\* Every position is decided and slots are left: no subset ends here.
LEMMA EndLoopStep ==
    ASSUME WalkInv, YieldInv, EndLoop
    PROVE  WalkInv' /\ YieldInv'
<1>1. /\ mode = "loop" /\ mode' = "return" /\ at > Len(pool)
      /\ UNCHANGED << batch, pool, size, taken, at, yielded >> /\ Taken' = Taken
    BY DEF EndLoop, Taken, ToSet
<1>2. /\ size \in Nat /\ at \in 1..(Len(pool) + 1) /\ taken \in Seq(Places)
      /\ \A i \in 1..Len(taken) : taken[i] < at
      /\ \A i, j \in 1..Len(taken) : i < j => taken[i] < taken[j]
      /\ Len(taken) <= size /\ Len(taken) < size
      /\ \A c \in Category : HeldBy(Taken, c) <= Capacity(c)
    BY <1>1 DEF WalkInv
<1>3. WalkInv'
    BY <1>1, <1>2, WalkKept
<1>4. ASSUME NEW T \in Fitting PROVE Open(T)' <=> Open(T)
    <2>1. T \in SUBSET Places /\ 1..(at - 1) = Places
        BY <1>1, <1>2, TakenFacts DEF Fitting, Places
    <2>2. Cardinality(T) = size => T \cap (1..(at - 1)) # Taken
        <3>1. T \cap (1..(at - 1)) = T
            BY <2>1
        <3>2. Cardinality(Taken) = Len(taken) /\ Len(taken) \in Nat
            BY TakenFacts
        <3>3. Cardinality(Taken) # size
            BY <1>2, <3>2
        <3>4. QED BY <3>1, <3>3
    <2>3. Rest(Taken, T, at) <=> T \cap (1..(at - 1)) = Taken \/ Later(Taken, T, at)
        BY DEF Rest
    <2>4. Open(T)' <=> Cardinality(T) > size \/ (Cardinality(T) = size /\ Later(Taken, T, at))
        BY <1>1, OpenNext
    <2>5. QED BY <1>1, <2>2, <2>3, <2>4 DEF Open
<1>5. QED BY <1>1, <1>3, <1>4, NothingYielded

\* The last position given back: chosen.pop().
LEMMA BacktrackStep ==
    ASSUME WalkInv, YieldInv, Backtrack
    PROVE  WalkInv' /\ YieldInv'
<1> DEFINE n == Len(taken)
           l == taken[n]
<1>1. /\ mode = "return" /\ mode' = "loop" /\ taken # <<>>
      /\ UNCHANGED << batch, pool, size, yielded >>
    BY DEF Backtrack
<1>2. /\ taken \in Seq(Places) /\ n \in Nat \ {0} /\ DOMAIN taken = 1..n /\ l \in Places
      /\ Places \in SUBSET Nat /\ at \in Nat \ {0} /\ Len(pool) \in Nat
      /\ Taken \in SUBSET (1..(at - 1)) /\ Taken \in SUBSET Places
      /\ l \in Nat /\ \A i \in 1..n : taken[i] \in Nat
    <2>1. taken \in Seq(Places) /\ taken # <<>>
        BY <1>1 DEF WalkInv
    <2>2. n \in Nat \ {0} /\ DOMAIN taken = 1..n /\ l \in Places /\ \A i \in 1..n : taken[i] \in Places
        BY <2>1
    <2>3. l \in Nat /\ \A i \in 1..n : taken[i] \in Nat
        <3> HIDE DEF l, n
        <3>1. QED BY <2>2, TakenFacts
    <2>4. QED BY <2>1, <2>2, <2>3, TakenFacts
<1>3. /\ at' = l + 1 /\ taken' = SubSeq(taken, 1, n - 1)
    BY DEF Backtrack, Last, Front
<1>4. /\ taken' \in Seq(Places) /\ Len(taken') = n - 1 /\ DOMAIN taken' = 1..(n - 1)
      /\ \A i \in 1..(n - 1) : taken'[i] = taken[i]
    BY <1>2, <1>3
<1>5. \A i \in 1..(n - 1) : taken[i] < l /\ i \in 1..n
    BY <1>2 DEF WalkInv
<1>6. Taken' = Taken \ {l} /\ l \in Taken /\ \A i \in Taken : i <= l
    <2>1. 1..n = (1..(n - 1)) \cup {n}
        BY <1>2
    <2>2. Taken' = { taken[i] : i \in 1..(n - 1) }
        BY <1>4 DEF Taken, ToSet
    <2>3. Taken = { taken[i] : i \in 1..n }
        BY <1>2 DEF Taken, ToSet
    <2>4. Taken = { taken[i] : i \in 1..(n - 1) } \cup {l}
        BY <2>1, <2>3
    <2>5. \A i \in 1..(n - 1) : taken[i] # l /\ taken[i] <= l
        <3> SUFFICES ASSUME NEW i \in 1..(n - 1) PROVE taken[i] # l /\ taken[i] <= l
            OBVIOUS
        <3> HIDE DEF l
        <3>1. taken[i] < l /\ taken[i] \in Nat /\ l \in Nat
            BY <1>2, <1>5
        <3>2. QED BY <3>1
    <2> HIDE DEF l, n
    <2>6. l <= l
        BY <1>2
    <2>7. QED BY <2>2, <2>4, <2>5, <2>6
<1>7. l < at
    BY <1>2 DEF WalkInv
<1>8. WalkInv'
    <2>1. size \in Nat /\ n <= size
        BY DEF WalkInv
    <2>2. at' \in 1..(Len(pool) + 1)
        BY <1>2, <1>3 DEF Places
    <2>3. \A i \in 1..Len(taken') : taken'[i] < at'
        <3> SUFFICES ASSUME NEW i \in 1..(n - 1) PROVE taken'[i] < at'
            BY <1>4
        <3> HIDE DEF l
        <3>1. taken'[i] = taken[i] /\ taken[i] < l /\ taken[i] \in Nat /\ l \in Nat
            BY <1>2, <1>4, <1>5
        <3>2. QED BY <1>3, <3>1
    <2>4. \A i, j \in 1..Len(taken') : i < j => taken'[i] < taken'[j]
        <3>1. \A i \in 1..(n - 1) : i \in 1..n
            BY <1>2
        <3>2. QED BY <1>4, <3>1 DEF WalkInv
    <2>5. \A c \in Category : HeldBy(Taken', c) <= Capacity(c)
        <3> SUFFICES ASSUME NEW c \in Category PROVE HeldBy(Taken', c) <= Capacity(c)
            OBVIOUS
        <3>1. HeldBy(Taken, c) <= Capacity(c) /\ Capacity(c) \in Int
            BY <1>1, BoundTypes DEF WalkInv
        <3>2. HeldBy(Taken', c) <= HeldBy(Taken, c)
            BY <1>2, <1>6, HeldMonotone DEF WalkInv
        <3>3. HeldBy(Taken, c) \in Nat /\ HeldBy(Taken', c) \in Nat
            BY <1>2, <1>6, AtFacts DEF WalkInv
        <3>4. QED BY <3>1, <3>2, <3>3
    <2>6. Len(taken') < size' /\ Len(taken') <= size' /\ size' \in Nat
        BY <1>1, <1>2, <1>4, <2>1
    <2>7. QED BY <1>1, <1>4, <2>2, <2>3, <2>4, <2>5, <2>6, WalkKept
<1>9. ASSUME NEW T \in Fitting PROVE Open(T)' <=> Open(T)
    <2>1. T \in SUBSET Nat
        BY TakenFacts DEF Fitting
    <2>2. Later(Taken, T, at) <=> Rest(Taken \ {l}, T, l + 1)
        <3> HIDE DEF l
        <3>1. QED BY <1>2, <1>6, <2>1, BacktrackKeeps
    <2>3. QED BY <1>1, <1>3, <1>6, <2>2, OpenNext DEF Open
<1>10. QED BY <1>1, <1>8, <1>9, NothingYielded

\* The walk of a size is over when its last position is given back.
LEMMA NextSizeStep ==
    ASSUME WalkInv, YieldInv, NextSize
    PROVE  /\ WalkInv' /\ YieldInv'
           /\ mode' = "done" => \A T \in Fitting : ~ Open(T)
<1>1. /\ mode = "return" /\ taken = <<>> /\ Taken' = Taken
      /\ UNCHANGED << batch, pool, taken, yielded >>
    BY DEF NextSize, Taken, ToSet
<1>2. /\ Taken = {} /\ Len(taken) = 0 /\ size \in Nat /\ at \in 1..(Len(pool) + 1) /\ Len(pool) \in Nat
      /\ taken \in Seq(Places) /\ \A c \in Category : HeldBy(Taken, c) <= Capacity(c)
    BY <1>1, TakenFacts DEF WalkInv, Taken, ToSet
<1>3. ASSUME NEW T \in Fitting PROVE Open(T) <=> Cardinality(T) > size
    <2>1. ~ Later(Taken, T, at)
        BY <1>2, NothingTaken
    <2>2. QED BY <1>1, <2>1 DEF Open
<1>4. CASE size < MaxCardinality
    <2>1. size' = size + 1 /\ at' = 1 /\ mode' = "call"
        BY <1>4 DEF NextSize
    <2>2. WalkInv'
        <3>1. size' \in Nat /\ at' \in 1..(Len(pool) + 1) /\ Len(taken') <= size'
            BY <1>1, <1>2, <2>1
        <3>2. QED BY <1>1, <1>2, <2>1, <3>1, WalkKept
    <2>3. ASSUME NEW T \in Fitting PROVE Open(T)' <=> Open(T)
        <3>1. Rest(Taken', T, at')
            BY <1>1, <1>2, <2>1, NothingTaken
        <3>2. Open(T)' <=> Cardinality(T) > size + 1 \/ Cardinality(T) = size + 1
            BY <2>1, <3>1, OpenNext
        <3>3. Cardinality(T) \in Nat
            BY FittingSizes DEF WalkInv
        <3>4. QED BY <1>2, <1>3, <3>2, <3>3
    <2>4. QED BY <1>1, <2>1, <2>2, <2>3, NothingYielded
<1>5. CASE ~ (size < MaxCardinality)
    <2>1. mode' = "done" /\ UNCHANGED << size, at >>
        BY <1>5 DEF NextSize
    <2>2. WalkInv'
        <3>1. Len(taken') <= size'
            BY <1>1, <1>2, <2>1
        <3>2. QED BY <1>1, <1>2, <2>1, <3>1, WalkKept
    <2>3. ASSUME NEW T \in Fitting PROVE ~ Open(T)
        <3>1. Cardinality(T) \in Nat /\ Cardinality(T) <= MaxCardinality /\ MaxCardinality \in Nat
            BY FittingSizes DEF WalkInv
        <3>2. QED BY <1>2, <1>3, <1>5, <3>1
    <2>4. \A T \in Fitting : Open(T)' <=> Open(T)
        BY <2>1, <2>3, OpenNext
    <2>5. QED BY <1>1, <2>2, <2>3, <2>4, NothingYielded
<1>6. QED BY <1>4, <1>5

\* A step that changes nothing.
LEMMA StutterKeeps ==
    ASSUME WalkInv, YieldInv, UNCHANGED vars
    PROVE  WalkInv' /\ YieldInv'
<1>1. /\ UNCHANGED << batch, pool, size, taken, at, mode, yielded >> /\ Taken' = Taken
    BY DEF vars, Taken, ToSet
<1>2. WalkInv'
    BY <1>1, WalkKept DEF WalkInv
<1>3. ASSUME NEW T \in Fitting PROVE Open(T)' <=> Open(T)
    BY <1>1, OpenNext DEF Open
<1>4. QED BY <1>1, <1>2, <1>3, NothingYielded

\* Whatever the batch, the walk has yielded what it has passed and has still to
\* yield the rest.
THEOREM WalkIsExact == Spec => [](WalkInv /\ YieldInv)
<1>1. Init => WalkInv /\ YieldInv
    BY WalkInit
<1>2. WalkInv /\ YieldInv /\ [Next]_vars => (WalkInv /\ YieldInv)'
    BY CompleteStep, PruneStep, BeginLoopStep, SkipStep, TakeStep, EndLoopStep, BacktrackStep,
       NextSizeStep, StutterKeeps DEF Next
<1>3. QED BY <1>1, <1>2, PTL DEF Spec

-----------------------------------------------------------------------------
(* The work.  A call of walk is told apart by the size it is of and by the  *)
(* positions it holds.  Its caller has passed the prunes, so what the       *)
(* caller holds begins a valid selection, which is no larger than the size: *)
(* either it was yielded before, or the caller is still active.             *)

\* A valid selection of at most r blocks begins with P, decided below k.
Completable(P, r, k) ==
    \E V \in Fitting : \E m \in 0..(k - 1) : Cardinality(V) <= r /\ P = V \cap (1..m)

\* A call of size r that holds T comes from a caller that could be completed.
Tried(T, r) ==
    T = {} \/ \E i \in T : T \subseteq 1..i /\ Completable(T \cap (1..(i - 1)), r, i)

\* With U taken and the positions below k decided, the call that holds T has
\* been made: it is on the way to U, or was left before.
Met(T, U, k, called) ==
    \/ T # U /\ \E j \in Nat : T = U \cap (1..j)
    \/ T = U /\ called
    \/ \E a \in T \ U : a < k /\ T \cap (1..(a - 1)) = U \cap (1..(a - 1))

\* The calls that may have been made.
Accounted ==
    { p \in (MinCardinality..size) \X SUBSET Places :
        /\ Tried(p[2], p[1])
        /\ p[1] = size => Met(p[2], Taken, at, mode # "call") }

WorkInv ==
    /\ calls \in Nat /\ MinCardinality \in Nat /\ MinCardinality <= size
    /\ mode # "done" => Satisfiable
    /\ \A i \in Taken : Completable(Taken \cap (1..(i - 1)), size, i)
    /\ mode = "loop" => Completable(Taken, size, at)
    /\ calls <= Cardinality(Accounted)

\* The first members of each category ahead that its minimum still needs.
Low(c)   == IF at > First(c) THEN at ELSE First(c)
Reserved ==
    { i \in Places : \E c \in Category :
        batch.category[pool[i]] = c /\ i \in Low(c)..(Low(c) + Unmet(c) - 1) }

\* Where no prune bites they are there, and as many as are needed.
LEMMA ReservedMeets ==
    ASSUME WalkInv, ~ Unreachable(at)
    PROVE  /\ Reserved \in SUBSET Places /\ \A i \in Reserved : i >= at
           /\ \A c \in Category : Unmet(c) \in Nat /\ HeldBy(Reserved, c) = Unmet(c)
           /\ Cardinality(Reserved) <= Remaining
<1>1. Reserved \in SUBSET Places /\ PoolInv /\ at \in Nat /\ at \in 1..(Len(pool) + 1)
    BY TakenFacts DEF Reserved, WalkInv
<1>2. ASSUME NEW c \in Category
      PROVE  /\ Low(c) \in Nat /\ Low(c) >= at /\ Low(c) >= 1
             /\ Unmet(c) \in Nat
             /\ \A i \in Low(c)..(Low(c) + Unmet(c) - 1) : i \in Places /\ batch.category[pool[i]] = c
    <2>1. First(c) \in Nat /\ First(c) >= 1 /\ Beyond(c) \in Nat
        BY <1>1, CategoryRange
    <2>2. Low(c) \in Nat /\ Low(c) >= at /\ Low(c) >= First(c) /\ Low(c) >= 1
        BY <1>1, <2>1 DEF Low
    <2>3. Held(c) \in Nat /\ Deficit(c) \in Nat
        BY <1>1, ChosenIsTaken, AtFacts, TakenFacts, BoundTypes
    <2>4. Unmet(c) \in Nat
        BY <2>3 DEF Unmet
    <2>5. ~ (Ahead(c, at) < Unmet(c))
        BY DEF Unreachable
    <2>6. Ahead(c, at) = IF Beyond(c) > Low(c) THEN Beyond(c) - Low(c) ELSE 0
        BY DEF Ahead, Low
    <2>7. ASSUME NEW i \in Low(c)..(Low(c) + Unmet(c) - 1)
          PROVE  i \in Places /\ batch.category[pool[i]] = c
        <3>1. i \in Nat /\ First(c) <= i /\ i < Beyond(c)
            BY <2>1, <2>2, <2>4, <2>5, <2>6, <2>7
        <3>2. QED BY <1>1, <3>1, CategoryRange
    <2>8. QED BY <2>2, <2>4, <2>7
<1>3. \A i \in Reserved : i >= at
    <2> SUFFICES ASSUME NEW i \in Reserved PROVE i >= at
        OBVIOUS
    <2>1. PICK c \in Category : i \in Low(c)..(Low(c) + Unmet(c) - 1)
        BY DEF Reserved
    <2>2. QED BY <1>1, <1>2, <2>1
<1>4. ASSUME NEW c \in Category PROVE HeldBy(Reserved, c) = Unmet(c)
    <2> DEFINE mine == { i \in Reserved : batch.category[pool[i]] = c }
    <2>1. mine = Low(c)..(Low(c) + Unmet(c) - 1)
        <3>1. \A i \in mine : i \in Low(c)..(Low(c) + Unmet(c) - 1)
            BY DEF Reserved
        <3>2. \A i \in Low(c)..(Low(c) + Unmet(c) - 1) : i \in mine
            BY <1>2 DEF Reserved
        <3>3. QED BY <3>1, <3>2
    <2>2. Cardinality(mine) = Unmet(c)
        <3> DEFINE b == Low(c) + Unmet(c) - 1
        <3>1. Low(c) \in Int /\ b \in Int
            BY <1>2
        <3> HIDE DEF mine, b
        <3>2. Cardinality(Low(c)..b) = IF Low(c) > b THEN 0 ELSE b - Low(c) + 1
            BY <3>1, FS_Interval, Zenon
        <3>3. mine = Low(c)..b
            BY <2>1 DEF b
        <3>4. QED BY <1>2, <3>2, <3>3 DEF b
    <2>3. InCategory(At(Reserved), c) = At(mine)
        BY DEF InCategory, At
    <2>4. Cardinality(At(mine)) = Cardinality(mine)
        <3>1. mine \in SUBSET Places
            BY <1>1
        <3> HIDE DEF mine
        <3>2. QED BY <1>1, <3>1, AtFacts
    <2>5. QED BY <2>2, <2>3, <2>4 DEF HeldBy, CountIn
<1>5. Cardinality(Reserved) <= Remaining
    <2> DEFINE unmet == [c \in Category |-> Unmet(c)]
               more  == [c \in Category |-> CountIn(At(Reserved), c)]
               free  == { b \in At(Reserved) : batch.category[b] \notin Category }
    <2>1. more = unmet
        BY <1>4 DEF HeldBy
    <2>2. free = {}
        BY DEF At, Reserved
    <2>3. At(Reserved) \in SUBSET Block /\ Cardinality(At(Reserved)) = Cardinality(Reserved)
        BY <1>1, AtFacts
    <2>4. Total(more) \in Nat /\ Cardinality(At(Reserved)) = Total(more) + Cardinality(free)
        BY <1>1, <2>3, CategorySum DEF PoolInv
    <2>5. ~ (Total(unmet) > Remaining)
        BY DEF Unreachable
    <2>6. Remaining \in Int
        BY TakenFacts DEF Remaining, WalkInv
    <2> HIDE DEF unmet, more, free
    <2>7. Cardinality(free) = 0
        BY <2>2, FS_EmptySet
    <2>8. QED BY <2>1, <2>3, <2>4, <2>5, <2>6, <2>7
<1>6. QED BY <1>1, <1>2, <1>3, <1>4, <1>5

\* A call that passes the prunes can be completed.
LEMMA UnprunedCompletes ==
    ASSUME WalkInv, Satisfiable, mode # "done", ~ Unreachable(at)
    PROVE  Completable(Taken, size, at)
<1> DEFINE V == Taken \cup Reserved
<1>1. /\ Taken \in SUBSET Places /\ Taken \in SUBSET (1..(at - 1)) /\ Cardinality(Taken) = Len(taken)
      /\ IsFiniteSet(Taken) /\ Len(taken) \in Nat /\ at \in Nat \ {0} /\ size \in Nat /\ PoolInv
    BY TakenFacts DEF WalkInv
<1>2. /\ Reserved \in SUBSET Places /\ \A i \in Reserved : i >= at /\ i \in Nat
      /\ \A c \in Category : Unmet(c) \in Nat /\ HeldBy(Reserved, c) = Unmet(c)
      /\ Cardinality(Reserved) <= Remaining
    BY ReservedMeets, TakenFacts
<1>3. Taken \cap Reserved = {} /\ V \cap (1..(at - 1)) = Taken
    <2>1. \A i \in Reserved : i \notin 1..(at - 1)
        BY <1>1, <1>2
    <2>2. QED BY <1>1, <2>1
<1>4. V \in Fitting
    <2> SUFFICES ASSUME NEW c \in Category PROVE Deficit(c) <= HeldBy(V, c) /\ HeldBy(V, c) <= Capacity(c)
        BY <1>1, <1>2 DEF Fitting
    <2>1. HeldBy(V, c) = HeldBy(Taken, c) + Unmet(c)
        BY <1>1, <1>2, <1>3, HeldUnion
    <2>2. HeldBy(Taken, c) \in Nat /\ HeldBy(Taken, c) <= Capacity(c) /\ Held(c) = HeldBy(Taken, c)
        BY <1>1, AtFacts, ChosenIsTaken DEF WalkInv
    <2>3. Deficit(c) \in Nat /\ Capacity(c) \in Int /\ Deficit(c) <= Capacity(c)
        BY <1>1, BoundTypes DEF Satisfiable
    <2> HIDE DEF V
    <2>4. QED BY <2>1, <2>2, <2>3 DEF Unmet
<1>5. Cardinality(V) <= size
    <2>1. IsFiniteSet(Reserved) /\ Cardinality(Reserved) \in Nat
        BY <1>1, <1>2, AtFacts
    <2>2. Cardinality(V) = Cardinality(Taken) + Cardinality(Reserved)
        BY <1>1, <1>3, <2>1, DisjointCount
    <2>3. QED BY <1>1, <1>2, <2>1, <2>2 DEF Remaining
<1>6. at - 1 \in 0..(at - 1)
    BY <1>1
<1> HIDE DEF V
<1>7. QED BY <1>3, <1>4, <1>5, <1>6 DEF Completable

\* Positions and batch stay as they are, and with them what can be completed.
LEMMA WorkFixed ==
    ASSUME UNCHANGED << batch, pool >>
    PROVE  /\ MinCardinality' = MinCardinality /\ (Satisfiable' <=> Satisfiable)
           /\ \A i : Completable(Taken \cap (1..(i - 1)), size, i)' <=> Completable(Taken' \cap (1..(i - 1)), size', i)
           /\ Completable(Taken, size, at)' <=> Completable(Taken', size', at')
           /\ Accounted' = { p \in (MinCardinality..size') \X SUBSET Places :
                               /\ Tried(p[2], p[1])
                               /\ p[1] = size' => Met(p[2], Taken', at', mode' # "call") }
<1>1. Required' = Required /\ Optional' = Optional /\ Places' = Places /\ Fitting' = Fitting
    BY PlacesFixed DEF Required, Optional
<1>2. \A c : /\ Capacity(c)' = Capacity(c) /\ Deficit(c)' = Deficit(c) /\ Members(c)' = Members(c)
             /\ CountIn(Required, c)' = CountIn(Required, c)
    BY <1>1, PlacesFixed DEF Members, CountIn, InCategory
<1>3. MinCardinality' = MinCardinality
    BY <1>2 DEF MinCardinality, Total
<1>4. Satisfiable' <=> Satisfiable
    BY <1>2 DEF Satisfiable
<1>5. \A P, r, k : Completable(P, r, k)' <=> Completable(P, r, k)
    BY <1>1 DEF Completable
<1>6. \A T, r : Tried(T, r)' <=> Tried(T, r)
    BY <1>5 DEF Tried
<1>7. \A T : Met(T, Taken, at, mode # "call")' <=> Met(T, Taken', at', mode' # "call")
    BY DEF Met
<1>8. Accounted' = { p \in (MinCardinality..size') \X SUBSET Places :
                       /\ Tried(p[2], p[1])
                       /\ p[1] = size' => Met(p[2], Taken', at', mode' # "call") }
    BY <1>1, <1>3, <1>6, <1>7 DEF Accounted
<1>9. /\ \A i : Completable(Taken \cap (1..(i - 1)), size, i)' <=> Completable(Taken' \cap (1..(i - 1)), size', i)
      /\ Completable(Taken, size, at)' <=> Completable(Taken', size', at')
    BY <1>1 DEF Completable
<1>10. QED BY <1>3, <1>4, <1>8, <1>9

\* There are finitely many of them.
LEMMA AccountedFinite ==
    ASSUME PoolInv, MinCardinality \in Nat, NEW r \in Nat,
           NEW A \in SUBSET ((MinCardinality..r) \X SUBSET Places)
    PROVE  IsFiniteSet(A) /\ Cardinality(A) \in Nat
<1>1. IsFiniteSet(MinCardinality..r)
    BY FS_Interval
<1>2. IsFiniteSet(SUBSET Places)
    <2>1. IsFiniteSet(Places)
        BY FS_Interval DEF PoolInv, Places
    <2>2. QED BY <2>1, FS_SUBSET
<1>3. IsFiniteSet((MinCardinality..r) \X SUBSET Places)
    BY <1>1, <1>2, FS_Product
<1>4. QED BY <1>3, FS_Subset, FS_CardinalityType

\* The start: nothing was called.
LEMMA WorkInit ==
    ASSUME Init
    PROVE  WorkInv
<1>1. WalkInv /\ Taken = {} /\ mode # "loop" /\ calls = 0 /\ MinCardinality = size
    BY WalkInit DEF Init, Taken, ToSet
<1>2. MinCardinality \in Nat
    BY <1>1 DEF WalkInv
<1>3. mode # "done" => Satisfiable
    BY DEF Init
<1>4. Cardinality(Accounted) \in Nat
    <2>1. Accounted \in SUBSET ((MinCardinality..size) \X SUBSET Places)
        BY DEF Accounted
    <2>2. QED BY <1>1, <1>2, <2>1, AccountedFinite DEF WalkInv
<1>5. QED BY <1>1, <1>2, <1>3, <1>4 DEF WorkInv

\* A step between two calls forgets none.
LEMMA QuietStep ==
    ASSUME WalkInv, WalkInv', WorkInv, UNCHANGED << batch, pool, size, calls >>,
           mode' # "done" => mode # "done",
           \A i \in Taken' : Completable(Taken' \cap (1..(i - 1)), size, i),
           mode' = "loop" => Completable(Taken', size, at'),
           \A T \in SUBSET Places : Met(T, Taken, at, mode # "call") => Met(T, Taken', at', mode' # "call")
    PROVE  WorkInv'
<1>1. /\ MinCardinality' = MinCardinality /\ (Satisfiable' <=> Satisfiable)
    BY WorkFixed
<1>2. Accounted \in SUBSET Accounted'
    BY WorkFixed DEF Accounted
<1>3. /\ IsFiniteSet(Accounted') /\ Cardinality(Accounted') \in Nat
      /\ Cardinality(Accounted) \in Nat
    <2>1. MinCardinality \in Nat /\ PoolInv /\ size \in Nat
        BY DEF WorkInv, WalkInv
    <2>2. /\ Accounted \in SUBSET ((MinCardinality..size) \X SUBSET Places)
          /\ Accounted' \in SUBSET ((MinCardinality..size) \X SUBSET Places)
        BY WorkFixed DEF Accounted
    <2>3. QED BY <2>1, <2>2, AccountedFinite
<1>4. Cardinality(Accounted) <= Cardinality(Accounted')
    BY <1>2, <1>3, FS_Subset
<1>5. /\ calls' \in Nat /\ calls' <= Cardinality(Accounted')
      /\ MinCardinality' \in Nat /\ MinCardinality' <= size'
    <2>1. calls' = calls /\ size' = size
        OBVIOUS
    <2>2. calls \in Nat /\ calls <= Cardinality(Accounted) /\ MinCardinality \in Nat /\ MinCardinality <= size
        BY DEF WorkInv
    <2>3. calls \in Nat /\ calls <= Cardinality(Accounted')
        BY <1>3, <1>4, <2>2
    <2>4. QED BY <1>1, <2>1, <2>2, <2>3
<1>6. mode' # "done" => Satisfiable'
    BY <1>1 DEF WorkInv
<1>7. \A i \in Taken' : Completable(Taken \cap (1..(i - 1)), size, i)'
    <2>1. size' = size /\ \A i \in Taken' : Completable(Taken' \cap (1..(i - 1)), size, i)
        OBVIOUS
    <2>2. Fitting' = Fitting
        BY PlacesFixed
    <2>3. QED BY <2>1, <2>2 DEF Completable
<1>8. (mode = "loop")' => Completable(Taken, size, at)'
    BY WorkFixed
<1>9. QED BY <1>5, <1>6, <1>7, <1>8 DEF WorkInv

\* A call adds itself: it was not made before.
LEMMA CallStep ==
    ASSUME WalkInv, WalkInv', WorkInv, UNCHANGED << batch, pool, size, taken, at >>,
           mode = "call", mode' \in {"loop", "return"}, calls' = calls + 1,
           mode' = "loop" => Completable(Taken, size, at)
    PROVE  WorkInv'
<1> DEFINE call == << size, Taken >>
<1>1. /\ MinCardinality' = MinCardinality /\ (Satisfiable' <=> Satisfiable)
      /\ Taken' = Taken
    BY WorkFixed DEF Taken, ToSet
<1>2. Taken \in SUBSET Places /\ Taken \in SUBSET (1..(at - 1)) /\ Places \in SUBSET Nat
      /\ MinCardinality \in Nat /\ size \in Nat /\ MinCardinality <= size
    BY TakenFacts DEF WorkInv, WalkInv
<1>3. Tried(Taken, size)
    <2>1. CASE Taken = {}
        BY <2>1 DEF Tried
    <2>2. CASE Taken # {}
        <3>1. PICK i \in Taken : \A j \in Taken : j <= i
            <4> DEFINE D == { Len(pool) - j : j \in Taken }
            <4>1. \A j \in Taken : j \in Nat /\ 1 <= j /\ j <= Len(pool) /\ Len(pool) \in Nat
                BY <1>2, TakenFacts DEF Places
            <4>2. D \in SUBSET Nat /\ D # {}
                BY <2>2, <4>1
            <4>3. PICK d \in D : \A e \in D : ~ (e < d)
                <5> HIDE DEF D
                <5>1. QED BY <4>2, LeastMember
            <4>4. PICK i \in Taken : d = Len(pool) - i
                BY <4>3
            <4>5. \A j \in Taken : j <= i
                <5> SUFFICES ASSUME NEW j \in Taken PROVE j <= i
                    OBVIOUS
                <5>1. ~ (Len(pool) - j < Len(pool) - i)
                    BY <4>3, <4>4
                <5>2. QED BY <4>1, <5>1
            <4>6. QED BY <4>5
        <3>2. Taken \subseteq 1..i
            <4>1. \A j \in Taken : j \in Nat /\ 1 <= j
                BY <1>2 DEF Places
            <4>2. QED BY <3>1, <4>1
        <3>3. Completable(Taken \cap (1..(i - 1)), size, i)
            BY DEF WorkInv
        <3>4. QED BY <3>2, <3>3 DEF Tried
    <2>3. QED BY <2>1, <2>2
<1>4. call \notin Accounted
    <2>1. ~ Met(Taken, Taken, at, mode # "call")
        BY DEF Met
    <2>2. QED BY <2>1 DEF Accounted
<1>5. Accounted \cup {call} \in SUBSET Accounted'
    <2>1. call \in (MinCardinality..size) \X SUBSET Places
        <3>1. size \in MinCardinality..size
            BY <1>2
        <3>2. QED BY <1>2, <3>1
    <2>2. Met(Taken, Taken', at', mode' # "call")
        BY <1>1 DEF Met
    <2>3. \A T : Met(T, Taken, at, mode # "call") => Met(T, Taken', at', mode' # "call")
        BY <1>1 DEF Met
    <2>4. call \in Accounted'
        BY <1>3, <2>1, <2>2, WorkFixed
    <2>5. Accounted \in SUBSET Accounted'
        BY <2>3, WorkFixed DEF Accounted
    <2>6. QED BY <2>4, <2>5
<1>6. /\ IsFiniteSet(Accounted') /\ Cardinality(Accounted') \in Nat
      /\ IsFiniteSet(Accounted) /\ Cardinality(Accounted) \in Nat
    <2>1. MinCardinality \in Nat /\ PoolInv /\ size \in Nat
        BY DEF WorkInv, WalkInv
    <2>2. /\ Accounted \in SUBSET ((MinCardinality..size) \X SUBSET Places)
          /\ Accounted' \in SUBSET ((MinCardinality..size) \X SUBSET Places)
        BY WorkFixed DEF Accounted
    <2>3. QED BY <2>1, <2>2, AccountedFinite
<1>7. Cardinality(Accounted) + 1 <= Cardinality(Accounted')
    <2>1. Cardinality(Accounted \cup {call}) = Cardinality(Accounted) + 1
        <3> HIDE DEF call
        <3>1. QED BY <1>4, <1>6, FS_AddElement
    <2>2. Cardinality(Accounted \cup {call}) <= Cardinality(Accounted')
        <3> HIDE DEF call
        <3>1. QED BY <1>5, <1>6, FS_Subset
    <2>3. QED BY <2>1, <2>2
<1>8. /\ calls' \in Nat /\ calls' <= Cardinality(Accounted')
      /\ MinCardinality' \in Nat /\ MinCardinality' <= size'
    BY <1>1, <1>6, <1>7 DEF WorkInv
<1>9. mode' # "done" => Satisfiable'
    BY <1>1 DEF WorkInv
<1>10. \A i \in Taken' : Completable(Taken \cap (1..(i - 1)), size, i)'
    <2>1. \A i \in Taken : Completable(Taken \cap (1..(i - 1)), size, i)
        BY DEF WorkInv
    <2>2. QED BY <1>1, <2>1, WorkFixed
<1>11. (mode = "loop")' => Completable(Taken, size, at)'
    BY <1>1, WorkFixed
<1>12. QED BY <1>8, <1>9, <1>10, <1>11 DEF WorkInv

\* A position passed over.
LEMMA MetSkip ==
    ASSUME NEW k \in Nat, NEW U \in SUBSET Nat, NEW T \in SUBSET Nat, Met(T, U, k, TRUE)
    PROVE  Met(T, U, k + 1, TRUE)
<1>1. CASE T # U /\ \E j \in Nat : T = U \cap (1..j)
    BY <1>1 DEF Met
<1>2. CASE T = U
    BY <1>2 DEF Met
<1>3. CASE \E a \in T \ U : a < k /\ T \cap (1..(a - 1)) = U \cap (1..(a - 1))
    <2>1. PICK a \in T \ U : a < k /\ T \cap (1..(a - 1)) = U \cap (1..(a - 1))
        BY <1>3
    <2>2. a < k + 1
        BY <2>1
    <2>3. QED BY <2>1, <2>2 DEF Met
<1>4. QED BY <1>1, <1>2, <1>3 DEF Met

\* A position taken: the caller is on the way to the call.
LEMMA MetTake ==
    ASSUME NEW k \in Nat \ {0}, NEW U \in SUBSET (1..(k - 1)), NEW T \in SUBSET Nat,
           Met(T, U, k, TRUE)
    PROVE  Met(T, U \cup {k}, k + 1, FALSE)
<1>1. U \in SUBSET Nat /\ k \notin U /\ \A i \in U : i < k
    OBVIOUS
<1>2. ASSUME NEW j \in Nat, j < k
      PROVE  (U \cup {k}) \cap (1..j) = U \cap (1..j)
    <2>1. k \notin 1..j
        BY <1>2
    <2>2. QED BY <2>1
<1>3. ASSUME NEW j \in Nat, T = U \cap (1..j), j < k
      PROVE  Met(T, U \cup {k}, k + 1, FALSE)
    <2>1. T = (U \cup {k}) \cap (1..j)
        BY <1>2, <1>3
    <2>2. T # U \cup {k}
        BY <1>1, <1>3
    <2>3. QED BY <2>1, <2>2 DEF Met
<1>4. k - 1 \in Nat /\ k - 1 < k /\ U = U \cap (1..(k - 1))
    <2>1. k - 1 \in Nat /\ k - 1 < k
        OBVIOUS
    <2>2. U = U \cap (1..(k - 1))
        BY Zenon
    <2>3. QED BY <2>1, <2>2
<1>5. CASE T # U /\ \E j \in Nat : T = U \cap (1..j)
    <2>1. PICK j \in Nat : T = U \cap (1..j)
        BY <1>5
    <2>2. j < k
        <3> SUFFICES ASSUME ~ (j < k) PROVE FALSE
            OBVIOUS
        <3>1. \A i \in U : i \in 1..j
            OBVIOUS
        <3>2. T = U
            BY <2>1, <3>1
        <3>3. QED BY <1>5, <3>2
    <2>3. QED BY <1>3, <2>1, <2>2
<1>6. CASE T = U
    BY <1>3, <1>4, <1>6
<1>7. CASE \E a \in T \ U : a < k /\ T \cap (1..(a - 1)) = U \cap (1..(a - 1))
    <2>1. PICK a \in T \ U : a < k /\ T \cap (1..(a - 1)) = U \cap (1..(a - 1))
        BY <1>7
    <2>2. a \in Nat /\ a \notin U \cup {k} /\ a < k + 1 /\ k \notin 1..(a - 1)
        BY <2>1
    <2>3. (U \cup {k}) \cap (1..(a - 1)) = U \cap (1..(a - 1))
        BY <2>2
    <2>4. QED BY <2>1, <2>2, <2>3 DEF Met
<1>8. QED BY <1>5, <1>6, <1>7 DEF Met

\* The last position given back: the call is one of those left.
LEMMA MetBacktrack ==
    ASSUME NEW k \in Nat, NEW U \in SUBSET Nat, NEW l \in U, \A i \in U : i <= l,
           NEW T \in SUBSET Nat, Met(T, U, k, TRUE), 0 \notin U
    PROVE  Met(T, U \ {l}, l + 1, TRUE)
<1>1. l \in Nat /\ l < l + 1
    OBVIOUS
<1>2. ASSUME NEW a \in Nat, a <= l
      PROVE  (U \ {l}) \cap (1..(a - 1)) = U \cap (1..(a - 1))
    <2>1. l \notin 1..(a - 1)
        BY <1>1, <1>2
    <2>2. QED BY <2>1
<1>3. ASSUME l \in T, T \cap (1..(l - 1)) = U \cap (1..(l - 1))
      PROVE  Met(T, U \ {l}, l + 1, TRUE)
    <2>1. l \in T \ (U \ {l}) /\ T \cap (1..(l - 1)) = (U \ {l}) \cap (1..(l - 1))
        BY <1>1, <1>2, <1>3
    <2>2. QED BY <1>1, <2>1 DEF Met
<1>4. CASE T # U /\ \E j \in Nat : T = U \cap (1..j)
    <2>1. PICK j \in Nat : T = U \cap (1..j)
        BY <1>4
    <2>2. j < l
        <3> SUFFICES ASSUME ~ (j < l) PROVE FALSE
            BY <1>1
        <3>1. \A i \in U : i \in 1..j
            <4> SUFFICES ASSUME NEW i \in U PROVE i \in 1..j
                OBVIOUS
            <4>1. i \in Nat /\ i # 0 /\ i <= l
                OBVIOUS
            <4>2. QED BY <1>1, <4>1
        <3>2. T = U
            BY <2>1, <3>1
        <3>3. QED BY <1>4, <3>2
    <2>3. T = (U \ {l}) \cap (1..j)
        <3>1. l \notin 1..j
            BY <1>1, <2>2
        <3>2. QED BY <2>1, <3>1
    <2>4. QED BY <2>3 DEF Met
<1>5. CASE T = U
    BY <1>3, <1>5
<1>6. CASE \E a \in T \ U : a < k /\ T \cap (1..(a - 1)) = U \cap (1..(a - 1))
    <2>1. PICK a \in T \ U : a < k /\ T \cap (1..(a - 1)) = U \cap (1..(a - 1))
        BY <1>6
    <2>2. a \in Nat /\ a # l
        BY <2>1
    <2>3. CASE a < l
        <3>1. a \in T \ (U \ {l}) /\ a < l + 1 /\ a <= l
            BY <1>1, <2>1, <2>2, <2>3
        <3>2. T \cap (1..(a - 1)) = (U \ {l}) \cap (1..(a - 1))
            BY <1>2, <2>1, <2>2, <3>1
        <3>3. QED BY <3>1, <3>2 DEF Met
    <2>4. CASE l < a
        <3>1. l \in 1..(a - 1) /\ \A i \in 1..(l - 1) : i \in 1..(a - 1)
            BY <1>1, <2>2, <2>4
        <3>2. l \in T /\ T \cap (1..(l - 1)) = U \cap (1..(l - 1))
            BY <2>1, <3>1
        <3>3. QED BY <1>3, <3>2
    <2>5. a < l \/ l < a
        BY <1>1, <2>2
    <2>6. QED BY <2>3, <2>4, <2>5
<1>7. QED BY <1>4, <1>5, <1>6 DEF Met

\* What can be completed with the positions below k can be with those below more.
LEMMA CompletableLater ==
    ASSUME NEW P, NEW r, NEW k \in Nat, Completable(P, r, k)
    PROVE  Completable(P, r, k + 1)
<1>1. PICK V \in Fitting, m \in 0..(k - 1) : Cardinality(V) <= r /\ P = V \cap (1..m)
    BY DEF Completable
<1>2. m \in 0..((k + 1) - 1)
    OBVIOUS
<1>3. QED BY <1>1, <1>2 DEF Completable

\* The calls of the sizes before are kept.
LEMMA NextSizeWork ==
    ASSUME WalkInv, WalkInv', WorkInv, NextSize
    PROVE  WorkInv'
<1>1. /\ mode = "return" /\ taken = <<>> /\ Taken' = Taken /\ Taken = {}
      /\ mode' \in {"call", "done"} /\ UNCHANGED << batch, pool, calls >>
      /\ size' = size \/ size' = size + 1
      /\ size' = size => mode' = "done"
    BY DEF NextSize, Taken, ToSet, WalkInv
<1>2. /\ size \in Nat /\ size' \in Nat /\ MinCardinality \in Nat /\ MinCardinality <= size
      /\ calls \in Nat /\ calls <= Cardinality(Accounted) /\ PoolInv
      /\ MinCardinality' = MinCardinality /\ (Satisfiable' <=> Satisfiable)
    BY <1>1, WorkFixed DEF WorkInv, WalkInv
<1>3. Accounted \in SUBSET Accounted'
    <2> SUFFICES ASSUME NEW p \in Accounted PROVE p \in Accounted'
        OBVIOUS
    <2>1. p \in (MinCardinality..size) \X SUBSET Places /\ Tried(p[2], p[1])
          /\ (p[1] = size => Met(p[2], Taken, at, mode # "call"))
        BY DEF Accounted
    <2>2. p[1] \in MinCardinality..size /\ p[2] \in SUBSET Places /\ p = << p[1], p[2] >>
        BY <2>1
    <2>3. p[1] \in MinCardinality..size' /\ (size' = size + 1 => p[1] # size')
        BY <1>1, <1>2, <2>2
    <2>4. p \in (MinCardinality..size') \X SUBSET Places
        BY <2>2, <2>3
    <2>5. size' = size => \A T : Met(T, Taken, at, mode # "call") => Met(T, Taken', at', mode' # "call")
        BY <1>1 DEF Met, NextSize
    <2>6. p[1] = size' => Met(p[2], Taken', at', mode' # "call")
        BY <1>1, <2>1, <2>3, <2>5
    <2>7. QED BY <1>1, <2>1, <2>4, <2>6, WorkFixed
<1>4. /\ IsFiniteSet(Accounted') /\ Cardinality(Accounted') \in Nat /\ Cardinality(Accounted) \in Nat
    <2>1. /\ Accounted \in SUBSET ((MinCardinality..size) \X SUBSET Places)
          /\ Accounted' \in SUBSET ((MinCardinality..size') \X SUBSET Places)
        BY <1>1, WorkFixed DEF Accounted
    <2>2. QED BY <1>2, <2>1, AccountedFinite
<1>5. calls \in Nat /\ calls <= Cardinality(Accounted')
    <2>1. Cardinality(Accounted) <= Cardinality(Accounted')
        BY <1>3, <1>4, FS_Subset
    <2>2. QED BY <1>2, <1>4, <2>1
<1>6. calls' = calls /\ MinCardinality' <= size' /\ (mode' # "done" => Satisfiable')
    BY <1>1, <1>2 DEF WorkInv
<1>7. QED BY <1>1, <1>2, <1>5, <1>6 DEF WorkInv

\* Every step accounts for its call.
LEMMA WorkStep ==
    ASSUME WalkInv, WalkInv', WorkInv, [Next]_vars
    PROVE  WorkInv'
<1>1. /\ Taken \in SUBSET Places /\ Taken \in SUBSET (1..(at - 1)) /\ at \in Nat \ {0} /\ Len(pool) \in Nat
      /\ Places \in SUBSET Nat /\ 0 \notin Places /\ SUBSET Places \in SUBSET SUBSET Nat /\ size \in Nat
      /\ \A i \in Taken : Completable(Taken \cap (1..(i - 1)), size, i)
    <2>1. 0 \notin Places
        BY DEF Places
    <2>2. QED BY <2>1, TakenFacts DEF WorkInv, WalkInv
<1>2. CASE CompleteSubset
    BY <1>2, CallStep DEF CompleteSubset
<1>3. CASE Prune
    BY <1>3, CallStep DEF Prune
<1>4. CASE BeginLoop
    <2>1. /\ mode = "call" /\ mode' = "loop" /\ ~ Unreachable(at) /\ calls' = calls + 1
          /\ UNCHANGED << batch, pool, size, taken, at >>
        BY <1>4 DEF BeginLoop
    <2>2. Completable(Taken, size, at)
        BY <2>1, UnprunedCompletes DEF WorkInv
    <2>3. QED BY <2>1, <2>2, CallStep
<1>5. CASE SkipFull
    <2>1. /\ mode = "loop" /\ mode' = "loop" /\ at' = at + 1 /\ Taken' = Taken
          /\ UNCHANGED << batch, pool, size, calls >>
        BY <1>5 DEF SkipFull, Taken, ToSet
    <2>2. Completable(Taken', size, at')
        BY <1>1, <2>1, CompletableLater DEF WorkInv
    <2>3. ASSUME NEW T \in SUBSET Places, Met(T, Taken, at, mode # "call")
          PROVE  Met(T, Taken', at', mode' # "call")
        <3>1. T \in SUBSET Nat /\ Taken \in SUBSET Nat /\ at \in Nat
            BY <1>1
        <3>2. Met(T, Taken, at, TRUE)
            BY <2>1, <2>3 DEF Met
        <3>3. Met(T, Taken, at + 1, TRUE)
            BY <3>1, <3>2, MetSkip
        <3>4. QED BY <2>1, <3>3 DEF Met
    <2>4. QED BY <1>1, <2>1, <2>2, <2>3, QuietStep
<1>6. CASE Take
    <2>1. /\ mode = "loop" /\ mode' = "call" /\ at' = at + 1 /\ taken' = Append(taken, at)
          /\ UNCHANGED << batch, pool, size, calls >>
        BY <1>6 DEF Take
    <2>2. Taken' = Taken \cup {at}
        <3>1. taken \in Seq(Places) /\ Len(taken) \in Nat
            BY DEF WalkInv
        <3>2. /\ DOMAIN taken' = (DOMAIN taken) \cup {Len(taken) + 1}
              /\ \A i \in DOMAIN taken : taken'[i] = taken[i]
              /\ taken'[Len(taken) + 1] = at
            BY <2>1, <3>1
        <3>3. QED BY <3>2 DEF Taken, ToSet
    <2>3. ASSUME NEW i \in Taken' PROVE Completable(Taken' \cap (1..(i - 1)), size, i)
        <3>1. CASE i = at
            <4>1. Taken' \cap (1..(i - 1)) = Taken
                <5>1. at \notin 1..(at - 1)
                    BY <1>1
                <5>2. (Taken \cup {at}) \cap (1..(at - 1)) = Taken
                    BY <1>1, <5>1, Zenon
                <5>3. QED BY <2>2, <3>1, <5>2
            <4>2. QED BY <2>1, <3>1, <4>1 DEF WorkInv
        <3>2. CASE i \in Taken
            <4>1. at \notin 1..(i - 1)
                BY <1>1, <3>2
            <4>2. Taken' \cap (1..(i - 1)) = Taken \cap (1..(i - 1))
                BY <2>2, <4>1
            <4>3. QED BY <1>1, <3>2, <4>2
        <3>3. QED BY <2>2, <2>3, <3>1, <3>2
    <2>4. ASSUME NEW T \in SUBSET Places, Met(T, Taken, at, mode # "call")
          PROVE  Met(T, Taken', at', mode' # "call")
        <3>1. T \in SUBSET Nat
            BY <1>1
        <3>2. Met(T, Taken, at, TRUE)
            BY <2>1, <2>4 DEF Met
        <3>3. Met(T, Taken \cup {at}, at + 1, FALSE)
            BY <1>1, <3>1, <3>2, MetTake
        <3>4. QED BY <2>1, <2>2, <3>3 DEF Met
    <2>5. QED BY <2>1, <2>3, <2>4, QuietStep
<1>7. CASE EndLoop
    <2>1. /\ mode = "loop" /\ mode' = "return" /\ at' = at /\ Taken' = Taken
          /\ UNCHANGED << batch, pool, size, calls >>
        BY <1>7 DEF EndLoop, Taken, ToSet
    <2>2. \A T \in SUBSET Places : Met(T, Taken, at, mode # "call") => Met(T, Taken', at', mode' # "call")
        BY <2>1 DEF Met
    <2>3. QED BY <1>1, <2>1, <2>2, QuietStep
<1>8. CASE Backtrack
    <2> DEFINE n == Len(taken)
               l == taken[n]
    <2>1. /\ mode = "return" /\ mode' = "loop" /\ taken # <<>> /\ UNCHANGED << batch, pool, size, calls >>
          /\ at' = l + 1 /\ taken' = SubSeq(taken, 1, n - 1)
        BY <1>8 DEF Backtrack, Last, Front
    <2>2. /\ taken \in Seq(Places) /\ n \in Nat \ {0} /\ DOMAIN taken = 1..n
          /\ \A i \in 1..n : taken[i] \in Nat
          /\ \A i \in 1..(n - 1) : taken[i] < l /\ i \in 1..n
        <3>1. taken \in Seq(Places) /\ taken # <<>>
            BY <2>1 DEF WalkInv
        <3>2. n \in Nat \ {0} /\ DOMAIN taken = 1..n /\ \A i \in 1..n : taken[i] \in Places
            BY <3>1
        <3>3. \A i \in 1..(n - 1) : taken[i] < l /\ i \in 1..n
            BY <3>2 DEF WalkInv
        <3>4. QED BY <1>1, <3>1, <3>2, <3>3
    <2>3. Taken' = Taken \ {l} /\ l \in Taken /\ \A i \in Taken : i <= l
        <3>1. DOMAIN taken' = 1..(n - 1) /\ \A i \in 1..(n - 1) : taken'[i] = taken[i]
            BY <2>1, <2>2
        <3>2. 1..n = (1..(n - 1)) \cup {n} /\ n \in 1..n
            BY <2>2
        <3>3. Taken' = { taken[i] : i \in 1..(n - 1) } /\ Taken = { taken[i] : i \in 1..n }
            BY <2>2, <3>1 DEF Taken, ToSet
        <3>4. Taken = { taken[i] : i \in 1..(n - 1) } \cup {l}
            BY <3>2, <3>3
        <3>5. l \in Nat /\ \A i \in 1..(n - 1) : taken[i] # l /\ taken[i] <= l
            <4>1. l \in Nat /\ \A i \in 1..(n - 1) : taken[i] \in Nat /\ taken[i] < l
                BY <2>2, <3>2
            <4> HIDE DEF l
            <4>2. QED BY <4>1
        <3> HIDE DEF l, n
        <3>6. l <= l
            BY <3>5
        <3>7. QED BY <3>3, <3>4, <3>5, <3>6
    <2> HIDE DEF l, n
    <2>4. l \in Nat /\ Taken \in SUBSET (1..l)
        BY <1>1, <2>3
    <2>5. ASSUME NEW i \in Taken' PROVE Completable(Taken' \cap (1..(i - 1)), size, i)
        <3>1. i \in Taken /\ i \in Nat /\ l \notin 1..(i - 1)
            BY <1>1, <2>3, <2>4, <2>5
        <3>2. Taken' \cap (1..(i - 1)) = Taken \cap (1..(i - 1))
            BY <2>3, <3>1
        <3>3. QED BY <1>1, <3>1, <3>2
    <2>6. Completable(Taken', size, at')
        <3>1. Taken' = Taken \cap (1..(l - 1))
            <4>1. \A i \in Taken : i \in 1..(l - 1) <=> i # l
                BY <2>4
            <4>2. QED BY <2>3, <4>1
        <3>2. QED BY <1>1, <2>1, <2>3, <2>4, <3>1, CompletableLater
    <2>7. ASSUME NEW T \in SUBSET Places, Met(T, Taken, at, mode # "call")
          PROVE  Met(T, Taken', at', mode' # "call")
        <3>1. T \in SUBSET Nat /\ Taken \in SUBSET Nat /\ at \in Nat /\ 0 \notin Taken
            BY <1>1
        <3>2. Met(T, Taken, at, TRUE)
            BY <2>1, <2>7 DEF Met
        <3>3. Met(T, Taken \ {l}, l + 1, TRUE)
            BY <2>3, <3>1, <3>2, MetBacktrack
        <3>4. QED BY <2>1, <2>3, <3>3 DEF Met
    <2>8. QED BY <2>1, <2>5, <2>6, <2>7, QuietStep
<1>9. CASE NextSize
    BY <1>9, NextSizeWork
<1>10. CASE UNCHANGED vars
    <2>1. UNCHANGED << batch, pool, size, calls, at, mode >> /\ Taken' = Taken
        BY <1>10 DEF vars, Taken, ToSet
    <2>2. mode' = "loop" => Completable(Taken', size, at')
        BY <2>1 DEF WorkInv
    <2>3. \A T \in SUBSET Places : Met(T, Taken, at, mode # "call") => Met(T, Taken', at', mode' # "call")
        BY <2>1 DEF Met
    <2>4. QED BY <1>1, <2>1, <2>2, <2>3, QuietStep
<1>11. QED
    BY <1>2, <1>3, <1>4, <1>5, <1>6, <1>7, <1>8, <1>9, <1>10 DEF Next

\* The positions of the j-th selection yielded; for 0, those taken now.
PlacesOf(j) == IF j = 0 THEN Taken ELSE { i \in Places : pool[i] \in yielded[j] \ Required }

\* Two positions, the second after the first.
Ascents == { p \in (0..Len(pool)) \X (0..Len(pool)) : p[1] < p[2] }

\* The caller of a call holds the first positions of a selection yielded, or is
\* still active.
LEMMA CallerIsKnown ==
    ASSUME WalkInv, YieldInv, NEW call \in Accounted, call[2] # {}
    PROVE  \E j \in 0..Len(yielded), a \in Ascents :
               call[2] = (PlacesOf(j) \cap (1..a[1])) \cup {a[2]}
<1> DEFINE r == call[1]
           T == call[2]
<1>1. /\ r \in MinCardinality..size /\ T \in SUBSET Places /\ T # {} /\ Tried(T, r)
      /\ r = size => Met(T, Taken, at, mode # "call")
    BY DEF Accounted
<1> HIDE DEF r, T
<1>2. /\ Taken \in SUBSET Places /\ Taken \in SUBSET (1..(at - 1)) /\ at \in Nat \ {0} /\ Len(pool) \in Nat
      /\ Places \in SUBSET Nat /\ Places \in SUBSET (1..Len(pool)) /\ size \in Nat /\ PoolInv
      /\ yielded \in Seq(Selection) /\ Len(yielded) \in Nat
    BY TakenFacts DEF Places, WalkInv, YieldInv
<1>3. PICK i \in T : T \subseteq 1..i /\ Completable(T \cap (1..(i - 1)), r, i)
    BY <1>1 DEF Tried
<1> DEFINE P == T \cap (1..(i - 1))
<1>4. PICK V \in Fitting, m \in 0..(i - 1) : Cardinality(V) <= r /\ P = V \cap (1..m)
    BY <1>3 DEF Completable
<1>5. /\ i \in Nat /\ 1 <= i /\ i <= Len(pool) /\ m \in Nat /\ m < i /\ V \in SUBSET Places /\ r \in Int /\ r <= size
      /\ Cardinality(V) \in Nat
    <2>1. i \in 1..Len(pool) /\ V \in SUBSET Places /\ r \in Int /\ r <= size
        BY <1>1, <1>2 DEF Fitting
    <2>2. Cardinality(V) \in Nat
        BY <1>2, <2>1, AtFacts
    <2>3. QED BY <1>2, <2>1, <2>2
<1>6. T = P \cup {i}
    <2>1. \A x \in T : x = i \/ x \in 1..(i - 1)
        BY <1>1, <1>2, <1>3, <1>5
    <2>2. QED BY <2>1
<1>7. ASSUME NEW j \in 0..Len(yielded), NEW k \in 0..(i - 1), P = PlacesOf(j) \cap (1..k)
      PROVE  \E l \in 0..Len(yielded), a \in Ascents : T = (PlacesOf(l) \cap (1..a[1])) \cup {a[2]}
    <2> DEFINE a == << k, i >>
    <2>1. a \in Ascents /\ a[1] = k /\ a[2] = i
        BY <1>2, <1>5 DEF Ascents
    <2> HIDE DEF a, P
    <2>2. T = (PlacesOf(j) \cap (1..a[1])) \cup {a[2]}
        BY <1>6, <1>7, <2>1
    <2>3. QED BY <2>1, <2>2
<1>8. CASE ~ Open(V)
    <2>1. SelectionAt(V) \in ToSet(yielded)
        BY <1>8 DEF YieldInv
    <2>2. PICK j \in 1..Len(yielded) : yielded[j] = SelectionAt(V)
        BY <1>2, <2>1 DEF ToSet
    <2>3. PlacesOf(j) = V
        <3>1. Optional \cap Required = {} /\ At(V) \in SUBSET Optional
            <4>1. At(V) \in SUBSET Optional
                BY <1>2, <1>5, AtFacts
            <4>2. Optional \cap Required = {}
                BY DEF Optional, Required
            <4>3. QED BY <4>1, <4>2
        <3>2. SelectionAt(V) \ Required = At(V)
            BY <3>1 DEF SelectionAt
        <3>3. \A x \in Places : pool[x] \in At(V) <=> x \in V
            BY <1>2, <1>5, AtFacts
        <3>4. j # 0
            BY <1>2, <2>2
        <3>5. QED BY <1>5, <2>2, <3>2, <3>3, <3>4 DEF PlacesOf
    <2>4. j \in 0..Len(yielded)
        BY <1>2, <2>2
    <2>5. QED BY <1>4, <1>7, <2>3, <2>4 DEF T
<1>9. CASE Open(V)
    <2>1. /\ Cardinality(V) = size /\ r = size
          /\ V \cap (1..(at - 1)) = Taken \/ Later(Taken, V, at)
        <3>1. Cardinality(V) = size
            BY <1>2, <1>4, <1>5, <1>9 DEF Open
        <3>2. r = size
            BY <1>2, <1>4, <1>5, <3>1
        <3>3. QED BY <1>2, <1>9, <3>1, <3>2 DEF Open, Rest
    <2>2. CASE T \cap (1..(i - 1)) = Taken \cap (1..(i - 1))
        <3>1. 0 \in 0..Len(yielded) /\ i - 1 \in 0..(i - 1) /\ PlacesOf(0) = Taken
            BY <1>2, <1>5 DEF PlacesOf
        <3>2. QED BY <1>7, <2>2, <3>1 DEF T
    <2>3. CASE \E j \in Nat : T = Taken \cap (1..j)
        <3>1. PICK j \in Nat : T = Taken \cap (1..j)
            BY <2>3
        <3>2. \A x \in 1..(i - 1) : x \in 1..j
            BY <1>5, <3>1
        <3>3. T \cap (1..(i - 1)) = Taken \cap (1..(i - 1))
            BY <3>1, <3>2
        <3>4. QED BY <2>2, <3>3
    <2>4. CASE T = Taken
        BY <2>2, <2>4
    <2>5. CASE \E a \in T \ Taken : a < at /\ T \cap (1..(a - 1)) = Taken \cap (1..(a - 1))
        <3>1. PICK a \in T \ Taken : a < at /\ T \cap (1..(a - 1)) = Taken \cap (1..(a - 1))
            BY <2>5
        <3>2. CASE a = i
            BY <2>2, <3>1, <3>2
        <3>3. CASE a # i
            <4>1. a \in P /\ a \in V /\ a \in 1..m /\ a \in Nat /\ a \in 1..(at - 1)
                BY <1>1, <1>2, <1>4, <1>6, <3>1, <3>3
            <4>2. a <= i - 1 /\ a <= m
                BY <1>5, <4>1
            <4>3. \A x \in 1..(a - 1) : x \in 1..(i - 1) /\ x \in 1..m /\ x < a
                BY <1>5, <4>1, <4>2
            <4>4. V \cap (1..(a - 1)) = Taken \cap (1..(a - 1))
                BY <1>4, <3>1, <4>3
            <4>5. V \cap (1..(at - 1)) # Taken
                BY <3>1, <4>1
            <4>6. PICK x \in Taken \ (V \cap (1..(at - 1))) : \A b \in (V \cap (1..(at - 1))) \ Taken : x < b
                BY <2>1, <4>5 DEF Later, Earlier
            <4>7. x < a /\ x \in Taken /\ x \notin V
                BY <1>2, <3>1, <4>1, <4>6
            <4>8. x \in 1..(a - 1)
                BY <1>2, <4>1, <4>7
            <4>9. QED BY <4>4, <4>7, <4>8
        <3>4. QED BY <3>2, <3>3
    <2>6. QED BY <1>1, <2>1, <2>3, <2>4, <2>5 DEF Met
<1>10. QED BY <1>8, <1>9 DEF T

\* Every two positions, in one order.
LEMMA AscentsCount ==
    ASSUME NEW n \in Nat
    PROVE  LET up == { p \in (0..n) \X (0..n) : p[1] < p[2] }
           IN  IsFiniteSet(up) /\ Cardinality(up) \in Nat /\ 2 * Cardinality(up) = n * (n + 1)
<1> DEFINE all  == (0..n) \X (0..n)
           up   == { p \in all : p[1] < p[2] }
           down == { p \in all : p[2] < p[1] }
           even == { p \in all : p[1] = p[2] }
<1>1. IsFiniteSet(0..n) /\ Cardinality(0..n) = n + 1
    <2>1. 0 \in Int /\ n \in Int
        OBVIOUS
    <2>2. IsFiniteSet(0..n) /\ Cardinality(0..n) = IF 0 > n THEN 0 ELSE n - 0 + 1
        BY <2>1, FS_Interval, Zenon
    <2>3. QED BY <2>2
<1>2. IsFiniteSet(all) /\ Cardinality(all) = (n + 1) * (n + 1)
    BY <1>1, FS_Product
<1>3. up \in SUBSET all /\ down \in SUBSET all /\ even \in SUBSET all
    OBVIOUS
<1>4. all = (up \cup down) \cup even /\ up \cap down = {} /\ (up \cup down) \cap even = {}
    OBVIOUS
<1>5. Cardinality(even) = n + 1
    <2> DEFINE f == [x \in 0..n |-> << x, x >>]
    <2>1. f \in [0..n -> even]
        OBVIOUS
    <2>2. \A x, y \in 0..n : f[x] = f[y] => x = y
        OBVIOUS
    <2>3. \A p \in even : \E x \in 0..n : f[x] = p
        <3> SUFFICES ASSUME NEW p \in even PROVE \E x \in 0..n : f[x] = p
            OBVIOUS
        <3>1. p[1] \in 0..n /\ p = << p[1], p[1] >>
            OBVIOUS
        <3>2. QED BY <3>1
    <2> HIDE DEF f, even
    <2>4. f \in Injection(0..n, even) /\ f \in Surjection(0..n, even)
        BY <2>1, <2>2, <2>3, Fun_IsInj, Fun_IsSurj
    <2>5. Cardinality(even) = Cardinality(0..n)
        BY <1>1, <2>4, FS_Surjection
    <2>6. QED BY <1>1, <2>5
<1>6. Cardinality(up) = Cardinality(down)
    <2> DEFINE f == [p \in up |-> << p[2], p[1] >>]
    <2>1. f \in [up -> down]
        OBVIOUS
    <2>2. \A p, q \in up : f[p] = f[q] => p = q
        <3> SUFFICES ASSUME NEW p \in up, NEW q \in up, f[p] = f[q] PROVE p = q
            OBVIOUS
        <3>1. p[1] = q[1] /\ p[2] = q[2]
            OBVIOUS
        <3>2. p = << p[1], p[2] >> /\ q = << q[1], q[2] >>
            OBVIOUS
        <3>3. QED BY <3>1, <3>2
    <2>3. \A q \in down : \E p \in up : f[p] = q
        <3> SUFFICES ASSUME NEW q \in down PROVE \E p \in up : f[p] = q
            OBVIOUS
        <3>1. << q[2], q[1] >> \in up /\ f[<< q[2], q[1] >>] = q
            OBVIOUS
        <3>2. QED BY <3>1
    <2>4. IsFiniteSet(up)
        <3> HIDE DEF up, all
        <3>1. QED BY <1>2, <1>3, FS_Subset
    <2> HIDE DEF f, up, down
    <2>5. f \in Injection(up, down) /\ f \in Surjection(up, down)
        BY <2>1, <2>2, <2>3, Fun_IsInj, Fun_IsSurj
    <2>6. QED BY <2>4, <2>5, FS_Surjection
<1> HIDE DEF all, up, down, even
<1>7. /\ IsFiniteSet(up) /\ IsFiniteSet(down) /\ IsFiniteSet(even) /\ IsFiniteSet(up \cup down)
      /\ Cardinality(up) \in Nat
    BY <1>2, <1>3, FS_Subset, FS_Union, FS_CardinalityType
<1>8. Cardinality(all) = Cardinality(up) + Cardinality(down) + Cardinality(even)
    <2>1. Cardinality(up \cup down) = Cardinality(up) + Cardinality(down)
        BY <1>4, <1>7, DisjointCount
    <2>2. Cardinality(all) = Cardinality(up \cup down) + Cardinality(even)
        BY <1>4, <1>7, DisjointCount
    <2>3. QED BY <2>1, <2>2
<1>9. (n + 1) * (n + 1) = n * (n + 1) + (n + 1)
    OBVIOUS
<1>10. 2 * Cardinality(up) = n * (n + 1)
    <2> DEFINE s == (n + 1) * (n + 1)
               t == n * (n + 1)
    <2>1. s \in Nat /\ t \in Nat /\ s = t + (n + 1)
        BY <1>9
    <2>2. s = Cardinality(up) + Cardinality(up) + (n + 1)
        BY <1>2, <1>5, <1>6, <1>8
    <2> HIDE DEF s, t
    <2>3. 2 * Cardinality(up) = t
        BY <1>7, <2>1, <2>2
    <2>4. QED BY <2>3 DEF t
<1>11. QED BY <1>7, <1>10 DEF up, all

\* In each size at most one call, and one for each two positions and each
\* selection yielded or in the making.
LEMMA AccountedBound ==
    ASSUME WalkInv, YieldInv, WorkInv
    PROVE  WorkFollowsYield
<1> DEFINE sizes == MinCardinality..size
           begun == size - MinCardinality + 1
           n     == Len(pool)
           y     == Len(yielded)
           t     == Cardinality(Ascents)
           codes == sizes \X ((0..y) \X Ascents)
           f     == [x \in codes |-> << x[1], (PlacesOf(x[2][1]) \cap (1..x[2][2][1])) \cup {x[2][2][2]} >>]
           image == { f[x] : x \in codes }
           g     == [r \in sizes |-> << r, {} >>]
           roots == { g[r] : r \in sizes }
<1>1. /\ MinCardinality \in Nat /\ size \in Nat /\ MinCardinality <= size /\ begun \in Nat /\ n \in Nat /\ y \in Nat
      /\ calls \in Nat /\ calls <= Cardinality(Accounted) /\ PoolInv
    BY DEF WorkInv, WalkInv, PoolInv, YieldInv
<1>2. IsFiniteSet(sizes) /\ Cardinality(sizes) = begun
    <2>1. MinCardinality \in Int /\ size \in Int
        BY <1>1
    <2>2. IsFiniteSet(sizes) /\ Cardinality(sizes) = IF MinCardinality > size THEN 0 ELSE size - MinCardinality + 1
        BY <2>1, FS_Interval, Zenon
    <2>3. QED BY <1>1, <2>2
<1>3. IsFiniteSet(0..y) /\ Cardinality(0..y) = y + 1
    <2>1. 0 \in Int /\ y \in Int
        BY <1>1
    <2> HIDE DEF y
    <2>2. IsFiniteSet(0..y) /\ Cardinality(0..y) = IF 0 > y THEN 0 ELSE y - 0 + 1
        BY <2>1, FS_Interval, Zenon
    <2>3. QED BY <1>1, <2>2
<1>4. IsFiniteSet(Ascents) /\ t \in Nat /\ 2 * t = n * (n + 1)
    BY <1>1, AscentsCount DEF Ascents
<1>5. IsFiniteSet(codes) /\ Cardinality(codes) = begun * ((y + 1) * t)
    <2>1. IsFiniteSet((0..y) \X Ascents) /\ Cardinality((0..y) \X Ascents) = (y + 1) * t
        BY <1>3, <1>4, FS_Product
    <2> HIDE DEF sizes, begun
    <2>2. QED BY <1>2, <2>1, FS_Product
<1>6. IsFiniteSet(image) /\ Cardinality(image) <= Cardinality(codes)
    <2>1. f \in [codes -> image] /\ \A z \in image : \E x \in codes : f[x] = z
        <3>1. DOMAIN f = codes /\ f = [x \in DOMAIN f |-> f[x]]
            OBVIOUS
        <3> HIDE DEF f, codes
        <3>2. QED BY <3>1
    <2> HIDE DEF f, codes, image
    <2>2. f \in Surjection(codes, image)
        BY <2>1, Fun_IsSurj
    <2>3. QED BY <1>5, <2>2, FS_Surjection
<1>7. IsFiniteSet(roots) /\ Cardinality(roots) <= begun
    <2>1. g \in [sizes -> roots] /\ \A z \in roots : \E x \in sizes : g[x] = z
        <3>1. DOMAIN g = sizes /\ g = [x \in DOMAIN g |-> g[x]]
            OBVIOUS
        <3> HIDE DEF g, sizes
        <3>2. QED BY <3>1
    <2> HIDE DEF g, sizes, roots, begun
    <2>2. g \in Surjection(sizes, roots)
        BY <2>1, Fun_IsSurj
    <2>3. QED BY <1>2, <2>2, FS_Surjection
<1>8. Accounted \in SUBSET (roots \cup image)
    <2> SUFFICES ASSUME NEW call \in Accounted PROVE call \in roots \cup image
        OBVIOUS
    <2>1. call[1] \in sizes /\ call = << call[1], call[2] >>
        BY DEF Accounted
    <2>2. CASE call[2] = {}
        <3>1. call = g[call[1]]
            BY <2>1, <2>2
        <3>2. QED BY <2>1, <3>1
    <2>3. CASE call[2] # {}
        <3>1. PICK j \in 0..y, a \in Ascents : call[2] = (PlacesOf(j) \cap (1..a[1])) \cup {a[2]}
            BY <2>3, CallerIsKnown
        <3> DEFINE x == << call[1], << j, a >> >>
        <3>2. x \in codes /\ x[1] = call[1] /\ x[2][1] = j /\ x[2][2] = a
            BY <2>1, <3>1
        <3> HIDE DEF x
        <3>3. f[x] = << x[1], (PlacesOf(x[2][1]) \cap (1..x[2][2][1])) \cup {x[2][2][2]} >>
            BY <3>2
        <3>4. f[x] = << call[1], call[2] >>
            BY <3>1, <3>2, <3>3
        <3>5. QED BY <2>1, <3>2, <3>4
    <2>4. QED BY <2>2, <2>3
<1> HIDE DEF image, roots, codes, f, g, sizes, begun, t, n, y
<1>9. Cardinality(Accounted) <= begun + begun * ((y + 1) * t)
    <2>1. /\ IsFiniteSet(roots \cup image)
          /\ Cardinality(roots \cup image) = Cardinality(roots) + Cardinality(image) - Cardinality(roots \cap image)
        BY <1>6, <1>7, FS_Union
    <2>2. IsFiniteSet(roots \cap image)
        <3>1. roots \cap image \in SUBSET roots
            OBVIOUS
        <3>2. QED BY <1>7, <3>1, FS_Subset
    <2>3. /\ Cardinality(roots \cap image) \in Nat /\ Cardinality(roots) \in Nat /\ Cardinality(image) \in Nat
          /\ Cardinality(Accounted) \in Nat /\ Cardinality(Accounted) <= Cardinality(roots \cup image)
        BY <1>6, <1>7, <1>8, <2>1, <2>2, FS_Subset, FS_CardinalityType
    <2>4. Cardinality(Accounted) <= begun + Cardinality(codes)
        <3>1. Cardinality(codes) \in Nat
            BY <1>5, FS_CardinalityType
        <3>2. QED BY <1>1, <1>6, <1>7, <2>1, <2>3, <3>1
    <2>5. QED BY <1>5, <2>4
<1>10. 2 * (begun + begun * ((y + 1) * t)) = begun * ((n * (n + 1)) * (y + 1) + 2)
    <2> DEFINE e == y + 1
               q == n * (n + 1)
    <2>1. begun \in Int /\ e \in Int /\ t \in Int /\ q \in Int /\ q = 2 * t
        BY <1>1, <1>4
    <2> HIDE DEF e, q
    <2>2. q * e = 2 * (e * t)
        BY <2>1
    <2>3. begun * (q * e + 2) = 2 * (begun + begun * (e * t))
        <3> DEFINE h == e * t
        <3>1. h \in Int
            BY <2>1
        <3> HIDE DEF h
        <3>2. begun * (2 * h + 2) = 2 * (begun + begun * h)
            BY <2>1, <3>1
        <3>3. QED BY <2>2, <3>2 DEF h
    <2>4. QED BY <2>3 DEF e, q
<1>11. 2 * calls <= begun * ((n * (n + 1)) * (y + 1) + 2)
    <2> DEFINE b == begun + begun * ((y + 1) * t)
    <2>1. b \in Int /\ calls \in Int /\ calls <= Cardinality(Accounted) /\ Cardinality(Accounted) <= b
          /\ Cardinality(Accounted) \in Int
        <3>1. (y + 1) * t \in Int
            BY <1>1, <1>4
        <3>2. begun * ((y + 1) * t) \in Int
            BY <1>1, <3>1
        <3>3. Cardinality(Accounted) \in Nat
            BY <1>6, <1>7, <1>8, FS_Union, FS_Subset, FS_CardinalityType
        <3>4. QED BY <1>1, <1>9, <3>2, <3>3
    <2> HIDE DEF b
    <2>2. 2 * calls <= 2 * b
        BY <2>1
    <2>3. QED BY <1>10, <2>2 DEF b
<1>12. QED BY <1>11 DEF WorkFollowsYield, begun, n, y

\* The bound on visited selections bounds the work of the walk (WorkFollowsYield):
\* whatever the batch, the branches that yield nothing are at most quadratically
\* many in the pool for each size begun and each selection already yielded.
THEOREM WorkFollowsYieldHolds == Spec => []WorkFollowsYield
<1>1. Init => WorkInv
    BY WorkInit
<1>2. WalkInv /\ WalkInv' /\ WorkInv /\ [Next]_vars => WorkInv'
    BY WorkStep
<1>3. WalkInv /\ YieldInv /\ WorkInv => WorkFollowsYield
    BY AccountedBound
<1>4. QED BY <1>1, <1>2, <1>3, WalkIsExact, PTL DEF Spec

-----------------------------------------------------------------------------
(* The contract.                                                           *)

\* The contract speaks of the same selections and the same order.
LEMMA EnumerationTerms ==
    /\ Enumeration!RescueSelections = RescueSelections
    /\ \A S, T : Enumeration!RescueBefore(S, T) <=> RescueBefore(S, T)
<1>1. \A S, c : Enumeration!CountIn(S, c) = CountIn(S, c)
    BY DEF Enumeration!CountIn, Enumeration!InCategory, Enumeration!Cardinality, CountIn, InCategory, Cardinality
<1>2. Enumeration!RescueSelections = RescueSelections
    BY <1>1 DEF Enumeration!RescueSelections, RescueSelections, Enumeration!Selection, Selection,
           Enumeration!PolicyValid, PolicyValid, Enumeration!Required, Required,
           Enumeration!MeetsMaximums, MeetsMaximums, Enumeration!MeetsMinimums, MeetsMinimums
<1>3. \A a, b : Enumeration!RescueEarlier(a, b) <=> RescueEarlier(a, b)
    BY DEF Enumeration!RescueEarlier, RescueEarlier, Enumeration!NoCategory, NoCategory
<1>4. \A S, T : Enumeration!RescueBefore(S, T) <=> RescueBefore(S, T)
    BY <1>3 DEF Enumeration!RescueBefore, RescueBefore, Enumeration!Lexicographic, Lexicographic,
           Enumeration!Cardinality, Cardinality
<1>5. QED BY <1>2, <1>4

\* What the contract calls pending is what the walk has still to yield.
LEMMA PendingIsOpen ==
    ASSUME WalkInv, YieldInv
    PROVE  RescueSelections \ ToSet(yielded) = { SelectionAt(T) : T \in { T \in Fitting : Open(T) } }
<1> DEFINE open == { T \in Fitting : Open(T) }
           closed == { T \in Fitting : ~ Open(T) }
<1>1. ToSet(yielded) = { SelectionAt(T) : T \in closed }
    BY DEF YieldInv
<1>2. RescueSelections = { SelectionAt(T) : T \in Fitting }
    <2>1. \A T \in Fitting : SelectionAt(T) \in RescueSelections
        BY FittingIsValid DEF WalkInv, Fitting
    <2>2. \A S \in RescueSelections : \E T \in Fitting : S = SelectionAt(T)
        BY FittingIsValid DEF WalkInv
    <2>3. QED BY <2>1, <2>2
<1>3. \A T, V \in Fitting : SelectionAt(T) = SelectionAt(V) => T = V
    BY FittingIsValid DEF WalkInv, Fitting
<1>4. Fitting = open \cup closed /\ open \cap closed = {} /\ open \subseteq Fitting /\ closed \subseteq Fitting
    OBVIOUS
<1> HIDE DEF open, closed
<1>5. ASSUME NEW T \in open PROVE SelectionAt(T) \notin ToSet(yielded)
    BY <1>1, <1>3, <1>4
<1>6. ASSUME NEW S \in RescueSelections \ ToSet(yielded) PROVE S \in { SelectionAt(T) : T \in open }
    BY <1>1, <1>2, <1>4
<1>7. RescueSelections \ ToSet(yielded) = { SelectionAt(T) : T \in open }
    BY <1>2, <1>4, <1>5, <1>6
<1>8. QED BY <1>7 DEF open

\* A subset completed with its minimums met is the first of those pending.
LEMMA CompleteIsFirst ==
    ASSUME WalkInv, YieldInv, CompleteSubset, Taken \in Fitting
    PROVE  IsFirst(SelectionAt(Taken), RescueSelections \ ToSet(yielded), RescueBefore)
<1> DEFINE pending == RescueSelections \ ToSet(yielded)
<1>1. pending = { SelectionAt(T) : T \in { T \in Fitting : Open(T) } }
    BY PendingIsOpen
<1>2. SelectionAt(Taken) \in pending
    BY <1>1, CompleteDecides
<1>3. ASSUME NEW S \in pending \ {SelectionAt(Taken)} PROVE RescueBefore(SelectionAt(Taken), S)
    <2>1. PICK T \in Fitting : Open(T) /\ S = SelectionAt(T)
        BY <1>1, <1>3
    <2>2. T # Taken /\ T \in SUBSET Places /\ Taken \in SUBSET Places /\ PoolInv
        BY <1>3, <2>1, TakenFacts DEF Fitting, WalkInv
    <2>3. Cardinality(Taken) = size /\ size \in Nat /\ Cardinality(T) \in Nat
        BY <2>2, CompleteDecides, AtFacts DEF WalkInv
    <2>4. CASE Cardinality(T) > size
        BY <2>1, <2>2, <2>3, <2>4, OrderOfPlaces
    <2>5. CASE Cardinality(T) = size
        <3>1. Rest(Taken, T, at)
            <4>1. mode = "call"
                BY DEF CompleteSubset
            <4>2. QED BY <2>1, <2>3, <2>5, <4>1 DEF Open
        <3>2. T \cap (1..(at - 1)) # Taken
            <4>1. Cardinality(T) = Len(taken)
                BY <2>3, <2>5, TakenFacts
            <4>2. QED BY <2>2, <4>1, CompleteIsTaken
        <3>3. Earlier(Taken, T \cap (1..(at - 1)))
            BY <3>1, <3>2 DEF Rest, Later
        <3>4. PICK a \in Taken \ (T \cap (1..(at - 1))) : \A b \in (T \cap (1..(at - 1))) \ Taken : a < b
            BY <3>3 DEF Earlier
        <3>5. a \in Taken \ T /\ a \in 1..(at - 1)
            BY <3>4, TakenFacts
        <3>6. \A b \in T \ Taken : a < b
            <4> SUFFICES ASSUME NEW b \in T \ Taken PROVE a < b
                OBVIOUS
            <4>1. CASE b \in 1..(at - 1)
                BY <3>4, <4>1
            <4>2. CASE b \notin 1..(at - 1)
                <5>1. b \in Places /\ at \in Nat
                    BY <2>2, TakenFacts
                <5>2. QED BY <3>5, <4>2, <5>1 DEF Places
            <4>3. QED BY <4>1, <4>2
        <3>7. Earlier(Taken, T)
            BY <3>5, <3>6 DEF Earlier
        <3>8. QED BY <2>1, <2>2, <2>3, <2>5, <3>7, OrderOfPlaces
    <2>6. QED BY <2>1, <2>3, <2>4, <2>5 DEF Open
<1>4. QED BY <1>2, <1>3 DEF IsFirst

Finished == mode = "done"

\* One step of the walk is one step of the contract, or none.
LEMMA WalkContractStep ==
    ASSUME WalkInv, YieldInv, [Next]_vars
    PROVE  [\/ Enumeration!Finish(Enumeration!RescueSelections)
            \/ \E S \in Enumeration!Pending(Enumeration!RescueSelections) :
                  Enumeration!Yield(S, Enumeration!RescueSelections, Enumeration!RescueBefore)
           ]_<<batch, yielded, Finished>>
<1>1. CASE UNCHANGED << batch, yielded, mode >>
    BY <1>1 DEF Finished
<1>2. CASE UNCHANGED << batch, yielded >> /\ mode # "done" /\ mode' # "done"
    BY <1>2 DEF Finished
<1>3. CASE CompleteSubset
    <2>1. mode = "call" /\ mode' = "return" /\ batch' = batch
        BY <1>3 DEF CompleteSubset
    <2>2. CASE yielded' = yielded
        BY <1>2, <2>1, <2>2
    <2>3. CASE yielded' # yielded
        <3>1. Taken \in Fitting /\ yielded' = Append(yielded, SelectionAt(Taken))
            BY <1>3, <2>3, CompleteDecides, ChosenIsTaken DEF CompleteSubset
        <3>2. IsFirst(SelectionAt(Taken), RescueSelections \ ToSet(yielded), RescueBefore)
            BY <1>3, <3>1, CompleteIsFirst
        <3>3. SelectionAt(Taken) \in Enumeration!Pending(Enumeration!RescueSelections)
            BY <3>2, EnumerationTerms DEF IsFirst, Enumeration!Pending, Enumeration!ToSet, ToSet
        <3>4. Enumeration!Yield(SelectionAt(Taken), Enumeration!RescueSelections, Enumeration!RescueBefore)
            BY <2>1, <3>1, <3>2, EnumerationTerms
               DEF IsFirst, Enumeration!IsFirst, Enumeration!Pending, Enumeration!ToSet, ToSet,
                   Enumeration!Yield, Finished
        <3>5. QED BY <3>3, <3>4
    <2>4. QED BY <2>2, <2>3
<1>4. CASE NextSize
    <2>1. mode = "return" /\ UNCHANGED << batch, yielded >>
        BY <1>4 DEF NextSize
    <2>2. CASE mode' # "done"
        BY <1>2, <2>1, <2>2
    <2>3. CASE mode' = "done"
        <3>1. \A T \in Fitting : ~ Open(T)
            BY <1>4, <2>3, NextSizeStep
        <3>2. RescueSelections \ ToSet(yielded) = {}
            BY <3>1, PendingIsOpen
        <3>3. Enumeration!Finish(Enumeration!RescueSelections)
            BY <2>1, <2>3, <3>2, EnumerationTerms
               DEF Enumeration!Finish, Enumeration!Pending, Enumeration!ToSet, ToSet, Finished
        <3>4. QED BY <3>3
    <2>4. QED BY <2>2, <2>3
<1>5. CASE Prune \/ BeginLoop \/ SkipFull \/ Take \/ EndLoop \/ Backtrack
    BY <1>2, <1>5 DEF Prune, BeginLoop, SkipFull, Take, EndLoop, Backtrack
<1>6. CASE UNCHANGED vars
    BY <1>1, <1>6 DEF vars
<1>7. QED BY <1>3, <1>4, <1>5, <1>6 DEF Next

\* policyValidOptionalSelections yields every policy-valid selection exactly
\* once, nothing else, by size and then in the order of the pool, and only then
\* ends: its three prunes lose none and its skipping of full categories repeats
\* none.
THEOREM RescueWalkIsComplete == Spec => ImplementsRescueOrder
<1>1. Init => Enumeration!Start(Enumeration!RescueSelections)
    <2> SUFFICES ASSUME Init PROVE Enumeration!Start(Enumeration!RescueSelections)
        OBVIOUS
    <2>1. WalkInv /\ YieldInv /\ yielded = <<>> /\ batch \in Batches /\ mode \in {"call", "done"}
        BY WalkInit DEF Init
    <2>2. ToSet(yielded) = {}
        BY <2>1 DEF ToSet
    <2>3. mode = "done" => RescueSelections = {}
        BY <2>1, <2>2, PendingIsOpen DEF Open
    <2>4. QED BY <2>1, <2>3, EnumerationTerms DEF Enumeration!Start
<1>2. WalkInv /\ YieldInv /\ [Next]_vars =>
        [\/ Enumeration!Finish(Enumeration!RescueSelections)
         \/ \E S \in Enumeration!Pending(Enumeration!RescueSelections) :
               Enumeration!Yield(S, Enumeration!RescueSelections, Enumeration!RescueBefore)
        ]_<<batch, yielded, Finished>>
    BY WalkContractStep
<1>3. QED
    BY <1>1, <1>2, WalkIsExact, PTL DEF Spec, ImplementsRescueOrder, Enumeration!RescueInOrder, Finished

-----------------------------------------------------------------------------
(* Combinations.  A combination of k out of n is a set of k numbers of 1..n. *)

\* The first one is 1..k: every other is after it.
LEMMA FirstCombination ==
    ASSUME NEW n \in Nat, NEW k \in Nat, NEW B \in SUBSET (1..n), Cardinality(B) = k
    PROVE  B = 1..k \/ Earlier(1..k, B)
<1>1. IsFiniteSet(B) /\ IsFiniteSet(1..k) /\ Cardinality(1..k) = k
    <2>1. IsFiniteSet(1..n)
        BY FS_Interval
    <2>2. IsFiniteSet(B)
        BY <2>1, FS_Subset
    <2>3. IsFiniteSet(1..k) /\ Cardinality(1..k) = k
        BY FS_Interval
    <2>4. QED BY <2>2, <2>3
<1>2. SUFFICES ASSUME B # 1..k PROVE Earlier(1..k, B)
    OBVIOUS
<1>3. PICK a \in 1..k : a \notin B
    <2>1. SUFFICES ASSUME 1..k \subseteq B PROVE FALSE
        OBVIOUS
    <2>2. QED BY <1>1, <1>2, <2>1, FS_Subset
<1>4. \A b \in B \ (1..k) : a < b
    OBVIOUS
<1>5. QED BY <1>3, <1>4 DEF Earlier

\* The last one is the numbers from t on: none is after it.
LEMMA LastCombination ==
    ASSUME NEW n \in Nat, NEW t \in Nat, NEW A \in SUBSET (1..n), NEW B \in SUBSET (1..n),
           Cardinality(B) = Cardinality(A), \A i \in 1..n : i \in A <=> i >= t
    PROVE  ~ Earlier(A, B)
<1> SUFFICES ASSUME Earlier(A, B) PROVE FALSE
    OBVIOUS
<1>1. PICK a \in A \ B : \A b \in B \ A : a < b
    BY DEF Earlier
<1>2. B \subseteq A
    BY <1>1
<1>3. IsFiniteSet(A)
    <2>1. IsFiniteSet(1..n)
        BY FS_Interval
    <2>2. QED BY <2>1, FS_Subset
<1>4. B = A
    BY <1>2, <1>3, FS_Subset
<1>5. QED BY <1>1, <1>4

\* Of the numbers 1..n, A holds P, x and those from t on, and N holds P and the
\* block from x + 1 to y, where the numbers of P are below x and x is below t.
Adjacent(A, N, n, P, x, t, y) ==
    /\ n \in Nat /\ x \in Nat /\ t \in Nat /\ y \in Nat
    /\ P \in SUBSET (1..n) /\ A \in SUBSET (1..n) /\ N \in SUBSET (1..n)
    /\ x \in A /\ x < t /\ \A p \in P : p < x
    /\ \A i \in 1..n : i \in A <=> i \in P \/ i = x \/ i >= t
    /\ \A i \in 1..n : i \in N <=> i \in P \/ (x < i /\ i <= y)

\* Then N is the next one after A.
LEMMA NextCombination ==
    ASSUME NEW n, NEW x, NEW t, NEW y, NEW P, NEW A, NEW N, Adjacent(A, N, n, P, x, t, y),
           NEW B \in SUBSET (1..n), Cardinality(B) = Cardinality(A), Cardinality(B) = Cardinality(N)
    PROVE  Earlier(A, B) <=> B = N \/ Earlier(N, B)
<1> /\ n \in Nat /\ x \in Nat /\ t \in Nat /\ y \in Nat
    /\ P \in SUBSET (1..n) /\ A \in SUBSET (1..n) /\ N \in SUBSET (1..n)
    /\ x \in A /\ x < t /\ \A p \in P : p < x
    /\ \A i \in 1..n : i \in A <=> i \in P \/ i = x \/ i >= t
    /\ \A i \in 1..n : i \in N <=> i \in P \/ (x < i /\ i <= y)
    BY DEF Adjacent
<1>1. IsFiniteSet(A) /\ IsFiniteSet(B) /\ IsFiniteSet(N)
    <2>1. IsFiniteSet(1..n)
        BY FS_Interval
    <2>2. QED BY <2>1, FS_Subset
<1>2. x \notin P /\ x \notin N /\ x \in A /\ \A p \in P : p \in Nat /\ p < x
    OBVIOUS
<1>3. \A b \in A : b \in P \/ b = x \/ b >= t
    OBVIOUS
<1>4. \A b \in N : b \in P \/ (b > x /\ b <= y)
    OBVIOUS
<1>5. \A b \in B : b \in Nat /\ b <= n
    OBVIOUS
<1>6. ASSUME Earlier(A, B), B # N PROVE Earlier(N, B)
    <2>1. PICK a \in A \ B : \A b \in B \ A : a < b
        BY <1>6 DEF Earlier
    <2>2. a < t
        <3> SUFFICES ASSUME a >= t PROVE FALSE
            BY <2>1
        <3>1. B \subseteq A
            BY <2>1
        <3>2. B = A
            BY <1>1, <3>1, FS_Subset
        <3>3. QED BY <2>1, <3>2
    <2>3. CASE a = x
        <3>1. PICK s \in N : s \notin B
            <4>1. N \subseteq B => N = B
                BY <1>1, FS_Subset
            <4>2. QED BY <1>6, <4>1
        <3>2. \A b \in B \ N : b > y /\ b > x
            <4> SUFFICES ASSUME NEW b \in B \ N PROVE b > y /\ b > x
                OBVIOUS
            <4>1. b > x
                BY <1>2, <1>3, <1>5, <2>1, <2>3
            <4>2. QED BY <1>5, <4>1
        <3>3. \A b \in B \ N : s < b
            BY <1>2, <1>4, <1>5, <3>1, <3>2
        <3>4. QED BY <3>1, <3>3 DEF Earlier
    <2>4. CASE a \in P
        <3>1. \A b \in B \ N : a < b
            BY <1>2, <1>3, <1>5, <2>1, <2>4
        <3>2. QED BY <2>1, <2>4, <3>1 DEF Earlier
    <2>5. QED BY <1>3, <2>1, <2>2, <2>3, <2>4
<1>7. ASSUME B = N PROVE Earlier(A, B)
    BY <1>2, <1>4, <1>7 DEF Earlier
<1>8. ASSUME Earlier(N, B) PROVE Earlier(A, B)
    <2>1. PICK s \in N \ B : \A b \in B \ N : s < b
        BY <1>8 DEF Earlier
    <2>2. CASE s \in P
        <3>1. \A b \in B \ A : s < b
            BY <1>2, <1>4, <1>5, <2>1, <2>2
        <3>2. QED BY <2>1, <2>2, <3>1 DEF Earlier
    <2>3. CASE s \notin P
        <3>1. s > x /\ s \in Nat
            BY <1>4, <2>1, <2>3
        <3>2. x \notin B
            BY <1>2, <2>1, <3>1
        <3>3. \A b \in B \ A : x < b
            BY <1>2, <1>4, <1>5, <2>1, <3>1
        <3>4. QED BY <1>2, <3>2, <3>3 DEF Earlier
    <2>4. QED BY <2>2, <2>3
<1>9. QED BY <1>6, <1>7, <1>8

-----------------------------------------------------------------------------
(* The pools and the categories that still need blocks.                    *)

\* The pool of a category is its optional blocks, the preferred ones first.
LEMMA PoolFacts ==
    ASSUME batch \in Batches, NEW c \in Category
    PROVE  LET list == Pool(c)
           IN  /\ Len(list) \in Nat /\ Len(list) = CountIn(Optional, c)
               /\ list \in [1..Len(list) -> InCategory(Optional, c)]
               /\ \A i, j \in 1..Len(list) : list[i] = list[j] => i = j
               /\ \A b \in InCategory(Optional, c) : \E i \in 1..Len(list) : list[i] = b
               /\ \A i, j \in 1..Len(list) : i < j => CheaperMinimum(list[i], list[j])
<1> DEFINE R == { p \in Block \X Block : CheaperMinimum(p[1], p[2]) }
           S == InCategory(Optional, c)
           list == Pool(c)
<1>1. S \in SUBSET Block /\ IsFiniteSet(S)
    <2>1. Optional \in SUBSET Block
        BY DEF Optional
    <2>2. QED BY <2>1, CountIsNat DEF InCategory
<1>2. \A a, b, d \in Block :
         /\ ~ CheaperMinimum(a, a)
         /\ a # b => CheaperMinimum(a, b) \/ CheaperMinimum(b, a)
         /\ CheaperMinimum(a, b) /\ CheaperMinimum(b, d) => CheaperMinimum(a, d)
    BY BlockAssumption, BatchFacts DEF CheaperMinimum
<1>3. \A a, b \in Block : << a, b >> \in R <=> CheaperMinimum(a, b)
    OBVIOUS
<1> DEFINE place == [b \in S |-> Cardinality({ a \in S : << a, b >> \in R })]
<1>4. /\ place \in Bijection(S, 0..(Cardinality(S) - 1))
      /\ \A a, b \in S : << a, b >> \in R <=> place[a] < place[b]
    <2>1. /\ \A a \in S : << a, a >> \notin R
          /\ \A a, b \in S : a # b => << a, b >> \in R \/ << b, a >> \in R
          /\ \A a, b, d \in S : << a, b >> \in R /\ << b, d >> \in R => << a, d >> \in R
        BY <1>1, <1>2, <1>3
    <2> HIDE DEF R, S
    <2>2. QED BY <1>1, <2>1, PlacesCover
<1>5. list = ByPlace(S, place)
    <2>1. \A b \in S : { a \in S : CheaperMinimum(a, b) } = { a \in S : << a, b >> \in R }
        BY <1>1, <1>3
    <2>2. \A b \in S : Cardinality({ a \in S : CheaperMinimum(a, b) }) = place[b]
        BY <2>1
    <2> DEFINE by(i)     == CHOOSE b \in S : Cardinality({ a \in S : CheaperMinimum(a, b) }) = i - 1
               member(i) == CHOOSE b \in S : place[b] = i - 1
    <2>3. list = [ i \in 1..Cardinality(S) |-> by(i) ]
        BY DEF Pool, Ascending
    <2> HIDE DEF place, S, R, list
    <2>4. \A i : by(i) = member(i)
        BY <2>2
    <2> HIDE DEF by, member
    <2>5. list = [ i \in 1..Cardinality(S) |-> member(i) ]
        BY <2>3, <2>4
    <2>6. QED BY <2>5 DEF ByPlace, member
<1> HIDE DEF place, S, R, list
<1>6. /\ Len(list) \in Nat /\ Len(list) = Cardinality(S) /\ list \in [1..Len(list) -> S]
      /\ \A i, j \in 1..Len(list) : list[i] = list[j] => i = j
      /\ \A b \in S : \E i \in 1..Len(list) : list[i] = b
      /\ \A i, j \in 1..Len(list) : i < j => place[list[i]] < place[list[j]]
    BY <1>1, <1>4, <1>5, SortedMembers
<1>7. \A i, j \in 1..Len(list) : i < j => CheaperMinimum(list[i], list[j])
    BY <1>1, <1>3, <1>4, <1>6
<1>8. Len(Pool(c)) = CountIn(Optional, c)
    BY <1>6 DEF CountIn, S, list
<1>9. QED BY <1>6, <1>7, <1>8 DEF S, list

InDeficit == { c \in Category : Needed(c) > 0 }

\* The categories in deficit in their order.
LEMMA DeficitFacts ==
    ASSUME batch \in Batches
    PROVE  /\ Len(Deficits) \in Nat /\ Deficits \in [1..Len(Deficits) -> InDeficit]
           /\ \A i, j \in 1..Len(Deficits) : Deficits[i] = Deficits[j] => i = j
           /\ \A c \in InDeficit : \E i \in 1..Len(Deficits) : Deficits[i] = c
           /\ \A i, j \in 1..Len(Deficits) : i < j => Deficits[i] < Deficits[j]
<1> DEFINE R == { p \in InDeficit \X InDeficit : p[1] < p[2] }
           list == Deficits
<1>1. InDeficit \in SUBSET Nat /\ IsFiniteSet(InDeficit)
    <2>1. InDeficit \in SUBSET Category
        BY DEF InDeficit
    <2>2. QED BY <2>1, CategoryAssumption, RescueAssumption, FS_Subset
<1>2. \A a, b \in InDeficit : << a, b >> \in R <=> a < b
    OBVIOUS
<1> DEFINE place == [b \in InDeficit |-> Cardinality({ a \in InDeficit : << a, b >> \in R })]
<1>3. /\ place \in Bijection(InDeficit, 0..(Cardinality(InDeficit) - 1))
      /\ \A a, b \in InDeficit : << a, b >> \in R <=> place[a] < place[b]
    <2>1. /\ \A a \in InDeficit : << a, a >> \notin R
          /\ \A a, b \in InDeficit : a # b => << a, b >> \in R \/ << b, a >> \in R
          /\ \A a, b, d \in InDeficit : << a, b >> \in R /\ << b, d >> \in R => << a, d >> \in R
        BY <1>1, <1>2
    <2> HIDE DEF R
    <2>2. QED BY <1>1, <2>1, PlacesCover
<1>4. list = ByPlace(InDeficit, place)
    <2>1. \A b \in InDeficit : { a \in InDeficit : LowerId(a, b) } = { a \in InDeficit : << a, b >> \in R }
        BY <1>2 DEF LowerId
    <2>2. \A b \in InDeficit : Cardinality({ a \in InDeficit : LowerId(a, b) }) = place[b]
        BY <2>1
    <2> DEFINE by(i)     == CHOOSE b \in InDeficit : Cardinality({ a \in InDeficit : LowerId(a, b) }) = i - 1
               member(i) == CHOOSE b \in InDeficit : place[b] = i - 1
    <2>3. list = [ i \in 1..Cardinality(InDeficit) |-> by(i) ]
        BY DEF Deficits, Ascending, InDeficit
    <2> HIDE DEF place, R, list
    <2>4. \A i : by(i) = member(i)
        BY <2>2
    <2> HIDE DEF by, member
    <2>5. list = [ i \in 1..Cardinality(InDeficit) |-> member(i) ]
        BY <2>3, <2>4
    <2>6. QED BY <2>5 DEF ByPlace, member
<1> HIDE DEF place, R, list
<1>5. /\ Len(list) \in Nat /\ list \in [1..Len(list) -> InDeficit]
      /\ \A i, j \in 1..Len(list) : list[i] = list[j] => i = j
      /\ \A b \in InDeficit : \E i \in 1..Len(list) : list[i] = b
      /\ \A i, j \in 1..Len(list) : i < j => place[list[i]] < place[list[j]]
    BY <1>1, <1>3, <1>4, SortedMembers
<1>6. \A i, j \in 1..Len(list) : i < j => list[i] < list[j]
    BY <1>2, <1>3, <1>5
<1>7. QED BY <1>5, <1>6 DEF list

-----------------------------------------------------------------------------
(* The bases, by the positions they take from each pool.                   *)

\* The candidates at some positions of a pool, and the positions a selection has.
Picked(c, T)   == { Pool(c)[i] : i \in T }
PlacesIn(S, c) == { i \in 1..Len(Pool(c)) : Pool(c)[i] \in S }

\* As many candidates as positions, all of them optional and of the category.
LEMMA PickedFacts ==
    ASSUME batch \in Batches, NEW c \in Category, NEW T \in SUBSET (1..Len(Pool(c)))
    PROVE  /\ IsFiniteSet(T) /\ Cardinality(T) \in Nat
           /\ Picked(c, T) \in SUBSET InCategory(Optional, c)
           /\ Cardinality(Picked(c, T)) = Cardinality(T)
           /\ \A i \in 1..Len(Pool(c)) : Pool(c)[i] \in Picked(c, T) <=> i \in T
<1> DEFINE L == Pool(c)
<1>1. /\ Len(L) \in Nat
      /\ L \in [1..Len(L) -> InCategory(Optional, c)]
      /\ \A i, j \in 1..Len(L) : L[i] = L[j] => i = j
    BY PoolFacts
<1> HIDE DEF L
<1>2. T \in SUBSET (1..Len(L)) /\ Picked(c, T) = { L[i] : i \in T }
    BY DEF L, Picked
<1>3. IsFiniteSet(T) /\ Cardinality(T) \in Nat
    <2>1. IsFiniteSet(1..Len(L))
        BY <1>1, FS_Interval
    <2>2. QED BY <1>2, <2>1, FS_Subset, FS_CardinalityType
<1>4. Cardinality(Picked(c, T)) = Cardinality(T)
    <2> DEFINE V == Picked(c, T)
               f == [i \in T |-> L[i]]
    <2>1. f \in [T -> V] /\ (\A i, j \in T : f[i] = f[j] => i = j) /\ \A b \in V : \E i \in T : f[i] = b
        BY <1>1, <1>2
    <2> HIDE DEF f, V
    <2>2. f \in Injection(T, V) /\ f \in Surjection(T, V)
        BY <2>1, Fun_IsInj, Fun_IsSurj
    <2>3. Cardinality(T) = Cardinality(V) <=> f \in Injection(T, V)
        BY <1>3, <2>2, FS_Surjection
    <2>4. QED BY <2>2, <2>3 DEF V
<1>5. QED BY <1>1, <1>2, <1>3, <1>4 DEF L

\* A base has from each pool as many as the minimum needs.
LEMMA BaseFacts ==
    ASSUME batch \in Batches, NEW S \in HardBases, NEW c \in Category
    PROVE  /\ S \in SUBSET Block /\ Required \subseteq S
           /\ PlacesIn(S, c) \in SUBSET (1..Len(Pool(c)))
           /\ Cardinality(PlacesIn(S, c)) = Needed(c)
           /\ InCategory(S \ Required, c) = Picked(c, PlacesIn(S, c))
<1>1. /\ S \in SUBSET Block /\ Required \subseteq S
      /\ CountIn(S \ Required, c) = Needed(c)
    BY DEF HardBases, Selection
<1>2. PlacesIn(S, c) \in SUBSET (1..Len(Pool(c)))
    BY DEF PlacesIn
<1>3. InCategory(S \ Required, c) = Picked(c, PlacesIn(S, c))
    <2>1. ASSUME NEW b \in InCategory(S \ Required, c) PROVE b \in Picked(c, PlacesIn(S, c))
        <3>1. b \in InCategory(Optional, c) /\ b \in S
            BY <1>1 DEF InCategory, Optional, Required
        <3>2. PICK i \in 1..Len(Pool(c)) : Pool(c)[i] = b
            BY <3>1, PoolFacts
        <3>3. QED BY <3>1, <3>2 DEF Picked, PlacesIn
    <2>2. ASSUME NEW b \in Picked(c, PlacesIn(S, c)) PROVE b \in InCategory(S \ Required, c)
        <3>1. b \in InCategory(Optional, c)
            BY <1>2, PickedFacts
        <3>2. b \in S
            BY DEF Picked, PlacesIn
        <3>3. QED BY <3>1, <3>2 DEF InCategory, Optional, Required
    <2>3. QED BY <2>1, <2>2
<1>4. Cardinality(PlacesIn(S, c)) = Needed(c)
    BY <1>1, <1>2, <1>3, PickedFacts DEF CountIn
<1>5. QED BY <1>1, <1>2, <1>3, <1>4

\* Bases differ only in the categories in deficit.
LEMMA SamePicked ==
    ASSUME batch \in Batches, NEW S \in HardBases, NEW U \in HardBases, NEW c \in Category,
           c \in InDeficit => PlacesIn(S, c) = PlacesIn(U, c)
    PROVE  InCategory(S \ Required, c) = InCategory(U \ Required, c) /\ InCategory(S, c) = InCategory(U, c)
<1>1. PlacesIn(S, c) = PlacesIn(U, c)
    <2>1. CASE c \in InDeficit
        BY <2>1
    <2>2. CASE c \notin InDeficit
        <3>1. Needed(c) = 0
            BY <2>2, CheapestForCount DEF InDeficit
        <3>2. /\ Cardinality(PlacesIn(S, c)) = 0 /\ IsFiniteSet(PlacesIn(S, c))
              /\ Cardinality(PlacesIn(U, c)) = 0 /\ IsFiniteSet(PlacesIn(U, c))
            BY <3>1, BaseFacts, PickedFacts
        <3>3. QED BY <3>2, FS_EmptySet
    <2>3. QED BY <2>1, <2>2
<1>2. InCategory(S \ Required, c) = InCategory(U \ Required, c)
    BY <1>1, BaseFacts
<1>3. InCategory(S, c) = InCategory(Required, c) \cup InCategory(S \ Required, c)
    BY BaseFacts DEF InCategory
<1>4. InCategory(U, c) = InCategory(Required, c) \cup InCategory(U \ Required, c)
    BY BaseFacts DEF InCategory
<1>5. QED BY <1>2, <1>3, <1>4

LEMMA SameBase ==
    ASSUME batch \in Batches, NEW S \in HardBases, NEW U \in HardBases,
           \A j \in 1..Len(Deficits) : PlacesIn(S, Deficits[j]) = PlacesIn(U, Deficits[j])
    PROVE  S = U
<1>1. \A c \in Category : InCategory(S, c) = InCategory(U, c)
    <2> SUFFICES ASSUME NEW c \in Category PROVE InCategory(S, c) = InCategory(U, c)
        OBVIOUS
    <2>1. c \in InDeficit => PlacesIn(S, c) = PlacesIn(U, c)
        BY DeficitFacts
    <2>2. QED BY <2>1, SamePicked
<1>2. \A b \in S \cup U : b \in Required \/ batch.category[b] \in Category
    BY DEF HardBases
<1>3. Required \subseteq S /\ Required \subseteq U
    BY DEF HardBases
<1>4. \A b \in S : b \in U
    <2> SUFFICES ASSUME NEW b \in S, b \notin Required PROVE b \in U
        BY <1>3
    <2>1. b \in InCategory(S, batch.category[b]) /\ batch.category[b] \in Category
        BY <1>2 DEF InCategory
    <2>2. b \in InCategory(U, batch.category[b])
        BY <1>1, <2>1
    <2>3. QED BY <2>2 DEF InCategory
<1>5. \A b \in U : b \in S
    <2> SUFFICES ASSUME NEW b \in U, b \notin Required PROVE b \in S
        BY <1>3
    <2>1. b \in InCategory(U, batch.category[b]) /\ batch.category[b] \in Category
        BY <1>2 DEF InCategory
    <2>2. b \in InCategory(S, batch.category[b])
        BY <1>1, <2>1
    <2>3. QED BY <2>2 DEF InCategory
<1>6. QED BY <1>4, <1>5

\* The order of the bases is that of the positions, category by category.
LEMMA OrderOfBases ==
    ASSUME batch \in Batches, NEW S \in HardBases, NEW U \in HardBases, NEW j \in 1..Len(Deficits),
           \A i \in 1..(j - 1) : PlacesIn(S, Deficits[i]) = PlacesIn(U, Deficits[i]),
           Earlier(PlacesIn(S, Deficits[j]), PlacesIn(U, Deficits[j]))
    PROVE  BaseBefore(S, U)
<1> DEFINE c == Deficits[j]
<1>1. c \in Category /\ Len(Deficits) \in Nat
    BY DeficitFacts DEF InDeficit
<1>2. Lexicographic(InCategory(S \ Required, c), InCategory(U \ Required, c), CheaperMinimum)
    <2> HIDE DEF c
    <2>1. PICK a \in PlacesIn(S, c) \ PlacesIn(U, c) : \A b \in PlacesIn(U, c) \ PlacesIn(S, c) : a < b
        BY DEF Earlier, c
    <2>2. /\ InCategory(S \ Required, c) = Picked(c, PlacesIn(S, c))
          /\ InCategory(U \ Required, c) = Picked(c, PlacesIn(U, c))
          /\ PlacesIn(S, c) \in SUBSET (1..Len(Pool(c))) /\ PlacesIn(U, c) \in SUBSET (1..Len(Pool(c)))
        BY <1>1, BaseFacts
    <2>3. Pool(c)[a] \in Picked(c, PlacesIn(S, c)) \ Picked(c, PlacesIn(U, c))
        BY <1>1, <2>1, <2>2, PickedFacts
    <2>4. ASSUME NEW y \in Picked(c, PlacesIn(U, c)) \ Picked(c, PlacesIn(S, c))
          PROVE  CheaperMinimum(Pool(c)[a], y)
        <3>1. PICK b \in PlacesIn(U, c) : y = Pool(c)[b]
            BY <2>4 DEF Picked
        <3>2. b \notin PlacesIn(S, c)
            BY <2>4, <3>1 DEF Picked
        <3>3. a < b /\ a \in 1..Len(Pool(c)) /\ b \in 1..Len(Pool(c))
            BY <2>1, <2>2, <3>1, <3>2
        <3>4. QED BY <1>1, <3>1, <3>3, PoolFacts
    <2>5. QED BY <2>2, <2>3, <2>4 DEF Lexicographic
<1>3. \A d \in Category : d < c => InCategory(S, d) = InCategory(U, d)
    <2> SUFFICES ASSUME NEW d \in Category, d < c PROVE InCategory(S, d) = InCategory(U, d)
        OBVIOUS
    <2>1. ASSUME d \in InDeficit PROVE PlacesIn(S, d) = PlacesIn(U, d)
        <3>1. PICK i \in 1..Len(Deficits) : Deficits[i] = d
            BY <2>1, DeficitFacts
        <3>2. i < j
            <4>1. CASE i = j
                BY <1>1, <3>1, <4>1, CategoryAssumption
            <4>2. CASE j < i
                <5>1. c < d
                    BY <3>1, <4>2, DeficitFacts
                <5>2. c \in Nat /\ d \in Nat
                    BY <1>1, CategoryAssumption
                <5>3. QED BY <5>1, <5>2
            <4>3. QED BY <1>1, <4>1, <4>2
        <3>3. QED BY <1>1, <3>1, <3>2
    <2>2. QED BY <2>1, SamePicked
<1>4. QED BY <1>1, <1>2, <1>3 DEF BaseBefore

-----------------------------------------------------------------------------
(* One generator.                                                          *)

\* The tuple a generator holds: positions in order, with room for those behind.
Combination(I, c) ==
    /\ I \in [1..Needed(c) -> 1..Len(Pool(c))]
    /\ \A i, j \in 1..Needed(c) : i < j => I[i] < I[j]
    /\ \A i \in 1..Needed(c) : I[i] <= Len(Pool(c)) - Needed(c) + i

\* It names as many positions as the minimum needs.
LEMMA CombinationFacts ==
    ASSUME batch \in Batches, NEW c \in Category, NEW I, Combination(I, c)
    PROVE  /\ Range(I) = { I[k] : k \in 1..Needed(c) }
           /\ Range(I) \in SUBSET (1..Len(Pool(c))) /\ Cardinality(Range(I)) = Needed(c)
<1> DEFINE K == Needed(c)
           V == Range(I)
<1>1. K \in Nat /\ Len(Pool(c)) \in Nat
    BY CheapestForCount, PoolFacts
<1>2. I \in [1..K -> 1..Len(Pool(c))] /\ \A i, j \in 1..K : i < j => I[i] < I[j]
    BY DEF Combination
<1>3. V = { I[k] : k \in 1..K }
    BY <1>2 DEF Range
<1> HIDE DEF K
<1>4. V \in SUBSET (1..Len(Pool(c)))
    BY <1>2, <1>3
<1>5. I \in [1..K -> V] /\ (\A i, j \in 1..K : I[i] = I[j] => i = j) /\ \A b \in V : \E i \in 1..K : I[i] = b
    <2>1. \A i, j \in 1..K : I[i] = I[j] => i = j
        <3> SUFFICES ASSUME NEW i \in 1..K, NEW j \in 1..K, I[i] = I[j] PROVE i = j
            OBVIOUS
        <3>1. ~ (i < j) /\ ~ (j < i)
            BY <1>1, <1>2
        <3>2. QED BY <1>1, <3>1
    <2>2. QED BY <1>2, <1>3, <2>1
<1> HIDE DEF V
<1>6. Cardinality(V) = K
    <2>1. I \in Injection(1..K, V) /\ I \in Surjection(1..K, V)
        BY <1>5, Fun_IsInj, Fun_IsSurj
    <2>2. IsFiniteSet(1..K) /\ Cardinality(1..K) = K
        BY <1>1, FS_Interval
    <2>3. Cardinality(1..K) = Cardinality(V) <=> I \in Injection(1..K, V)
        <3> DEFINE D == 1..K
        <3>1. IsFiniteSet(D) /\ I \in Surjection(D, V)
            BY <2>1, <2>2
        <3> HIDE DEF D
        <3>2. Cardinality(D) = Cardinality(V) <=> I \in Injection(D, V)
            BY <3>1, FS_Surjection
        <3>3. QED BY <3>2 DEF D
    <2>4. QED BY <2>1, <2>2, <2>3
<1>7. QED BY <1>3, <1>4, <1>6 DEF V, K

\* indices = 0 .. size - 1 starts before every other combination.
LEMMA IdentityFacts ==
    ASSUME batch \in Batches, NEW c \in Category, Needed(c) <= Len(Pool(c))
    PROVE  /\ Combination(Identity(c), c)
           /\ \A B \in SUBSET (1..Len(Pool(c))) : Cardinality(B) = Needed(c) =>
                 B = Range(Identity(c)) \/ Earlier(Range(Identity(c)), B)
<1>1. Needed(c) \in Nat /\ Len(Pool(c)) \in Nat
    BY CheapestForCount, PoolFacts
<1>2. Combination(Identity(c), c)
    BY <1>1 DEF Combination, Identity
<1>3. Range(Identity(c)) = 1..Needed(c)
    BY <1>1 DEF Range, Identity
<1>4. QED BY <1>1, <1>2, <1>3, FirstCombination

\* When no index can move there is no other combination behind.
LEMMA ExhaustedFacts ==
    ASSUME batch \in Batches, NEW c \in Category, Combination(index[c], c), Movable(c) = {}
    PROVE  \A B \in SUBSET (1..Len(Pool(c))) : Cardinality(B) = Needed(c) => ~ Earlier(Range(index[c]), B)
<1> DEFINE K == Needed(c)
           n == Len(Pool(c))
           I == index[c]
           A == Range(I)
<1>1. K \in Nat /\ n \in Nat
    BY CheapestForCount, PoolFacts
<1>2. /\ A = { I[k] : k \in 1..K } /\ A \in SUBSET (1..n) /\ Cardinality(A) = K
    BY CombinationFacts
<1>3. \A k \in 1..K : I[k] = n - K + k /\ I[k] \in 1..n
    BY DEF Movable, Combination
<1> HIDE DEF K, n, I
<1>4. \A i \in 1..n : i \in A <=> i >= n - K + 1
    <2> SUFFICES ASSUME NEW i \in 1..n PROVE i \in A <=> i >= n - K + 1
        OBVIOUS
    <2>1. ASSUME i \in A PROVE i >= n - K + 1
        BY <1>1, <1>2, <1>3, <2>1
    <2>2. ASSUME i >= n - K + 1 PROVE i \in A
        <3>1. i - (n - K) \in 1..K
            BY <1>1, <2>2
        <3>2. I[i - (n - K)] = i
            BY <1>1, <1>3, <3>1
        <3>3. QED BY <1>2, <3>1, <3>2
    <2>3. QED BY <2>1, <2>2
<1>5. n - K + 1 \in Nat
    <2>1. K > 0 => n - K + 1 \in 1..n
        BY <1>1, <1>3
    <2>2. QED BY <1>1, <2>1
<1> HIDE DEF A
<1>6. \A B \in SUBSET (1..n) : Cardinality(B) = Cardinality(A) => ~ Earlier(A, B)
    BY <1>1, <1>2, <1>4, <1>5, LastCombination
<1>7. QED BY <1>2, <1>6 DEF A, I, n, K

\* Moving the last index that can move, and packing the others behind it, goes to
\* the combination that comes next.
LEMMA SuccessorFacts ==
    ASSUME batch \in Batches, NEW c \in Category, Combination(index[c], c), Movable(c) # {}
    PROVE  /\ Combination(Successor(c), c)
           /\ \A B \in SUBSET (1..Len(Pool(c))) : Cardinality(B) = Needed(c) =>
                 (Earlier(Range(index[c]), B) <=> B = Range(Successor(c)) \/ Earlier(Range(Successor(c)), B))
<1> DEFINE K == Needed(c)
           n == Len(Pool(c))
           I == index[c]
           J == Successor(c)
           m == Max(Movable(c))
<1>1. K \in Nat /\ n \in Nat
    BY CheapestForCount, PoolFacts
<1>2. m \in Movable(c) /\ \A k \in Movable(c) : k <= m
    <2> DEFINE D == { K - k : k \in Movable(c) }
    <2>1. D \in SUBSET Nat /\ D # {}
        BY <1>1 DEF Movable
    <2>2. PICK e \in D : \A d \in D : ~ (d < e)
        BY <2>1, LeastMember
    <2>3. PICK k \in Movable(c) : e = K - k
        BY <2>2
    <2>4. ASSUME NEW l \in Movable(c) PROVE k >= l
        <3>1. ~ (K - l < K - k)
            BY <2>2, <2>3
        <3>2. k \in Nat /\ l \in Nat
            BY <1>1 DEF Movable
        <3>3. QED BY <1>1, <3>1, <3>2
    <2>5. m \in Movable(c) /\ \A l \in Movable(c) : m >= l
        <3> DEFINE M == Movable(c)
        <3>1. \E l \in M : \A j \in M : l >= j
            BY <2>3, <2>4
        <3> HIDE DEF M
        <3>2. Max(M) \in M /\ \A l \in M : Max(M) >= l
            BY <3>1 DEF Max
        <3>3. QED BY <3>2 DEF M
    <2> HIDE DEF m
    <2>6. QED BY <1>1, <2>5 DEF Movable
<1> HIDE DEF m
<1>3. /\ I \in [1..K -> 1..n]
      /\ \A i, j \in 1..K : i < j => I[i] < I[j]
      /\ \A i \in 1..K : I[i] <= n - K + i
    BY DEF Combination
<1>4. m \in 1..K /\ I[m] # n - K + m /\ \A k \in 1..K : k > m => I[k] = n - K + k
    BY <1>1, <1>2 DEF Movable
<1>5. J = [k \in 1..K |-> IF k < m THEN I[k] ELSE I[m] + 1 + (k - m)]
    BY DEF Successor, m
<1> HIDE DEF K, n, I, J
<1> DEFINE x == I[m]
<1>6. x \in Nat /\ x < n - K + m /\ x >= 1
    BY <1>1, <1>3, <1>4
<1> HIDE DEF x
<1>7. /\ \A k \in 1..K : k < m => J[k] = I[k] /\ I[k] < x
      /\ \A k \in 1..K : k >= m => J[k] = x + 1 + (k - m)
    BY <1>3, <1>4, <1>5 DEF x
<1>8. /\ J \in [1..K -> 1..n]
      /\ \A i, j \in 1..K : i < j => J[i] < J[j]
      /\ \A i \in 1..K : J[i] <= n - K + i
    <2>1. ASSUME NEW i \in 1..K PROVE J[i] \in 1..n /\ J[i] <= n - K + i
        <3>1. CASE i < m
            BY <1>3, <1>7, <3>1
        <3>2. CASE i >= m
            BY <1>1, <1>4, <1>6, <1>7, <3>2
        <3>3. QED BY <1>4, <3>1, <3>2
    <2>2. ASSUME NEW i \in 1..K, NEW j \in 1..K, i < j PROVE J[i] < J[j]
        <3>1. CASE j < m
            BY <1>3, <1>4, <1>7, <2>2, <3>1
        <3>2. CASE i < m /\ j >= m
            BY <1>3, <1>4, <1>6, <1>7, <3>2
        <3>3. CASE i >= m
            BY <1>4, <1>6, <1>7, <2>2, <3>3
        <3>4. QED BY <1>4, <3>1, <3>2, <3>3
    <2>3. QED BY <1>5, <2>1, <2>2
<1>9. Combination(J, c)
    BY <1>8 DEF Combination, K, n
<1> DEFINE A == Range(I)
           N == Range(J)
           P == { I[k] : k \in 1..(m - 1) }
           t == n - K + m + 1
           y == x + 1 + (K - m)
<1>10. /\ A = { I[k] : k \in 1..K } /\ A \in SUBSET (1..n) /\ Cardinality(A) = K
       /\ N = { J[k] : k \in 1..K } /\ N \in SUBSET (1..n) /\ Cardinality(N) = K
    BY <1>9, CombinationFacts DEF I, K, n
<1>11. P \in SUBSET (1..n) /\ (\A p \in P : p < x) /\ x \in A /\ t \in Nat /\ y \in Nat /\ x < t
    <2>1. \A k \in 1..(m - 1) : k \in 1..K /\ k < m
        BY <1>1, <1>4
    <2>2. QED BY <1>1, <1>3, <1>4, <1>6, <1>7, <1>10, <2>1 DEF x
<1>12. \A i \in 1..n : i \in A <=> i \in P \/ i = x \/ i >= t
    <2> SUFFICES ASSUME NEW i \in 1..n PROVE i \in A <=> i \in P \/ i = x \/ i >= t
        OBVIOUS
    <2>1. ASSUME i \in A PROVE i \in P \/ i = x \/ i >= t
        <3>1. PICK k \in 1..K : i = I[k]
            BY <1>10, <2>1
        <3>2. CASE k < m
            BY <1>1, <1>4, <3>1, <3>2
        <3>3. CASE k = m
            BY <3>1, <3>3 DEF x
        <3>4. CASE k > m
            BY <1>1, <1>4, <3>1, <3>4
        <3>5. QED BY <1>4, <3>2, <3>3, <3>4
    <2>2. ASSUME i \in P PROVE i \in A
        BY <1>1, <1>4, <1>10, <2>2
    <2>3. ASSUME i >= t PROVE i \in A
        <3>1. i - (n - K) \in 1..K /\ i - (n - K) > m
            BY <1>1, <1>4, <2>3
        <3>2. I[i - (n - K)] = i
            BY <1>1, <1>4, <3>1
        <3>3. QED BY <1>10, <3>1, <3>2
    <2>4. QED BY <1>11, <2>1, <2>2, <2>3
<1>13. \A i \in 1..n : i \in N <=> i \in P \/ (x < i /\ i <= y)
    <2> SUFFICES ASSUME NEW i \in 1..n PROVE i \in N <=> i \in P \/ (x < i /\ i <= y)
        OBVIOUS
    <2>1. ASSUME i \in N PROVE i \in P \/ (x < i /\ i <= y)
        <3>1. PICK k \in 1..K : i = J[k]
            BY <1>10, <2>1
        <3>2. CASE k < m
            BY <1>1, <1>4, <1>7, <3>1, <3>2
        <3>3. CASE k >= m
            BY <1>1, <1>4, <1>6, <1>7, <3>1, <3>3
        <3>4. QED BY <1>4, <3>2, <3>3
    <2>2. ASSUME i \in P PROVE i \in N
        <3>1. PICK k \in 1..(m - 1) : i = I[k]
            BY <2>2
        <3>2. k \in 1..K /\ J[k] = i
            BY <1>1, <1>4, <1>7, <3>1
        <3>3. QED BY <1>10, <3>2
    <2>3. ASSUME x < i, i <= y PROVE i \in N
        <3>1. i - x - 1 + m \in 1..K /\ i - x - 1 + m >= m
            BY <1>1, <1>4, <1>6, <2>3
        <3>2. J[i - x - 1 + m] = i
            BY <1>4, <1>6, <1>7, <3>1
        <3>3. QED BY <1>10, <3>1, <3>2
    <2>4. QED BY <2>1, <2>2, <2>3
<1> HIDE DEF A, N, P, t, y
<1>14. ASSUME NEW B \in SUBSET (1..n), Cardinality(B) = K
       PROVE  Earlier(A, B) <=> B = N \/ Earlier(N, B)
    <2>1. Adjacent(A, N, n, P, x, t, y)
        BY <1>1, <1>6, <1>10, <1>11, <1>12, <1>13 DEF Adjacent
    <2>2. Cardinality(B) = Cardinality(A) /\ Cardinality(B) = Cardinality(N)
        BY <1>10, <1>14
    <2>3. QED BY <2>1, <2>2, NextCombination
<1>15. QED BY <1>9, <1>14 DEF A, N, I, J, K, n

-----------------------------------------------------------------------------
(* The nested generators.                                                  *)

\* The categories whose generator is running, the outer ones first.
Running == { Deficits[j] : j \in 1..(IF phase = "start" THEN level - 1 ELSE level) }

NestInv ==
    /\ batch \in Batches
    /\ phase \in {"start", "advance", "done"}
    /\ bases \in Seq(Selection)
    /\ phase # "done" =>
          /\ \A c \in Category : Needed(c) <= Len(Pool(c))
          /\ level \in (IF phase = "start" THEN 1..(Len(Deficits) + 1) ELSE 0..Len(Deficits))
          /\ index = [c \in Category |-> index[c]]
          /\ \A c \in Category : IF c \in Running THEN Combination(index[c], c) ELSE index[c] = <<>>

\* A base takes what the tuples hold of the categories before the l-th; or it is
\* behind them in the order.
Agrees(S, l, tuples)  ==
    \A j \in 1..(l - 1) : PlacesIn(S, Deficits[j]) = Range(tuples[Deficits[j]])
Follows(S, l, tuples) ==
    \E j \in 1..(l - 1) : /\ Agrees(S, j, tuples)
                          /\ Earlier(Range(tuples[Deficits[j]]), PlacesIn(S, Deficits[j]))

\* The bases still to be yielded.
Awaited(S) ==
    \/ phase = "start" /\ (Agrees(S, level, index) \/ Follows(S, level, index))
    \/ phase = "advance" /\ Follows(S, level + 1, index)

BasesInv == ToSet(bases) = { S \in HardBases : ~ Awaited(S) }

LEMMA AgreesUnfolds ==
    ASSUME NEW S, NEW tuples, NEW l \in Nat \ {0}
    PROVE  LET held == Range(tuples[Deficits[l]])  has == PlacesIn(S, Deficits[l])
           IN  /\ Agrees(S, l + 1, tuples) <=> Agrees(S, l, tuples) /\ has = held
               /\ Follows(S, l + 1, tuples) <=>
                     Follows(S, l, tuples) \/ (Agrees(S, l, tuples) /\ Earlier(held, has))
<1>1. l + 1 - 1 = l /\ \A j : j \in 1..l <=> j \in 1..(l - 1) \/ j = l
    OBVIOUS
<1>2. QED BY <1>1 DEF Agrees, Follows

\* Only the generators outside of the l-th matter.
LEMMA AgreesBelow ==
    ASSUME NEW S, NEW old, NEW new, NEW l \in Nat,
           \A j \in 1..(l - 1) : new[Deficits[j]] = old[Deficits[j]]
    PROVE  /\ Agrees(S, l, new) <=> Agrees(S, l, old)
           /\ Follows(S, l, new) <=> Follows(S, l, old)
<1>1. \A j \in 1..(l - 1) : \A i \in 1..(j - 1) : i \in 1..(l - 1)
    OBVIOUS
<1>2. \A j \in 1..(l - 1) : Agrees(S, j, new) <=> Agrees(S, j, old)
    BY <1>1 DEF Agrees
<1>3. Agrees(S, l, new) <=> Agrees(S, l, old)
    BY DEF Agrees
<1>4. QED BY <1>2, <1>3 DEF Follows

\* No step changes the batch, nor what is read of it.
LEMMA BatchFixed ==
    ASSUME batch' = batch
    PROVE  /\ Required' = Required /\ HardBases' = HardBases /\ Deficits' = Deficits
           /\ \A c : Needed(c)' = Needed(c) /\ Pool(c)' = Pool(c)
           /\ \A S, c : PlacesIn(S, c)' = PlacesIn(S, c)
           /\ \A I, c : Combination(I, c)' <=> Combination(I, c)
<1>1. Required' = Required /\ Optional' = Optional /\ \A S, c : InCategory(S, c)' = InCategory(S, c)
    BY DEF Required, Optional, InCategory
<1>2. \A S, c : CountIn(S, c)' = CountIn(S, c)
    BY <1>1 DEF CountIn
<1>3. \A c : Needed(c)' = Needed(c)
    BY DEF Needed, CountIn, InCategory, Required
<1>4. \A c : Pool(c)' = Pool(c)
    BY DEF Pool, Ascending, InCategory, Optional, CheaperMinimum
<1>5. Deficits' = Deficits
    BY DEF Deficits, Ascending, LowerId, Needed, CountIn, InCategory, Required
<1>6. HardBases' = HardBases
    BY <1>3 DEF HardBases, Selection, Required, CountIn, InCategory
<1>7. \A S, c : PlacesIn(S, c)' = PlacesIn(S, c)
    BY <1>4 DEF PlacesIn
<1>8. \A I, c : Combination(I, c)' <=> Combination(I, c)
    BY <1>3, <1>4 DEF Combination
<1>9. QED BY <1>1, <1>3, <1>4, <1>5, <1>6, <1>7, <1>8

\* What is awaited after a step.
LEMMA AwaitedNext ==
    ASSUME batch' = batch, NEW S
    PROVE  Awaited(S)' <=> \/ phase' = "start" /\ (Agrees(S, level', index') \/ Follows(S, level', index'))
                           \/ phase' = "advance" /\ Follows(S, level' + 1, index')
    BY DEF Awaited, Agrees, Follows, PlacesIn, Pool, Deficits, Ascending, LowerId, CheaperMinimum,
           Needed, CountIn, InCategory, Required, Optional

\* A step that gives one category another tuple, or none, leaves those of the
\* categories before it.
LEMMA TupleChanges ==
    ASSUME NestInv, phase # "done", level \in 1..Len(Deficits), NEW new,
           index' = [index EXCEPT ![Deficits[level]] = new]
    PROVE  /\ Deficits[level] \in Category /\ index'[Deficits[level]] = new
           /\ \A c \in Category : c # Deficits[level] => index'[c] = index[c]
           /\ index' = [c \in Category |-> index'[c]]
<1>1. Deficits[level] \in Category
    BY DeficitFacts DEF NestInv, InDeficit
<1>2. index = [c \in Category |-> index[c]]
    BY DEF NestInv
<1>3. QED BY <1>1, <1>2

LEMMA OuterStay ==
    ASSUME NestInv, level \in 1..Len(Deficits), \A c \in Category : c # Deficits[level] => index'[c] = index[c], NEW S
    PROVE  /\ level \in Nat \ {0}
           /\ Agrees(S, level, index') <=> Agrees(S, level, index)
           /\ Follows(S, level, index') <=> Follows(S, level, index)
<1>1. /\ Len(Deficits) \in Nat /\ Deficits \in [1..Len(Deficits) -> InDeficit] /\ InDeficit \subseteq Category
      /\ \A i, j \in 1..Len(Deficits) : Deficits[i] = Deficits[j] => i = j
    BY DeficitFacts DEF NestInv, InDeficit
<1>2. level \in Nat \ {0}
    BY <1>1
<1>3. ASSUME NEW j \in 1..(level - 1) PROVE index'[Deficits[j]] = index[Deficits[j]]
    <2>1. j \in 1..Len(Deficits) /\ j # level
        BY <1>1
    <2>2. Deficits[j] \in Category /\ Deficits[j] # Deficits[level]
        BY <1>1, <2>1
    <2>3. QED BY <2>2
<1>4. QED BY <1>2, <1>3, AgreesBelow

\* The invariant after such a step.
LEMMA NestNext ==
    ASSUME NestInv, UNCHANGED << batch, bases >>, phase # "done", phase' \in {"start", "advance"},
           level' \in (IF phase' = "start" THEN 1..(Len(Deficits) + 1) ELSE 0..Len(Deficits)),
           index' = [c \in Category |-> index'[c]], NEW d \in Category,
           \A c \in Category : c # d => index'[c] = index[c] /\ (c \in Running' <=> c \in Running),
           IF d \in Running' THEN Combination(index'[d], d) ELSE index'[d] = <<>>
    PROVE  NestInv'
<1>1. \A c \in Category : (Needed(c) <= Len(Pool(c)))'
    BY BatchFixed DEF NestInv
<1>2. (level \in (IF phase = "start" THEN 1..(Len(Deficits) + 1) ELSE 0..Len(Deficits)))'
    BY BatchFixed
<1>3. ASSUME NEW c \in Category
      PROVE  (IF c \in Running THEN Combination(index[c], c) ELSE index[c] = <<>>)'
    <2>1. (Combination(index[c], c))' <=> Combination(index'[c], c)
        BY BatchFixed DEF Combination
    <2>2. CASE c = d
        BY <2>1, <2>2
    <2>3. CASE c # d
        <3>1. IF c \in Running THEN Combination(index[c], c) ELSE index[c] = <<>>
            BY DEF NestInv
        <3>2. index'[c] = index[c] /\ (c \in Running' <=> c \in Running)
            BY <2>3
        <3>3. QED BY <2>1, <3>1, <3>2
    <2>4. QED BY <2>2, <2>3
<1>4. QED BY <1>1, <1>2, <1>3 DEF NestInv

\* What a base has of the category of the generator at hand.
LEMMA PlacesAtHand ==
    ASSUME NestInv, level \in 1..Len(Deficits), NEW S \in HardBases
    PROVE  LET d == Deficits[level]
           IN  PlacesIn(S, d) \in SUBSET (1..Len(Pool(d))) /\ Cardinality(PlacesIn(S, d)) = Needed(d)
<1>1. Deficits[level] \in Category /\ batch \in Batches
    BY DeficitFacts DEF NestInv, InDeficit
<1>2. QED BY <1>1, BaseFacts

\* The first combination of the next category loses no base: all of those that
\* agree with the outer generators have it or one behind it.
LEMMA StartGeneratorStep ==
    ASSUME NestInv, StartGenerator
    PROVE  NestInv' /\ \A S \in HardBases : Awaited(S)' <=> Awaited(S)
<1> DEFINE d == Deficits[level]
<1>1. /\ batch \in Batches /\ phase = "start" /\ phase' = "start" /\ level' = level + 1
      /\ UNCHANGED << batch, bases >> /\ level \in 1..Len(Deficits) /\ level \in Nat \ {0}
      /\ index' = [index EXCEPT ![d] = Identity(d)] /\ Len(Deficits) \in Nat
    <2>1. batch \in Batches /\ level \in 1..(Len(Deficits) + 1) /\ phase = "start"
        BY DEF NestInv, StartGenerator
    <2>2. Len(Deficits) \in Nat
        BY <2>1, DeficitFacts
    <2>3. QED BY <2>1, <2>2 DEF StartGenerator
<1>2. d \in Category /\ index'[d] = Identity(d) /\ \A c \in Category : c # d => index'[c] = index[c]
    BY <1>1, TupleChanges
<1>9. index' = [c \in Category |-> index'[c]]
    BY <1>1, TupleChanges
<1>3. Needed(d) <= Len(Pool(d))
    BY <1>1, <1>2 DEF NestInv
<1>4. /\ Combination(Identity(d), d)
      /\ \A B \in SUBSET (1..Len(Pool(d))) : Cardinality(B) = Needed(d) =>
            B = Range(Identity(d)) \/ Earlier(Range(Identity(d)), B)
    BY <1>1, <1>2, <1>3, IdentityFacts
<1>5. \A c \in Category : c \in Running' <=> c \in Running \/ c = d
    <2>1. Running' = { Deficits[j] : j \in 1..level }
        BY <1>1, BatchFixed DEF Running
    <2>2. Running = { Deficits[j] : j \in 1..(level - 1) }
        BY <1>1 DEF Running
    <2>3. \A j : j \in 1..level <=> j \in 1..(level - 1) \/ j = level
        BY <1>1
    <2>4. QED BY <2>1, <2>2, <2>3
<1>6. NestInv'
    <2>1. level' \in (IF phase' = "start" THEN 1..(Len(Deficits) + 1) ELSE 0..Len(Deficits))
        BY <1>1
    <2>2. IF d \in Running' THEN Combination(index'[d], d) ELSE index'[d] = <<>>
        BY <1>2, <1>4, <1>5
    <2>3. \A c \in Category : c # d => index'[c] = index[c] /\ (c \in Running' <=> c \in Running)
        BY <1>2, <1>5
    <2> HIDE DEF d
    <2>4. phase # "done" /\ phase' \in {"start", "advance"} /\ UNCHANGED << batch, bases >>
        BY <1>1
    <2>5. QED BY <1>2, <1>9, <2>1, <2>2, <2>3, <2>4, NestNext
<1>7. ASSUME NEW S \in HardBases PROVE Awaited(S)' <=> Awaited(S)
    <2> DEFINE B == PlacesIn(S, d)
    <2>1. B = Range(Identity(d)) \/ Earlier(Range(Identity(d)), B)
        BY <1>1, <1>4, PlacesAtHand
    <2>2. /\ Agrees(S, level + 1, index') <=> Agrees(S, level, index) /\ B = Range(Identity(d))
          /\ Follows(S, level + 1, index') <=>
                Follows(S, level, index) \/ (Agrees(S, level, index) /\ Earlier(Range(Identity(d)), B))
        <3>1. /\ level \in Nat \ {0}
              /\ Agrees(S, level, index') <=> Agrees(S, level, index)
              /\ Follows(S, level, index') <=> Follows(S, level, index)
            <4>1. level \in 1..Len(Deficits)
                BY <1>1
            <4>2. QED BY <1>2, <4>1, OuterStay
        <3>2. /\ Agrees(S, level + 1, index') <=> Agrees(S, level, index') /\ B = Range(index'[d])
              /\ Follows(S, level + 1, index') <=>
                    Follows(S, level, index') \/ (Agrees(S, level, index') /\ Earlier(Range(index'[d]), B))
            BY <3>1, AgreesUnfolds
        <3>3. QED BY <1>2, <3>1, <3>2
    <2>3. Awaited(S)' <=> Agrees(S, level + 1, index') \/ Follows(S, level + 1, index')
        BY <1>1, AwaitedNext
    <2>4. QED BY <1>1, <2>1, <2>2, <2>3 DEF Awaited
<1>8. QED BY <1>6, <1>7

\* Moving on to the next combination loses no base and repeats none: it is the
\* first of those behind the one before.
LEMMA AdvanceStep ==
    ASSUME NestInv, AdvanceCombination
    PROVE  NestInv' /\ \A S \in HardBases : Awaited(S)' <=> Awaited(S)
<1> DEFINE d == Deficits[level]
           next == Successor(d)
<1>1. /\ batch \in Batches /\ phase = "advance" /\ phase' = "start" /\ level' = level + 1
      /\ UNCHANGED << batch, bases >> /\ level \in 1..Len(Deficits) /\ Movable(d) # {}
      /\ index' = [index EXCEPT ![d] = next] /\ Len(Deficits) \in Nat
    <2>1. batch \in Batches /\ level \in 0..Len(Deficits) /\ phase = "advance"
        BY DEF NestInv, AdvanceCombination
    <2>2. Len(Deficits) \in Nat
        BY <2>1, DeficitFacts
    <2>3. QED BY <2>1, <2>2 DEF AdvanceCombination
<1>2. d \in Category /\ index'[d] = next /\ \A c \in Category : c # d => index'[c] = index[c]
    BY <1>1, TupleChanges
<1>3. index' = [c \in Category |-> index'[c]]
    BY <1>1, TupleChanges
<1>4. Running = { Deficits[j] : j \in 1..level } /\ Running' = Running
    <2>1. Running' = { Deficits[j] : j \in 1..(level + 1 - 1) }
        BY <1>1, BatchFixed DEF Running
    <2>2. Running = { Deficits[j] : j \in 1..level } /\ level + 1 - 1 = level
        BY <1>1 DEF Running
    <2>3. QED BY <2>1, <2>2
<1>5. d \in Running
    BY <1>1, <1>4
<1>6. Combination(index[d], d)
    BY <1>1, <1>2, <1>5 DEF NestInv
<1>7. /\ Combination(next, d)
      /\ \A B \in SUBSET (1..Len(Pool(d))) : Cardinality(B) = Needed(d) =>
            (Earlier(Range(index[d]), B) <=> B = Range(next) \/ Earlier(Range(next), B))
    BY <1>1, <1>2, <1>6, SuccessorFacts
<1> HIDE DEF next
<1>8. NestInv'
    <2>1. level' \in (IF phase' = "start" THEN 1..(Len(Deficits) + 1) ELSE 0..Len(Deficits))
        BY <1>1
    <2>2. IF d \in Running' THEN Combination(index'[d], d) ELSE index'[d] = <<>>
        BY <1>2, <1>4, <1>5, <1>7
    <2>3. \A c \in Category : c # d => index'[c] = index[c] /\ (c \in Running' <=> c \in Running)
        BY <1>2, <1>4
    <2> HIDE DEF d
    <2>4. phase # "done" /\ phase' \in {"start", "advance"} /\ UNCHANGED << batch, bases >>
        BY <1>1
    <2>5. QED BY <1>2, <1>3, <2>1, <2>2, <2>3, <2>4, NestNext
<1>9. ASSUME NEW S \in HardBases PROVE Awaited(S)' <=> Awaited(S)
    <2> DEFINE B == PlacesIn(S, d)
    <2>1. Earlier(Range(index[d]), B) <=> B = Range(next) \/ Earlier(Range(next), B)
        BY <1>1, <1>7, PlacesAtHand
    <2>2. /\ level \in Nat \ {0}
          /\ Agrees(S, level, index') <=> Agrees(S, level, index)
          /\ Follows(S, level, index') <=> Follows(S, level, index)
        <3>1. level \in 1..Len(Deficits)
            BY <1>1
        <3>2. QED BY <1>2, <3>1, OuterStay
    <2>3. /\ Agrees(S, level + 1, index') <=> Agrees(S, level, index') /\ B = Range(index'[d])
          /\ Follows(S, level + 1, index') <=>
                Follows(S, level, index') \/ (Agrees(S, level, index') /\ Earlier(Range(index'[d]), B))
        BY <2>2, AgreesUnfolds
    <2>4. Follows(S, level + 1, index) <=>
             Follows(S, level, index) \/ (Agrees(S, level, index) /\ Earlier(Range(index[d]), B))
        BY <2>2, AgreesUnfolds
    <2>5. Awaited(S)' <=> Agrees(S, level + 1, index') \/ Follows(S, level + 1, index')
        BY <1>1, AwaitedNext
    <2>6. Awaited(S) <=> Follows(S, level + 1, index)
        BY <1>1 DEF Awaited
    <2>7. QED BY <1>2, <2>1, <2>2, <2>3, <2>4, <2>5, <2>6
<1>10. QED BY <1>8, <1>9

\* A generator ends when no base is left behind the combination it holds.
LEMMA GeneratorEndsStep ==
    ASSUME NestInv, GeneratorEnds
    PROVE  NestInv' /\ \A S \in HardBases : Awaited(S)' <=> Awaited(S)
<1> DEFINE d == Deficits[level]
<1>1. /\ batch \in Batches /\ phase = "advance" /\ phase' = "advance" /\ level' = level - 1
      /\ UNCHANGED << batch, bases >> /\ level \in 1..Len(Deficits) /\ Movable(d) = {}
      /\ index' = [index EXCEPT ![d] = <<>>] /\ Len(Deficits) \in Nat
    <2>1. batch \in Batches /\ level \in 0..Len(Deficits) /\ phase = "advance"
        BY DEF NestInv, GeneratorEnds
    <2>2. Len(Deficits) \in Nat
        BY <2>1, DeficitFacts
    <2>3. QED BY <2>1, <2>2 DEF GeneratorEnds
<1>2. d \in Category /\ index'[d] = <<>> /\ \A c \in Category : c # d => index'[c] = index[c]
    BY <1>1, TupleChanges
<1>3. index' = [c \in Category |-> index'[c]]
    BY <1>1, TupleChanges
<1>4. Running = { Deficits[j] : j \in 1..level } /\ Running' = { Deficits[j] : j \in 1..(level - 1) }
    BY <1>1, BatchFixed DEF Running
<1>5. d \in Running /\ d \notin Running' /\ \A c : c # d => (c \in Running' <=> c \in Running)
    <2>1. \A i, j \in 1..Len(Deficits) : Deficits[i] = Deficits[j] => i = j
        BY <1>1, DeficitFacts
    <2>2. \A j : j \in 1..level <=> j \in 1..(level - 1) \/ j = level
        BY <1>1
    <2>3. \A j \in 1..(level - 1) : j \in 1..Len(Deficits) /\ j # level
        BY <1>1
    <2>4. QED BY <1>1, <1>4, <2>1, <2>2, <2>3
<1>6. Combination(index[d], d)
    BY <1>1, <1>2, <1>5 DEF NestInv
<1>7. \A B \in SUBSET (1..Len(Pool(d))) : Cardinality(B) = Needed(d) => ~ Earlier(Range(index[d]), B)
    BY <1>1, <1>2, <1>6, ExhaustedFacts
<1>8. NestInv'
    <2>1. level' \in (IF phase' = "start" THEN 1..(Len(Deficits) + 1) ELSE 0..Len(Deficits))
        BY <1>1
    <2>2. IF d \in Running' THEN Combination(index'[d], d) ELSE index'[d] = <<>>
        BY <1>2, <1>5
    <2>3. \A c \in Category : c # d => index'[c] = index[c] /\ (c \in Running' <=> c \in Running)
        BY <1>2, <1>5
    <2> HIDE DEF d
    <2>4. phase # "done" /\ phase' \in {"start", "advance"} /\ UNCHANGED << batch, bases >>
        BY <1>1
    <2>5. QED BY <1>2, <1>3, <2>1, <2>2, <2>3, <2>4, NestNext
<1>9. ASSUME NEW S \in HardBases PROVE Awaited(S)' <=> Awaited(S)
    <2> DEFINE B == PlacesIn(S, d)
    <2>1. ~ Earlier(Range(index[d]), B)
        BY <1>1, <1>7, PlacesAtHand
    <2>2. /\ level \in Nat \ {0}
          /\ Follows(S, level, index') <=> Follows(S, level, index)
        <3>1. level \in 1..Len(Deficits)
            BY <1>1
        <3>2. QED BY <1>2, <3>1, OuterStay
    <2>3. Follows(S, level + 1, index) <=>
             Follows(S, level, index) \/ (Agrees(S, level, index) /\ Earlier(Range(index[d]), B))
        BY <2>2, AgreesUnfolds
    <2>4. level' + 1 = level
        BY <1>1
    <2>5. Awaited(S)' <=> Follows(S, level, index')
        BY <1>1, <2>4, AwaitedNext
    <2>6. Awaited(S) <=> Follows(S, level + 1, index)
        BY <1>1 DEF Awaited
    <2>7. QED BY <2>1, <2>2, <2>3, <2>5, <2>6
<1>10. QED BY <1>8, <1>9

\* When every generator holds a combination, what they hold is a base.
LEMMA HeldIsBase ==
    ASSUME NestInv, phase = "start", level = Len(Deficits) + 1
    PROVE  /\ Base \in HardBases
           /\ \A j \in 1..Len(Deficits) : PlacesIn(Base, Deficits[j]) = Range(index[Deficits[j]])
<1> DEFINE T(c) == Range(index[c])
<1>1. /\ batch \in Batches /\ Len(Deficits) \in Nat /\ \A j \in 1..Len(Deficits) : Deficits[j] \in Category
      /\ \A c \in InDeficit : \E j \in 1..Len(Deficits) : Deficits[j] = c
    BY DeficitFacts DEF NestInv, InDeficit
<1>2. \A c \in Category : T(c) \in SUBSET (1..Len(Pool(c))) /\ Cardinality(T(c)) = Needed(c)
    <2> SUFFICES ASSUME NEW c \in Category
                 PROVE  T(c) \in SUBSET (1..Len(Pool(c))) /\ Cardinality(T(c)) = Needed(c)
        OBVIOUS
    <2>1. IF c \in Running THEN Combination(index[c], c) ELSE index[c] = <<>>
        BY DEF NestInv
    <2>2. CASE c \in Running
        BY <1>1, <2>1, <2>2, CombinationFacts
    <2>3. CASE c \notin Running
        <3>1. c \notin InDeficit
            BY <1>1, <2>3 DEF Running
        <3>2. Needed(c) = 0
            BY <1>1, <3>1, CheapestForCount DEF InDeficit
        <3>3. T(c) = {}
            BY <2>1, <2>3 DEF Range
        <3>4. QED BY <3>2, <3>3, FS_EmptySet
    <2>4. QED BY <2>2, <2>3
<1>3. Base = Required \cup UNION { Picked(c, T(c)) : c \in Category }
    <2> DEFINE held(c) == { Pool(c)[index[c][k]] : k \in DOMAIN index[c] }
    <2>1. ASSUME NEW c \in Category PROVE held(c) = Picked(c, T(c))
        <3>1. ASSUME NEW x \in held(c) PROVE x \in Picked(c, T(c))
            <4>1. PICK k \in DOMAIN index[c] : x = Pool(c)[index[c][k]]
                OBVIOUS
            <4>2. index[c][k] \in T(c)
                BY DEF Range
            <4>3. QED BY <4>1, <4>2 DEF Picked
        <3>2. ASSUME NEW x \in Picked(c, T(c)) PROVE x \in held(c)
            <4>1. PICK i \in T(c) : x = Pool(c)[i]
                BY <3>2 DEF Picked
            <4>2. PICK k \in DOMAIN index[c] : i = index[c][k]
                BY <4>1 DEF Range
            <4>3. QED BY <4>1, <4>2
        <3> HIDE DEF held
        <3>3. QED BY <3>1, <3>2
    <2>2. Base = Required \cup UNION { held(c) : c \in Category }
        BY DEF Base
    <2> HIDE DEF held, T
    <2>3. UNION { held(c) : c \in Category } = UNION { Picked(c, T(c)) : c \in Category }
        BY <2>1
    <2>4. QED BY <2>2, <2>3
<1> HIDE DEF T
<1>4. \A c \in Category : /\ Picked(c, T(c)) \in SUBSET InCategory(Optional, c)
                          /\ Cardinality(Picked(c, T(c))) = Cardinality(T(c))
                          /\ \A i \in 1..Len(Pool(c)) : Pool(c)[i] \in Picked(c, T(c)) <=> i \in T(c)
    BY <1>1, <1>2, PickedFacts
<1>5. Required \in SUBSET Block /\ Optional = Block \ Required
    BY <1>1, BatchFacts DEF Required, Optional
<1>6. Base \ Required = UNION { Picked(c, T(c)) : c \in Category }
    <2>1. \A c \in Category : \A b \in Picked(c, T(c)) : b \notin Required
        BY <1>4, <1>5 DEF InCategory
    <2>2. QED BY <1>3, <2>1
<1>7. \A c \in Category : InCategory(Base \ Required, c) = Picked(c, T(c))
    <2> SUFFICES ASSUME NEW c \in Category PROVE InCategory(Base \ Required, c) = Picked(c, T(c))
        OBVIOUS
    <2>1. \A d \in Category : \A b \in Picked(d, T(d)) : batch.category[b] = d
        BY <1>4 DEF InCategory
    <2>2. \A b \in Picked(c, T(c)) : b \in Base \ Required
        BY <1>6
    <2>3. \A b \in Base \ Required : \E d \in Category : b \in Picked(d, T(d))
        BY <1>6
    <2>4. QED BY <2>1, <2>2, <2>3 DEF InCategory
<1>8. Base \in HardBases
    <2>1. \A c \in Category : CountIn(Base \ Required, c) = Needed(c)
        BY <1>2, <1>4, <1>7 DEF CountIn
    <2>2. \A b \in Base \ Required : b \in Block /\ batch.category[b] \in Category
        BY <1>4, <1>5, <1>6 DEF InCategory
    <2>3. Required \subseteq Base /\ Base \in Selection
        BY <1>3, <1>5, <2>2 DEF Selection
    <2>4. QED BY <2>1, <2>2, <2>3 DEF HardBases
<1>9. ASSUME NEW c \in Category PROVE PlacesIn(Base, c) = T(c)
    <2>1. \A i \in 1..Len(Pool(c)) : Pool(c)[i] \in InCategory(Optional, c)
        BY <1>1, PoolFacts
    <2>2. ASSUME NEW i \in 1..Len(Pool(c)) PROVE Pool(c)[i] \in Base <=> i \in T(c)
        <3>1. Pool(c)[i] \in Base <=> Pool(c)[i] \in InCategory(Base \ Required, c)
            BY <1>5, <2>1 DEF InCategory
        <3>2. QED BY <1>4, <1>7, <3>1
    <2>3. QED BY <1>2, <2>2 DEF PlacesIn
<1>10. QED BY <1>1, <1>8, <1>9 DEF T

\* A base is yielded when it is the first of those awaited.
LEMMA YieldBaseStep ==
    ASSUME NestInv, BasesInv, YieldBase
    PROVE  NestInv' /\ BasesInv' /\ IsFirst(Base, HardBases \ ToSet(bases), BaseBefore)
<1> DEFINE m == Len(Deficits)
<1>1. /\ batch \in Batches /\ phase = "start" /\ phase' = "advance" /\ level = m + 1 /\ level' = m
      /\ UNCHANGED << batch, index >> /\ m \in Nat /\ bases \in Seq(Selection)
      /\ bases' = Append(bases, Base)
    <2>1. batch \in Batches /\ level \in 1..(m + 1) /\ phase = "start" /\ bases \in Seq(Selection)
        BY DEF NestInv, YieldBase
    <2>2. m \in Nat
        BY <2>1, DeficitFacts
    <2>3. QED BY <2>1, <2>2 DEF YieldBase
<1>2. /\ Base \in HardBases
      /\ \A j \in 1..m : PlacesIn(Base, Deficits[j]) = Range(index[Deficits[j]])
    BY <1>1, HeldIsBase
<1>3. \A S \in HardBases : Awaited(S) <=> S = Base \/ Follows(S, m + 1, index)
    <2> SUFFICES ASSUME NEW S \in HardBases PROVE Awaited(S) <=> S = Base \/ Follows(S, m + 1, index)
        OBVIOUS
    <2>1. Awaited(S) <=> Agrees(S, m + 1, index) \/ Follows(S, m + 1, index)
        BY <1>1 DEF Awaited
    <2>2. Agrees(S, m + 1, index) <=> \A j \in 1..m : PlacesIn(S, Deficits[j]) = PlacesIn(Base, Deficits[j])
        BY <1>1, <1>2 DEF Agrees
    <2>3. Agrees(S, m + 1, index) => S = Base
        BY <1>1, <1>2, <2>2, SameBase
    <2>4. S = Base => Agrees(S, m + 1, index)
        BY <2>2
    <2>5. QED BY <2>1, <2>3, <2>4
<1>4. ~ Follows(Base, m + 1, index)
    <2>1. \A j \in 1..m : ~ Earlier(Range(index[Deficits[j]]), PlacesIn(Base, Deficits[j]))
        BY <1>2 DEF Earlier
    <2>2. QED BY <1>1, <2>1 DEF Follows
<1>5. \A S \in HardBases : Awaited(S)' <=> Follows(S, m + 1, index)
    BY <1>1, AwaitedNext
<1>6. ToSet(bases') = ToSet(bases) \cup {Base}
    BY <1>1, <1>2 DEF ToSet, HardBases
<1>7. BasesInv'
    <2>1. ToSet(bases') = { S \in HardBases : ~ Follows(S, m + 1, index) }
        BY <1>2, <1>3, <1>4, <1>6 DEF BasesInv
    <2>2. HardBases' = HardBases
        BY <1>1, BatchFixed
    <2>3. ToSet(bases)' = ToSet(bases')
        BY DEF ToSet
    <2>4. QED BY <1>5, <2>1, <2>2, <2>3 DEF BasesInv
<1>8. NestInv'
    <2>1. Running' = Running
        <3>1. Running' = { Deficits[j] : j \in 1..m }
            BY <1>1, BatchFixed DEF Running
        <3>2. Running = { Deficits[j] : j \in 1..(m + 1 - 1) } /\ m + 1 - 1 = m
            BY <1>1 DEF Running
        <3>3. QED BY <3>1, <3>2
    <2>2. \A c \in Category : (Needed(c) <= Len(Pool(c)))'
        BY <1>1, BatchFixed DEF NestInv
    <2>3. (level \in (IF phase = "start" THEN 1..(Len(Deficits) + 1) ELSE 0..Len(Deficits)))'
        BY <1>1, BatchFixed
    <2>4. ASSUME NEW c \in Category
          PROVE  (IF c \in Running THEN Combination(index[c], c) ELSE index[c] = <<>>)'
        <3>1. IF c \in Running THEN Combination(index[c], c) ELSE index[c] = <<>>
            BY <1>1 DEF NestInv
        <3>2. (Combination(index[c], c))' <=> Combination(index[c], c)
            BY <1>1, BatchFixed DEF Combination
        <3>3. QED BY <1>1, <2>1, <3>1, <3>2
    <2>5. (index = [c \in Category |-> index[c]])'
        BY <1>1 DEF NestInv
    <2>6. bases' \in Seq(Selection)
        BY <1>1, <1>2 DEF HardBases
    <2>7. QED BY <1>1, <2>2, <2>3, <2>4, <2>5, <2>6 DEF NestInv
<1>9. IsFirst(Base, HardBases \ ToSet(bases), BaseBefore)
    <2>1. HardBases \ ToSet(bases) = { S \in HardBases : Awaited(S) }
        BY DEF BasesInv
    <2>2. Base \in HardBases \ ToSet(bases)
        BY <1>2, <1>3, <2>1
    <2>3. ASSUME NEW S \in (HardBases \ ToSet(bases)) \ {Base} PROVE BaseBefore(Base, S)
        <3>1. S \in HardBases /\ Follows(S, m + 1, index)
            BY <1>3, <2>1, <2>3
        <3>2. PICK j \in 1..m : /\ Agrees(S, j, index)
                                /\ Earlier(Range(index[Deficits[j]]), PlacesIn(S, Deficits[j]))
            BY <1>1, <3>1 DEF Follows
        <3>3. /\ \A i \in 1..(j - 1) : PlacesIn(Base, Deficits[i]) = PlacesIn(S, Deficits[i])
              /\ Earlier(PlacesIn(Base, Deficits[j]), PlacesIn(S, Deficits[j]))
            BY <1>1, <1>2, <3>2 DEF Agrees
        <3>4. QED BY <1>1, <1>2, <3>1, <3>3, OrderOfBases
    <2>4. QED BY <2>2, <2>3 DEF IsFirst
<1>10. QED BY <1>7, <1>8, <1>9

\* At the end nothing is awaited.
LEMMA AllEndStep ==
    ASSUME NestInv, BasesInv, AllEnd
    PROVE  NestInv' /\ BasesInv' /\ HardBases \ ToSet(bases) = {}
<1>1. /\ phase = "advance" /\ level = 0 /\ phase' = "done" /\ UNCHANGED << batch, index, level, bases >>
    BY DEF AllEnd
<1>2. \A S : ~ Awaited(S) /\ ~ Awaited(S)'
    <2>1. \A S : ~ Follows(S, 0 + 1, index)
        BY DEF Follows
    <2>2. \A S : ~ Awaited(S)
        BY <1>1, <2>1 DEF Awaited
    <2>3. \A S : ~ Awaited(S)'
        BY <1>1, AwaitedNext
    <2>4. QED BY <2>2, <2>3
<1>3. ToSet(bases) = HardBases
    BY <1>2 DEF BasesInv
<1>4. HardBases' = HardBases /\ ToSet(bases)' = ToSet(bases)
    BY <1>1, BatchFixed DEF ToSet
<1>5. BasesInv'
    BY <1>2, <1>3, <1>4 DEF BasesInv
<1>6. NestInv'
    BY <1>1 DEF NestInv
<1>7. QED BY <1>3, <1>5, <1>6

LEMMA NestInit == BaseInit => NestInv /\ BasesInv
<1> SUFFICES ASSUME BaseInit PROVE NestInv /\ BasesInv
    OBVIOUS
<1>1. /\ batch \in Batches /\ level = 1 /\ bases = <<>> /\ index = [c \in Category |-> <<>>]
      /\ phase = IF \E c \in Category : CountIn(Optional, c) < Needed(c) THEN "done" ELSE "start"
    BY DEF BaseInit
<1>2. ToSet(bases) = {} /\ bases \in Seq(Selection)
    BY <1>1 DEF ToSet
<1>3. \A c \in Category : CountIn(Optional, c) \in Nat /\ Needed(c) \in Nat /\ Len(Pool(c)) = CountIn(Optional, c)
    BY <1>1, PoolFacts, CheapestForCount
<1>4. CASE phase = "done"
    <2>1. PICK c \in Category : CountIn(Optional, c) < Needed(c)
        BY <1>1, <1>4
    <2>2. ASSUME NEW S \in HardBases PROVE FALSE
        <3>1. S \ Required \in SUBSET Optional /\ Optional \in SUBSET Block /\ CountIn(S \ Required, c) = Needed(c)
            BY DEF HardBases, Selection, Optional, Required
        <3>2. CountIn(S \ Required, c) <= CountIn(Optional, c)
            BY <3>1, CountMonotone
        <3>3. QED BY <1>3, <2>1, <3>1, <3>2
    <2>3. QED BY <1>1, <1>2, <1>4, <2>2 DEF NestInv, BasesInv
<1>5. CASE phase = "start"
    <2>1. \A S : Awaited(S)
        BY <1>1, <1>5 DEF Awaited, Agrees
    <2>2. Len(Deficits) \in Nat
        BY <1>1, DeficitFacts
    <2>3. Running = {}
        BY <1>1, <1>5 DEF Running
    <2>4. \A c \in Category : Needed(c) <= Len(Pool(c))
        BY <1>1, <1>3, <1>5
    <2>5. NestInv
        BY <1>1, <1>2, <1>5, <2>2, <2>3, <2>4 DEF NestInv
    <2>6. QED BY <1>2, <2>1, <2>5 DEF BasesInv
<1>6. QED BY <1>1, <1>4, <1>5

LEMMA NestStep ==
    ASSUME NestInv, BasesInv, [BaseNext]_baseVars
    PROVE  NestInv' /\ BasesInv'
<1>1. ASSUME NestInv', \A S \in HardBases : Awaited(S)' <=> Awaited(S), UNCHANGED << batch, bases >>
      PROVE  BasesInv'
    <2>1. HardBases' = HardBases /\ ToSet(bases)' = ToSet(bases)
        BY <1>1, BatchFixed DEF ToSet
    <2>2. QED BY <1>1, <2>1 DEF BasesInv
<1>2. CASE StartGenerator
    BY <1>1, <1>2, StartGeneratorStep DEF StartGenerator
<1>3. CASE YieldBase
    BY <1>3, YieldBaseStep
<1>4. CASE AdvanceCombination
    BY <1>1, <1>4, AdvanceStep DEF AdvanceCombination
<1>5. CASE GeneratorEnds
    BY <1>1, <1>5, GeneratorEndsStep DEF GeneratorEnds
<1>6. CASE AllEnd
    BY <1>6, AllEndStep
<1>7. CASE UNCHANGED baseVars
    <2>1. UNCHANGED << batch, index, phase, level, bases >>
        BY <1>7 DEF baseVars
    <2>2. \A S : Awaited(S)' <=> Awaited(S)
        BY <2>1, AwaitedNext DEF Awaited
    <2>3. Running' = Running
        BY <2>1, BatchFixed DEF Running
    <2>4. \A c : (Combination(index[c], c))' <=> Combination(index[c], c)
        BY <2>1, BatchFixed DEF Combination
    <2>5. NestInv'
        BY <2>1, <2>3, <2>4, BatchFixed DEF NestInv
    <2>6. QED BY <1>1, <2>1, <2>2, <2>5
<1>8. QED BY <1>2, <1>3, <1>4, <1>5, <1>6, <1>7 DEF BaseNext

-----------------------------------------------------------------------------
(* The contract.                                                           *)

\* The contract speaks of the same bases and the same order.
LEMMA BaseTerms ==
    /\ BaseEnumeration!HardBases = HardBases
    /\ \A S, T : BaseEnumeration!BaseBefore(S, T) <=> BaseBefore(S, T)
<1>1. \A S, c : BaseEnumeration!InCategory(S, c) = InCategory(S, c)
    BY DEF BaseEnumeration!InCategory, InCategory
<1>2. \A S, c : BaseEnumeration!CountIn(S, c) = CountIn(S, c)
    BY <1>1 DEF BaseEnumeration!CountIn, BaseEnumeration!Cardinality, CountIn, Cardinality
<1>3. BaseEnumeration!Required = Required
    BY DEF BaseEnumeration!Required, Required
<1>4. \A c : BaseEnumeration!Needed(c) = Needed(c)
    BY <1>2, <1>3 DEF BaseEnumeration!Needed, Needed
<1>5. BaseEnumeration!HardBases = HardBases
    BY <1>2, <1>3, <1>4 DEF BaseEnumeration!HardBases, HardBases, BaseEnumeration!Selection, Selection
<1>6. \A a, b : BaseEnumeration!CheaperMinimum(a, b) <=> CheaperMinimum(a, b)
    BY DEF BaseEnumeration!CheaperMinimum, CheaperMinimum
<1>7. \A S, T : BaseEnumeration!BaseBefore(S, T) <=> BaseBefore(S, T)
    BY <1>1, <1>3, <1>6 DEF BaseEnumeration!BaseBefore, BaseBefore, BaseEnumeration!Lexicographic, Lexicographic
<1>8. QED BY <1>5, <1>7

BasesFinished == phase = "done"

\* One step of the generators is one step of the contract, or none.
LEMMA NestContractStep ==
    ASSUME NestInv, BasesInv, [BaseNext]_baseVars
    PROVE  [\/ BaseEnumeration!Finish(BaseEnumeration!HardBases)
            \/ \E S \in BaseEnumeration!Pending(BaseEnumeration!HardBases) :
                  BaseEnumeration!Yield(S, BaseEnumeration!HardBases, BaseEnumeration!BaseBefore)
           ]_<<batch, bases, BasesFinished>>
<1>1. CASE UNCHANGED << batch, bases >> /\ phase # "done" /\ phase' # "done"
    BY <1>1 DEF BasesFinished
<1>2. CASE YieldBase
    <2>1. phase = "start" /\ phase' = "advance" /\ batch' = batch /\ bases' = Append(bases, Base)
        BY <1>2 DEF YieldBase
    <2>2. IsFirst(Base, HardBases \ ToSet(bases), BaseBefore)
        BY <1>2, YieldBaseStep
    <2>3. Base \in BaseEnumeration!Pending(BaseEnumeration!HardBases)
        BY <2>2, BaseTerms DEF IsFirst, BaseEnumeration!Pending, BaseEnumeration!ToSet, ToSet
    <2>4. BaseEnumeration!Yield(Base, BaseEnumeration!HardBases, BaseEnumeration!BaseBefore)
        BY <2>1, <2>2, BaseTerms
           DEF IsFirst, BaseEnumeration!IsFirst, BaseEnumeration!Pending, BaseEnumeration!ToSet, ToSet,
               BaseEnumeration!Yield, BasesFinished
    <2>5. QED BY <2>3, <2>4
<1>3. CASE AllEnd
    <2>1. phase' = "done" /\ UNCHANGED << batch, bases >>
        BY <1>3 DEF AllEnd
    <2>2. HardBases \ ToSet(bases) = {}
        BY <1>3, AllEndStep
    <2>3. BaseEnumeration!Finish(BaseEnumeration!HardBases)
        BY <2>1, <2>2, BaseTerms
           DEF BaseEnumeration!Finish, BaseEnumeration!Pending, BaseEnumeration!ToSet, ToSet, BasesFinished
    <2>4. QED BY <2>3
<1>4. CASE StartGenerator \/ AdvanceCombination \/ GeneratorEnds
    BY <1>1, <1>4 DEF StartGenerator, AdvanceCombination, GeneratorEnds
<1>5. CASE UNCHANGED baseVars
    BY <1>5 DEF baseVars, BasesFinished
<1>6. QED BY <1>2, <1>3, <1>4, <1>5 DEF BaseNext

\* For every policy and batch the nested generators (#categoryDeficits,
\* combinations and cartesian) yield each minimal base exactly once, in the
\* documented order, and end only when none is left.
THEOREM BaseProductIsComplete == BaseSpec => ImplementsBaseOrder
<1>1. BaseInit => BaseEnumeration!Start(BaseEnumeration!HardBases)
    <2> SUFFICES ASSUME BaseInit PROVE BaseEnumeration!Start(BaseEnumeration!HardBases)
        OBVIOUS
    <2>1. batch \in Batches /\ bases = <<>> /\ ToSet(bases) = {}
        BY DEF BaseInit, ToSet
    <2>2. ASSUME phase = "done" PROVE HardBases = {}
        <3>1. NestInv /\ BasesInv
            BY NestInit
        <3>2. \A S : ~ Awaited(S)
            BY <2>2 DEF Awaited
        <3>3. QED BY <2>1, <3>1, <3>2 DEF BasesInv
    <2>3. QED BY <2>1, <2>2, BaseTerms DEF BaseEnumeration!Start
<1>2. NestInv /\ BasesInv /\ [BaseNext]_baseVars =>
        [\/ BaseEnumeration!Finish(BaseEnumeration!HardBases)
         \/ \E S \in BaseEnumeration!Pending(BaseEnumeration!HardBases) :
               BaseEnumeration!Yield(S, BaseEnumeration!HardBases, BaseEnumeration!BaseBefore)
        ]_<<batch, bases, BasesFinished>>
    BY NestContractStep
<1>3. NestInv /\ BasesInv /\ [BaseNext]_baseVars => (NestInv /\ BasesInv)'
    BY NestStep
<1>4. QED BY <1>1, <1>2, <1>3, NestInit, PTL DEF BaseSpec, ImplementsBaseOrder, BaseEnumeration!BasesInOrder, BasesFinished

=============================================================================
