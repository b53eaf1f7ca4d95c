------------------------ MODULE CompilerStagesProofs ------------------------
(***************************************************************************)
(* Theorems about CompilerStages, for every request, every tokenizer and   *)
(* every answer to a rendering.                                            *)
(*                                                                         *)
(*   CheckedInv   what the stages so far have not refused;                 *)
(*   OutputInv    what they handed on, a function of the request and of    *)
(*                what the tokenizer answered;                             *)
(*   FailureInv   what a failed compilation reports, and of which stage;   *)
(*   SettledInv   what the selection that was settled on contains;         *)
(*   RenderedInv  what was rendered, and                                   *)
(*   TracedInv    what the trace builder found in it and what was stored.  *)
(*                                                                         *)
(* The rest is about those functions: sorting, grouping, scoring.          *)
(***************************************************************************)
EXTENDS CompilerStages, TLAPS, FunctionTheorems, FiniteSetTheorems,
        SequenceTheorems, NaturalsInduction, WellFoundedInduction

-----------------------------------------------------------------------------
(* Sorting. *)

StrictOrder(R, D) ==
    /\ \A x \in D : << x, x >> \notin R
    /\ \A x, y \in D : x # y => << x, y >> \in R \/ << y, x >> \in R
    /\ \A x, y, z \in D : << x, y >> \in R /\ << y, z >> \in R => << x, z >> \in R

Ahead(R, D, x) == { y \in D : << y, x >> \in R }

\* An arrangement has every place, once.
LEMMA Arranges ==
    ASSUME NEW S, NEW T, NEW p \in Bijection(S, T)
    PROVE  /\ p \in [S -> T]
           /\ \A i, j \in S : p[i] = p[j] => i = j
           /\ \A k \in T : \E i \in S : p[i] = k
<1>1. p \in Injection(S, T) /\ p \in Surjection(S, T)
    BY DEF Bijection
<1>2. p \in [S -> T] /\ IsInjective(p)
    BY <1>1 DEF Injection
<1>3. \A k \in T : \E i \in S : p[i] = k
    BY <1>1 DEF Surjection
<1>4. QED BY <1>2, <1>3 DEF IsInjective

\* What has every place once is an arrangement.
LEMMA IsArrangement ==
    ASSUME NEW S, NEW T, NEW p \in [S -> T],
           \A i, j \in S : p[i] = p[j] => i = j,
           \A k \in T : \E i \in S : p[i] = k
    PROVE  p \in Bijection(S, T)
<1>1. p \in Injection(S, T)
    BY Fun_IsInj
<1>2. p \in Surjection(S, T)
    BY Fun_IsSurj
<1>3. QED BY <1>1, <1>2 DEF Bijection

\* What comes later has more ahead of it, and no two have as many: so some
\* member has k - 1 ahead of it, for every k.
LEMMA RankExists ==
    ASSUME NEW D, IsFiniteSet(D), NEW R, StrictOrder(R, D)
    PROVE  /\ Cardinality(D) \in Nat
           /\ \A x \in D : Cardinality(Ahead(R, D, x)) \in Nat
           /\ \A x, y \in D : << x, y >> \in R => Cardinality(Ahead(R, D, x)) < Cardinality(Ahead(R, D, y))
           /\ \A k \in 1..Cardinality(D) : \E x \in D : Cardinality(Ahead(R, D, x)) = k - 1
<1> DEFINE n == Cardinality(D)
           rank == [x \in D |-> Cardinality(Ahead(R, D, x)) + 1]
<1>1. n \in Nat
    BY FS_CardinalityType
<1>2. \A x \in D : Cardinality(Ahead(R, D, x)) \in 0..(n - 1)
    <2> SUFFICES ASSUME NEW x \in D PROVE Cardinality(Ahead(R, D, x)) \in 0..(n - 1)
        OBVIOUS
    <2>1. Ahead(R, D, x) \in SUBSET (D \ {x})
        BY DEF Ahead, StrictOrder
    <2>2. IsFiniteSet(D \ {x}) /\ Cardinality(D \ {x}) = n - 1
        BY FS_RemoveElement
    <2>3. IsFiniteSet(Ahead(R, D, x)) /\ Cardinality(Ahead(R, D, x)) <= n - 1
        BY <2>1, <2>2, FS_Subset
    <2>4. Cardinality(Ahead(R, D, x)) \in Nat
        BY <2>3, FS_CardinalityType
    <2>5. QED BY <1>1, <2>3, <2>4
<1>3. \A x, y \in D : << x, y >> \in R => Cardinality(Ahead(R, D, x)) < Cardinality(Ahead(R, D, y))
    <2> SUFFICES ASSUME NEW x \in D, NEW y \in D, << x, y >> \in R
                 PROVE  Cardinality(Ahead(R, D, x)) < Cardinality(Ahead(R, D, y))
        OBVIOUS
    <2>1. Ahead(R, D, x) \in SUBSET Ahead(R, D, y) /\ x \in Ahead(R, D, y) /\ x \notin Ahead(R, D, x)
        BY DEF Ahead, StrictOrder
    <2>2. Ahead(R, D, y) \in SUBSET D
        BY DEF Ahead
    <2>3. IsFiniteSet(Ahead(R, D, y))
        BY <2>2, FS_Subset
    <2>4. /\ Cardinality(Ahead(R, D, x)) <= Cardinality(Ahead(R, D, y))
          /\ Cardinality(Ahead(R, D, y)) = Cardinality(Ahead(R, D, x)) => Ahead(R, D, y) = Ahead(R, D, x)
        BY <2>1, <2>3, FS_Subset
    <2>5. Ahead(R, D, y) # Ahead(R, D, x)
        BY <2>1
    <2>6. Cardinality(Ahead(R, D, x)) # Cardinality(Ahead(R, D, y))
        BY <2>4, <2>5
    <2>7. Cardinality(Ahead(R, D, x)) \in Int /\ Cardinality(Ahead(R, D, y)) \in Int
        BY <1>2
    <2>8. QED BY <2>4, <2>6, <2>7
<1>4. rank \in Injection(D, 1..n)
    <2>1. rank \in [D -> 1..n]
        BY <1>1, <1>2
    <2>2. \A x, y \in D : rank[x] = rank[y] => x = y
        <3> SUFFICES ASSUME NEW x \in D, NEW y \in D, x # y PROVE rank[x] # rank[y]
            OBVIOUS
        <3>1. << x, y >> \in R \/ << y, x >> \in R
            BY DEF StrictOrder
        <3>2. \/ Cardinality(Ahead(R, D, x)) < Cardinality(Ahead(R, D, y))
              \/ Cardinality(Ahead(R, D, y)) < Cardinality(Ahead(R, D, x))
            BY <1>3, <3>1
        <3>3. QED BY <1>2, <3>2
    <2>3. QED BY <2>1, <2>2, Fun_IsInj
<1>5. rank \in Surjection(D, 1..n)
    <2>1. IsFiniteSet(1..n) /\ Cardinality(1..n) = n
        BY <1>1, FS_Interval
    <2> HIDE DEF rank, n
    <2> DEFINE T == 1..n
    <2>2. IsFiniteSet(T) /\ Cardinality(T) = Cardinality(D) /\ rank \in Injection(D, T)
        BY <1>4, <2>1 DEF n
    <2> HIDE DEF T
    <2>3. rank \in Surjection(D, T)
        BY <2>2, FS_Injection
    <2>4. QED BY <2>3 DEF T
<1>6. \A k \in 1..n : \E x \in D : rank[x] = k
    BY <1>5 DEF Surjection
<1>7. \A k \in 1..n : \E x \in D : Cardinality(Ahead(R, D, x)) = k - 1
    <2> SUFFICES ASSUME NEW k \in 1..n PROVE \E x \in D : Cardinality(Ahead(R, D, x)) = k - 1
        OBVIOUS
    <2>1. PICK x \in D : rank[x] = k
        BY <1>6
    <2>2. Cardinality(Ahead(R, D, x)) + 1 = k /\ Cardinality(Ahead(R, D, x)) \in Int
        BY <1>2, <2>1
    <2>3. QED BY <2>2
<1>8. QED BY <1>1, <1>2, <1>3, <1>7

\* To line up a finite set is to name each of its members once, in order.
LEMMA LinedArranges ==
    ASSUME NEW D, IsFiniteSet(D), NEW R, StrictOrder(R, D)
    PROVE  /\ Cardinality(D) \in Nat
           /\ Lined(D, R) \in Bijection(1..Cardinality(D), D)
           /\ \A a, b \in 1..Cardinality(D) : a < b => << Lined(D, R)[a], Lined(D, R)[b] >> \in R
<1> DEFINE n == Cardinality(D)
           p == Lined(D, R)
<1>1. n \in Nat
    BY RankExists
<1>2. p \in [1..n -> D] /\ \A k \in 1..n : Cardinality(Ahead(R, D, p[k])) = k - 1
    <2> DEFINE at(k) == CHOOSE x \in D : Cardinality(Ahead(R, D, x)) = k - 1
    <2>1. p = [k \in 1..n |-> at(k)]
        BY DEF Lined, Ahead
    <2>2. \A k \in 1..n : \E x \in D : Cardinality(Ahead(R, D, x)) = k - 1
        BY RankExists
    <2>3. \A k \in 1..n : at(k) \in D /\ Cardinality(Ahead(R, D, at(k))) = k - 1
        BY <2>2
    <2> HIDE DEF at, p
    <2>4. QED BY <2>1, <2>3
<1> HIDE DEF p, n
<1>3. \A a, b \in 1..n : p[a] = p[b] => a = b
    <2> SUFFICES ASSUME NEW a \in 1..n, NEW b \in 1..n, p[a] = p[b] PROVE a = b
        OBVIOUS
    <2>1. a - 1 = b - 1
        BY <1>2
    <2>2. QED BY <1>1, <2>1
<1>4. p \in Injection(1..n, D)
    BY <1>2, <1>3, Fun_IsInj
<1>5. p \in Surjection(1..n, D)
    <2>1. IsFiniteSet(1..n) /\ Cardinality(1..n) = n
        BY <1>1, FS_Interval
    <2> DEFINE S == 1..n
    <2>2. IsFiniteSet(S) /\ Cardinality(S) = Cardinality(D) /\ p \in Injection(S, D)
        BY <1>4, <2>1 DEF n
    <2> HIDE DEF S
    <2>3. p \in Surjection(S, D)
        BY <2>2, FS_Injection
    <2>4. QED BY <2>3 DEF S
<1>6. ASSUME NEW a \in 1..n, NEW b \in 1..n, a < b
      PROVE  << p[a], p[b] >> \in R
    <2>1. p[a] # p[b] /\ p[a] \in D /\ p[b] \in D
        BY <1>1, <1>2, <1>3, <1>6
    <2>2. CASE << p[b], p[a] >> \in R
        <3>1. Cardinality(Ahead(R, D, p[b])) < Cardinality(Ahead(R, D, p[a]))
            BY <2>1, <2>2, RankExists
        <3>2. b - 1 < a - 1
            BY <1>2, <3>1
        <3>3. QED BY <3>2, <1>1, <1>6
    <2>3. QED BY <2>1, <2>2 DEF StrictOrder
<1>7. p \in Bijection(1..n, D)
    BY <1>4, <1>5 DEF Bijection
<1>8. QED BY <1>1, <1>6, <1>7 DEF p, n

\* A weak order: asymmetric, and what lies between two comparable things is
\* comparable to one of them.
WeakOrder(order, D) ==
    /\ \A x, y \in D : << x, y >> \in order => << y, x >> \notin order
    /\ \A x, y, z \in D : << x, y >> \in order => << x, z >> \in order \/ << z, y >> \in order

\* Places in a weak order, ties in the order they stand in, are in a strict one.
LEMMA StableIsStrict ==
    ASSUME NEW D \in SUBSET Nat, NEW order, WeakOrder(order, D)
    PROVE  StrictOrder(Stable(D, order), D)
<1> DEFINE R == Stable(D, order)
<1>1. \A x, y \in D : << x, y >> \in R <=> << x, y >> \in order \/ (x < y /\ << y, x >> \notin order)
    BY DEF Stable
<1> HIDE DEF R
<1>2. \A x \in D : << x, x >> \notin R
    BY <1>1 DEF WeakOrder
<1>3. ASSUME NEW x \in D, NEW y \in D, x # y
      PROVE  << x, y >> \in R \/ << y, x >> \in R
    <2>1. x < y \/ y < x
        BY <1>3
    <2>2. << x, y >> \in order => << y, x >> \notin order
        BY DEF WeakOrder
    <2>3. QED BY <1>1, <2>1, <2>2
<1>4. ASSUME NEW x \in D, NEW y \in D, NEW z \in D, << x, y >> \in R, << y, z >> \in R
      PROVE  << x, z >> \in R
    <2>1. x \in Nat /\ y \in Nat /\ z \in Nat
        OBVIOUS
    <2>2. CASE << x, y >> \in order
        BY <1>1, <1>4, <2>2 DEF WeakOrder
    <2>3. CASE << x, y >> \notin order
        <3>1. x < y /\ << y, x >> \notin order
            BY <1>1, <1>4, <2>3
        <3>2. CASE << y, z >> \in order
            BY <1>1, <3>1, <3>2 DEF WeakOrder
        <3>3. CASE << y, z >> \notin order
            <4>1. y < z /\ << z, y >> \notin order
                BY <1>1, <1>4, <3>3
            <4>2. x < z
                BY <2>1, <3>1, <4>1
            <4>3. << z, x >> \notin order
                BY <3>1, <4>1 DEF WeakOrder
            <4>4. QED BY <1>1, <4>2, <4>3
        <3>4. QED BY <3>2, <3>3
    <2>4. QED BY <2>2, <2>3
<1>5. StrictOrder(R, D)
    BY <1>2, <1>3, <1>4 DEF StrictOrder
<1>6. QED BY <1>5 DEF R

\* What stands at some places of a sequence, in an order of the places: each of
\* them once, and none behind one it comes before.
LEMMA PickedPlaces ==
    ASSUME NEW s, NEW D \in SUBSET Nat, IsFiniteSet(D), NEW order, WeakOrder(order, D)
    PROVE  LET n == Cardinality(D)
               place == Lined(D, Stable(D, order))
           IN  /\ n \in Nat
               /\ place \in Bijection(1..n, D)
               /\ DOMAIN Picked(s, D, order) = 1..n
               /\ \A k \in 1..n : Picked(s, D, order)[k] = s[place[k]]
               /\ \A a, b \in 1..n : a < b => << place[a], place[b] >> \in Stable(D, order)
               /\ \A a, b \in 1..n : a < b => << place[b], place[a] >> \notin order
<1> DEFINE n == Cardinality(D)
           R == Stable(D, order)
           place == Lined(D, R)
<1>1. StrictOrder(R, D)
    BY StableIsStrict
<1>2. /\ n \in Nat
      /\ place \in Bijection(1..n, D)
      /\ \A a, b \in 1..n : a < b => << place[a], place[b] >> \in R
    <2> HIDE DEF R
    <2>1. QED BY <1>1, LinedArranges
<1>3. DOMAIN place = 1..n
    BY DEF Lined
<1>4. Picked(s, D, order) = [k \in 1..n |-> s[place[k]]]
    <2>1. Picked(s, D, order) = [k \in DOMAIN place |-> s[place[k]]]
        BY DEF Picked
    <2> HIDE DEF place
    <2>2. QED BY <1>3, <2>1
<1>5. \A x, y \in D : << x, y >> \in R => << y, x >> \notin order
    BY DEF WeakOrder, Stable
<1> HIDE DEF place, R
<1>6. \A a, b \in 1..n : a < b => << place[b], place[a] >> \notin order
    <2>1. place \in [1..n -> D]
        BY <1>2, Arranges
    <2>2. QED BY <1>2, <1>5, <2>1
<1>7. DOMAIN Picked(s, D, order) = 1..n /\ \A k \in 1..n : Picked(s, D, order)[k] = s[place[k]]
    BY <1>4
<1>8. QED BY <1>2, <1>7, <1>6 DEF place, R

\* What is counted from 1 to n is a sequence of that length.
LEMMA LenIsLast ==
    ASSUME NEW t, t = [k \in DOMAIN t |-> t[k]], NEW n \in Nat, DOMAIN t = 1..n
    PROVE  Len(t) = n /\ t \in Seq(Elements(t))
<1>1. t \in [1..n -> Elements(t)]
    BY DEF Elements
<1>2. Len(t) = n
    BY <1>1
<1>3. QED BY <1>1, <1>2

\* A selection of a sequence has the elements it stands for, and a length.
LEMMA PickedElements ==
    ASSUME NEW s, NEW D \in SUBSET Nat, IsFiniteSet(D), NEW order, WeakOrder(order, D)
    PROVE  /\ Cardinality(D) \in Nat
           /\ DOMAIN Picked(s, D, order) = 1..Cardinality(D)
           /\ Len(Picked(s, D, order)) = Cardinality(D)
           /\ Picked(s, D, order) \in Seq({ s[i] : i \in D })
           /\ Elements(Picked(s, D, order)) = { s[i] : i \in D }
<1> DEFINE n == Cardinality(D)
           t == Picked(s, D, order)
           N == 1..n
           place == Lined(D, Stable(D, order))
<1>1. /\ n \in Nat
      /\ place \in Bijection(N, D)
      /\ DOMAIN t = N
      /\ \A k \in N : t[k] = s[place[k]]
    <2>1. n \in Nat
        BY PickedPlaces
    <2>2. place \in Bijection(N, D)
        BY PickedPlaces
    <2>3. DOMAIN t = N
        BY PickedPlaces
    <2>4. \A k \in N : t[k] = s[place[k]]
        BY PickedPlaces
    <2>5. QED BY <2>1, <2>2, <2>3, <2>4
<1>2. t = [k \in DOMAIN t |-> t[k]]
    BY DEF Picked
<1> HIDE DEF t, n, place
<1>3. /\ place \in [N -> D]
      /\ \A i \in D : \E k \in N : place[k] = i
    <2> HIDE DEF N
    <2>1. QED BY <1>1, Arranges
<1>4. Elements(t) = { s[i] : i \in D }
    <2>1. \A k \in 1..n : t[k] = s[place[k]]
        BY <1>1
    <2>2. ASSUME NEW i \in D PROVE s[i] \in Elements(t)
        <3>1. PICK k \in 1..n : place[k] = i
            BY <1>3
        <3>2. t[k] = s[i] /\ k \in DOMAIN t
            BY <1>1, <2>1, <3>1
        <3>3. QED BY <3>2 DEF Elements
    <2>3. ASSUME NEW x \in Elements(t) PROVE x \in { s[i] : i \in D }
        <3>1. PICK k \in 1..n : x = t[k]
            BY <1>1 DEF Elements
        <3>2. x = s[place[k]] /\ place[k] \in D
            BY <1>3, <2>1, <3>1
        <3>3. QED BY <3>2
    <2>4. QED BY <2>2, <2>3
<1>5. Len(t) = n /\ t \in Seq(Elements(t))
    BY <1>1, <1>2, LenIsLast
<1>6. QED BY <1>1, <1>2, <1>4, <1>5 DEF t, n

\* Places of a sequence are finitely many natural numbers.
LEMMA PlacesFinite ==
    ASSUME NEW X, NEW s \in Seq(X), NEW D \in SUBSET DOMAIN s
    PROVE  D \in SUBSET Nat /\ IsFiniteSet(D)
<1>1. Len(s) \in Nat /\ DOMAIN s = 1..Len(s)
    OBVIOUS
<1>2. IsFiniteSet(1..Len(s))
    BY <1>1, FS_Interval
<1>3. IsFiniteSet(D)
    <2>1. D \in SUBSET (1..Len(s))
        BY <1>1
    <2>2. QED BY <1>2, <2>1, FS_Subset
<1>4. QED BY <1>1, <1>3

\* A sequence has finitely many elements.
LEMMA ElementsFinite ==
    ASSUME NEW X, NEW s \in Seq(X)
    PROVE  IsFiniteSet(Elements(s))
<1> DEFINE f == [i \in DOMAIN s |-> s[i]]
<1>1. IsFiniteSet(DOMAIN s)
    BY PlacesFinite
<1>2. f \in Surjection(DOMAIN s, Elements(s))
    <2>1. f \in [DOMAIN s -> Elements(s)]
        BY DEF Elements
    <2>2. \A x \in Elements(s) : \E i \in DOMAIN s : f[i] = x
        BY DEF Elements
    <2> HIDE DEF f
    <2>3. QED BY <2>1, <2>2, Fun_IsSurj
<1>3. QED BY <1>1, <1>2, FS_Surjection

\* To filter is to leave the elements that pass.
LEMMA FilterElements ==
    ASSUME NEW X, NEW s \in Seq(X), NEW D \in SUBSET DOMAIN s
    PROVE  /\ Picked(s, D, {}) \in Seq({ s[i] : i \in D })
           /\ Elements(Picked(s, D, {})) = { s[i] : i \in D }
           /\ Len(Picked(s, D, {})) = Cardinality(D)
<1>1. D \in SUBSET Nat /\ IsFiniteSet(D)
    BY PlacesFinite
<1>2. WeakOrder({}, D)
    BY DEF WeakOrder
<1>3. Picked(s, D, {}) \in Seq({ s[i] : i \in D })
    BY <1>1, <1>2, PickedElements
<1>4. Elements(Picked(s, D, {})) = { s[i] : i \in D }
    BY <1>1, <1>2, PickedElements
<1>5. Len(Picked(s, D, {})) = Cardinality(D)
    BY <1>1, <1>2, PickedElements
<1>6. QED BY <1>3, <1>4, <1>5

\* To sort is to keep the elements.
LEMMA SortElements ==
    ASSUME NEW X, NEW s \in Seq(X), NEW order, WeakOrder(order, DOMAIN s)
    PROVE  /\ Picked(s, DOMAIN s, order) \in Seq(Elements(s))
           /\ Elements(Picked(s, DOMAIN s, order)) = Elements(s)
           /\ Len(Picked(s, DOMAIN s, order)) = Len(s)
<1> DEFINE D == DOMAIN s
<1>1. D \in SUBSET Nat /\ IsFiniteSet(D)
    BY PlacesFinite
<1>2. Elements(s) = { s[i] : i \in D }
    BY DEF Elements
<1>3. Cardinality(D) = Len(s)
    <2>1. Len(s) \in Nat /\ D = 1..Len(s)
        OBVIOUS
    <2>2. QED BY <2>1, FS_Interval
<1> HIDE DEF D
<1>4. WeakOrder(order, D)
    BY DEF D
<1>5. Picked(s, D, order) \in Seq({ s[i] : i \in D })
    BY <1>1, <1>4, PickedElements
<1>6. Elements(Picked(s, D, order)) = { s[i] : i \in D }
    BY <1>1, <1>4, PickedElements
<1>7. Len(Picked(s, D, order)) = Cardinality(D)
    BY <1>1, <1>4, PickedElements
<1>8. QED BY <1>2, <1>3, <1>5, <1>6, <1>7 DEF D

\* Among places there is a first one.
LEMMA FirstPlace ==
    ASSUME NEW D \in SUBSET Nat, D # {}
    PROVE  \E c \in D : \A d \in D : c <= d
<1> DEFINE Below == { p \in Nat \X Nat : p[1] < p[2] }
<1>1. IsWellFoundedOn(Below, Nat)
    BY NatLessThanWellFounded, SMT DEF OpToRel
<1>2. PICK c \in D : \A d \in D : ~ (<<d, c>> \in Below)
    <2> HIDE DEF Below
    <2>1. QED BY <1>1, WFMin, Zenon
<1>3. ASSUME NEW d \in D PROVE c <= d
    <2>1. c \in Nat /\ d \in Nat /\ << d, c >> \notin Below
        BY <1>2
    <2>2. ~ (d < c)
        BY <2>1
    <2>3. QED BY <2>1, <2>2
<1>4. QED BY <1>3

DifferFirst(k, l, j) == k[j] # l[j] /\ \A h \in 1..(j - 1) : k[h] = l[h]

\* Keys of one length differ at a first place, or not at all.
LEMMA FirstDifference ==
    ASSUME NEW n \in Nat, NEW k \in [1..n -> Int], NEW l \in [1..n -> Int], NEW i \in 1..n, k[i] # l[i]
    PROVE  \E j \in 1..i : DifferFirst(k, l, j)
<1> DEFINE D == { j \in 1..i : k[j] # l[j] }
<1>1. D \in SUBSET Nat /\ i \in D
    OBVIOUS
<1>2. PICK j \in D : \A d \in D : j <= d
    BY <1>1, FirstPlace
<1>3. ASSUME NEW h \in 1..(j - 1) PROVE k[h] = l[h]
    <2>1. h \in 1..i /\ ~ (j <= h)
        BY <1>1, <1>2
    <2>2. h \notin D
        BY <1>2, <2>1
    <2>3. QED BY <2>1, <2>2
<1>4. QED BY <1>2, <1>3 DEF DifferFirst

\* Keys are compared place by place: a total order of the keys of one length.
LEMMA KeyOrder ==
    ASSUME NEW n \in Nat, NEW k \in [1..n -> Int], NEW l \in [1..n -> Int], NEW m \in [1..n -> Int]
    PROVE  /\ KeyBefore(k, l) => ~ KeyBefore(l, k)
           /\ KeyBefore(k, l) => KeyBefore(k, m) \/ KeyBefore(m, l)
           /\ ~ KeyBefore(k, l) /\ ~ KeyBefore(l, k) => k = l
<1>0. DOMAIN k = 1..n /\ DOMAIN l = 1..n /\ DOMAIN m = 1..n
    OBVIOUS
<1>1. ASSUME KeyBefore(k, l), KeyBefore(l, k) PROVE FALSE
    <2>1. PICK i \in 1..n : k[i] < l[i] /\ \A j \in 1..(i - 1) : k[j] = l[j]
        BY <1>0, <1>1 DEF KeyBefore
    <2>2. PICK h \in 1..n : l[h] < k[h] /\ \A j \in 1..(h - 1) : l[j] = k[j]
        BY <1>0, <1>1 DEF KeyBefore
    <2>3. k[i] \in Int /\ l[i] \in Int /\ k[h] \in Int /\ l[h] \in Int
        OBVIOUS
    <2>4. CASE i < h
        BY <2>1, <2>2, <2>3, <2>4
    <2>5. CASE h < i
        BY <2>1, <2>2, <2>3, <2>5
    <2>6. CASE i = h
        BY <2>1, <2>2, <2>3, <2>6
    <2>7. QED BY <2>4, <2>5, <2>6
<1>2. ASSUME KeyBefore(k, l) PROVE KeyBefore(k, m) \/ KeyBefore(m, l)
    <2>1. PICK i \in 1..n : k[i] < l[i] /\ \A j \in 1..(i - 1) : k[j] = l[j]
        BY <1>0, <1>2 DEF KeyBefore
    <2>2. CASE \A j \in 1..(i - 1) : k[j] = m[j]
        <3>1. CASE k[i] < m[i]
            BY <1>0, <2>2, <3>1 DEF KeyBefore
        <3>2. CASE ~ (k[i] < m[i])
            <4>1. k[i] \in Int /\ l[i] \in Int /\ m[i] \in Int
                OBVIOUS
            <4>2. m[i] < l[i]
                BY <2>1, <3>2, <4>1
            <4>3. \A j \in 1..(i - 1) : m[j] = l[j]
                BY <2>1, <2>2
            <4>4. QED BY <1>0, <4>2, <4>3 DEF KeyBefore
        <3>3. QED BY <3>1, <3>2
    <2>3. CASE \E j \in 1..(i - 1) : k[j] # m[j]
        <3>1. PICK j \in 1..(i - 1) : k[j] # m[j]
            BY <2>3
        <3>2. j \in 1..n
            OBVIOUS
        <3>3. PICK h \in 1..j : DifferFirst(k, m, h)
            BY <3>1, <3>2, FirstDifference
        <3>4. h \in 1..n /\ h \in 1..(i - 1)
            BY <3>2
        <3>5. k[h] \in Int /\ m[h] \in Int /\ l[h] = k[h]
            BY <2>1, <3>4
        <3>6. CASE k[h] < m[h]
            BY <1>0, <3>3, <3>4, <3>6 DEF KeyBefore, DifferFirst
        <3>7. CASE m[h] < k[h]
            <4>1. \A g \in 1..(h - 1) : m[g] = l[g]
                BY <2>1, <3>3, <3>4 DEF DifferFirst
            <4>2. m[h] < l[h]
                BY <3>5, <3>7
            <4>3. QED BY <1>0, <3>4, <4>1, <4>2 DEF KeyBefore
        <3>8. QED BY <3>3, <3>5, <3>6, <3>7 DEF DifferFirst
    <2>4. QED BY <2>2, <2>3
<1>3. ASSUME ~ KeyBefore(k, l), ~ KeyBefore(l, k) PROVE k = l
    <2> SUFFICES ASSUME NEW i \in 1..n, k[i] # l[i] PROVE FALSE
        OBVIOUS
    <2>1. PICK h \in 1..i : DifferFirst(k, l, h)
        BY FirstDifference
    <2>2. h \in 1..n
        OBVIOUS
    <2>3. k[h] < l[h] \/ l[h] < k[h]
        BY <2>1, <2>2 DEF DifferFirst
    <2>4. KeyBefore(k, l) \/ KeyBefore(l, k)
        BY <1>0, <2>1, <2>2, <2>3 DEF KeyBefore, DifferFirst
    <2>5. QED BY <1>3, <2>4
<1>4. QED BY <1>1, <1>2, <1>3

-----------------------------------------------------------------------------
(* What a batch of wrappers is made of. *)

\* An option that is present has its one value.
LEMMA TheOption ==
    ASSUME NEW option, option # {}
    PROVE  The(option) \in option
    BY DEF The

\* A wrapper is compared by three numbers.
LEMMA RetrievalKeys ==
    ASSUME NEW w, WrapperShape(w)
    PROVE  RetrievalKey(w) \in [1..3 -> Int]
<1> DEFINE r == The(w.retrieval)
<1>1. CASE w.retrieval = {}
    <2>1. RetrievalKey(w) = << 0, 0, 0 >>
        BY <1>1 DEF RetrievalKey
    <2>2. QED BY <2>1
<1>2. CASE w.retrieval # {}
    <2>1. r \in w.retrieval
        BY <1>2, TheOption
    <2>2. r.contract \in Nat /\ OptionOf(r.score, Int)
        BY <2>1 DEF WrapperShape, RetrievalShape
    <2>3. r.score # {} => The(r.score) \in Int
        BY <2>2, TheOption DEF OptionOf
    <2>4. RetrievalKey(w) = IF r.score = {} THEN << 1, r.contract, 0 >> ELSE << 2, r.contract, The(r.score) >>
        BY <1>2 DEF RetrievalKey
    <2> HIDE DEF r
    <2>5. QED BY <2>2, <2>3, <2>4
<1>3. QED BY <1>1, <1>2

\* The order of wrappers is a weak one.
LEMMA WrapperOrder ==
    ASSUME NEW u, WrapperShape(u), NEW v, WrapperShape(v), NEW w, WrapperShape(w)
    PROVE  /\ WrapperBefore(u, v) => ~ WrapperBefore(v, u)
           /\ WrapperBefore(u, v) => WrapperBefore(u, w) \/ WrapperBefore(w, v)
<1> DEFINE k == RetrievalKey(u)
           l == RetrievalKey(v)
           m == RetrievalKey(w)
<1>1. k \in [1..3 -> Int] /\ l \in [1..3 -> Int] /\ m \in [1..3 -> Int]
    BY RetrievalKeys
<1>2. u.block.id \in Nat /\ v.block.id \in Nat /\ w.block.id \in Nat
    BY DEF WrapperShape, BlockShape
<1> HIDE DEF k, l, m
<1>3. /\ KeyBefore(k, l) => ~ KeyBefore(l, k)
      /\ KeyBefore(k, l) => KeyBefore(k, m) \/ KeyBefore(m, l)
    <2>1. 3 \in Nat
        OBVIOUS
    <2>2. QED BY <1>1, <2>1, KeyOrder
<1>4. QED BY <1>2, <1>3 DEF WrapperBefore, k, l, m

\* The wrappers of a batch.
IsBatch(candidates) ==
    /\ candidates \in Seq(Elements(candidates))
    /\ \A w \in Elements(candidates) : WrapperShape(w)

PlacesOf(candidates, key) == { i \in DOMAIN candidates : GroupKey(candidates[i]) = key }
Under(candidates, key)    == { w \in Elements(candidates) : GroupKey(w) = key }

\* The members of a group are the wrappers under its key, as a list of them.
LEMMA MembersUnderKey ==
    ASSUME NEW candidates, IsBatch(candidates), NEW key
    PROVE  /\ MembersOf(candidates, key) \in Seq(Under(candidates, key))
           /\ Elements(MembersOf(candidates, key)) = Under(candidates, key)
<1> DEFINE D == PlacesOf(candidates, key)
<1>1. MembersOf(candidates, key) = Picked(candidates, D, {})
    BY DEF MembersOf, Filtered, PlacesOf
<1>2. D \in SUBSET DOMAIN candidates
    BY DEF PlacesOf
<1>3. { candidates[i] : i \in D } = Under(candidates, key)
    BY DEF PlacesOf, Under, Elements
<1>4. candidates \in Seq(Elements(candidates))
    BY DEF IsBatch
<1> HIDE DEF D
<1>5. /\ Picked(candidates, D, {}) \in Seq({ candidates[i] : i \in D })
      /\ Elements(Picked(candidates, D, {})) = { candidates[i] : i \in D }
    BY <1>2, <1>4, FilterElements
<1>6. QED BY <1>1, <1>3, <1>5

\* The order of the members of a group, as a relation between their places.
WrapperOrderOf(ws) == { q \in (DOMAIN ws) \X (DOMAIN ws) : WrapperBefore(ws[q[1]], ws[q[2]]) }

\* The order of the members is a weak one: wrappers that tie stay as they are.
LEMMA WrappersWeak ==
    ASSUME NEW ws, \A i \in DOMAIN ws : WrapperShape(ws[i])
    PROVE  WeakOrder(WrapperOrderOf(ws), DOMAIN ws)
<1>1. \A i, j \in DOMAIN ws : << i, j >> \in WrapperOrderOf(ws) <=> WrapperBefore(ws[i], ws[j])
    BY DEF WrapperOrderOf
<1>2. ASSUME NEW x \in DOMAIN ws, NEW y \in DOMAIN ws, WrapperBefore(ws[x], ws[y])
      PROVE  ~ WrapperBefore(ws[y], ws[x])
    BY <1>2, WrapperOrder
<1>3. ASSUME NEW x \in DOMAIN ws, NEW y \in DOMAIN ws, NEW z \in DOMAIN ws, WrapperBefore(ws[x], ws[y])
      PROVE  WrapperBefore(ws[x], ws[z]) \/ WrapperBefore(ws[z], ws[y])
    BY <1>3, WrapperOrder
<1>4. QED BY <1>1, <1>2, <1>3 DEF WeakOrder

\* A group holds the wrappers of the batch that have its key, and no others.
LEMMA GroupHolds ==
    ASSUME NEW candidates, IsBatch(candidates), NEW key
    PROVE  WrappersOf(GroupFor(candidates, key)) = Under(candidates, key)
<1> DEFINE ms     == MembersOf(candidates, key)
           sorted == Sorted(ms, WrapperBefore)
           g      == GroupFor(candidates, key)
<1>1. ms \in Seq(Under(candidates, key)) /\ Elements(ms) = Under(candidates, key)
    BY MembersUnderKey
<1>2. \A i \in DOMAIN ms : WrapperShape(ms[i])
    <2>1. \A i \in DOMAIN ms : ms[i] \in Under(candidates, key)
        BY <1>1 DEF Elements
    <2>2. QED BY <2>1 DEF Under, IsBatch
<1>3. sorted = Picked(ms, DOMAIN ms, WrapperOrderOf(ms))
    BY DEF Sorted, WrapperOrderOf
<1>4. Elements(sorted) = Elements(ms)
    <2> HIDE DEF ms, sorted
    <2>1. WeakOrder(WrapperOrderOf(ms), DOMAIN ms)
        BY <1>2, WrappersWeak
    <2>2. Elements(Picked(ms, DOMAIN ms, WrapperOrderOf(ms))) = Elements(ms)
        BY <1>1, <2>1, SortElements
    <2>3. QED BY <1>3, <2>2
<1>5. DOMAIN g.members = DOMAIN sorted /\ \A i \in DOMAIN sorted : g.members[i].candidate = sorted[i]
    BY DEF GroupFor
<1> HIDE DEF sorted, g, ms
<1>6. WrappersOf(g) = Elements(sorted)
    BY <1>5 DEF WrappersOf, Elements
<1>7. QED BY <1>1, <1>4, <1>6 DEF g

-----------------------------------------------------------------------------
(* What validation leaves of a batch. *)

\* The declared hashes are the hashes of the texts, and an identifier stands for
\* one block.
IsSound(candidates) ==
    /\ IsBatch(candidates)
    /\ \A w \in Elements(candidates) : w.block.hash = Normal[w.block.content]
    /\ \A v, w \in Elements(candidates) : v.block.id = w.block.id => v.block = w.block

\* The blocks of a batch are finitely many.
LEMMA BlocksFinite ==
    ASSUME NEW ws, IsFiniteSet(ws)
    PROVE  IsFiniteSet(BlocksOf(ws))
<1> DEFINE f == [w \in ws |-> BlockOf(w)]
<1>1. f \in Surjection(ws, BlocksOf(ws))
    <2>1. f \in [ws -> BlocksOf(ws)]
        BY DEF BlocksOf
    <2>2. \A b \in BlocksOf(ws) : \E w \in ws : f[w] = b
        BY DEF BlocksOf
    <2> HIDE DEF f
    <2>3. QED BY <2>1, <2>2, Fun_IsSurj
<1>2. QED BY <1>1, FS_Surjection

\* A batch nothing is wrong with is sound.
LEMMA ValidatedIsSound ==
    ASSUME NEW scope, NEW docs, NEW counts, NEW candidates, IsBatch(candidates),
           ValidationIssues(scope, docs, counts, candidates) = {}
    PROVE  IsSound(candidates)
<1>1. CandidateIssues(scope, docs, counts, candidates) = {}
    BY DEF ValidationIssues
<1>2. ConflictingIds(candidates) = {}
    BY DEF ValidationIssues
<1>3. ASSUME NEW w \in Elements(candidates) PROVE w.block.hash = Normal[w.block.content]
    <2>1. PICK i \in DOMAIN candidates : w = candidates[i]
        BY DEF Elements
    <2>2. BlockIssues(scope, docs, counts, w.block) = {}
        <3> DEFINE at(k) == { Issue(code, "candidates", k) : code \in BlockIssues(scope, docs, counts, candidates[k].block) }
        <3>1. at(i) = {}
            <4>1. CandidateIssues(scope, docs, counts, candidates) = UNION { at(k) : k \in DOMAIN candidates }
                BY DEF CandidateIssues
            <4> HIDE DEF at
            <4>2. QED BY <1>1, <2>1, <4>1
        <3>2. QED BY <2>1, <3>1
    <2>3. ContentIssues(counts, w.block) = {}
        BY <2>2 DEF BlockIssues
    <2>4. ~ HashMismatch(w.block)
        BY <2>3 DEF ContentIssues
    <2>5. QED BY <2>4 DEF HashMismatch
<1>4. ASSUME NEW v \in Elements(candidates), NEW w \in Elements(candidates), v.block.id = w.block.id
      PROVE  v.block = w.block
    <2> DEFINE id     == v.block.id
               blocks == BlocksOf(Elements(candidates))
               same   == { b \in blocks : b.id = id }
    <2>1. v.block \in same /\ w.block \in same /\ id \in IdsOf(blocks)
        BY <1>4 DEF BlocksOf, BlockOf, IdsOf
    <2>2. ~ (Cardinality(same) > 1)
        BY <1>2, <2>1 DEF ConflictingIds
    <2>3. IsFiniteSet(same)
        <3>1. IsFiniteSet(Elements(candidates))
            BY ElementsFinite DEF IsBatch
        <3>2. IsFiniteSet(blocks)
            BY <3>1, BlocksFinite
        <3>3. same \in SUBSET blocks
            OBVIOUS
        <3>4. QED BY <3>2, <3>3, FS_Subset
    <2> HIDE DEF same, id, blocks
    <2>4. CASE v.block # w.block
        <3> DEFINE pair == {v.block, w.block}
        <3>1. pair \in SUBSET same
            BY <2>1
        <3>2. Cardinality(pair) = 2
            <4>1. IsFiniteSet({v.block}) /\ Cardinality({v.block}) = 1
                BY FS_Singleton
            <4>2. Cardinality({v.block} \cup {w.block}) = Cardinality({v.block}) + 1
                BY <2>4, <4>1, FS_AddElement
            <4>3. pair = {v.block} \cup {w.block}
                OBVIOUS
            <4>4. QED BY <4>1, <4>2, <4>3
        <3> HIDE DEF pair
        <3>3. Cardinality(pair) <= Cardinality(same)
            BY <2>3, <3>1, FS_Subset
        <3>4. Cardinality(same) \in Nat
            BY <2>3, FS_CardinalityType
        <3>5. QED BY <2>2, <3>2, <3>3, <3>4
    <2>5. QED BY <2>4
<1>5. QED BY <1>3, <1>4 DEF IsSound

\* Of blocks with an identifier each, one has the lowest.
LEMMA LowestIdIs ==
    ASSUME NEW blocks, blocks # {}, \A b \in blocks : b.id \in Nat
    PROVE  LowestId(blocks) \in blocks /\ \A c \in blocks : LowestId(blocks).id <= c.id
<1> DEFINE D == { b.id : b \in blocks }
<1>1. D \in SUBSET Nat /\ D # {}
    OBVIOUS
<1>2. PICK c \in D : \A d \in D : c <= d
    BY <1>1, FirstPlace
<1>3. PICK b \in blocks : b.id = c
    OBVIOUS
<1>4. \A d \in blocks : b.id <= d.id
    BY <1>2, <1>3
<1>5. QED BY <1>4 DEF LowestId

\* The canonical block is one of the blocks, and required if one of them is.
LEMMA CanonicalIs ==
    ASSUME NEW blocks, blocks # {}, \A b \in blocks : b.id \in Nat
    PROVE  /\ Canonical(blocks) \in blocks
           /\ (\E b \in blocks : b.required) => Canonical(blocks).required
<1> DEFINE required == { b \in blocks : b.required }
<1>1. CASE required # {}
    <2>1. \A b \in required : b.id \in Nat
        OBVIOUS
    <2> HIDE DEF required
    <2>2. LowestId(required) \in required
        BY <1>1, <2>1, LowestIdIs
    <2> USE DEF required
    <2>3. QED BY <1>1, <2>2 DEF Canonical
<1>2. CASE required = {}
    <2>1. LowestId(blocks) \in blocks
        BY LowestIdIs
    <2>2. QED BY <1>2, <2>1 DEF Canonical
<1>3. QED BY <1>1, <1>2

\* The blocks that come first under their identifiers are all of them when an
\* identifier stands for one block.
LEMMA BlocksByIdAre ==
    ASSUME NEW X, NEW members \in Seq(X),
           \A v, w \in Elements(members) : v.block.id = w.block.id => v.block = w.block
    PROVE  BlocksById(members) = BlocksOf(Elements(members))
<1> DEFINE first(j) == \A k \in 1..(j - 1) : members[k].block.id # members[j].block.id
<1>1. ASSUME NEW b \in BlocksById(members) PROVE b \in BlocksOf(Elements(members))
    BY DEF BlocksById, BlocksOf, BlockOf, Elements
<1>2. ASSUME NEW b \in BlocksOf(Elements(members)) PROVE b \in BlocksById(members)
    <2>1. PICK i \in DOMAIN members : b = members[i].block
        BY DEF BlocksOf, BlockOf, Elements
    <2> DEFINE D == { j \in DOMAIN members : members[j].block.id = members[i].block.id }
    <2>2. D \in SUBSET Nat /\ D # {}
        OBVIOUS
    <2>3. PICK j \in D : \A d \in D : j <= d
        BY <2>2, FirstPlace
    <2>4. j \in DOMAIN members /\ members[j].block.id = members[i].block.id
        OBVIOUS
    <2>5. first(j)
        <3> SUFFICES ASSUME NEW k \in 1..(j - 1) PROVE members[k].block.id # members[j].block.id
            OBVIOUS
        <3>1. k \in DOMAIN members /\ ~ (j <= k)
            BY <2>4
        <3>2. k \notin D
            BY <2>3, <3>1
        <3>3. QED BY <2>4, <3>1, <3>2
    <2>6. members[j].block = b
        BY <2>1, <2>4 DEF Elements
    <2>7. QED BY <2>4, <2>5, <2>6 DEF BlocksById
<1>3. QED BY <1>1, <1>2

\* The group of a wrapper is represented by the block of a wrapper with its key,
\* and by a required one if there is one.
LEMMA GroupRepresented ==
    ASSUME NEW candidates, IsSound(candidates), NEW u \in Elements(candidates)
    PROVE  LET g == GroupFor(candidates, GroupKey(u))
           IN  /\ \E v \in Under(candidates, GroupKey(u)) : g.canonical = v.block
               /\ (\E v \in Under(candidates, GroupKey(u)) : v.block.required) => g.canonical.required
<1> DEFINE key == GroupKey(u)
           ms  == MembersOf(candidates, key)
           g   == GroupFor(candidates, key)
<1>1. ms \in Seq(Under(candidates, key)) /\ Elements(ms) = Under(candidates, key)
    BY MembersUnderKey DEF IsSound
<1>2. \A v, w \in Under(candidates, key) : v.block.id = w.block.id => v.block = w.block
    BY DEF IsSound, Under
<1>3. g.canonical = Canonical(BlocksById(ms))
    BY DEF GroupFor
<1>4. u \in Under(candidates, key)
    BY DEF Under
<1>5. \A v \in Under(candidates, key) : v.block.id \in Nat
    BY DEF Under, IsSound, IsBatch, WrapperShape, BlockShape
<1> DEFINE blocks == BlocksOf(Under(candidates, key))
<1>6. BlocksById(ms) = blocks
    <2> HIDE DEF ms, key
    <2>1. QED BY <1>1, <1>2, BlocksByIdAre
<1>7. \A b \in blocks : \E v \in Under(candidates, key) : b = v.block
    BY DEF BlocksOf, BlockOf
<1>8. \A v \in Under(candidates, key) : v.block \in blocks
    BY DEF BlocksOf, BlockOf
<1> HIDE DEF blocks, g, ms, key
<1>9. blocks # {} /\ \A b \in blocks : b.id \in Nat
    BY <1>4, <1>5, <1>7, <1>8
<1>10. Canonical(blocks) \in blocks /\ ((\E b \in blocks : b.required) => Canonical(blocks).required)
    BY <1>9, CanonicalIs
<1>11. /\ \E v \in Under(candidates, key) : g.canonical = v.block
       /\ (\E v \in Under(candidates, key) : v.block.required) => g.canonical.required
    BY <1>3, <1>6, <1>7, <1>8, <1>10
<1>12. QED BY <1>11 DEF g, key

GroupsOf(candidates) == { GroupFor(candidates, GroupKey(w)) : w \in Elements(candidates) }

\* Two groups with canonical blocks of one identifier are one group.
LEMMA GroupsDiffer ==
    ASSUME NEW candidates, IsSound(candidates), NEW g \in GroupsOf(candidates), NEW h \in GroupsOf(candidates),
           g.canonical.id = h.canonical.id
    PROVE  g = h
<1>1. PICK u \in Elements(candidates) : g = GroupFor(candidates, GroupKey(u))
    BY DEF GroupsOf
<1>2. PICK v \in Elements(candidates) : h = GroupFor(candidates, GroupKey(v))
    BY DEF GroupsOf
<1>3. PICK x \in Under(candidates, GroupKey(u)) : g.canonical = x.block
    BY <1>1, GroupRepresented
<1>4. PICK y \in Under(candidates, GroupKey(v)) : h.canonical = y.block
    BY <1>2, GroupRepresented
<1>5. x.block = y.block
    BY <1>3, <1>4 DEF IsSound, Under
<1>6. GroupKey(x) = GroupKey(y)
    BY <1>5 DEF GroupKey
<1>7. GroupKey(u) = GroupKey(v)
    BY <1>3, <1>4, <1>6 DEF Under
<1>8. QED BY <1>1, <1>2, <1>7

\* The identifier of a canonical block is a number.
LEMMA CanonicalIds ==
    ASSUME NEW candidates, IsSound(candidates), NEW g \in GroupsOf(candidates)
    PROVE  /\ g.canonical.id \in Nat
           /\ \E w \in Elements(candidates) : g.canonical = w.block
<1>1. PICK u \in Elements(candidates) : g = GroupFor(candidates, GroupKey(u))
    BY DEF GroupsOf
<1>2. PICK x \in Under(candidates, GroupKey(u)) : g.canonical = x.block
    BY <1>1, GroupRepresented
<1>3. QED BY <1>2 DEF Under, IsSound, IsBatch, WrapperShape, BlockShape

\* Deduplication lists the groups of the batch, each once.
LEMMA DeduplicateLists ==
    ASSUME NEW candidates, IsSound(candidates)
    PROVE  LET n == Cardinality(GroupsOf(candidates))
           IN  /\ n \in Nat
               /\ DOMAIN Deduplicate(candidates) = 1..n
               /\ Deduplicate(candidates) \in Bijection(1..n, GroupsOf(candidates))
               /\ Elements(Deduplicate(candidates)) = GroupsOf(candidates)
<1> DEFINE G == GroupsOf(candidates)
           R == { q \in G \X G : GroupBefore(q[1], q[2]) }
           n == Cardinality(G)
           p == Deduplicate(candidates)
           f == [w \in Elements(candidates) |-> GroupFor(candidates, GroupKey(w))]
<1>1. IsFiniteSet(G)
    <2>1. IsFiniteSet(Elements(candidates))
        BY ElementsFinite DEF IsSound, IsBatch
    <2>2. f \in Surjection(Elements(candidates), G)
        <3>1. f \in [Elements(candidates) -> G]
            BY DEF GroupsOf
        <3>2. \A x \in G : \E w \in Elements(candidates) : f[w] = x
            BY DEF GroupsOf
        <3> HIDE DEF f, G
        <3>3. QED BY <3>1, <3>2, Fun_IsSurj
    <2>3. QED BY <2>1, <2>2, FS_Surjection
<1>2. \A g, h \in G : << g, h >> \in R <=> g.canonical.id < h.canonical.id
    <2>1. ASSUME NEW g \in G, NEW h \in G, GroupBefore(g, h) PROVE g.canonical.id < h.canonical.id
        <3>1. CASE g.canonical.id = h.canonical.id
            <4>1. g = h
                BY <3>1, GroupsDiffer
            <4>2. \E w \in Elements(candidates) : g.canonical = w.block
                BY CanonicalIds
            <4>3. Normal[g.canonical.content] \in Nat
                BY <4>2, ContentAssumption DEF IsSound, IsBatch, WrapperShape, BlockShape
            <4>4. QED BY <2>1, <4>1, <4>3 DEF GroupBefore
        <3>2. QED BY <2>1, <3>1 DEF GroupBefore
    <2>2. \A g, h \in G : << g, h >> \in R <=> GroupBefore(g, h)
        OBVIOUS
    <2>3. QED BY <2>1, <2>2 DEF GroupBefore
<1>3. StrictOrder(R, G)
    <2>1. \A g \in G : g.canonical.id \in Nat
        BY CanonicalIds
    <2>2. \A g, h \in G : g.canonical.id = h.canonical.id => g = h
        BY GroupsDiffer
    <2> HIDE DEF R, G
    <2>3. QED BY <1>2, <2>1, <2>2 DEF StrictOrder
<1>4. p = Lined(G, R)
    BY DEF Deduplicate, Listed, GroupsOf
<1>5. DOMAIN p = 1..n
    <2>1. DOMAIN Lined(G, R) = 1..Cardinality(G)
        BY DEF Lined
    <2>2. QED BY <1>4, <2>1
<1> HIDE DEF R, G, p
<1>6. n \in Nat /\ p \in Bijection(1..n, G)
    BY <1>1, <1>3, <1>4, LinedArranges
<1>7. Elements(p) = G
    <2> DEFINE N == 1..n
    <2>1. DOMAIN p = N /\ p \in Bijection(N, G)
        BY <1>5, <1>6
    <2> HIDE DEF N, n
    <2>2. p \in [N -> G] /\ \A k \in G : \E i \in N : p[i] = k
        BY <2>1, Arranges
    <2>3. QED BY <2>1, <2>2 DEF Elements
<1>8. QED BY <1>5, <1>6, <1>7 DEF G, p

-----------------------------------------------------------------------------
(* What the stages hand on. *)

\* The stage that runs next, or the one that failed.
where == IF stage = "failed" THEN failedAt ELSE stage

\* The stages that run when an output is there.
WithTrace      == {"correction", "persistence", "persisted"}
WithOrder      == {"rendering", "trace"} \cup WithTrace
WithAllocation == {"ordering"} \cup WithOrder
WithDecisions  == {"allocation"} \cup WithAllocation
WithScores     == {"filtering"} \cup WithDecisions
WithGroups     == {"scoring"} \cup WithScores
WithEvidence   == {"deduplication"} \cup WithGroups
WithBatch      == {"evidence-validation"} \cup WithEvidence
StageNames     == {"request-validation", "candidate-validation"} \cup WithBatch

\* Nothing is wrong with the input of a stage that runs, as far as the stages
\* before it look.
CheckedInv ==
    /\ RequestShape(request)
    /\ where \in WithBatch => ValidationIssues(request.scope, request.docs, answers, request.candidates) = {}
    /\ where \in WithEvidence /\ scoring.schema = 2 =>
          EvidenceIssues(scoring, request.scope, Elements(request.candidates)) = {}
    /\ where \in WithDecisions => FilterIssues(filtering, scoring, request.scope, out.scored) = {}
    /\ where \in WithAllocation => ~ RequiredOverflows(Eligible(out.decisions))

\* Every output is what its stage makes of the outputs before it.
OutputInv ==
    /\ out = [ groups |-> out.groups, scored |-> out.scored, decisions |-> out.decisions,
               allocation |-> out.allocation, ordered |-> out.ordered, rendered |-> out.rendered,
               trace |-> out.trace ]
    /\ out.groups = IF where \in WithGroups THEN Deduplicate(request.candidates) ELSE <<>>
    /\ out.scored = IF where \in WithScores THEN Score(scoring, request.reference, out.groups) ELSE <<>>
    /\ out.decisions = IF where \in WithDecisions THEN FilterDecisions(filtering, out.scored) ELSE <<>>
    /\ out.allocation = IF where \in WithAllocation THEN {Allocation(Eligible(out.decisions))} ELSE {}
    /\ where \in WithOrder => out.ordered = OrderIncluded(The(out.allocation).included)
    /\ where \notin WithTrace => out.trace = {}
    /\ where = "correction" => out.trace = {BuildTrace(Evidence)}

\* A compilation that failed says what its last stage found.
FailureInv ==
    /\ where \in StageNames
    /\ stage # "failed" => failedAt = "none"
    /\ failedAt = "candidate-validation" =>
          issues = { i.code : i \in ValidationIssues(request.scope, request.docs, answers, request.candidates) }
    /\ failedAt = "scoring" =>
          issues = ScoreIssues(scoring, request.scope, request.reference, out.groups) /\ issues # {}

StageInv == CheckedInv /\ OutputInv /\ FailureInv

\* What a stage computes from the request does not change with the variables
\* it does not read.
LEMMA RequestKept ==
    ASSUME request' = request
    PROVE  /\ scoring' = scoring /\ filtering' = filtering
           /\ \A e : Allocation(e)' = Allocation(e)
           /\ \A e : RequiredOverflows(e)' = RequiredOverflows(e)
<1>1. scoring' = scoring /\ filtering' = filtering
    BY DEF scoring, filtering
<1>2. ASSUME NEW c PROVE Remaining(c)' = Remaining(c)
    BY DEF Remaining
<1>3. ASSUME NEW c PROVE Turns(c)' = Turns(c)
    BY <1>2 DEF Turns
<1>4. ASSUME NEW e PROVE Allocation(e)' = Allocation(e)
    BY <1>1, <1>2, <1>3 DEF Allocation
<1>5. ASSUME NEW e PROVE RequiredOverflows(e)' = RequiredOverflows(e)
    BY <1>3 DEF RequiredOverflows
<1>6. QED BY <1>1, <1>4, <1>5

\* What the trace is built from does not change with the trace.
LEMMA EvidenceKept ==
    ASSUME request' = request,
           out'.groups = out.groups, out'.scored = out.scored, out'.decisions = out.decisions,
           out'.allocation = out.allocation, out'.ordered = out.ordered, out'.rendered = out.rendered
    PROVE  BuildTrace(Evidence)' = BuildTrace(Evidence)
<1>1. scoring' = scoring /\ filtering' = filtering
    BY DEF scoring, filtering
<1>2. Evidence' = Evidence
    BY <1>1 DEF Evidence, StageSet
<1>3. QED BY <1>2

\* A stage that fails leaves everything as it was, and says what it found.
LEMMA FailureStep ==
    ASSUME StageInv, NEW here \in StageNames, NEW found, stage = here, stage # "failed",
           stage' = "failed", issues' = found, failedAt' = here, found # {},
           UNCHANGED <<out, request, value, answers>>,
           here = "candidate-validation" =>
               found = { i.code : i \in ValidationIssues(request.scope, request.docs, answers, request.candidates) },
           here = "scoring" => found = ScoreIssues(scoring, request.scope, request.reference, out.groups)
    PROVE  StageInv'
<1>1. where' = here /\ where = here
    BY DEF where
<1>2. /\ scoring' = scoring /\ filtering' = filtering
      /\ \A e : Allocation(e)' = Allocation(e)
      /\ \A e : RequiredOverflows(e)' = RequiredOverflows(e)
    BY RequestKept
<1>3. CheckedInv'
    BY <1>1, <1>2 DEF StageInv, CheckedInv
<1>t. BuildTrace(Evidence)' = BuildTrace(Evidence)
    BY EvidenceKept
<1>4. OutputInv'
    BY <1>1, <1>2, <1>t DEF StageInv, OutputInv
<1>5. FailureInv'
    BY <1>1, <1>2 DEF FailureInv
<1>6. QED BY <1>3, <1>4, <1>5 DEF StageInv

\* Before it fails, a compilation has found nothing.
LEMMA AdvanceStep ==
    ASSUME StageInv, NEW here \in StageNames, NEW there \in StageNames, stage = here, stage # "failed",
           stage' = there, UNCHANGED <<request, value, answers, issues, failedAt>>
    PROVE  where = here /\ where' = there /\ FailureInv'
<1>1. there # "failed"
    BY DEF StageNames, WithBatch, WithEvidence, WithGroups, WithScores, WithDecisions, WithAllocation,
           WithOrder, WithTrace
<1>2. where = here /\ where' = there
    BY <1>1 DEF where
<1>3. failedAt = "none"
    BY DEF StageInv, FailureInv
<1>4. QED BY <1>1, <1>2, <1>3 DEF FailureInv

\* The stages of a compilation are established by Init, and kept by every step.
LEMMA StageInit == Init => StageInv
<1> SUFFICES ASSUME Init PROVE StageInv
    OBVIOUS
<1>1. where = "request-validation"
    BY DEF Init, where
<1>2. RequestShape(request)
    BY StagesAssumption DEF Init
<1> USE DEF StageNames, WithBatch, WithEvidence, WithGroups, WithScores, WithDecisions, WithAllocation,
            WithOrder, WithTrace
<1>3. CheckedInv
    BY <1>1, <1>2 DEF CheckedInv
<1>4. OutputInv
    BY <1>1 DEF OutputInv, Init, Nothing
<1>5. FailureInv
    BY <1>1 DEF FailureInv, Init
<1>6. QED BY <1>3, <1>4, <1>5 DEF StageInv

\* Every stage keeps StageInv: it succeeds on what is left of it, or fails in it.
LEMMA StageStep == StageInv /\ [Next]_vars => StageInv'
<1> SUFFICES ASSUME StageInv, [Next]_vars PROVE StageInv'
    OBVIOUS
<1> USE DEF StageNames, WithBatch, WithEvidence, WithGroups, WithScores, WithDecisions, WithAllocation,
            WithOrder, WithTrace
<1>0. request' = request => /\ scoring' = scoring /\ filtering' = filtering
                            /\ \A e : Allocation(e)' = Allocation(e)
                            /\ \A e : RequiredOverflows(e)' = RequiredOverflows(e)
    BY RequestKept
<1> DEFINE passes(here, there, output) ==
        /\ stage = here /\ stage' = there /\ out' = output
        /\ UNCHANGED <<request, value, answers, issues, failedAt>>
        fails(here, found) ==
        /\ stage = here /\ stage' = "failed" /\ issues' = found /\ failedAt' = here /\ found # {}
        /\ UNCHANGED <<out, request, value, answers>>
<1>r. ASSUME NEW here, NEW found, NEW there, NEW output, Run(here, found, there, output)
      PROVE  fails(here, found) \/ (passes(here, there, output) /\ found = {})
    BY <1>r DEF Run
<1> HIDE DEF passes, fails
<1>f. ASSUME NEW here \in StageNames, NEW found, fails(here, found),
             here = "candidate-validation" =>
               found = { i.code : i \in ValidationIssues(request.scope, request.docs, answers, request.candidates) },
             here = "scoring" => found = ScoreIssues(scoring, request.scope, request.reference, out.groups)
      PROVE  StageInv'
    <2>1. stage = here /\ stage # "failed"
        BY <1>f DEF fails
    <2>2. QED BY <1>f, <2>1, FailureStep DEF fails
<1>p. ASSUME NEW here \in StageNames, NEW there \in StageNames, NEW output, passes(here, there, output),
             CheckedInv', OutputInv'
      PROVE  StageInv'
    <2>1. stage = here /\ stage # "failed"
        BY <1>p DEF passes
    <2>2. FailureInv'
        BY <1>p, <2>1, AdvanceStep DEF passes
    <2>3. QED BY <1>p, <2>2 DEF StageInv
<1>w. ASSUME NEW here \in StageNames, NEW there \in StageNames, NEW output, passes(here, there, output)
      PROVE  where = here /\ where' = there /\ out' = output /\ request' = request /\ answers' = answers
    BY <1>w DEF passes, where
<1>1. CASE ValidateRequest
    <2> DEFINE found == IF Passive!Refuses("snapshot", value, Root) THEN {"invalid_request"}
                        ELSE PolicyIssues(request.policy)
    <2>1. Run("request-validation", found, "candidate-validation", out)
        BY <1>1 DEF ValidateRequest
    <2> HIDE DEF found
    <2>2. CASE fails("request-validation", found)
        BY <2>2, <1>f
    <2>3. CASE passes("request-validation", "candidate-validation", out)
        <3>1. /\ where = "request-validation" /\ where' = "candidate-validation"
              /\ out' = out /\ request' = request /\ answers' = answers
            BY <2>3, <1>w
        <3>2. CheckedInv'
            BY <3>1, <1>0 DEF StageInv, CheckedInv
        <3>3. OutputInv'
            BY <3>1, <1>0 DEF StageInv, OutputInv
        <3>4. QED BY <2>3, <3>2, <3>3, <1>p
    <2>4. QED BY <2>1, <2>2, <2>3, <1>r
<1>2. CASE ValidateCandidates
    <2> DEFINE wrong == ValidationIssues(request.scope, request.docs, answers, request.candidates)
               found == { i.code : i \in wrong }
               there == IF scoring.schema = 2 THEN "evidence-validation" ELSE "deduplication"
    <2>1. Run("candidate-validation", found, there, out)
        BY <1>2 DEF ValidateCandidates
    <2>2. CASE fails("candidate-validation", found)
        BY <2>2, <1>f
    <2>3. CASE passes("candidate-validation", there, out) /\ found = {}
        <3>1. wrong = {}
            <4> HIDE DEF wrong
            <4>1. QED BY <2>3
        <3>2. there \in StageNames
            OBVIOUS
        <3>3. /\ where = "candidate-validation" /\ where' = there
              /\ out' = out /\ request' = request /\ answers' = answers
            BY <2>3, <3>2, <1>w
        <3>4. CheckedInv'
            BY <3>1, <3>3, <1>0 DEF StageInv, CheckedInv
        <3>5. OutputInv'
            BY <3>3, <1>0 DEF StageInv, OutputInv
        <3>6. QED BY <2>3, <3>2, <3>4, <3>5, <1>p
    <2>4. QED BY <2>1, <2>2, <2>3, <1>r
<1>3. CASE ValidateEvidence
    <2> DEFINE found == EvidenceIssues(scoring, request.scope, Elements(request.candidates))
    <2>1. Run("evidence-validation", found, "deduplication", out)
        BY <1>3 DEF ValidateEvidence
    <2>2. CASE fails("evidence-validation", found)
        BY <2>2, <1>f
    <2>3. CASE passes("evidence-validation", "deduplication", out) /\ found = {}
        <3>1. /\ where = "evidence-validation" /\ where' = "deduplication"
              /\ out' = out /\ request' = request /\ answers' = answers
            BY <2>3, <1>w
        <3>2. CheckedInv'
            BY <2>3, <3>1, <1>0 DEF StageInv, CheckedInv
        <3>3. OutputInv'
            BY <3>1, <1>0 DEF StageInv, OutputInv
        <3>4. QED BY <2>3, <3>2, <3>3, <1>p
    <2>4. QED BY <2>1, <2>2, <2>3, <1>r
<1>4. CASE DeduplicateBatch
    <2> DEFINE output == [out EXCEPT !.groups = Deduplicate(request.candidates)]
    <2>1. Run("deduplication", {}, "scoring", output)
        BY <1>4 DEF DeduplicateBatch
    <2>2. ~ fails("deduplication", {})
        BY DEF fails
    <2>3. CASE passes("deduplication", "scoring", output)
        <3>1. /\ where = "deduplication" /\ where' = "scoring"
              /\ out' = output /\ request' = request /\ answers' = answers
            BY <2>3, <1>w
        <3>2. CheckedInv'
            BY <3>1, <1>0 DEF StageInv, CheckedInv
        <3>3. OutputInv'
            BY <3>1, <1>0 DEF StageInv, OutputInv
        <3>4. QED BY <2>3, <3>2, <3>3, <1>p
    <2>4. QED BY <2>1, <2>2, <2>3, <1>r
<1>5. CASE ScoreBatch
    <2> DEFINE found == ScoreIssues(scoring, request.scope, request.reference, out.groups)
               output == [out EXCEPT !.scored = Score(scoring, request.reference, out.groups)]
    <2>1. Run("scoring", found, "filtering", output)
        BY <1>5 DEF ScoreBatch
    <2>2. CASE fails("scoring", found)
        BY <2>2, <1>f
    <2>3. CASE passes("scoring", "filtering", output)
        <3>1. /\ where = "scoring" /\ where' = "filtering"
              /\ out' = output /\ request' = request /\ answers' = answers
            BY <2>3, <1>w
        <3>2. CheckedInv'
            BY <3>1, <1>0 DEF StageInv, CheckedInv
        <3>3. OutputInv'
            BY <3>1, <1>0 DEF StageInv, OutputInv
        <3>4. QED BY <2>3, <3>2, <3>3, <1>p
    <2>4. QED BY <2>1, <2>2, <2>3, <1>r
<1>6. CASE FilterBatch
    <2> DEFINE found == FilterIssues(filtering, scoring, request.scope, out.scored)
               output == [out EXCEPT !.decisions = FilterDecisions(filtering, out.scored)]
    <2>1. Run("filtering", found, "allocation", output)
        BY <1>6 DEF FilterBatch
    <2>2. CASE fails("filtering", found)
        BY <2>2, <1>f
    <2>3. CASE passes("filtering", "allocation", output) /\ found = {}
        <3>1. /\ where = "filtering" /\ where' = "allocation"
              /\ out' = output /\ request' = request /\ answers' = answers
            BY <2>3, <1>w
        <3>2. CheckedInv'
            BY <2>3, <3>1, <1>0 DEF StageInv, CheckedInv, OutputInv
        <3>3. OutputInv'
            BY <3>1, <1>0 DEF StageInv, OutputInv
        <3>4. QED BY <2>3, <3>2, <3>3, <1>p
    <2>4. QED BY <2>1, <2>2, <2>3, <1>r
<1>7. CASE Allocate
    <2> DEFINE found == { code \in {"required_content_exceeds_budget"} : RequiredOverflows(Eligible(out.decisions)) }
               output == [out EXCEPT !.allocation = {Allocation(Eligible(out.decisions))}]
    <2>1. Run("allocation", found, "ordering", output)
        BY <1>7 DEF Allocate
    <2>2. CASE fails("allocation", found)
        BY <2>2, <1>f
    <2>3. CASE passes("allocation", "ordering", output) /\ found = {}
        <3>0. ~ RequiredOverflows(Eligible(out.decisions))
            BY <2>3
        <3>1. /\ where = "allocation" /\ where' = "ordering"
              /\ out' = output /\ request' = request /\ answers' = answers
            BY <2>3, <1>w
        <3>2. CheckedInv'
            BY <3>0, <3>1, <1>0 DEF StageInv, CheckedInv, OutputInv
        <3>3. OutputInv'
            BY <3>1, <1>0 DEF StageInv, OutputInv
        <3>4. QED BY <2>3, <3>2, <3>3, <1>p
    <2>4. QED BY <2>1, <2>2, <2>3, <1>r
<1>8. CASE Order
    <2> DEFINE output == [out EXCEPT !.ordered = OrderIncluded(The(out.allocation).included)]
    <2>1. Run("ordering", {}, "rendering", output)
        BY <1>8 DEF Order
    <2>2. ~ fails("ordering", {})
        BY DEF fails
    <2>3. CASE passes("ordering", "rendering", output)
        <3>1. /\ where = "ordering" /\ where' = "rendering"
              /\ out' = output /\ request' = request /\ answers' = answers
            BY <2>3, <1>w
        <3>2. CheckedInv'
            BY <3>1, <1>0 DEF StageInv, CheckedInv, OutputInv
        <3>3. OutputInv'
            BY <3>1, <1>0 DEF StageInv, OutputInv
        <3>4. QED BY <2>3, <3>2, <3>3, <1>p
    <2>4. QED BY <2>1, <2>2, <2>3, <1>r
<1>9. ASSUME NEW answer \in RenderAnswers, RenderContext(answer) PROVE StageInv'
    <2> DEFINE found == CountIssues(answer)
               output == [out EXCEPT !.rendered = {Render(out.ordered, request.available, answer)}]
    <2>1. Run("rendering", found, "trace", output)
        BY <1>9 DEF RenderContext
    <2>2. CASE fails("rendering", found)
        BY <2>2, <1>f
    <2>3. CASE passes("rendering", "trace", output)
        <3>1. /\ where = "rendering" /\ where' = "trace"
              /\ out' = output /\ request' = request /\ answers' = answers
            BY <2>3, <1>w
        <3>2. CheckedInv'
            BY <3>1, <1>0 DEF StageInv, CheckedInv, OutputInv
        <3>3. OutputInv'
            BY <3>1, <1>0 DEF StageInv, OutputInv
        <3>4. QED BY <2>3, <3>2, <3>3, <1>p
    <2>4. QED BY <2>1, <2>2, <2>3, <1>r
<1>10. CASE TakeSnapshot
    <2> DEFINE found == TraceIssues(Evidence)
               output == [out EXCEPT !.trace = {BuildTrace(Evidence)}]
    <2>1. Run("trace", found, "correction", output)
        BY <1>10 DEF TakeSnapshot
    <2>2. CASE fails("trace", found)
        BY <2>2, <1>f
    <2>3. CASE passes("trace", "correction", output)
        <3>1. /\ where = "trace" /\ where' = "correction"
              /\ out' = output /\ request' = request /\ answers' = answers
            BY <2>3, <1>w
        <3>2. CheckedInv'
            BY <3>1, <1>0 DEF StageInv, CheckedInv, OutputInv
        <3> DEFINE built == BuildTrace(Evidence)
        <3>3. out' = [out EXCEPT !.trace = {built}]
            BY <3>1
        <3> HIDE DEF found, output, built
        <3>4. OutputInv'
            <4>1. /\ out'.groups = out.groups /\ out'.scored = out.scored /\ out'.decisions = out.decisions
                  /\ out'.allocation = out.allocation /\ out'.ordered = out.ordered /\ out'.rendered = out.rendered
                BY <3>3 DEF StageInv, OutputInv
            <4>2. BuildTrace(Evidence)' = built
                BY <3>1, <4>1, EvidenceKept DEF built
            <4>3. out'.trace = {built}
                BY <3>3 DEF StageInv, OutputInv
            <4>4. QED BY <3>1, <3>3, <4>1, <4>2, <4>3, <1>0 DEF StageInv, OutputInv
        <3>5. QED BY <2>3, <3>2, <3>4, <1>p
    <2>4. QED BY <2>1, <2>2, <2>3, <1>r
<1>11. ASSUME NEW trace, Run("correction", {}, "persistence", [out EXCEPT !.trace = {trace}])
       PROVE  StageInv'
    <2> DEFINE output == [out EXCEPT !.trace = {trace}]
    <2>1. ~ fails("correction", {})
        BY DEF fails
    <2>2. CASE passes("correction", "persistence", output)
        <3>1. /\ where = "correction" /\ where' = "persistence"
              /\ out' = output /\ request' = request /\ answers' = answers
            BY <2>2, <1>w
        <3>2. CheckedInv'
            BY <3>1, <1>0 DEF StageInv, CheckedInv, OutputInv
        <3>3. OutputInv'
            BY <3>1, <1>0 DEF StageInv, OutputInv
        <3>4. QED BY <2>2, <3>2, <3>3, <1>p
    <2>3. QED BY <1>11, <2>1, <2>2, <1>r
<1>12. CASE KeepRendering
    BY <1>11, <1>12 DEF KeepRendering
<1>13. ASSUME NEW rebuilt, NEW S, Correct(S, rebuilt) PROVE StageInv'
    BY <1>11, <1>13 DEF Correct
<1>14. CASE GiveUp
    <2>1. PICK code : Run("correction", {code}, "failed", out)
        BY <1>14 DEF GiveUp
    <2>2. fails("correction", {code})
        BY <2>1, <1>r
    <2>3. QED BY <2>2, <1>f
<1>15. CASE ReadBack
    <2> DEFINE found == UNION { PersistedIssues(t) : t \in out.trace }
    <2>1. Run("persistence", found, "persisted", out)
        BY <1>15 DEF ReadBack
    <2> HIDE DEF found
    <2>2. CASE fails("persistence", found)
        BY <2>2, <1>f
    <2>3. CASE passes("persistence", "persisted", out)
        <3>1. /\ where = "persistence" /\ where' = "persisted"
              /\ out' = out /\ request' = request /\ answers' = answers
            BY <2>3, <1>w
        <3>2. CheckedInv'
            BY <3>1, <1>0 DEF StageInv, CheckedInv, OutputInv
        <3>3. OutputInv'
            BY <3>1, <1>0 DEF StageInv, OutputInv
        <3>4. QED BY <2>3, <3>2, <3>3, <1>p
    <2>4. QED BY <2>1, <2>2, <2>3, <1>r
<1>16. CASE UNCHANGED vars
    <2>1. /\ where' = where /\ request' = request /\ out' = out /\ answers' = answers
          /\ stage' = stage /\ failedAt' = failedAt /\ issues' = issues
        BY <1>16 DEF vars, where
    <2>2. CheckedInv'
        BY <2>1, <1>0 DEF StageInv, CheckedInv
    <2>t. BuildTrace(Evidence)' = BuildTrace(Evidence)
        BY <2>1, EvidenceKept
    <2>3. OutputInv'
        BY <2>1, <2>t, <1>0 DEF StageInv, OutputInv
    <2>4. FailureInv'
        BY <2>1, <1>0 DEF StageInv, FailureInv
    <2>5. QED BY <2>2, <2>3, <2>4 DEF StageInv
<1>17. QED BY <1>1, <1>2, <1>3, <1>4, <1>5, <1>6, <1>7, <1>8, <1>9, <1>10, <1>12, <1>13, <1>14, <1>15, <1>16
       DEF Next

\* Every stage works on what the stages before it passed, and hands on a
\* function of it.
THEOREM StagesHandOn == Spec => []StageInv
<1>1. Init => StageInv
    BY StageInit
<1>2. StageInv /\ [Next]_vars => StageInv'
    BY StageStep
<1>3. QED BY <1>1, <1>2, PTL DEF Spec

-----------------------------------------------------------------------------
(* Duplicates. *)

\* The groups are those of a batch that is sound.
LEMMA GroupsOfSound ==
    ASSUME StageInv, where \in WithBatch
    PROVE  /\ IsSound(request.candidates)
           /\ where \in WithGroups => out.groups = Deduplicate(request.candidates)
<1>1. IsBatch(request.candidates)
    BY DEF StageInv, CheckedInv, RequestShape, IsBatch
<1>2. IsSound(request.candidates)
    BY <1>1, ValidatedIsSound DEF StageInv, CheckedInv
<1>3. QED BY <1>2 DEF StageInv, OutputInv

\* A sound batch has one group for each wrapper.
LEMMA OneGroup ==
    ASSUME NEW candidates, IsSound(candidates), NEW w \in Elements(candidates)
    PROVE  { g \in Elements(Deduplicate(candidates)) : w \in WrappersOf(g) }
               = { GroupFor(candidates, GroupKey(w)) }
<1>1. Elements(Deduplicate(candidates)) = GroupsOf(candidates)
    BY DeduplicateLists
<1>2. \A u \in Elements(candidates) :
          WrappersOf(GroupFor(candidates, GroupKey(u))) = Under(candidates, GroupKey(u))
    BY GroupHolds DEF IsSound
<1>3. ASSUME NEW g \in GroupsOf(candidates), w \in WrappersOf(g)
      PROVE  g = GroupFor(candidates, GroupKey(w))
    <2>1. PICK u \in Elements(candidates) : g = GroupFor(candidates, GroupKey(u))
        BY DEF GroupsOf
    <2>2. w \in Under(candidates, GroupKey(u))
        BY <1>2, <1>3, <2>1
    <2>3. QED BY <2>1, <2>2 DEF Under
<1>4. /\ GroupFor(candidates, GroupKey(w)) \in GroupsOf(candidates)
      /\ w \in WrappersOf(GroupFor(candidates, GroupKey(w)))
    BY <1>2 DEF GroupsOf, Under
<1>5. QED BY <1>1, <1>3, <1>4

\* Two wrappers of a batch that passed validation end up in one group exactly
\* when their texts are the same but for their line ends.
THEOREM DuplicatesMeetHolds == Spec => []DuplicatesMeet
<1>1. StageInv => DuplicatesMeet
    <2> SUFFICES ASSUME StageInv, out.groups # <<>>, NEW v \in Wrappers, NEW w \in Wrappers
                 PROVE  /\ Cardinality(HoldersOf(w)) = 1
                        /\ HoldersOf(v) = HoldersOf(w) <=> Normal[v.block.content] = Normal[w.block.content]
                        /\ v.block.id = w.block.id => HoldersOf(v) = HoldersOf(w)
        BY DEF DuplicatesMeet
    <2> DEFINE candidates == request.candidates
               holder(u) == GroupFor(candidates, GroupKey(u))
    <2>1. where \in WithGroups /\ where \in WithBatch
        BY DEF StageInv, OutputInv, WithBatch, WithEvidence
    <2>2. IsSound(candidates) /\ out.groups = Deduplicate(candidates)
        BY <2>1, GroupsOfSound
    <2>3. v \in Elements(candidates) /\ w \in Elements(candidates)
        BY DEF Wrappers
    <2> HIDE DEF candidates
    <2>4. \A u \in Elements(candidates) :
              HoldersOf(u) = { holder(u) } /\ WrappersOf(holder(u)) = Under(candidates, GroupKey(u))
        <3> SUFFICES ASSUME NEW u \in Elements(candidates)
                     PROVE  HoldersOf(u) = { holder(u) } /\ WrappersOf(holder(u)) = Under(candidates, GroupKey(u))
            OBVIOUS
        <3>1. { g \in Elements(Deduplicate(candidates)) : u \in WrappersOf(g) } = { holder(u) }
            BY <2>2, OneGroup
        <3>2. HoldersOf(u) = { g \in Elements(Deduplicate(candidates)) : u \in WrappersOf(g) }
            BY <2>2 DEF HoldersOf, Batch
        <3>3. WrappersOf(holder(u)) = Under(candidates, GroupKey(u))
            BY <2>2, GroupHolds DEF IsSound
        <3>4. QED BY <3>1, <3>2, <3>3
    <2> HIDE DEF holder
    <2>5. Cardinality(HoldersOf(w)) = 1
        BY <2>3, <2>4, FS_Singleton
    <2>6. HoldersOf(v) = HoldersOf(w) <=> GroupKey(v) = GroupKey(w)
        <3>1. ASSUME HoldersOf(v) = HoldersOf(w) PROVE GroupKey(v) = GroupKey(w)
            <4>1. Under(candidates, GroupKey(v)) = Under(candidates, GroupKey(w))
                BY <2>3, <2>4, <3>1
            <4>2. v \in Under(candidates, GroupKey(v))
                BY <2>3 DEF Under
            <4>3. QED BY <4>1, <4>2 DEF Under
        <3>2. ASSUME GroupKey(v) = GroupKey(w) PROVE HoldersOf(v) = HoldersOf(w)
            BY <2>3, <2>4, <3>2 DEF holder
        <3>3. QED BY <3>1, <3>2
    <2>7. GroupKey(v) = GroupKey(w) <=> Normal[v.block.content] = Normal[w.block.content]
        BY <2>2, <2>3 DEF GroupKey, IsSound
    <2>8. v.block.id = w.block.id => GroupKey(v) = GroupKey(w)
        BY <2>2, <2>3 DEF GroupKey, IsSound
    <2>9. QED BY <2>5, <2>6, <2>7, <2>8
<1>2. QED BY <1>1, StagesHandOn, PTL

\* The wrappers of the groups are the wrappers of the batch.
LEMMA GroupWrappers ==
    ASSUME NEW candidates, IsSound(candidates), NEW g \in GroupsOf(candidates)
    PROVE  /\ WrappersOf(g) \subseteq Elements(candidates)
           /\ WrappersOf(g) # {}
           /\ \A v, w \in WrappersOf(g) : GroupKey(v) = GroupKey(w)
           /\ \A w \in WrappersOf(g) : g = GroupFor(candidates, GroupKey(w))
           /\ \E w \in WrappersOf(g) : g.canonical = w.block
           /\ (\E w \in WrappersOf(g) : w.block.required) => g.canonical.required
<1>1. PICK u \in Elements(candidates) : g = GroupFor(candidates, GroupKey(u))
    BY DEF GroupsOf
<1>2. WrappersOf(g) = Under(candidates, GroupKey(u))
    BY <1>1, GroupHolds DEF IsSound
<1>3. /\ \E w \in Under(candidates, GroupKey(u)) : g.canonical = w.block
      /\ (\E w \in Under(candidates, GroupKey(u)) : w.block.required) => g.canonical.required
    BY <1>1, GroupRepresented
<1>4. QED BY <1>1, <1>2, <1>3 DEF Under

\* Under an evidence policy every missing rule and every value outside its
\* window is found before duplicates are merged.
THEOREM EarlyEvidenceCheckIsCompleteHolds == Spec => []EarlyEvidenceCheckIsComplete
<1>1. StageInv => EarlyEvidenceCheckIsComplete
    <2> SUFFICES ASSUME StageInv, scoring.schema = 2, failedAt = "scoring"
                 PROVE  issues = {"non_finite_score_result"}
        BY DEF EarlyEvidenceCheckIsComplete
    <2> DEFINE candidates == request.candidates
               groups     == Elements(Deduplicate(candidates))
               wrappers   == UNION { WrappersOf(g) : g \in groups }
               wrong      == UNION { GroupIssues(scoring, request.reference, g) : g \in groups }
    <2>1. where = "scoring"
        BY DEF StageInv, FailureInv, where
    <2>2. where \in WithGroups /\ where \in WithBatch /\ where \in WithEvidence
        BY <2>1 DEF WithBatch, WithEvidence, WithGroups
    <2>3. IsSound(candidates) /\ out.groups = Deduplicate(candidates)
        BY <2>2, GroupsOfSound
    <2>4. groups = GroupsOf(candidates)
        BY <2>3, DeduplicateLists
    <2>5. /\ EvidenceIssues(scoring, request.scope, Elements(candidates)) = {}
          /\ issues = ScoreIssues(scoring, request.scope, request.reference, Deduplicate(candidates))
          /\ issues # {}
        BY <2>2, <2>3 DEF StageInv, CheckedInv, FailureInv
    <2> HIDE DEF candidates
    <2>6. \A w \in Elements(candidates) : EvidenceOf(scoring, w) = {}
        BY <2>5 DEF EvidenceIssues
    <2>7. ~ (scoring.scope # request.scope)
        BY <2>5 DEF EvidenceIssues
    <2>8. \A g \in groups : WrappersOf(g) \subseteq Elements(candidates)
        <3> HIDE DEF groups
        <3>1. QED BY <2>3, <2>4, GroupWrappers
    <2> HIDE DEF groups
    <2>9. EvidenceIssues(scoring, request.scope, wrappers) = {}
        <3>1. \A w \in wrappers : EvidenceOf(scoring, w) = {}
            BY <2>6, <2>8
        <3> HIDE DEF wrappers
        <3>2. UNION { EvidenceOf(scoring, w) : w \in wrappers } = {}
            BY <3>1
        <3>3. QED BY <2>7, <3>2 DEF EvidenceIssues
    <2>10. issues = wrong
        <3>1. ScoreIssues(scoring, request.scope, request.reference, Deduplicate(candidates))
                  = IF scoring.schema = 2 /\ EvidenceIssues(scoring, request.scope, wrappers) # {}
                    THEN EvidenceIssues(scoring, request.scope, wrappers) ELSE wrong
            BY DEF ScoreIssues, groups
        <3> HIDE DEF wrappers, wrong
        <3>2. QED BY <2>5, <2>9, <3>1
    <2>11. \A g \in groups : GroupIssues(scoring, request.reference, g) \subseteq {"non_finite_score_result"}
        <3> SUFFICES ASSUME NEW g \in groups
                     PROVE  GroupIssues(scoring, request.reference, g) \subseteq {"non_finite_score_result"}
            OBVIOUS
        <3>1. \A w \in WrappersOf(g) : RetrievalIssues(scoring, w) = {} /\ PriorityIssues(scoring, w.block) = {}
            BY <2>6, <2>8 DEF EvidenceOf
        <3>2. \A b \in GroupBlocks(g) : PriorityIssues(scoring, b) = {}
            BY <3>1 DEF GroupBlocks, BlocksOf, BlockOf
        <3>3. UNION { RetrievalIssues(scoring, w) : w \in WrappersOf(g) } = {}
            BY <3>1
        <3>4. UNION { PriorityIssues(scoring, b) : b \in GroupBlocks(g) } = {}
            BY <3>2
        <3>5. QED BY <3>3, <3>4 DEF GroupIssues
    <2>12. wrong \subseteq {"non_finite_score_result"}
        BY <2>11
    <2>13. QED BY <2>5, <2>10, <2>12
<1>2. QED BY <1>1, StagesHandOn, PTL

-----------------------------------------------------------------------------
(* The score of a group. *)

\* A share of an amount is no more than the amount.
LEMMA Quotient ==
    ASSUME NEW a \in Nat, NEW d \in Nat, NEW u \in Nat, 0 < d, a <= d
    PROVE  (a * u) \div d \in 0..u
<1> DEFINE p == a * u
<1>1. p \in Nat /\ p <= d * u
    <2>1. a * u \in Nat
        OBVIOUS
    <2>2. (d - a) * u >= 0
        OBVIOUS
    <2>3. (d - a) * u = d * u - a * u
        OBVIOUS
    <2>4. QED BY <2>1, <2>2, <2>3
<1> HIDE DEF p
<1>2. PICK q : q = p \div d
    OBVIOUS
<1>3. q \in Nat
    BY <1>1, <1>2
<1>4. d * q <= p
    BY <1>1, <1>2, <1>3
<1>5. q <= u
    <2> SUFFICES ASSUME u < q PROVE FALSE
        BY <1>3
    <2>1. u + 1 <= q
        BY <1>3
    <2>2. d * (u + 1) <= d * q
        BY <1>3, <2>1
    <2>3. d * (u + 1) = d * u + d
        OBVIOUS
    <2>4. d * u \in Nat /\ d * q \in Nat
        BY <1>3
    <2>5. QED BY <1>1, <1>4, <2>2, <2>3, <2>4
<1>6. QED BY <1>2, <1>3, <1>5 DEF p

\* A natural amount has natural shares.
LEMMA NaturalQuotient ==
    ASSUME NEW a \in Nat, NEW d \in Nat, NEW u \in Nat, 0 < d
    PROVE  (a * u) \div d \in Nat
<1> DEFINE p == a * u
<1>1. p \in Nat
    OBVIOUS
<1> HIDE DEF p
<1>2. p \div d \in Nat
    BY <1>1
<1>3. QED BY <1>2 DEF p

\* Of numbers up to a bound, one is the largest.
LEMMA MaxIs ==
    ASSUME NEW u \in Nat, NEW S \in SUBSET (0..u), S # {}
    PROVE  Max(S) \in S /\ \A y \in S : y <= Max(S)
<1> DEFINE D == { u - x : x \in S }
<1>1. D \in SUBSET Nat /\ D # {}
    <2>1. \A x \in S : u - x \in Nat
        OBVIOUS
    <2>2. QED BY <2>1
<1>2. PICK c \in D : \A d \in D : c <= d
    BY <1>1, FirstPlace
<1>3. PICK x \in S : c = u - x
    BY <1>2
<1>4. \A y \in S : x >= y
    <2> SUFFICES ASSUME NEW y \in S PROVE x >= y
        OBVIOUS
    <2>1. u - y \in D
        OBVIOUS
    <2>2. u - x <= u - y
        BY <1>2, <1>3, <2>1
    <2>3. x \in 0..u /\ y \in 0..u
        OBVIOUS
    <2>4. QED BY <2>2, <2>3
<1>5. Max(S) \in S /\ \A y \in S : Max(S) >= y
    BY <1>4 DEF Max
<1>6. QED BY <1>5

\* A number is raised to 0.
LEMMA RaisedToZero ==
    ASSUME NEW n \in Int
    PROVE  Max({0, n}) \in Nat /\ (n <= 0 => Max({0, n}) = 0) /\ (n >= 0 => Max({0, n}) = n)
<1>1. \E x \in {0, n} : \A y \in {0, n} : x >= y
    BY DEF Max
<1>2. Max({0, n}) \in {0, n} /\ \A y \in {0, n} : Max({0, n}) >= y
    BY <1>1 DEF Max
<1>3. QED BY <1>2

\* What is within its window is normalized to at most 1.
LEMMA Normalized ==
    ASSUME NEW window, WindowShape(window), NEW raw \in Int, ~ OutsideWindow(raw, window), NEW higher
    PROVE  NormalizeInRange(raw, window.min, window.max, higher) \in 0..Unit
<1> DEFINE above == IF higher THEN raw - window.min ELSE window.max - raw
           d     == window.max - window.min
<1>1. window.min \in Int /\ window.max \in Int /\ window.min < window.max
    BY DEF WindowShape
<1>2. window.min <= raw /\ raw <= window.max
    BY <1>1 DEF OutsideWindow
<1>3. above \in Nat /\ above <= d /\ d \in Nat /\ 0 < d
    BY <1>1, <1>2
<1>4. Unit \in Nat
    BY UnitAssumption
<1> HIDE DEF above, d
<1>5. (above * Unit) \div d \in 0..Unit
    BY <1>3, <1>4, Quotient
<1>6. QED BY <1>5 DEF NormalizeInRange, above, d

\* A wrapper has evidence when it carries a score.
HasScore(w) == \E r \in w.retrieval : r.score # {}

\* What is scored in a sequence of wrappers.
LEMMA RetrievedElements ==
    ASSUME NEW X, NEW ws \in Seq(X)
    PROVE  /\ Elements(Retrieved(ws)) = { w \in Elements(ws) : HasScore(w) }
           /\ Retrieved(ws) \in Seq(Elements(Retrieved(ws)))
<1> DEFINE D == { i \in DOMAIN ws : HasScore(ws[i]) }
<1>1. Retrieved(ws) = Picked(ws, D, {})
    BY DEF Retrieved, Filtered, HasScore
<1>2. D \in SUBSET DOMAIN ws
    OBVIOUS
<1>3. { ws[i] : i \in D } = { w \in Elements(ws) : HasScore(w) }
    BY DEF Elements
<1> HIDE DEF D
<1>4. Picked(ws, D, {}) \in Seq({ ws[i] : i \in D })
    BY <1>2, FilterElements
<1>5. Elements(Picked(ws, D, {})) = { ws[i] : i \in D }
    BY <1>2, FilterElements
<1>6. QED BY <1>1, <1>3, <1>4, <1>5

\* A wrapper with a score is itself what is retrieved of it.
LEMMA RetrievedOne ==
    ASSUME NEW w, HasScore(w)
    PROVE  Retrieved(<<w>>) # <<>>
<1>1. <<w>> \in Seq({w}) /\ Elements(<<w>>) = {w}
    BY DEF Elements
<1>2. Elements(Retrieved(<<w>>)) = { v \in {w} : HasScore(v) }
    BY <1>1, RetrievedElements
<1>3. Elements(<<>>) = {}
    BY DEF Elements
<1>4. QED BY <1>2, <1>3

\* What one wrapper is worth to each component: a value, or none.
RetrievalWorth(policy, w) ==
    IF HasScore(w) /\ ContractOf(w) \notin IgnoredOf(policy) /\ RetrievalIssues(policy, w) = {}
    THEN LET rule == The(RulesFor(policy, ContractOf(w)))
         IN  { NormalizeInRange(RawValue(w), rule.min, rule.max, HigherIsBetter[rule.contract]) }
    ELSE {}

PriorityWorth(policy, b) ==
    IF b.priority # {} /\ PriorityIssues(policy, b) = {}
    THEN LET a == The(policy.authoredPriority) IN { NormalizeInRange(The(b.priority), a.min, a.max, TRUE) }
    ELSE {}

SourceWorth(policy, b) ==
    LET s == The(policy.sourcePriority) IN { ConfiguredValue(s.rules, b.doc, s.default) }

CategoryWorth(policy, b) ==
    LET c == The(policy.categoryPriority)
    IN  { IF b.category = {} THEN c.default ELSE ConfiguredValue(c.rules, The(b.category), c.default) }

RecencyWorth(policy, reference, b) ==
    LET r == The(policy.recency)
    IN  { IF TimeOf(b) = {} THEN r.missing
          ELSE Max({0, Unit - (Age(reference, The(TimeOf(b))) * Unit) \div r.maxAge}) }

\* A retrieval score is worth a normalized value.
LEMMA RetrievalWorthIs ==
    ASSUME NEW policy, ScoringPolicyShape(policy), NEW w, WrapperShape(w)
    PROVE  RetrievalWorth(policy, w) \subseteq 0..Unit
<1> SUFFICES ASSUME HasScore(w), ContractOf(w) \notin IgnoredOf(policy), RetrievalIssues(policy, w) = {}
             PROVE  LET rule == The(RulesFor(policy, ContractOf(w)))
                    IN  NormalizeInRange(RawValue(w), rule.min, rule.max, HigherIsBetter[rule.contract]) \in 0..Unit
    BY DEF RetrievalWorth
<1> DEFINE rules == RulesFor(policy, ContractOf(w))
           rule  == The(rules)
<1>1. PICK r \in w.retrieval : r.score # {}
    BY DEF HasScore
<1>2. The(w.retrieval) = r
    <2>1. The(w.retrieval) \in w.retrieval
        BY <1>1, TheOption
    <2>2. QED BY <2>1 DEF WrapperShape, AtMostOne
<1>3. RawValue(w) \in Int
    <2>1. The(r.score) \in r.score
        BY <1>1, TheOption
    <2>2. QED BY <1>2, <2>1 DEF RawValue, WrapperShape, RetrievalShape, OptionOf
<1>4. rules # {} /\ \A q \in rules : ~ OutsideWindow(RawValue(w), q)
    <2>1. w.retrieval # {} /\ Retrieved(<<w>>) # <<>>
        BY <1>1, RetrievedOne
    <2>2. RetrievalIssues(policy, w) =
              { code \in {"retrieval_score_rule_not_found", "retrieval_score_out_of_range"} :
                 IF code = "retrieval_score_rule_not_found" THEN rules = {}
                 ELSE \E q \in rules : OutsideWindow(RawValue(w), q) }
        BY <2>1 DEF RetrievalIssues
    <2> HIDE DEF rules
    <2>3. QED BY <2>2
<1>5. rule \in rules
    BY <1>4, TheOption
<1>6. WindowShape(rule)
    BY <1>5 DEF RulesFor, RulesOf, ScoringPolicyShape
<1>7. NormalizeInRange(RawValue(w), rule.min, rule.max, HigherIsBetter[rule.contract]) \in 0..Unit
    <2> HIDE DEF rule
    <2>1. QED BY <1>3, <1>4, <1>5, <1>6, Normalized
<1>8. QED BY <1>7

\* An authored priority is worth a normalized value.
LEMMA PriorityWorthIs ==
    ASSUME NEW policy, ScoringPolicyShape(policy), policy.authoredPriority # {}, NEW b, BlockShape(b)
    PROVE  PriorityWorth(policy, b) \subseteq 0..Unit
<1> DEFINE a == The(policy.authoredPriority)
           p == The(b.priority)
<1> SUFFICES ASSUME b.priority # {}, PriorityIssues(policy, b) = {}
             PROVE  NormalizeInRange(p, a.min, a.max, TRUE) \in 0..Unit
    BY DEF PriorityWorth
<1>1. a \in policy.authoredPriority /\ p \in b.priority
    BY TheOption
<1>2. p \in Int
    BY <1>1 DEF BlockShape, OptionOf
<1>3. WindowShape(a)
    BY <1>1 DEF ScoringPolicyShape
<1>4. ~ OutsideWindow(p, a)
    BY <1>1 DEF PriorityIssues
<1> HIDE DEF a, p
<1>5. QED BY <1>2, <1>3, <1>4, Normalized

\* What a policy assigns to a key is a normalized value.
LEMMA ConfiguredIs ==
    ASSUME NEW rules, NEW key, NEW default \in 0..Unit, \A e \in Elements(rules) : e.value \in 0..Unit
    PROVE  ConfiguredValue(rules, key, default) \in 0..Unit
<1>1. CASE \E e \in Elements(rules) : e.key = key
    <2>1. (CHOOSE e \in Elements(rules) : e.key = key) \in Elements(rules)
        BY <1>1
    <2>2. QED BY <1>1, <2>1 DEF ConfiguredValue
<1>2. CASE ~ \E e \in Elements(rules) : e.key = key
    BY <1>2 DEF ConfiguredValue
<1>3. QED BY <1>1, <1>2

\* The worth of a source is a value the policy configures, a share of the unit.
LEMMA SourceWorthIs ==
    ASSUME NEW policy, ScoringPolicyShape(policy), policy.sourcePriority # {}, NEW b
    PROVE  SourceWorth(policy, b) \subseteq 0..Unit
<1> DEFINE s == The(policy.sourcePriority)
<1>1. s \in policy.sourcePriority
    BY TheOption
<1>2. s.default \in 0..Unit /\ \A e \in Elements(s.rules) : e.value \in 0..Unit
    BY <1>1 DEF ScoringPolicyShape
<1> HIDE DEF s
<1>3. ConfiguredValue(s.rules, b.doc, s.default) \in 0..Unit
    BY <1>2, ConfiguredIs
<1>4. QED BY <1>3 DEF SourceWorth, s

\* The worth of a category is a value the policy configures, likewise.
LEMMA CategoryWorthIs ==
    ASSUME NEW policy, ScoringPolicyShape(policy), policy.categoryPriority # {}, NEW b
    PROVE  CategoryWorth(policy, b) \subseteq 0..Unit
<1> DEFINE c == The(policy.categoryPriority)
<1>1. c \in policy.categoryPriority
    BY TheOption
<1>2. c.default \in 0..Unit /\ \A e \in Elements(c.rules) : e.value \in 0..Unit
    BY <1>1 DEF ScoringPolicyShape
<1> HIDE DEF c
<1>3. ConfiguredValue(c.rules, The(b.category), c.default) \in 0..Unit
    BY <1>2, ConfiguredIs
<1>4. QED BY <1>2, <1>3 DEF CategoryWorth, c

\* The age of a block costs it at most all of its recency.
LEMMA RecencyWorthIs ==
    ASSUME NEW policy, ScoringPolicyShape(policy), policy.recency # {}, NEW b, BlockShape(b), NEW reference \in Int
    PROVE  RecencyWorth(policy, reference, b) \subseteq 0..Unit
<1> DEFINE r    == The(policy.recency)
           time == The(TimeOf(b))
           lost == (Age(reference, time) * Unit) \div r.maxAge
<1>1. r \in policy.recency
    BY TheOption
<1>2. r.maxAge \in Nat /\ 0 < r.maxAge /\ r.missing \in 0..Unit /\ Unit \in Nat
    BY <1>1, UnitAssumption DEF ScoringPolicyShape
<1>3. CASE TimeOf(b) # {}
    <2>1. time \in TimeOf(b)
        BY <1>3, TheOption
    <2>2. time \in Int
        BY <2>1 DEF TimeOf, BlockShape, OptionOf
    <2>3. Age(reference, time) \in Nat
        <3>1. reference - time \in Int
            BY <2>2
        <3> HIDE DEF time
        <3>2. QED BY <3>1, RaisedToZero DEF Age
    <2> HIDE DEF time
    <2>4. lost \in Nat
        <3> HIDE DEF r
        <3>1. QED BY <1>2, <2>3, NaturalQuotient
    <2> HIDE DEF lost, r
    <2>5. Unit - lost \in Int /\ Unit - lost <= Unit
        BY <1>2, <2>4
    <2>6. Max({0, Unit - lost}) \in 0..Unit
        BY <1>2, <2>5, RaisedToZero
    <2>7. RecencyWorth(policy, reference, b) = { Max({0, Unit - lost}) }
        BY <1>3 DEF RecencyWorth, lost, r, time
    <2>8. QED BY <2>6, <2>7
<1>4. CASE TimeOf(b) = {}
    BY <1>2, <1>4 DEF RecencyWorth
<1>5. QED BY <1>3, <1>4

\* The wrappers of a group, in its order.
CandidatesOf(g) == [ i \in DOMAIN g.members |-> g.members[i].candidate ]

\* A group with the shape deduplication gives it.
WellGrouped(g) ==
    /\ CandidatesOf(g) \in Seq(WrappersOf(g))
    /\ \A w \in WrappersOf(g) : WrapperShape(w)
    /\ \A v, w \in WrappersOf(g) : v.block.id = w.block.id => v.block = w.block

\* The wrappers of a group are those its members hold.
LEMMA CandidatesAre ==
    ASSUME NEW g
    PROVE  Elements(CandidatesOf(g)) = WrappersOf(g)
BY DEF CandidatesOf, WrappersOf, Elements

\* The distinct blocks of a group are its blocks, each once.
LEMMA DistinctBlocksAre ==
    ASSUME NEW g, WellGrouped(g)
    PROVE  /\ Elements(DistinctBlocks(g)) = GroupBlocks(g)
           /\ DistinctBlocks(g) \in Seq(GroupBlocks(g))
           /\ \A b \in GroupBlocks(g) : BlockShape(b)
<1> DEFINE B == GroupBlocks(g)
           R == { q \in B \X B : IdBefore(q[1], q[2]) }
           n == Cardinality(B)
           p == DistinctBlocks(g)
<1>1. IsFiniteSet(B)
    <2>1. IsFiniteSet(WrappersOf(g))
        BY CandidatesAre, ElementsFinite DEF WellGrouped
    <2>2. QED BY <2>1, BlocksFinite DEF GroupBlocks
<1>2. \A b \in B : b.id \in Nat /\ BlockShape(b)
    BY DEF GroupBlocks, BlocksOf, BlockOf, WellGrouped, WrapperShape, BlockShape
<1>3. \A b, c \in B : b.id = c.id => b = c
    BY DEF GroupBlocks, BlocksOf, BlockOf, WellGrouped
<1>4. StrictOrder(R, B)
    <2>1. \A b, c \in B : << b, c >> \in R <=> b.id < c.id
        BY DEF IdBefore
    <2> HIDE DEF R, B
    <2>2. QED BY <1>2, <1>3, <2>1 DEF StrictOrder
<1>5. p = Lined(B, R)
    BY DEF DistinctBlocks, Listed
<1>6. DOMAIN p = 1..n /\ p = [k \in DOMAIN p |-> p[k]]
    <2> DEFINE at(k) == CHOOSE x \in B : Cardinality({ y \in B : << y, x >> \in R }) = k - 1
    <2>1. p = [ k \in 1..n |-> at(k) ]
        BY <1>5 DEF Lined
    <2> HIDE DEF at, p
    <2>2. QED BY <2>1
<1> HIDE DEF R, B, p
<1>7. n \in Nat /\ p \in Bijection(1..n, B)
    BY <1>1, <1>4, <1>5, LinedArranges
<1>8. Elements(p) = B
    <2> DEFINE N == 1..n
    <2>1. DOMAIN p = N /\ p \in Bijection(N, B)
        BY <1>6, <1>7
    <2> HIDE DEF N, n
    <2>2. p \in [N -> B] /\ \A k \in B : \E i \in N : p[i] = k
        BY <2>1, Arranges
    <2>3. QED BY <2>1, <2>2 DEF Elements
<1>9. p \in Seq(B)
    <2>1. p \in Seq(Elements(p))
        BY <1>6, <1>7, LenIsLast
    <2>2. QED BY <1>8, <2>1
<1>10. QED BY <1>2, <1>8, <1>9 DEF B, p

\* The retrieval values of a group are what its wrappers are worth.
LEMMA RetrievalValuesAre ==
    ASSUME NEW policy, NEW g, WellGrouped(g)
    PROVE  Elements(RetrievalValues(policy, g)) = UNION { RetrievalWorth(policy, w) : w \in WrappersOf(g) }
<1> DEFINE scored    == Retrieved(CandidatesOf(g))
           counts(w) == ContractOf(w) \notin IgnoredOf(policy) /\ RetrievalIssues(policy, w) = {}
           D         == { i \in DOMAIN scored : counts(scored[i]) }
           usable    == Picked(scored, D, {})
           worth(w)  == LET rule == The(RulesFor(policy, ContractOf(w)))
                        IN  NormalizeInRange(RawValue(w), rule.min, rule.max, HigherIsBetter[rule.contract])
<1>1. /\ Elements(scored) = { w \in WrappersOf(g) : HasScore(w) }
      /\ scored \in Seq(Elements(scored))
    <2> DEFINE c == CandidatesOf(g)
    <2>1. c \in Seq(WrappersOf(g)) /\ Elements(c) = WrappersOf(g)
        BY CandidatesAre DEF WellGrouped
    <2> HIDE DEF c
    <2>2. /\ Elements(Retrieved(c)) = { w \in Elements(c) : HasScore(w) }
          /\ Retrieved(c) \in Seq(Elements(Retrieved(c)))
        BY <2>1, RetrievedElements
    <2>3. QED BY <2>1, <2>2 DEF c
<1>2. RetrievalValues(policy, g) = [ i \in DOMAIN usable |-> worth(usable[i]) ]
    BY DEF RetrievalValues, Filtered, CandidatesOf
<1>3. Elements(usable) = { w \in WrappersOf(g) : HasScore(w) /\ counts(w) }
    <2>1. D \in SUBSET DOMAIN scored
        OBVIOUS
    <2>2. { scored[i] : i \in D } = { w \in Elements(scored) : counts(w) }
        BY DEF Elements
    <2> HIDE DEF D, scored
    <2>3. Elements(Picked(scored, D, {})) = { scored[i] : i \in D }
        BY <1>1, <2>1, FilterElements
    <2> HIDE DEF counts
    <2>4. QED BY <1>1, <2>2, <2>3
<1> HIDE DEF usable
<1>4. Elements(RetrievalValues(policy, g)) = { worth(w) : w \in Elements(usable) }
    <2> HIDE DEF worth
    <2>1. QED BY <1>2 DEF Elements
<1>5. \A w : RetrievalWorth(policy, w) = IF HasScore(w) /\ counts(w) THEN { worth(w) } ELSE {}
    BY DEF RetrievalWorth
<1> HIDE DEF worth, counts
<1>6. ASSUME NEW x \in Elements(RetrievalValues(policy, g))
      PROVE  x \in UNION { RetrievalWorth(policy, w) : w \in WrappersOf(g) }
    <2>1. PICK w \in Elements(usable) : x = worth(w)
        BY <1>4
    <2>2. w \in WrappersOf(g) /\ x \in RetrievalWorth(policy, w)
        BY <1>3, <1>5, <2>1
    <2>3. QED BY <2>2
<1>7. ASSUME NEW w \in WrappersOf(g), NEW x \in RetrievalWorth(policy, w)
      PROVE  x \in Elements(RetrievalValues(policy, g))
    <2>1. w \in Elements(usable) /\ x = worth(w)
        BY <1>3, <1>5
    <2>2. QED BY <1>4, <2>1
<1>8. QED BY <1>6, <1>7

\* The authored priorities of a group are what its blocks are worth.
LEMMA PriorityValuesAre ==
    ASSUME NEW policy, NEW g, WellGrouped(g)
    PROVE  Elements(PriorityValues(policy, g)) = UNION { PriorityWorth(policy, w.block) : w \in WrappersOf(g) }
<1> DEFINE blocks    == DistinctBlocks(g)
           a         == The(policy.authoredPriority)
           counts(b) == b.priority # {} /\ PriorityIssues(policy, b) = {}
           D         == { i \in DOMAIN blocks : counts(blocks[i]) }
           usable    == Picked(blocks, D, {})
           worth(b)  == NormalizeInRange(The(b.priority), a.min, a.max, TRUE)
<1>1. Elements(blocks) = GroupBlocks(g) /\ blocks \in Seq(GroupBlocks(g))
    BY DistinctBlocksAre
<1>2. PriorityValues(policy, g) = [ i \in DOMAIN usable |-> worth(usable[i]) ]
    BY DEF PriorityValues, Filtered
<1>3. Elements(usable) = { b \in GroupBlocks(g) : counts(b) }
    <2>1. D \in SUBSET DOMAIN blocks
        OBVIOUS
    <2>2. { blocks[i] : i \in D } = { b \in Elements(blocks) : counts(b) }
        BY DEF Elements
    <2> HIDE DEF D, blocks
    <2>3. Elements(Picked(blocks, D, {})) = { blocks[i] : i \in D }
        BY <1>1, <2>1, FilterElements
    <2> HIDE DEF counts
    <2>4. QED BY <1>1, <2>2, <2>3
<1> HIDE DEF usable
<1>4. Elements(PriorityValues(policy, g)) = { worth(b) : b \in Elements(usable) }
    <2> HIDE DEF worth
    <2>1. QED BY <1>2 DEF Elements
<1>5. \A b : PriorityWorth(policy, b) = IF counts(b) THEN { worth(b) } ELSE {}
    BY DEF PriorityWorth
<1>6. GroupBlocks(g) = { w.block : w \in WrappersOf(g) }
    BY DEF GroupBlocks, BlocksOf, BlockOf
<1> HIDE DEF worth, counts
<1>7. ASSUME NEW x \in Elements(PriorityValues(policy, g))
      PROVE  x \in UNION { PriorityWorth(policy, w.block) : w \in WrappersOf(g) }
    <2>1. PICK b \in Elements(usable) : x = worth(b)
        BY <1>4
    <2>2. PICK w \in WrappersOf(g) : b = w.block
        BY <1>3, <1>6, <2>1
    <2>3. x \in PriorityWorth(policy, w.block)
        BY <1>3, <1>5, <2>1, <2>2
    <2>4. QED BY <2>3
<1>8. ASSUME NEW w \in WrappersOf(g), NEW x \in PriorityWorth(policy, w.block)
      PROVE  x \in Elements(PriorityValues(policy, g))
    <2>1. w.block \in Elements(usable) /\ x = worth(w.block)
        BY <1>3, <1>5, <1>6
    <2>2. QED BY <1>4, <2>1
<1>9. QED BY <1>7, <1>8

\* The source priorities of a group are what its blocks are worth.
LEMMA SourceValuesAre ==
    ASSUME NEW policy, NEW g, WellGrouped(g)
    PROVE  Elements(SourceValues(policy, g)) = UNION { SourceWorth(policy, w.block) : w \in WrappersOf(g) }
<1> DEFINE blocks   == DistinctBlocks(g)
           s        == The(policy.sourcePriority)
           worth(b) == ConfiguredValue(s.rules, b.doc, s.default)
<1>1. Elements(blocks) = { w.block : w \in WrappersOf(g) }
    BY DistinctBlocksAre DEF GroupBlocks, BlocksOf, BlockOf
<1>2. SourceValues(policy, g) = [ i \in DOMAIN blocks |-> worth(blocks[i]) ]
    BY DEF SourceValues
<1>3. \A b : SourceWorth(policy, b) = { worth(b) }
    BY DEF SourceWorth
<1> HIDE DEF worth, blocks
<1>4. Elements(SourceValues(policy, g)) = { worth(b) : b \in Elements(blocks) }
    BY <1>2 DEF Elements
<1>5. Elements(SourceValues(policy, g)) = { worth(w.block) : w \in WrappersOf(g) }
    BY <1>1, <1>4
<1>6. QED BY <1>3, <1>5

\* The category priorities of a group are what its blocks are worth.
LEMMA CategoryValuesAre ==
    ASSUME NEW policy, NEW g, WellGrouped(g)
    PROVE  Elements(CategoryValues(policy, g)) = UNION { CategoryWorth(policy, w.block) : w \in WrappersOf(g) }
<1> DEFINE blocks   == DistinctBlocks(g)
           c        == The(policy.categoryPriority)
           worth(b) == IF b.category = {} THEN c.default ELSE ConfiguredValue(c.rules, The(b.category), c.default)
<1>1. Elements(blocks) = { w.block : w \in WrappersOf(g) }
    BY DistinctBlocksAre DEF GroupBlocks, BlocksOf, BlockOf
<1>2. CategoryValues(policy, g) = [ i \in DOMAIN blocks |-> worth(blocks[i]) ]
    BY DEF CategoryValues
<1>3. \A b : CategoryWorth(policy, b) = { worth(b) }
    BY DEF CategoryWorth
<1> HIDE DEF worth, blocks
<1>4. Elements(CategoryValues(policy, g)) = { worth(b) : b \in Elements(blocks) }
    BY <1>2 DEF Elements
<1>5. Elements(CategoryValues(policy, g)) = { worth(w.block) : w \in WrappersOf(g) }
    BY <1>1, <1>4
<1>6. QED BY <1>3, <1>5

\* The recencies of a group are what its blocks are worth.
LEMMA RecencyValuesAre ==
    ASSUME NEW policy, NEW reference, NEW g, WellGrouped(g)
    PROVE  Elements(RecencyValues(policy, reference, g))
               = UNION { RecencyWorth(policy, reference, w.block) : w \in WrappersOf(g) }
<1> DEFINE blocks   == DistinctBlocks(g)
           r        == The(policy.recency)
           worth(b) == IF TimeOf(b) = {} THEN r.missing
                       ELSE Max({0, Unit - (Age(reference, The(TimeOf(b))) * Unit) \div r.maxAge})
<1>1. Elements(blocks) = { w.block : w \in WrappersOf(g) }
    BY DistinctBlocksAre DEF GroupBlocks, BlocksOf, BlockOf
<1>2. RecencyValues(policy, reference, g) = [ i \in DOMAIN blocks |-> worth(blocks[i]) ]
    BY DEF RecencyValues
<1>3. \A b : RecencyWorth(policy, reference, b) = { worth(b) }
    BY DEF RecencyWorth
<1> HIDE DEF worth, blocks
<1>4. Elements(RecencyValues(policy, reference, g)) = { worth(b) : b \in Elements(blocks) }
    BY <1>2 DEF Elements
<1>5. Elements(RecencyValues(policy, reference, g)) = { worth(w.block) : w \in WrappersOf(g) }
    BY <1>1, <1>4
<1>6. QED BY <1>3, <1>5

Worth(policy, reference, component, w) ==
    CASE component = "retrieval"        -> RetrievalWorth(policy, w)
      [] component = "authoredPriority" -> PriorityWorth(policy, w.block)
      [] component = "sourcePriority"   -> SourceWorth(policy, w.block)
      [] component = "categoryPriority" -> CategoryWorth(policy, w.block)
      [] component = "recency"          -> RecencyWorth(policy, reference, w.block)

\* What some wrappers together are worth: the most one of them is.
WorthOf(policy, reference, component, ws) == UNION { Worth(policy, reference, component, w) : w \in ws }
Strength(policy, reference, component, ws) == Max({0} \cup WorthOf(policy, reference, component, ws))

\* The components, one by one.
LEMMA FiveComponents ==
    /\ DOMAIN Components = 1..5
    /\ Components[1] = "retrieval" /\ Components[2] = "authoredPriority" /\ Components[3] = "sourcePriority"
    /\ Components[4] = "categoryPriority" /\ Components[5] = "recency"
    /\ Elements(Components) = {"retrieval", "authoredPriority", "sourcePriority", "categoryPriority", "recency"}
<1>1. DOMAIN Components = 1..5
    BY DEF Components
<1>2. /\ Components[1] = "retrieval" /\ Components[2] = "authoredPriority" /\ Components[3] = "sourcePriority"
      /\ Components[4] = "categoryPriority" /\ Components[5] = "recency"
    BY DEF Components
<1>3. 1..5 = {1, 2, 3, 4, 5}
    OBVIOUS
<1>4. Elements(Components) = { Components[i] : i \in {1, 2, 3, 4, 5} }
    BY <1>1, <1>3 DEF Elements
<1>5. QED BY <1>1, <1>2, <1>4

\* The values of a component are what the wrappers of the group are worth to it.
LEMMA ComponentWorth ==
    ASSUME NEW policy, NEW reference, NEW g, WellGrouped(g), NEW component \in Elements(Components)
    PROVE  Elements(ComponentValues(policy, reference, g, component))
               = WorthOf(policy, reference, component, WrappersOf(g))
<1>1. CASE component = "retrieval"
    <2>1. ComponentValues(policy, reference, g, component) = RetrievalValues(policy, g)
        BY <1>1, Zenon DEF ComponentValues
    <2>2. \A w : Worth(policy, reference, component, w) = RetrievalWorth(policy, w)
        BY <1>1, Zenon DEF Worth
    <2>3. WorthOf(policy, reference, component, WrappersOf(g)) = UNION { RetrievalWorth(policy, w) : w \in WrappersOf(g) }
        BY <2>2 DEF WorthOf
    <2>4. QED BY <2>1, <2>3, RetrievalValuesAre
<1>2. CASE component = "authoredPriority"
    <2>1. ComponentValues(policy, reference, g, component) = PriorityValues(policy, g)
        BY <1>2, Zenon DEF ComponentValues
    <2>2. \A w : Worth(policy, reference, component, w) = PriorityWorth(policy, w.block)
        BY <1>2, Zenon DEF Worth
    <2>3. WorthOf(policy, reference, component, WrappersOf(g)) = UNION { PriorityWorth(policy, w.block) : w \in WrappersOf(g) }
        BY <2>2 DEF WorthOf
    <2>4. QED BY <2>1, <2>3, PriorityValuesAre
<1>3. CASE component = "sourcePriority"
    <2>1. ComponentValues(policy, reference, g, component) = SourceValues(policy, g)
        BY <1>3, Zenon DEF ComponentValues
    <2>2. \A w : Worth(policy, reference, component, w) = SourceWorth(policy, w.block)
        BY <1>3, Zenon DEF Worth
    <2>3. WorthOf(policy, reference, component, WrappersOf(g)) = UNION { SourceWorth(policy, w.block) : w \in WrappersOf(g) }
        BY <2>2 DEF WorthOf
    <2>4. QED BY <2>1, <2>3, SourceValuesAre
<1>4. CASE component = "categoryPriority"
    <2>1. ComponentValues(policy, reference, g, component) = CategoryValues(policy, g)
        BY <1>4, Zenon DEF ComponentValues
    <2>2. \A w : Worth(policy, reference, component, w) = CategoryWorth(policy, w.block)
        BY <1>4, Zenon DEF Worth
    <2>3. WorthOf(policy, reference, component, WrappersOf(g)) = UNION { CategoryWorth(policy, w.block) : w \in WrappersOf(g) }
        BY <2>2 DEF WorthOf
    <2>4. QED BY <2>1, <2>3, CategoryValuesAre
<1>5. CASE component = "recency"
    <2>1. ComponentValues(policy, reference, g, component) = RecencyValues(policy, reference, g)
        BY <1>5, Zenon DEF ComponentValues
    <2>2. \A w : Worth(policy, reference, component, w) = RecencyWorth(policy, reference, w.block)
        BY <1>5, Zenon DEF Worth
    <2>3. WorthOf(policy, reference, component, WrappersOf(g))
              = UNION { RecencyWorth(policy, reference, w.block) : w \in WrappersOf(g) }
        BY <2>2 DEF WorthOf
    <2>4. QED BY <2>1, <2>3, RecencyValuesAre
<1>6. QED BY <1>1, <1>2, <1>3, <1>4, <1>5, FiveComponents

\* A wrapper is worth at most 1 to a component the policy counts.
LEMMA WorthBounded ==
    ASSUME NEW policy, ScoringPolicyShape(policy), NEW reference \in Int, NEW component \in Elements(Components),
           Configured(policy, component), NEW w, WrapperShape(w)
    PROVE  Worth(policy, reference, component, w) \subseteq 0..Unit
<1>0. BlockShape(w.block)
    BY DEF WrapperShape
<1>1. CASE component = "retrieval"
    <2>1. Worth(policy, reference, component, w) = RetrievalWorth(policy, w)
        BY <1>1, Zenon DEF Worth
    <2>2. QED BY <2>1, RetrievalWorthIs
<1>2. CASE component = "authoredPriority"
    <2>1. Worth(policy, reference, component, w) = PriorityWorth(policy, w.block)
        BY <1>2, Zenon DEF Worth
    <2>2. policy.authoredPriority # {}
        BY <1>2 DEF Configured
    <2>3. QED BY <1>0, <2>1, <2>2, PriorityWorthIs
<1>3. CASE component = "sourcePriority"
    <2>1. Worth(policy, reference, component, w) = SourceWorth(policy, w.block)
        BY <1>3, Zenon DEF Worth
    <2>2. policy.sourcePriority # {}
        BY <1>3 DEF Configured
    <2>3. QED BY <2>1, <2>2, SourceWorthIs
<1>4. CASE component = "categoryPriority"
    <2>1. Worth(policy, reference, component, w) = CategoryWorth(policy, w.block)
        BY <1>4, Zenon DEF Worth
    <2>2. policy.categoryPriority # {}
        BY <1>4 DEF Configured
    <2>3. QED BY <2>1, <2>2, CategoryWorthIs
<1>5. CASE component = "recency"
    <2>1. Worth(policy, reference, component, w) = RecencyWorth(policy, reference, w.block)
        BY <1>5, Zenon DEF Worth
    <2>2. policy.recency # {}
        BY <1>5 DEF Configured
    <2>3. QED BY <1>0, <2>1, <2>2, RecencyWorthIs
<1>6. QED BY <1>1, <1>2, <1>3, <1>4, <1>5, FiveComponents

\* A component contributes its weight times what the strongest wrapper is worth,
\* or nothing.
LEMMA ContributionIs ==
    ASSUME NEW policy, ScoringPolicyShape(policy), NEW reference \in Int, NEW component \in Elements(Components),
           NEW g, WellGrouped(g)
    PROVE  /\ ~ Configured(policy, component) => Contribution(policy, reference, g, component) = 0
           /\ Configured(policy, component) =>
                 /\ The(policy[component]).weight \in Nat
                 /\ Strength(policy, reference, component, WrappersOf(g)) \in 0..Unit
                 /\ Contribution(policy, reference, g, component)
                        = The(policy[component]).weight * Strength(policy, reference, component, WrappersOf(g))
<1>1. ASSUME Configured(policy, component)
      PROVE  /\ The(policy[component]).weight \in Nat
             /\ Strength(policy, reference, component, WrappersOf(g)) \in 0..Unit
             /\ Contribution(policy, reference, g, component)
                    = The(policy[component]).weight * Strength(policy, reference, component, WrappersOf(g))
    <2>1. The(policy[component]) \in policy[component]
        BY <1>1, TheOption DEF Configured
    <2>2. The(policy[component]).weight \in Nat
        BY <2>1 DEF ScoringPolicyShape
    <2> DEFINE worth == WorthOf(policy, reference, component, WrappersOf(g))
    <2>3. worth \subseteq 0..Unit
        <3>1. \A w \in WrappersOf(g) : Worth(policy, reference, component, w) \subseteq 0..Unit
            BY <1>1, WorthBounded DEF WellGrouped
        <3>2. QED BY <3>1 DEF WorthOf
    <2>4. Elements(ComponentValues(policy, reference, g, component)) = worth
        BY ComponentWorth
    <2>5. MaxNormalized(ComponentValues(policy, reference, g, component)) = Max({0} \cup worth)
        BY <2>4 DEF MaxNormalized
    <2> HIDE DEF worth
    <2>6. Max({0} \cup worth) \in 0..Unit
        <3>1. Unit \in Nat
            BY UnitAssumption
        <3> DEFINE S == {0} \cup worth
        <3>2. S \in SUBSET (0..Unit) /\ S # {}
            BY <2>3, <3>1
        <3> HIDE DEF S
        <3>3. Max(S) \in S
            BY <3>1, <3>2, MaxIs
        <3>4. Max(S) \in 0..Unit
            BY <3>2, <3>3
        <3>5. QED BY <3>4 DEF S
    <2>7. QED BY <1>1, <2>2, <2>5, <2>6 DEF Contribution, Strength, worth
<1>2. QED BY <1>1 DEF Contribution

\* Deduplication makes groups of that shape.
LEMMA GroupForIsWell ==
    ASSUME NEW candidates, IsSound(candidates), NEW key
    PROVE  WellGrouped(GroupFor(candidates, key))
<1> DEFINE ms     == MembersOf(candidates, key)
           sorted == Sorted(ms, WrapperBefore)
           g      == GroupFor(candidates, key)
<1>1. ms \in Seq(Under(candidates, key)) /\ Elements(ms) = Under(candidates, key)
    BY MembersUnderKey DEF IsSound
<1>2. \A w \in Under(candidates, key) : WrapperShape(w)
    BY DEF Under, IsSound, IsBatch
<1>3. \A i \in DOMAIN ms : WrapperShape(ms[i])
    <2>1. \A i \in DOMAIN ms : ms[i] \in Elements(ms)
        BY DEF Elements
    <2>2. QED BY <1>1, <1>2, <2>1
<1>4. sorted = Picked(ms, DOMAIN ms, WrapperOrderOf(ms))
    BY DEF Sorted, WrapperOrderOf
<1>5. sorted \in Seq(Under(candidates, key))
    <2> HIDE DEF ms, sorted
    <2>1. WeakOrder(WrapperOrderOf(ms), DOMAIN ms)
        BY <1>3, WrappersWeak
    <2>2. Picked(ms, DOMAIN ms, WrapperOrderOf(ms)) \in Seq(Elements(ms))
        BY <1>1, <2>1, SortElements
    <2>3. QED BY <1>1, <1>4, <2>2
<1>6. CandidatesOf(g) = [ i \in DOMAIN sorted |-> sorted[i] ]
    <2> DEFINE match(i) == MatchReason(sorted[i], Canonical(BlocksById(ms)))
    <2>1. g.members = [ i \in DOMAIN sorted |-> [candidate |-> sorted[i], match |-> match(i)] ]
        BY DEF GroupFor
    <2> HIDE DEF match, g, sorted, ms
    <2>2. QED BY <2>1 DEF CandidatesOf
<1> HIDE DEF sorted, ms
<1>7. CandidatesOf(g) = sorted
    BY <1>5, <1>6
<1>8. WrappersOf(g) = Under(candidates, key)
    BY GroupHolds DEF IsSound
<1> HIDE DEF g
<1>9. WellGrouped(g)
    BY <1>2, <1>5, <1>7, <1>8 DEF WellGrouped, Under, IsSound
<1>10. QED BY <1>9 DEF g

WeightIn(policy, component) == IF Configured(policy, component) THEN The(policy[component]).weight ELSE 0

\* No component contributes more than its weight.
LEMMA ContributionBounded ==
    ASSUME NEW policy, ScoringPolicyShape(policy), NEW reference \in Int, NEW component \in Elements(Components),
           NEW g, WellGrouped(g)
    PROVE  /\ WeightIn(policy, component) \in Nat
           /\ Contribution(policy, reference, g, component) \in Nat
           /\ Contribution(policy, reference, g, component) <= WeightIn(policy, component) * Unit
<1>1. CASE ~ Configured(policy, component)
    <2>1. Contribution(policy, reference, g, component) = 0
        BY <1>1, ContributionIs
    <2>2. WeightIn(policy, component) = 0
        BY <1>1 DEF WeightIn
    <2>3. Unit \in Nat
        BY UnitAssumption
    <2>4. QED BY <2>1, <2>2, <2>3
<1>2. CASE Configured(policy, component)
    <2> DEFINE a == The(policy[component]).weight
               b == Strength(policy, reference, component, WrappersOf(g))
    <2>1. a \in Nat /\ b \in 0..Unit /\ Contribution(policy, reference, g, component) = a * b
        BY <1>2, ContributionIs
    <2>2. WeightIn(policy, component) = a
        BY <1>2 DEF WeightIn
    <2> HIDE DEF a, b
    <2>3. Unit \in Nat
        BY UnitAssumption
    <2>4. b \in Nat /\ b <= Unit
        BY <2>1, <2>3
    <2>5. a * b <= a * Unit
        BY <2>1, <2>3, <2>4
    <2>6. a * b \in Nat
        BY <2>1, <2>4
    <2>7. QED BY <2>1, <2>2, <2>5, <2>6
<1>3. QED BY <1>1, <1>2

\* The total is a number, and no more than the weights.
LEMMA TotalBounded ==
    ASSUME NEW policy, ScoringPolicyShape(policy), NEW reference \in Int, NEW g, WellGrouped(g)
    PROVE  /\ Total(policy, reference, g) \in Nat
           /\ Total(policy, reference, g)
                  <= (WeightIn(policy, "retrieval") + WeightIn(policy, "authoredPriority")
                      + WeightIn(policy, "sourcePriority") + WeightIn(policy, "categoryPriority")
                      + WeightIn(policy, "recency")) * Unit
<1> DEFINE c(x) == Contribution(policy, reference, g, x)
           w(x) == WeightIn(policy, x)
<1>1. \A x \in Elements(Components) : w(x) \in Nat /\ c(x) \in Nat /\ c(x) <= w(x) * Unit
    BY ContributionBounded
<1>2. Total(policy, reference, g) = c("retrieval") + c("authoredPriority") + c("sourcePriority")
                                    + c("categoryPriority") + c("recency")
    <2> DEFINE t == Contributions(policy, reference, g)
    <2>1. \A i \in 1..5 : t[i] = c(Components[i])
        BY FiveComponents DEF Contributions
    <2>2. Total(policy, reference, g) = t[1] + t[2] + t[3] + t[4] + t[5]
        BY DEF Total
    <2> HIDE DEF t, c
    <2>3. QED BY <2>1, <2>2, FiveComponents
<1> HIDE DEF c, w
<1>3. /\ w("retrieval") \in Nat /\ c("retrieval") \in Nat /\ c("retrieval") <= w("retrieval") * Unit
      /\ w("authoredPriority") \in Nat /\ c("authoredPriority") \in Nat
      /\ c("authoredPriority") <= w("authoredPriority") * Unit
      /\ w("sourcePriority") \in Nat /\ c("sourcePriority") \in Nat /\ c("sourcePriority") <= w("sourcePriority") * Unit
      /\ w("categoryPriority") \in Nat /\ c("categoryPriority") \in Nat
      /\ c("categoryPriority") <= w("categoryPriority") * Unit
      /\ w("recency") \in Nat /\ c("recency") \in Nat /\ c("recency") <= w("recency") * Unit
    BY <1>1, FiveComponents
<1>4. Unit \in Nat
    BY UnitAssumption
<1>5. (w("retrieval") + w("authoredPriority") + w("sourcePriority") + w("categoryPriority") + w("recency")) * Unit
          = w("retrieval") * Unit + w("authoredPriority") * Unit + w("sourcePriority") * Unit
            + w("categoryPriority") * Unit + w("recency") * Unit
    BY <1>3, <1>4
<1>6. QED BY <1>2, <1>3, <1>4, <1>5 DEF w

\* The scored groups, one by one, and in their order.
ScoredGroups(policy, reference, groups) == [ i \in DOMAIN groups |-> ScoreGroup(policy, reference, groups[i]) ]
RankOrderOf(ss) == { q \in (DOMAIN ss) \X (DOMAIN ss) : RankedBefore(ss[q[1]], ss[q[2]]) }

\* Scores in one order: a larger total first, and the lower identifier.
LEMMA RanksWeak ==
    ASSUME NEW ss, \A i \in DOMAIN ss : ss[i].total \in Int /\ ss[i].id \in Int
    PROVE  WeakOrder(RankOrderOf(ss), DOMAIN ss)
<1>1. \A i, j \in DOMAIN ss : << i, j >> \in RankOrderOf(ss) <=> RankedBefore(ss[i], ss[j])
    BY DEF RankOrderOf
<1>2. ASSUME NEW x \in DOMAIN ss, NEW y \in DOMAIN ss, RankedBefore(ss[x], ss[y])
      PROVE  ~ RankedBefore(ss[y], ss[x])
    BY <1>2 DEF RankedBefore
<1>3. ASSUME NEW x \in DOMAIN ss, NEW y \in DOMAIN ss, NEW z \in DOMAIN ss, RankedBefore(ss[x], ss[y])
      PROVE  RankedBefore(ss[x], ss[z]) \/ RankedBefore(ss[z], ss[y])
    BY <1>3 DEF RankedBefore
<1>4. QED BY <1>1, <1>2, <1>3 DEF WeakOrder

\* The groups of a sound batch have the shape, a canonical identifier and a total.
LEMMA SoundGroups ==
    ASSUME NEW candidates, IsSound(candidates), NEW policy, ScoringPolicyShape(policy), NEW reference \in Int,
           NEW g \in GroupsOf(candidates)
    PROVE  /\ WellGrouped(g)
           /\ g.canonical.id \in Nat
           /\ Total(policy, reference, g) \in Nat
<1>1. WellGrouped(g)
    BY GroupForIsWell DEF GroupsOf
<1>2. QED BY <1>1, CanonicalIds, TotalBounded

\* To score a batch is to score each of its groups.
LEMMA ScoreIs ==
    ASSUME NEW candidates, IsSound(candidates), NEW policy, ScoringPolicyShape(policy), NEW reference \in Int
    PROVE  LET scored == Score(policy, reference, Deduplicate(candidates))
           IN  /\ Elements(scored) = { ScoreGroup(policy, reference, g) : g \in GroupsOf(candidates) }
               /\ scored \in Seq(Elements(scored))
<1> DEFINE groups == Deduplicate(candidates)
           ss     == ScoredGroups(policy, reference, groups)
           n      == Cardinality(GroupsOf(candidates))
           scored == Score(policy, reference, groups)
<1>1. n \in Nat /\ DOMAIN groups = 1..n /\ Elements(groups) = GroupsOf(candidates)
    BY DeduplicateLists
<1>2. \A i \in DOMAIN groups : groups[i] \in GroupsOf(candidates)
    BY <1>1 DEF Elements
<1> HIDE DEF groups, n
<1>3. DOMAIN ss = 1..n /\ ss = [i \in DOMAIN ss |-> ss[i]]
    BY <1>1 DEF ScoredGroups
<1>4. ss \in Seq(Elements(ss))
    <2> HIDE DEF ss
    <2>1. QED BY <1>1, <1>3, LenIsLast
<1>5. \A i \in DOMAIN ss : ss[i].total \in Int /\ ss[i].id \in Int
    <2>1. ASSUME NEW i \in DOMAIN ss PROVE ss[i].total \in Int /\ ss[i].id \in Int
        <3>1. i \in DOMAIN groups /\ ss[i] = ScoreGroup(policy, reference, groups[i])
            BY DEF ScoredGroups
        <3>2. ss[i].total = Total(policy, reference, groups[i]) /\ ss[i].id = groups[i].canonical.id
            BY <3>1 DEF ScoreGroup
        <3>3. Total(policy, reference, groups[i]) \in Nat /\ groups[i].canonical.id \in Nat
            BY <1>2, <3>1, SoundGroups
        <3>4. QED BY <3>2, <3>3
    <2>2. QED BY <2>1
<1>6. Elements(ss) = { ScoreGroup(policy, reference, g) : g \in GroupsOf(candidates) }
    <2>1. DOMAIN ss = DOMAIN groups /\ \A i \in DOMAIN groups : ss[i] = ScoreGroup(policy, reference, groups[i])
        BY DEF ScoredGroups
    <2> HIDE DEF ss
    <2>2. Elements(ss) = { ScoreGroup(policy, reference, groups[i]) : i \in DOMAIN groups }
        BY <2>1 DEF Elements
    <2>3. Elements(groups) = { groups[i] : i \in DOMAIN groups }
        BY DEF Elements
    <2>4. QED BY <1>1, <2>2, <2>3
<1>7. scored = Picked(ss, DOMAIN ss, RankOrderOf(ss))
    BY DEF Score, Sorted, RankOrderOf, ScoredGroups
<1> HIDE DEF ss
<1>8. WeakOrder(RankOrderOf(ss), DOMAIN ss)
    BY <1>5, RanksWeak
<1>9. Picked(ss, DOMAIN ss, RankOrderOf(ss)) \in Seq(Elements(ss))
    BY <1>4, <1>8, SortElements
<1>10. Elements(Picked(ss, DOMAIN ss, RankOrderOf(ss))) = Elements(ss)
    BY <1>4, <1>8, SortElements
<1>11. QED BY <1>6, <1>7, <1>9, <1>10 DEF groups

\* A finite set is enumerated by a sequence, each member once.
LEMMA SetToSeqEnumerates ==
    ASSUME NEW S, IsFiniteSet(S)
    PROVE  /\ SetToSeq(S) \in Seq(S)
           /\ Elements(SetToSeq(S)) = S
           /\ Cardinality(S) \in Nat
           /\ DOMAIN SetToSeq(S) = 1..Cardinality(S)
           /\ \A i, j \in DOMAIN SetToSeq(S) : SetToSeq(S)[i] = SetToSeq(S)[j] => i = j
<1> DEFINE n == Cardinality(S)
           N == 1..n
           q == SetToSeq(S)
<1>1. n \in Nat
    BY FS_CardinalityType
<1>2. IsFiniteSet(N) /\ Cardinality(N) = n
    BY <1>1, FS_Interval
<1>3. PICK f : f \in Bijection(N, S)
    <2> HIDE DEF N
    <2>1. ExistsBijection(N, S)
        BY <1>2, FS_SameCardinalityBij
    <2>2. QED BY <2>1 DEF ExistsBijection
<1>4. f \in [N -> S] /\ IsInjective(f)
    BY <1>3 DEF Bijection, Injection
<1>5. q \in [N -> S] /\ IsInjective(q)
    <2> HIDE DEF N
    <2>1. \E x \in [N -> S] : IsInjective(x)
        BY <1>4
    <2>2. q = CHOOSE x \in [N -> S] : IsInjective(x)
        BY DEF SetToSeq, N
    <2> HIDE DEF q
    <2>3. QED BY <2>1, <2>2
<1> HIDE DEF q
<1>6. q \in Surjection(N, S)
    <2> HIDE DEF N
    <2>1. q \in Injection(N, S)
        BY <1>5 DEF Injection
    <2>2. QED BY <1>2, <2>1, FS_Injection
<1>7. Elements(q) = S
    <2> HIDE DEF N
    <2>1. DOMAIN q = N /\ \A x \in S : \E i \in N : q[i] = x
        BY <1>5, <1>6 DEF Surjection
    <2>2. QED BY <1>5, <2>1 DEF Elements
<1>8. q \in Seq(S)
    BY <1>1, <1>5
<1>9. DOMAIN q = 1..n /\ \A i, j \in DOMAIN q : q[i] = q[j] => i = j
    BY <1>5 DEF IsInjective
<1>10. QED BY <1>1, <1>7, <1>8, <1>9 DEF q

\* Some wrappers of a sound batch are a sound batch.
LEMMA SubBatch ==
    ASSUME NEW candidates, IsSound(candidates), NEW s \in Seq(Elements(candidates))
    PROVE  IsSound(s) /\ s \in Seq(Elements(s))
<1>1. \A i \in DOMAIN s : s[i] \in Elements(candidates)
    OBVIOUS
<1>2. Elements(s) \subseteq Elements(candidates)
    BY <1>1 DEF Elements
<1>3. s \in Seq(Elements(s))
    <2>1. s = [i \in DOMAIN s |-> s[i]] /\ Len(s) \in Nat /\ DOMAIN s = 1..Len(s)
        OBVIOUS
    <2>2. QED BY <2>1, LenIsLast
<1>4. QED BY <1>2, <1>3 DEF IsSound, IsBatch

\* The wrappers of a group decide what it scores: not how often they stand in it.
LEMMA WrappersDecide ==
    ASSUME NEW policy, ScoringPolicyShape(policy), NEW reference \in Int, NEW g, WellGrouped(g),
           NEW h, WellGrouped(h), WrappersOf(g) = WrappersOf(h)
    PROVE  Total(policy, reference, g) = Total(policy, reference, h)
<1>1. \A c \in Elements(Components) : Contribution(policy, reference, g, c) = Contribution(policy, reference, h, c)
    BY ContributionIs
<1>2. \A i \in DOMAIN Components : Components[i] \in Elements(Components)
    BY DEF Elements
<1>3. Contributions(policy, reference, g) = Contributions(policy, reference, h)
    BY <1>1, <1>2 DEF Contributions
<1>4. QED BY <1>3 DEF Total

\* One wrapper alone forms a group that holds it and nothing else.
LEMMA Alone ==
    ASSUME NEW candidates, IsSound(candidates), NEW w \in Elements(candidates)
    PROVE  /\ WellGrouped(GroupFor(<<w>>, GroupKey(w)))
           /\ WrappersOf(GroupFor(<<w>>, GroupKey(w))) = {w}
<1>1. <<w>> \in Seq(Elements(candidates)) /\ Elements(<<w>>) = {w}
    BY DEF Elements
<1>2. IsSound(<<w>>)
    BY <1>1, SubBatch
<1>3. WrappersOf(GroupFor(<<w>>, GroupKey(w))) = Under(<<w>>, GroupKey(w))
    BY <1>2, GroupHolds DEF IsSound
<1>4. Under(<<w>>, GroupKey(w)) = {w}
    BY <1>1 DEF Under
<1>5. QED BY <1>2, <1>3, <1>4, GroupForIsWell

\* To each component a group is worth what one of its wrappers alone is.
LEMMA OneWitness ==
    ASSUME NEW candidates, IsSound(candidates), NEW policy, ScoringPolicyShape(policy), NEW reference \in Int,
           NEW g \in GroupsOf(candidates), NEW component \in Elements(Components)
    PROVE  \E w \in WrappersOf(g) :
              Contribution(policy, reference, g, component)
                  = Contribution(policy, reference, GroupFor(<<w>>, GroupKey(w)), component)
<1> DEFINE W     == WrappersOf(g)
           of(w) == Worth(policy, reference, component, w)
           worth == WorthOf(policy, reference, component, W)
           M     == Strength(policy, reference, component, W)
<1>1. W # {} /\ W \subseteq Elements(candidates)
    BY GroupWrappers
<1>2. WellGrouped(g)
    BY SoundGroups
<1>3. \A w \in W : /\ WellGrouped(GroupFor(<<w>>, GroupKey(w)))
                   /\ WrappersOf(GroupFor(<<w>>, GroupKey(w))) = {w}
    BY <1>1, Alone
<1>4. CASE ~ Configured(policy, component)
    <2>1. PICK w : w \in W
        BY <1>1
    <2>2. Contribution(policy, reference, g, component) = 0
        BY <1>2, <1>4, ContributionIs
    <2>3. Contribution(policy, reference, GroupFor(<<w>>, GroupKey(w)), component) = 0
        BY <1>3, <1>4, <2>1, ContributionIs
    <2>4. QED BY <2>1, <2>2, <2>3
<1>5. CASE Configured(policy, component)
    <2>1. Unit \in Nat
        BY UnitAssumption
    <2>2. \A w \in W : of(w) \subseteq 0..Unit
        BY <1>2, <1>5, WorthBounded DEF WellGrouped
    <2>3. worth = UNION { of(w) : w \in W }
        BY DEF WorthOf
    <2>4. \A w \in W : WorthOf(policy, reference, component, {w}) = of(w)
        BY DEF WorthOf
    <2> HIDE DEF of, worth
    <2>5. \A x \in worth : x \in 0..Unit
        BY <2>2, <2>3
    <2>6. M \in {0} \cup worth /\ \A y \in {0} \cup worth : y <= M
        <3> DEFINE S == {0} \cup worth
        <3>1. S \in SUBSET (0..Unit) /\ S # {}
            BY <2>1, <2>5
        <3> HIDE DEF S
        <3>2. Max(S) \in S /\ \A y \in S : y <= Max(S)
            BY <2>1, <3>1, MaxIs
        <3>3. M = Max(S)
            BY DEF Strength, S, worth
        <3>4. QED BY <3>2, <3>3 DEF S
    <2> HIDE DEF M
    <2>7. PICK w \in W : M \in {0} \cup of(w)
        <3>1. CASE M = 0
            BY <1>1, <3>1
        <3>2. CASE M \in worth
            BY <2>3, <3>2
        <3>3. QED BY <2>6, <3>1, <3>2
    <2>8. Strength(policy, reference, component, {w}) = M
        <3> DEFINE S == {0} \cup of(w)
        <3>1. S \in SUBSET (0..Unit) /\ S # {}
            BY <2>1, <2>2
        <3>2. \A y \in S : y <= M
            BY <2>3, <2>6
        <3>3. M \in S
            BY <2>7
        <3>4. Strength(policy, reference, component, {w}) = Max(S)
            BY <2>4 DEF Strength
        <3> HIDE DEF S
        <3>5. Max(S) \in S /\ \A y \in S : y <= Max(S)
            BY <2>1, <3>1, MaxIs
        <3>6. Max(S) \in Int /\ M \in Int
            <4>1. \A y \in S : y \in 0..Unit
                BY <3>1
            <4>2. Max(S) \in 0..Unit /\ M \in 0..Unit
                BY <3>3, <3>5, <4>1
            <4> HIDE DEF M
            <4>3. QED BY <2>1, <4>2
        <3>7. Max(S) <= M /\ M <= Max(S)
            BY <3>2, <3>3, <3>5
        <3>8. QED BY <3>4, <3>6, <3>7
    <2>9. Contribution(policy, reference, g, component) = The(policy[component]).weight * M
        BY <1>2, <1>5, ContributionIs DEF M
    <2>10. Contribution(policy, reference, GroupFor(<<w>>, GroupKey(w)), component)
               = The(policy[component]).weight * M
        <3> DEFINE alone == GroupFor(<<w>>, GroupKey(w))
        <3>1. WellGrouped(alone) /\ WrappersOf(alone) = {w}
            BY <1>3, <2>7
        <3> HIDE DEF alone
        <3>2. Contribution(policy, reference, alone, component)
                  = The(policy[component]).weight * Strength(policy, reference, component, WrappersOf(alone))
            BY <1>5, <3>1, ContributionIs
        <3>3. QED BY <2>8, <3>1, <3>2 DEF alone
    <2>11. QED BY <2>7, <2>9, <2>10
<1>6. QED BY <1>4, <1>5

\* A group earns its score once: neither by repeating a wrapper nor by offering
\* more blocks of one text is it lifted above its strongest evidence, and no
\* evidence counts for more than its weight.
THEOREM RepetitionDoesNotScoreHolds == Spec => []RepetitionDoesNotScore
<1>1. StageInv => RepetitionDoesNotScore
    <2> DEFINE candidates == request.candidates
               reference  == request.reference
    <2> SUFFICES ASSUME StageInv, NEW s \in Elements(out.scored)
                 PROVE  /\ s.total <= WeightOf(s) * Unit
                        /\ s.total = Total(scoring, reference,
                               GroupFor(SetToSeq(WrappersOf(s.group)), GroupKey(s.group.members[1].candidate)))
                        /\ \E S \in SUBSET WrappersOf(s.group) :
                              /\ Cardinality(S) <= Len(Components)
                              /\ \A i \in DOMAIN Components : \E w \in S :
                                    Contribution(scoring, reference, s.group, Components[i])
                                        = Contribution(scoring, reference, GroupFor(<<w>>, GroupKey(w)), Components[i])
        BY DEF RepetitionDoesNotScore
    <2>1. where \in WithScores
        <3>1. ASSUME where \notin WithScores PROVE FALSE
            <4>1. out.scored = <<>>
                BY <3>1 DEF StageInv, OutputInv
            <4>2. QED BY <4>1 DEF Elements
        <3>2. QED BY <3>1
    <2>2. where \in WithGroups /\ where \in WithBatch
        BY <2>1 DEF WithBatch, WithEvidence, WithGroups
    <2>3. IsSound(candidates) /\ out.groups = Deduplicate(candidates)
        BY <2>2, GroupsOfSound
    <2>4. ScoringPolicyShape(scoring) /\ reference \in Int
        BY DEF StageInv, CheckedInv, RequestShape, scoring
    <2>5. out.scored = Score(scoring, reference, Deduplicate(candidates))
        BY <2>1, <2>3 DEF StageInv, OutputInv
    <2> HIDE DEF candidates, reference
    <2>6. Elements(out.scored) = { ScoreGroup(scoring, reference, g) : g \in GroupsOf(candidates) }
        BY <2>3, <2>4, <2>5, ScoreIs
    <2>7. PICK g \in GroupsOf(candidates) : s = ScoreGroup(scoring, reference, g)
        BY <2>6
    <2>8. /\ s.group = g
          /\ s.total = Total(scoring, reference, g)
          /\ \A c \in Elements(Components) : s.weights[c] = WeightIn(scoring, c)
        BY <2>7 DEF ScoreGroup, WeightIn
    <2>9. WellGrouped(g)
        BY <2>3, <2>4, SoundGroups
    <2>10. /\ WrappersOf(g) \subseteq Elements(candidates)
           /\ WrappersOf(g) # {}
           /\ \A v, w \in WrappersOf(g) : GroupKey(v) = GroupKey(w)
        BY <2>3, GroupWrappers
    <2>11. s.total <= WeightOf(s) * Unit
        <3>1. WeightOf(s) = WeightIn(scoring, "retrieval") + WeightIn(scoring, "authoredPriority")
                            + WeightIn(scoring, "sourcePriority") + WeightIn(scoring, "categoryPriority")
                            + WeightIn(scoring, "recency")
            BY <2>8, FiveComponents DEF WeightOf
        <3>2. QED BY <2>4, <2>8, <2>9, <3>1, TotalBounded
    <2>12. s.total = Total(scoring, reference,
                         GroupFor(SetToSeq(WrappersOf(s.group)), GroupKey(s.group.members[1].candidate)))
        <3> DEFINE W     == WrappersOf(g)
                   once  == SetToSeq(W)
                   first == g.members[1].candidate
                   h     == GroupFor(once, GroupKey(first))
        <3>1. IsFiniteSet(W) /\ CandidatesOf(g) \in Seq(W) /\ Elements(CandidatesOf(g)) = W
            BY <2>9, CandidatesAre, ElementsFinite DEF WellGrouped
        <3>2. once \in Seq(W) /\ Elements(once) = W
            <4> HIDE DEF W
            <4>1. QED BY <3>1, SetToSeqEnumerates
        <3>3. IsSound(once)
            <4>1. once \in Seq(Elements(candidates))
                BY <2>10, <3>2
            <4> HIDE DEF once
            <4>2. QED BY <2>3, <4>1, SubBatch
        <3>4. first \in W
            <4> DEFINE c == CandidatesOf(g)
            <4>1. DOMAIN c = DOMAIN g.members /\ \A i \in DOMAIN c : c[i] = g.members[i].candidate
                BY DEF CandidatesOf
            <4> HIDE DEF c
            <4>2. c # <<>>
                BY <2>10, <3>1 DEF Elements, c
            <4>3. 1 \in DOMAIN c
                BY <3>1, <4>2 DEF c
            <4>4. c[1] \in W
                BY <3>1, <4>3 DEF c
            <4>5. QED BY <4>1, <4>3, <4>4
        <3> HIDE DEF once, W, first
        <3>5. WellGrouped(h) /\ WrappersOf(h) = Under(once, GroupKey(first))
            BY <3>3, GroupForIsWell, GroupHolds DEF IsSound
        <3>6. Under(once, GroupKey(first)) = W
            BY <2>10, <3>2, <3>4 DEF Under, W
        <3> HIDE DEF h
        <3>7. Total(scoring, reference, g) = Total(scoring, reference, h)
            BY <2>4, <2>9, <3>5, <3>6, WrappersDecide DEF W
        <3>8. QED BY <2>8, <3>7 DEF h, once, W, first
    <2>13. \E S \in SUBSET WrappersOf(g) :
              /\ Cardinality(S) <= Len(Components)
              /\ \A i \in DOMAIN Components : \E w \in S :
                    Contribution(scoring, reference, g, Components[i])
                        = Contribution(scoring, reference, GroupFor(<<w>>, GroupKey(w)), Components[i])
        <3> DEFINE alike(i, w) == Contribution(scoring, reference, g, Components[i])
                                     = Contribution(scoring, reference, GroupFor(<<w>>, GroupKey(w)), Components[i])
                   pick == [ i \in 1..5 |-> CHOOSE w \in WrappersOf(g) : alike(i, w) ]
                   S    == { pick[i] : i \in 1..5 }
                   N    == 1..5
        <3>1. \A i \in 1..5 : \E w \in WrappersOf(g) : alike(i, w)
            <4> SUFFICES ASSUME NEW i \in 1..5 PROVE \E w \in WrappersOf(g) : alike(i, w)
                OBVIOUS
            <4>1. Components[i] \in Elements(Components)
                BY FiveComponents DEF Elements
            <4>2. QED BY <2>3, <2>4, <4>1, OneWitness
        <3> HIDE DEF alike
        <3>2. \A i \in 1..5 : pick[i] \in WrappersOf(g) /\ alike(i, pick[i])
            BY <3>1
        <3>3. Cardinality(S) <= 5
            <4>1. IsFiniteSet(N) /\ Cardinality(N) = 5
                <5>1. \A m \in Nat : IsFiniteSet(1..m) /\ Cardinality(1..m) = m
                    BY FS_Interval
                <5>2. QED BY <5>1
            <4>2. pick \in Surjection(N, S)
                <5>1. pick \in [N -> S] /\ \A x \in S : \E i \in N : pick[i] = x
                    OBVIOUS
                <5> HIDE DEF pick, S, N
                <5>2. QED BY <5>1, Fun_IsSurj
            <4> HIDE DEF pick, S, N
            <4>3. Cardinality(S) <= Cardinality(N)
                BY <4>1, <4>2, FS_Surjection
            <4>4. QED BY <4>1, <4>3
        <3>4. S \in SUBSET WrappersOf(g)
            BY <3>2
        <3>5. \A i \in 1..5 : \E w \in S : alike(i, w)
            BY <3>2
        <3>6. Len(Components) = 5 /\ DOMAIN Components = 1..5
            BY DEF Components
        <3> HIDE DEF S
        <3>7. QED BY <3>3, <3>4, <3>5, <3>6 DEF alike
    <2>14. QED BY <2>8, <2>11, <2>12, <2>13
<1>2. QED BY <1>1, StagesHandOn, PTL

-----------------------------------------------------------------------------
(* What the caller requires. *)

\* A decision is about the group it is made for, and admits it or not.
LEMMA DecisionIs ==
    ASSUME NEW policy, NEW s
    PROVE  /\ FilterDecision(policy, s).scored = s
           /\ FilterDecision(policy, s).decision \in {"eligible", "filtered"}
<1>1. /\ Decide(policy, s).scored = s
      /\ Decide(policy, s).decision \in {"eligible", "filtered"}
    BY DEF Decide, Decision
<1>2. ASSUME NEW entries
      PROVE  FilteredBy(entries, s).scored = s /\ FilteredBy(entries, s).decision = "filtered"
    BY DEF FilteredBy, Decision
<1>3. CASE Excluding(policy, s) = {}
    BY <1>1, <1>3 DEF FilterDecision
<1>4. CASE Excluding(policy, s) # {}
    <2>1. FilterDecision(policy, s) = FilteredBy(EntriesFor(The(policy.applicability), s), s)
        BY <1>4 DEF FilterDecision
    <2>2. QED BY <1>2, <2>1
<1>5. QED BY <1>3, <1>4

\* A group with a required block in it is admitted once nothing is wrong with the
\* exclusions.
LEMMA RequiredAdmitted ==
    ASSUME NEW policy, NEW rules, NEW scope, NEW scored, FilterIssues(policy, rules, scope, scored) = {},
           NEW s \in Elements(scored), HasRequired(s), s.group.canonical.required
    PROVE  FilterDecision(policy, s).decision = "eligible"
<1> DEFINE wrong == UNION { ApplicabilityIssues(a, scope, scored) : a \in policy.applicability }
<1>1. wrong = {}
    <2>1. ~ ((policy.schema = 3) # (rules.schema = 2)) /\ ~ (rules.schema = 2 /\ rules.scope # scope)
        BY DEF FilterIssues
    <2>2. FilterIssues(policy, rules, scope, scored) = IF wrong # {} THEN wrong ELSE AdmissionIssues(policy, scored)
        BY <2>1 DEF FilterIssues
    <2> HIDE DEF wrong
    <2>3. QED BY <2>2
<1>2. \A a \in policy.applicability : ApplicabilityIssues(a, scope, scored) = {}
    BY <1>1
<1>3. ASSUME NEW a \in policy.applicability PROVE Elements(EntriesFor(a, s)) = {}
    <2>1. ApplicabilityIssues(a, scope, scored) = {}
        BY <1>2
    <2>2. a.scope = scope
        BY <2>1 DEF ApplicabilityIssues
    <2>3. "required_applicability_conflict" \notin ApplicabilityIssues(a, scope, scored)
        BY <2>1
    <2>4. ~ \E t \in Elements(scored) : HasRequired(t) /\ ReasonsFor(a, t) # {}
        BY <2>2, <2>3 DEF ApplicabilityIssues
    <2>5. ReasonsFor(a, s) = {}
        BY <2>4
    <2>6. QED BY <2>5 DEF ReasonsFor
<1>4. Excluding(policy, s) = {}
    BY <1>3 DEF Excluding
<1>5. Decide(policy, s).decision = "eligible"
    BY DEF Decide, Decision
<1>6. QED BY <1>4, <1>5 DEF FilterDecision

\* The decisions are one for each scored group; the eligible groups are those
\* they admit.
LEMMA EligibleAre ==
    ASSUME NEW policy, NEW scored, scored \in Seq(Elements(scored))
    PROVE  LET decisions == FilterDecisions(policy, scored)
           IN  /\ Elements(decisions) = { FilterDecision(policy, s) : s \in Elements(scored) }
               /\ Elements(Eligible(decisions))
                      = { s \in Elements(scored) : FilterDecision(policy, s).decision = "eligible" }
               /\ Eligible(decisions) \in Seq(Elements(Eligible(decisions)))
<1> DEFINE decisions == FilterDecisions(policy, scored)
           D         == { i \in DOMAIN decisions : IsEligible(decisions[i]) }
           admitted  == Picked(decisions, D, {})
           decide(s) == FilterDecision(policy, s)
<1>1. decisions = [ i \in DOMAIN scored |-> decide(scored[i]) ]
    BY DEF FilterDecisions
<1>2. \A s : decide(s).scored = s
    BY DecisionIs
<1> HIDE DEF decisions, decide
<1>3. Elements(decisions) = { decide(s) : s \in Elements(scored) }
    BY <1>1 DEF Elements
<1>4. decisions \in Seq(Elements(decisions))
    <2>1. Len(scored) \in Nat /\ DOMAIN scored = 1..Len(scored)
        OBVIOUS
    <2>2. decisions = [ i \in DOMAIN decisions |-> decisions[i] ] /\ DOMAIN decisions = 1..Len(scored)
        BY <1>1, <2>1
    <2>3. QED BY <2>1, <2>2, LenIsLast
<1>5. D \in SUBSET DOMAIN decisions /\ { decisions[i] : i \in D } = { d \in Elements(decisions) : d.decision = "eligible" }
    BY DEF Elements, IsEligible
<1>6. Eligible(decisions) = [ i \in DOMAIN admitted |-> admitted[i].scored ]
    BY DEF Eligible, Filtered
<1> HIDE DEF D
<1>7. Elements(admitted) = { decisions[i] : i \in D }
    BY <1>4, <1>5, FilterElements
<1>8. admitted \in Seq({ decisions[i] : i \in D })
    BY <1>4, <1>5, FilterElements
<1> HIDE DEF admitted
<1>9. Elements(Eligible(decisions)) = { d.scored : d \in Elements(admitted) }
    BY <1>6 DEF Elements
<1>10. Elements(Eligible(decisions)) = { s \in Elements(scored) : decide(s).decision = "eligible" }
    <2>1. ASSUME NEW s \in Elements(Eligible(decisions)) PROVE s \in Elements(scored) /\ decide(s).decision = "eligible"
        <3>1. PICK d \in Elements(admitted) : s = d.scored
            BY <1>9
        <3>2. d \in Elements(decisions) /\ d.decision = "eligible"
            BY <1>5, <1>7
        <3>3. PICK t \in Elements(scored) : d = decide(t)
            BY <1>3, <3>2
        <3>4. QED BY <1>2, <3>1, <3>2, <3>3
    <2>2. ASSUME NEW s \in Elements(scored), decide(s).decision = "eligible" PROVE s \in Elements(Eligible(decisions))
        <3>1. decide(s) \in Elements(admitted)
            BY <1>3, <1>5, <1>7, <2>2
        <3>2. QED BY <1>2, <1>9, <3>1
    <2>3. QED BY <2>1, <2>2
<1>11. Eligible(decisions) \in Seq(Elements(Eligible(decisions)))
    <2>1. Len(admitted) \in Nat /\ DOMAIN admitted = 1..Len(admitted)
        BY <1>8
    <2> DEFINE e == Eligible(decisions)
    <2>2. e = [ i \in DOMAIN e |-> e[i] ] /\ DOMAIN e = 1..Len(admitted)
        BY <1>6, <2>1
    <2> HIDE DEF e
    <2>3. e \in Seq(Elements(e))
        BY <2>1, <2>2, LenIsLast
    <2>4. QED BY <2>3 DEF e
<1>12. QED BY <1>3, <1>10, <1>11 DEF decisions, decide

\* One sequence after another has the elements of both.
LEMMA ConcatElements ==
    ASSUME NEW X, NEW s \in Seq(X), NEW t \in Seq(X)
    PROVE  s \o t \in Seq(X) /\ Elements(s \o t) = Elements(s) \cup Elements(t)
<1>1. /\ Len(s) \in Nat /\ DOMAIN s = 1..Len(s) /\ Len(t) \in Nat /\ DOMAIN t = 1..Len(t)
      /\ DOMAIN (s \o t) = 1..(Len(s) + Len(t))
      /\ \A i \in 1..(Len(s) + Len(t)) : (s \o t)[i] = IF i <= Len(s) THEN s[i] ELSE t[i - Len(s)]
    OBVIOUS
<1>2. ASSUME NEW i \in DOMAIN s PROVE s[i] \in Elements(s \o t)
    <2>1. i \in DOMAIN (s \o t) /\ (s \o t)[i] = s[i]
        BY <1>1
    <2>2. QED BY <2>1 DEF Elements
<1>3. ASSUME NEW i \in DOMAIN t PROVE t[i] \in Elements(s \o t)
    <2>1. (i + Len(s)) \in DOMAIN (s \o t) /\ (s \o t)[i + Len(s)] = t[i]
        BY <1>1
    <2>2. QED BY <2>1 DEF Elements
<1>4. ASSUME NEW i \in DOMAIN (s \o t) PROVE (s \o t)[i] \in Elements(s) \cup Elements(t)
    <2>1. CASE i <= Len(s)
        <3>1. i \in DOMAIN s /\ (s \o t)[i] = s[i]
            BY <1>1, <2>1
        <3>2. QED BY <3>1 DEF Elements
    <2>2. CASE ~ (i <= Len(s))
        <3>1. (i - Len(s)) \in DOMAIN t /\ (s \o t)[i] = t[i - Len(s)]
            BY <1>1, <2>2
        <3>2. QED BY <3>1 DEF Elements
    <2>3. QED BY <2>1, <2>2
<1>5. Elements(s \o t) = Elements(s) \cup Elements(t)
    BY <1>2, <1>3, <1>4 DEF Elements
<1>6. s \o t \in Seq(X)
    OBVIOUS
<1>7. QED BY <1>5, <1>6

\* A scored group as allocation and ordering see it.
ScoredShape(s) == BlockShape(CanonicalOf(s))

\* Every eligible group claims its turn, and nothing else does.
LEMMA ClaimantsAre ==
    ASSUME NEW e, e \in Seq(Elements(e)), \A s \in Elements(e) : ScoredShape(s)
    PROVE  Claimants(e) \in Seq(Elements(e)) /\ Elements(Claimants(e)) = Elements(e)
<1> DEFINE D     == { i \in DOMAIN e : IsRequired(e[i]) }
           O     == { i \in DOMAIN e : IsOptional(e[i]) }
           must  == Picked(e, D, {})
           may   == Picked(e, O, {})
           order == { q \in (DOMAIN must) \X (DOMAIN must) : CanonicalBefore(must[q[1]], must[q[2]]) }
           first == Picked(must, DOMAIN must, order)
<1>1. D \in SUBSET DOMAIN e /\ O \in SUBSET DOMAIN e
    OBVIOUS
<1>2. \A i \in DOMAIN e : i \in D \/ i \in O
    BY DEF IsOptional
<1>3. Claimants(e) = first \o may
    BY DEF Claimants, Sorted, Filtered
<1> HIDE DEF D, O
<1>4. /\ must \in Seq({ e[i] : i \in D }) /\ Elements(must) = { e[i] : i \in D }
      /\ may \in Seq({ e[i] : i \in O }) /\ Elements(may) = { e[i] : i \in O }
    <2>1. must \in Seq({ e[i] : i \in D })
        BY <1>1, FilterElements
    <2>2. Elements(must) = { e[i] : i \in D }
        BY <1>1, FilterElements
    <2>3. may \in Seq({ e[i] : i \in O })
        BY <1>1, FilterElements
    <2>4. Elements(may) = { e[i] : i \in O }
        BY <1>1, FilterElements
    <2>5. QED BY <2>1, <2>2, <2>3, <2>4
<1>5. { e[i] : i \in D } \subseteq Elements(e) /\ { e[i] : i \in O } \subseteq Elements(e)
    BY <1>1 DEF Elements
<1>6. Elements(e) = { e[i] : i \in D } \cup { e[i] : i \in O }
    BY <1>2, <1>5 DEF Elements
<1> HIDE DEF must, may
<1>7. WeakOrder(order, DOMAIN must)
    <2>1. \A i \in DOMAIN must : must[i] \in Elements(e)
        BY <1>4, <1>5 DEF Elements
    <2>2. \A i \in DOMAIN must : IdOf(must[i]) \in Nat
        BY <2>1 DEF ScoredShape, CanonicalOf, IdOf, BlockShape
    <2>3. \A i, j \in DOMAIN must : << i, j >> \in order <=> IdOf(must[i]) < IdOf(must[j])
        BY DEF CanonicalBefore
    <2> HIDE DEF order
    <2>4. QED BY <2>2, <2>3 DEF WeakOrder
<1> HIDE DEF order
<1>8. first \in Seq(Elements(must))
    BY <1>4, <1>7, SortElements
<1>9. Elements(first) = Elements(must)
    BY <1>4, <1>7, SortElements
<1> HIDE DEF first
<1>10. first \in Seq(Elements(e)) /\ may \in Seq(Elements(e))
    BY <1>4, <1>5, <1>8
<1>11. first \o may \in Seq(Elements(e)) /\ Elements(first \o may) = Elements(first) \cup Elements(may)
    BY <1>10, ConcatElements
<1>12. QED BY <1>3, <1>4, <1>6, <1>9, <1>11

\* What is included are eligible groups, and all of the required ones once they
\* fit one after another.
LEMMA AllocationKeepsRequired ==
    ASSUME NEW e, e \in Seq(Elements(e)), \A s \in Elements(e) : ScoredShape(s), ~ RequiredOverflows(e)
    PROVE  LET included == Allocation(e).included
           IN  /\ Elements(ScoredOf(included)) \subseteq Elements(e)
               /\ \A s \in Elements(e) : IsRequired(s) => s \in Elements(ScoredOf(included))
               /\ included \in Seq(Elements(included))
               /\ \A d \in Elements(included) : d.scored \in Elements(e)
<1> DEFINE claims == Claimants(e)
           turns  == Turns(claims)
           D      == { i \in DOMAIN turns : Fits(turns[i]) }
           taken  == Picked(turns, D, {})
           included == Allocation(e).included
<1>1. claims \in Seq(Elements(e)) /\ Elements(claims) = Elements(e)
    BY ClaimantsAre
<1>2. included = [ k \in DOMAIN taken |-> Take(taken[k]) ]
    BY DEF Allocation, Filtered
<1>3. \A turn \in Elements(turns) : IsRequired(turn.scored) => Fits(turn)
    BY DEF RequiredOverflows, Exceeds
<1> HIDE DEF claims
<1>4. DOMAIN turns = DOMAIN claims /\ \A k \in DOMAIN claims : turns[k].scored = claims[k]
    BY DEF Turns
<1>5. turns = [ k \in DOMAIN turns |-> turns[k] ]
    BY DEF Turns
<1> HIDE DEF turns, included
<1>6. turns \in Seq(Elements(turns))
    <2>1. Len(claims) \in Nat /\ DOMAIN claims = 1..Len(claims)
        BY <1>1
    <2>2. QED BY <1>4, <1>5, <2>1, LenIsLast
<1>7. Elements(taken) = { t \in Elements(turns) : Fits(t) } /\ taken \in Seq(Elements(taken))
    <2>1. D \in SUBSET DOMAIN turns /\ { turns[i] : i \in D } = { t \in Elements(turns) : Fits(t) }
        BY DEF Elements
    <2> HIDE DEF D
    <2>2. Elements(taken) = { turns[i] : i \in D }
        BY <1>6, <2>1, FilterElements
    <2>3. taken \in Seq({ turns[i] : i \in D })
        BY <1>6, <2>1, FilterElements
    <2>4. QED BY <2>1, <2>2, <2>3
<1> HIDE DEF taken
<1>8. \A t : Take(t).scored = t.scored
    BY DEF Take
<1>9. Elements(included) = { Take(t) : t \in Elements(taken) }
    BY <1>2 DEF Elements
<1>10. Elements(ScoredOf(included)) = { t.scored : t \in Elements(taken) }
    <2>1. Elements(ScoredOf(included)) = { d.scored : d \in Elements(included) }
        BY DEF ScoredOf, Elements
    <2>2. QED BY <1>8, <1>9, <2>1
<1>11. \A t \in Elements(turns) : t.scored \in Elements(claims)
    BY <1>4 DEF Elements
<1>12. \A s \in Elements(claims) : \E t \in Elements(turns) : t.scored = s
    BY <1>4 DEF Elements
<1>13. included \in Seq(Elements(included))
    <2>1. Len(taken) \in Nat /\ DOMAIN taken = 1..Len(taken)
        BY <1>7
    <2>2. included = [ k \in DOMAIN included |-> included[k] ] /\ DOMAIN included = 1..Len(taken)
        BY <1>2, <2>1
    <2>3. QED BY <2>1, <2>2, LenIsLast
<1>14. \A d \in Elements(included) : d.scored \in Elements(e)
    BY <1>1, <1>7, <1>8, <1>9, <1>11
<1>15. Elements(ScoredOf(included)) \subseteq Elements(e)
    BY <1>1, <1>7, <1>10, <1>11
<1>16. \A s \in Elements(e) : IsRequired(s) => s \in Elements(ScoredOf(included))
    BY <1>1, <1>3, <1>7, <1>10, <1>12
<1>17. QED BY <1>13, <1>14, <1>15, <1>16 DEF included

\* Rendering compares blocks by six numbers.
LEMMA BlockKeyIs ==
    ASSUME NEW b, BlockShape(b)
    PROVE  BlockKey(b) \in [1..6 -> Int]
<1> DEFINE l == The(b.location)
           k == LocationKey(b.location)
<1>1. \E p, q, r, t \in Int : k = << p, q, r, t >>
    <2>1. CASE b.location = {}
        <3>1. k = << 2, 0, 0, 0 >>
            BY <2>1 DEF LocationKey
        <3>2. QED BY <3>1
    <2>2. CASE b.location # {}
        <3>1. LocationShape(l)
            BY <2>2, TheOption DEF BlockShape
        <3> HIDE DEF l
        <3>2. CASE l.kind = "text-range"
            <4>1. l.start \in Int /\ l.end \in Int
                BY <3>1, <3>2 DEF LocationShape
            <4>2. k = << 0, 0, l.start, l.end >>
                BY <2>2, <3>2 DEF LocationKey, l
            <4>3. QED BY <4>1, <4>2
        <3>3. CASE l.kind # "text-range" /\ l.index = {}
            <4>1. l.message \in Int
                BY <3>1, <3>3 DEF LocationShape
            <4>2. k = << 1, 1, 0, l.message >>
                BY <2>2, <3>3 DEF LocationKey, l
            <4>3. QED BY <4>1, <4>2
        <3>4. CASE l.kind # "text-range" /\ l.index # {}
            <4>1. l.message \in Int /\ The(l.index) \in Int
                BY <3>1, <3>4, TheOption DEF LocationShape, OptionOf
            <4>2. k = << 1, 0, The(l.index), l.message >>
                BY <2>2, <3>4 DEF LocationKey, l
            <4>3. QED BY <4>1, <4>2
        <3>5. QED BY <3>2, <3>3, <3>4
    <2>3. QED BY <2>1, <2>2
<1>2. PICK p \in Int, q \in Int, r \in Int, t \in Int : k = << p, q, r, t >>
    BY <1>1
<1>3. BlockKey(b) = << b.doc >> \o << p, q, r, t >> \o << b.id >>
    BY <1>2 DEF BlockKey
<1>4. b.doc \in Int /\ b.id \in Int
    BY DEF BlockShape
<1>5. << b.doc >> \in Seq(Int) /\ Len(<< b.doc >>) = 1 /\ << b.id >> \in Seq(Int) /\ Len(<< b.id >>) = 1
    BY <1>4
<1>6. << p, q, r, t >> \in Seq(Int) /\ Len(<< p, q, r, t >>) = 4
    OBVIOUS
<1>7. \A s, u \in Seq(Int) : s \o u \in Seq(Int) /\ Len(s \o u) = Len(s) + Len(u)
    OBVIOUS
<1>8. << b.doc >> \o << p, q, r, t >> \in Seq(Int) /\ Len(<< b.doc >> \o << p, q, r, t >>) = 5
    BY <1>5, <1>6, <1>7
<1> DEFINE whole == << b.doc >> \o << p, q, r, t >> \o << b.id >>
<1>9. whole \in Seq(Int) /\ Len(whole) = 6
    BY <1>5, <1>7, <1>8
<1> HIDE DEF whole
<1>10. whole \in [1..6 -> Int]
    <2>1. whole \in [1..Len(whole) -> Int]
        BY <1>9, LenProperties
    <2>2. QED BY <1>9, <2>1
<1>11. QED BY <1>3, <1>10 DEF whole

\* The order of rendering is a weak one.
LEMMA RenderingWeak ==
    ASSUME NEW bs, \A i \in DOMAIN bs : BlockShape(bs[i]),
           NEW order, \A i, j \in DOMAIN bs : << i, j >> \in order <=> BlockPrecedes(bs[i], bs[j])
    PROVE  WeakOrder(order, DOMAIN bs)
<1>1. ASSUME NEW x \in DOMAIN bs, NEW y \in DOMAIN bs, NEW z \in DOMAIN bs
      PROVE  /\ BlockPrecedes(bs[x], bs[y]) => ~ BlockPrecedes(bs[y], bs[x])
             /\ BlockPrecedes(bs[x], bs[y]) => BlockPrecedes(bs[x], bs[z]) \/ BlockPrecedes(bs[z], bs[y])
    <2> DEFINE k == BlockKey(bs[x])
               l == BlockKey(bs[y])
               m == BlockKey(bs[z])
    <2>1. k \in [1..6 -> Int] /\ l \in [1..6 -> Int] /\ m \in [1..6 -> Int]
        BY BlockKeyIs
    <2> HIDE DEF k, l, m
    <2>2. 6 \in Nat
        OBVIOUS
    <2>3. /\ KeyBefore(k, l) => ~ KeyBefore(l, k)
          /\ KeyBefore(k, l) => KeyBefore(k, m) \/ KeyBefore(m, l)
        BY <2>1, <2>2, KeyOrder
    <2>4. QED BY <2>3 DEF BlockPrecedes, k, l, m
<1>2. QED BY <1>1 DEF WeakOrder

\* To order groups for rendering is to keep them.
LEMMA OrderedGroups ==
    ASSUME NEW X, NEW ss \in Seq(X), \A s \in X : ScoredShape(s)
    PROVE  /\ Elements(OrderForRendering(ss, CanonicalOf)) = Elements(ss)
           /\ Elements(IdSeq(OrderForRendering(ss, CanonicalOf))) = { IdOf(s) : s \in Elements(ss) }
<1> DEFINE order == { q \in (DOMAIN ss) \X (DOMAIN ss) : BlockPrecedes(CanonicalOf(ss[q[1]]), CanonicalOf(ss[q[2]])) }
           bs    == [ i \in DOMAIN ss |-> CanonicalOf(ss[i]) ]
           p     == OrderForRendering(ss, CanonicalOf)
<1>1. p = Picked(ss, DOMAIN ss, order)
    BY DEF OrderForRendering, Sorted
<1>2. \A i \in DOMAIN bs : BlockShape(bs[i])
    BY DEF ScoredShape
<1>3. DOMAIN bs = DOMAIN ss /\ \A i, j \in DOMAIN bs : << i, j >> \in order <=> BlockPrecedes(bs[i], bs[j])
    OBVIOUS
<1> HIDE DEF order, bs, p
<1>4. WeakOrder(order, DOMAIN ss)
    <2>1. WeakOrder(order, DOMAIN bs)
        BY <1>2, <1>3, RenderingWeak
    <2>2. QED BY <1>3, <2>1
<1>5. Elements(p) = Elements(ss)
    BY <1>1, <1>4, SortElements
<1>6. Elements(IdSeq(p)) = { IdOf(s) : s \in Elements(p) }
    BY DEF IdSeq, Elements
<1>7. QED BY <1>5, <1>6 DEF p

\* To order what was included is to keep it.
LEMMA OrderedDecisions ==
    ASSUME NEW X, NEW ds \in Seq(X), \A d \in X : ScoredShape(d.scored)
    PROVE  Elements(OrderIncluded(ds)) = Elements(ds)
<1> DEFINE order == { q \in (DOMAIN ds) \X (DOMAIN ds) : BlockPrecedes(AllocatedBlock(ds[q[1]]), AllocatedBlock(ds[q[2]])) }
           bs    == [ i \in DOMAIN ds |-> AllocatedBlock(ds[i]) ]
<1>1. OrderIncluded(ds) = Picked(ds, DOMAIN ds, order)
    BY DEF OrderIncluded, OrderForRendering, Sorted
<1>2. \A i \in DOMAIN bs : BlockShape(bs[i])
    BY DEF ScoredShape, AllocatedBlock
<1>3. DOMAIN bs = DOMAIN ds /\ \A i, j \in DOMAIN bs : << i, j >> \in order <=> BlockPrecedes(bs[i], bs[j])
    OBVIOUS
<1> HIDE DEF order, bs
<1>4. WeakOrder(order, DOMAIN ds)
    <2>1. WeakOrder(order, DOMAIN bs)
        BY <1>2, <1>3, RenderingWeak
    <2>2. QED BY <1>3, <2>1
<1>5. QED BY <1>1, <1>4, SortElements

\* What the decisions of a compilation are about.
LEMMA DecidedGroups ==
    ASSUME StageInv, where \in WithDecisions
    PROVE  LET scored   == { ScoreGroup(scoring, request.reference, g) : g \in GroupsOf(request.candidates) }
               eligible == Elements(Eligible(out.decisions))
           IN  /\ IsSound(request.candidates)
               /\ Elements(out.scored) = scored
               /\ Elements(out.decisions) = { FilterDecision(filtering, s) : s \in scored }
               /\ eligible = { s \in scored : FilterDecision(filtering, s).decision = "eligible" }
               /\ Eligible(out.decisions) \in Seq(eligible)
               /\ \A s \in eligible : ScoredShape(s)
<1> DEFINE candidates == request.candidates
           reference  == request.reference
           scored     == { ScoreGroup(scoring, reference, g) : g \in GroupsOf(candidates) }
<1>1. where \in WithScores /\ where \in WithGroups /\ where \in WithBatch
    BY DEF WithBatch, WithEvidence, WithGroups, WithScores
<1>2. IsSound(candidates) /\ out.groups = Deduplicate(candidates)
    BY <1>1, GroupsOfSound
<1>3. ScoringPolicyShape(scoring) /\ reference \in Int
    BY DEF StageInv, CheckedInv, RequestShape, scoring
<1>4. out.scored = Score(scoring, reference, Deduplicate(candidates)) /\ out.decisions = FilterDecisions(filtering, out.scored)
    BY <1>1, <1>2 DEF StageInv, OutputInv
<1>5. Elements(out.scored) = scored /\ out.scored \in Seq(Elements(out.scored))
    BY <1>2, <1>3, <1>4, ScoreIs
<1>6. /\ Elements(out.decisions) = { FilterDecision(filtering, s) : s \in Elements(out.scored) }
      /\ Elements(Eligible(out.decisions)) = { s \in Elements(out.scored) : FilterDecision(filtering, s).decision = "eligible" }
      /\ Eligible(out.decisions) \in Seq(Elements(Eligible(out.decisions)))
    BY <1>4, <1>5, EligibleAre
<1>7. ASSUME NEW s \in scored PROVE ScoredShape(s)
    <2>1. PICK g \in GroupsOf(candidates) : s = ScoreGroup(scoring, reference, g)
        OBVIOUS
    <2>2. CanonicalOf(s) = g.canonical
        BY <2>1 DEF ScoreGroup, CanonicalOf
    <2>3. PICK w \in Elements(candidates) : g.canonical = w.block
        BY <1>2, CanonicalIds
    <2>4. BlockShape(w.block)
        BY <1>2 DEF IsSound, IsBatch, WrapperShape
    <2>5. QED BY <2>2, <2>3, <2>4 DEF ScoredShape
<1> HIDE DEF scored
<1>8. QED BY <1>2, <1>5, <1>6, <1>7 DEF scored

\* A selection of eligible groups with the required ones in it.
Chosen(S) ==
    /\ S \subseteq Elements(Eligible(out.decisions))
    /\ \A s \in Elements(Eligible(out.decisions)) : IsRequired(s) => s \in S

\* A settled trace is about such a selection.
SettledInv ==
    \A t \in out.trace : \A settled \in t.settlement :
        \E S : Chosen(S) /\ Elements(settled.order) = { IdOf(s) : s \in S }

\* The settled order names what was selected.
LEMMA SettledOrder ==
    ASSUME StageInv, where = "correction", NEW S, Chosen(S), NEW rebuilt, NEW tokens
    PROVE  \A settled \in Settled(S, rebuilt, tokens).settlement :
              Elements(settled.order) = { IdOf(s) : s \in S }
<1> DEFINE eligible == Elements(Eligible(out.decisions))
           ss       == SetToSeq(S)
           order    == IdSeq(OrderForRendering(ss, CanonicalOf))
<1>1. Eligible(out.decisions) \in Seq(eligible) /\ \A s \in eligible : ScoredShape(s)
    <2>1. where \in WithDecisions
        BY DEF WithDecisions, WithAllocation, WithOrder, WithTrace
    <2>2. QED BY <2>1, DecidedGroups
<1>2. S \in SUBSET eligible
    BY DEF Chosen
<1>3. IsFiniteSet(S)
    <2>1. IsFiniteSet(eligible)
        BY <1>1, ElementsFinite
    <2>2. QED BY <1>2, <2>1, FS_Subset
<1>4. ss \in Seq(S) /\ Elements(ss) = S
    BY <1>3, SetToSeqEnumerates
<1> HIDE DEF eligible
<1>5. Elements(order) = { IdOf(s) : s \in S }
    <2> HIDE DEF ss
    <2>1. \A s \in S : ScoredShape(s)
        BY <1>1, <1>2
    <2>2. Elements(IdSeq(OrderForRendering(ss, CanonicalOf))) = { IdOf(s) : s \in Elements(ss) }
        BY <1>4, <2>1, OrderedGroups
    <2>3. QED BY <1>4, <2>2
<1>6. Settled(S, rebuilt, tokens).settlement = { Settlement(Evidence, The(out.trace), order, rebuilt, tokens) }
    <2> DEFINE one == Settlement(Evidence, The(out.trace), order, rebuilt, tokens)
    <2>1. Settled(S, rebuilt, tokens) = SettleTrace(The(out.trace), one)
        BY DEF Settled
    <2> HIDE DEF one
    <2>2. "settlement" \in DOMAIN The(out.trace) => SettleTrace(The(out.trace), one).settlement = { one }
        BY DEF SettleTrace
    <2>3. The(out.trace) = BuildTrace(Evidence)
        BY TheOption DEF StageInv, OutputInv
    <2>4. "settlement" \in DOMAIN BuildTrace(Evidence)
        BY DEF BuildTrace
    <2>5. QED BY <2>1, <2>2, <2>3, <2>4 DEF one
<1>7. Settlement(Evidence, The(out.trace), order, rebuilt, tokens).order = order
    <2> HIDE DEF order
    <2>1. QED BY DEF Settlement
<1>8. QED BY <1>5, <1>6, <1>7

\* A step runs one stage, or passes over it.
LEMMA RunsTo ==
    ASSUME NEW here \in StageNames, NEW there \in StageNames, NEW found, NEW output, Run(here, found, there, output)
    PROVE  /\ where = here /\ where' \in {here, there}
           /\ out' = out \/ out' = output
<1>1. here # "failed" /\ there # "failed"
    BY DEF StageNames, WithBatch, WithEvidence, WithGroups, WithScores, WithDecisions, WithAllocation,
           WithOrder, WithTrace
<1>2. QED BY <1>1 DEF Run, where

\* What correction was given and what it keeps are eligible groups, the required
\* ones among them.
LEMMA SelectionsAreChosen ==
    ASSUME StageInv, where = "correction"
    PROVE  /\ Chosen(Elements(ScoredOf(out.ordered)))
           /\ \A rebuilt \in BOOLEAN : \A S \in Selections(rebuilt) : Chosen(S)
<1> DEFINE e        == Eligible(out.decisions)
           eligible == Elements(e)
           included == Allocation(e).included
<1>1. where \in WithDecisions /\ where \in WithAllocation /\ where \in WithOrder
    BY DEF WithDecisions, WithAllocation, WithOrder, WithTrace
<1>2. e \in Seq(eligible) /\ \A s \in eligible : ScoredShape(s)
    BY <1>1, DecidedGroups
<1>3. ~ RequiredOverflows(e)
    BY <1>1 DEF StageInv, CheckedInv
<1>4. The(out.allocation) = Allocation(e) /\ out.ordered = OrderIncluded(included)
    <2>1. out.allocation = {Allocation(e)}
        BY <1>1 DEF StageInv, OutputInv
    <2>2. The(out.allocation) \in out.allocation
        BY <2>1, TheOption
    <2>3. out.ordered = OrderIncluded(The(out.allocation).included)
        BY <1>1 DEF StageInv, OutputInv
    <2>4. QED BY <2>1, <2>2, <2>3
<1> HIDE DEF e, included
<1>5. /\ Elements(ScoredOf(included)) \subseteq eligible
      /\ \A s \in eligible : IsRequired(s) => s \in Elements(ScoredOf(included))
      /\ included \in Seq(Elements(included))
      /\ \A d \in Elements(included) : d.scored \in eligible
    BY <1>2, <1>3, AllocationKeepsRequired DEF included
<1>6. Elements(ScoredOf(out.ordered)) = Elements(ScoredOf(included))
    <2>1. Elements(out.ordered) = Elements(included)
        BY <1>2, <1>4, <1>5, OrderedDecisions
    <2>2. \A ds : Elements(ScoredOf(ds)) = { d.scored : d \in Elements(ds) }
        BY DEF ScoredOf, Elements
    <2>3. QED BY <2>1, <2>2
<1>7. Chosen(Elements(ScoredOf(out.ordered)))
    BY <1>5, <1>6 DEF Chosen, e
<1>8. ASSUME NEW rebuilt \in BOOLEAN, NEW S \in Selections(rebuilt)
      PROVE  Chosen(S)
    <2> DEFINE pool == IF rebuilt THEN eligible ELSE Elements(ScoredOf(included))
    <2>1. S \subseteq pool /\ { s \in pool : IsRequired(s) } \subseteq S
        BY <1>4 DEF Selections, e, included
    <2>2. pool \subseteq eligible /\ \A s \in eligible : IsRequired(s) => s \in pool
        BY <1>5
    <2> HIDE DEF pool
    <2>3. QED BY <2>1, <2>2 DEF Chosen, e
<1>9. QED BY <1>7, <1>8

\* To settle on such a selection is what SettledInv asks for.
LEMMA SettleStep ==
    ASSUME StageInv, stage = "correction", NEW S, Chosen(S), NEW rebuilt, NEW tokens,
           Run("correction", {}, "persistence", [out EXCEPT !.trace = {Settled(S, rebuilt, tokens)}])
    PROVE  SettledInv'
<1> DEFINE trace == Settled(S, rebuilt, tokens)
<1>1. where = "correction"
    BY DEF where
<1>2. \A settled \in trace.settlement : Elements(settled.order) = { IdOf(s) : s \in S }
    BY <1>1, SettledOrder
<1> HIDE DEF trace
<1>3. out' = [out EXCEPT !.trace = {trace}]
    BY DEF Run, trace
<1>4. out'.trace = {trace} /\ out'.decisions = out.decisions
    BY <1>3 DEF StageInv, OutputInv
<1>5. Chosen(S)'
    BY <1>4 DEF Chosen
<1>6. QED BY <1>2, <1>4, <1>5 DEF SettledInv

\* SettledInv is kept.
LEMMA SettledStep == StageInv /\ StageInv' /\ SettledInv /\ [Next]_vars => SettledInv'
<1> SUFFICES ASSUME StageInv, StageInv', SettledInv, [Next]_vars PROVE SettledInv'
    OBVIOUS
<1>1. ASSUME out' = out PROVE SettledInv'
    BY <1>1 DEF SettledInv, Chosen
<1>2. ASSUME where' \notin {"persistence", "persisted"} PROVE SettledInv'
    <2>1. CASE where' = "correction"
        <3>1. (out.trace = {BuildTrace(Evidence)})'
            BY <2>1 DEF StageInv, OutputInv
        <3>2. \A ev : BuildTrace(ev).settlement = {}
            BY DEF BuildTrace
        <3>3. BuildTrace(Evidence').settlement = {}
            BY <3>2
        <3>4. QED BY <3>1, <3>3 DEF SettledInv
    <2>2. CASE where' # "correction"
        <3>1. where' \notin WithTrace
            BY <1>2, <2>2 DEF WithTrace
        <3>2. out'.trace = {}
            BY <3>1 DEF StageInv, OutputInv
        <3>3. QED BY <3>2 DEF SettledInv
    <2>3. QED BY <2>1, <2>2
<1>3. ASSUME NEW here \in StageNames, NEW there \in StageNames, NEW found, NEW output, Run(here, found, there, output),
             here \notin {"persistence", "persisted"}, there \notin {"persistence", "persisted"}
      PROVE  SettledInv'
    BY <1>2, <1>3, RunsTo
<1> USE DEF StageNames, WithBatch, WithEvidence, WithGroups, WithScores, WithDecisions, WithAllocation,
            WithOrder, WithTrace
<1>4. CASE ValidateRequest
    BY <1>3, <1>4 DEF ValidateRequest
<1>5. CASE ValidateCandidates
    BY <1>3, <1>5 DEF ValidateCandidates
<1>6. CASE ValidateEvidence
    BY <1>3, <1>6 DEF ValidateEvidence
<1>7. CASE DeduplicateBatch
    BY <1>3, <1>7 DEF DeduplicateBatch
<1>8. CASE ScoreBatch
    BY <1>3, <1>8 DEF ScoreBatch
<1>9. CASE FilterBatch
    BY <1>3, <1>9 DEF FilterBatch
<1>10. CASE Allocate
    BY <1>3, <1>10 DEF Allocate
<1>11. CASE Order
    BY <1>3, <1>11 DEF Order
<1>12. CASE \E answer \in RenderAnswers : RenderContext(answer)
    BY <1>3, <1>12 DEF RenderContext
<1>13. CASE TakeSnapshot
    BY <1>3, <1>13 DEF TakeSnapshot
<1>14. CASE KeepRendering
    <2>1. stage = "correction" /\ where = "correction"
        BY <1>14 DEF KeepRendering, where
    <2>2. Chosen(Elements(ScoredOf(out.ordered)))
        BY <2>1, SelectionsAreChosen
    <2>3. QED BY <1>14, <2>1, <2>2, SettleStep DEF KeepRendering
<1>15. CASE stage = "correction" /\ \E rebuilt \in BOOLEAN : \E S \in Selections(rebuilt) : Correct(S, rebuilt)
    <2>1. PICK rebuilt \in BOOLEAN : \E S \in Selections(rebuilt) : Correct(S, rebuilt)
        BY <1>15
    <2>2. PICK S \in Selections(rebuilt) : Correct(S, rebuilt)
        BY <2>1
    <2>3. where = "correction"
        BY <1>15 DEF where
    <2>4. Chosen(S)
        BY <2>3, SelectionsAreChosen
    <2>5. QED BY <1>15, <2>2, <2>4, SettleStep DEF Correct
<1>16. CASE GiveUp
    <2>1. PICK code : Run("correction", {code}, "failed", out)
        BY <1>16 DEF GiveUp
    <2>2. out' = out
        BY <2>1 DEF Run
    <2>3. QED BY <1>1, <2>2
<1>17. CASE ReadBack
    <2>1. out' = out
        BY <1>17 DEF ReadBack, Run
    <2>2. QED BY <1>1, <2>1
<1>18. CASE UNCHANGED vars
    BY <1>1, <1>18 DEF vars
<1>19. QED BY <1>4, <1>5, <1>6, <1>7, <1>8, <1>9, <1>10, <1>11, <1>12, <1>13, <1>14, <1>15, <1>16, <1>17, <1>18 DEF Next

\* A group with a required block in it is eligible, and its canonical block is
\* required.
LEMMA RequiredDecided ==
    ASSUME StageInv, where \in WithDecisions, NEW d \in Elements(out.decisions), HasRequired(d.scored)
    PROVE  /\ d.decision = "eligible"
           /\ d.scored \in Elements(Eligible(out.decisions))
           /\ IsRequired(d.scored)
<1> DEFINE groups  == GroupsOf(request.candidates)
           rank(g) == ScoreGroup(scoring, request.reference, g)
           decide(s) == FilterDecision(filtering, s)
<1>1. /\ IsSound(request.candidates)
      /\ Elements(out.scored) = { rank(g) : g \in groups }
      /\ Elements(out.decisions) = { decide(s) : s \in { rank(g) : g \in groups } }
      /\ Elements(Eligible(out.decisions)) = { s \in { rank(g) : g \in groups } : decide(s).decision = "eligible" }
    BY DecidedGroups
<1>2. \A g : rank(g).group = g
    BY DEF ScoreGroup
<1>3. \A s : decide(s).scored = s
    BY DecisionIs
<1> HIDE DEF rank
<1>4. PICK g \in groups : d = decide(rank(g))
    BY <1>1
<1> DEFINE s == rank(g)
<1>5. d.scored = s /\ s.group = g
    BY <1>2, <1>3, <1>4
<1>6. g.canonical.required
    <2>1. PICK b \in GroupBlocks(g) : b.required
        BY <1>5 DEF HasRequired
    <2>2. PICK w \in WrappersOf(g) : b = w.block
        BY <2>1 DEF GroupBlocks, BlocksOf, BlockOf
    <2>3. (\E w2 \in WrappersOf(g) : w2.block.required) => g.canonical.required
        BY <1>1, GroupWrappers
    <2>4. QED BY <2>1, <2>2, <2>3
<1> HIDE DEF s, groups
<1>7. FilterIssues(filtering, scoring, request.scope, out.scored) = {}
    BY DEF StageInv, CheckedInv
<1>8. s \in Elements(out.scored)
    BY <1>1 DEF s
<1>9. FilterDecision(filtering, s).decision = "eligible"
    BY <1>5, <1>6, <1>7, <1>8, RequiredAdmitted
<1>10. IsRequired(s)
    BY <1>5, <1>6 DEF IsRequired, CanonicalOf
<1>11. QED BY <1>1, <1>4, <1>5, <1>8, <1>9, <1>10 DEF s

\* The groups that were decided on have canonical blocks of their own.
LEMMA DecidedApart ==
    ASSUME StageInv, where \in WithDecisions, NEW d \in Elements(out.decisions),
           NEW s \in Elements(Eligible(out.decisions)), IdOf(s) = IdOf(d.scored)
    PROVE  d.decision = "eligible"
<1> DEFINE groups  == GroupsOf(request.candidates)
           rank(g) == ScoreGroup(scoring, request.reference, g)
           decide(t) == FilterDecision(filtering, t)
<1>1. /\ IsSound(request.candidates)
      /\ Elements(out.decisions) = { decide(t) : t \in { rank(g) : g \in groups } }
      /\ Elements(Eligible(out.decisions)) = { t \in { rank(g) : g \in groups } : decide(t).decision = "eligible" }
    BY DecidedGroups
<1>2. \A g : rank(g).group = g
    BY DEF ScoreGroup
<1>3. \A t : decide(t).scored = t
    BY DecisionIs
<1> HIDE DEF rank, decide
<1>4. PICK g \in groups : d = decide(rank(g))
    BY <1>1
<1>5. PICK h \in groups : s = rank(h)
    BY <1>1
<1>6. g.canonical.id = h.canonical.id
    BY <1>2, <1>3, <1>4, <1>5 DEF IdOf
<1>7. g = h
    BY <1>1, <1>6, GroupsDiffer
<1>8. QED BY <1>1, <1>4, <1>5, <1>7

\* A block the caller requires reaches the compiled context, through whichever
\* duplicate represents it; nothing filtered does.
THEOREM RequiredSurvivesHolds == Spec => []RequiredSurvives
<1>1. Init => SettledInv
    BY DEF Init, Nothing, SettledInv
<1>2. StageInv /\ StageInv' /\ SettledInv /\ [Next]_vars => SettledInv'
    BY SettledStep
<1>3. StageInv /\ SettledInv => RequiredSurvives
    <2> SUFFICES ASSUME StageInv, SettledInv PROVE RequiredSurvives
        OBVIOUS
    <2>1. ASSUME out.decisions # <<>> PROVE where \in WithDecisions
        BY <2>1 DEF StageInv, OutputInv
    <2>2. ASSUME NEW t \in out.trace PROVE where \in WithDecisions
        <3>1. where \in WithTrace
            BY <2>2 DEF StageInv, OutputInv
        <3>2. QED BY <3>1 DEF WithDecisions, WithAllocation, WithOrder
    <2>3. ASSUME NEW t \in out.trace, NEW settled \in t.settlement, NEW d \in Elements(out.decisions)
          PROVE  /\ HasRequired(d.scored) => IdOf(d.scored) \in Elements(settled.order)
                 /\ d.decision = "filtered" => IdOf(d.scored) \notin Elements(settled.order)
        <3>1. where \in WithDecisions
            BY <2>2
        <3>2. PICK S : Chosen(S) /\ Elements(settled.order) = { IdOf(s) : s \in S }
            BY <2>3 DEF SettledInv
        <3>3. ASSUME HasRequired(d.scored) PROVE IdOf(d.scored) \in Elements(settled.order)
            <4>1. d.scored \in Elements(Eligible(out.decisions)) /\ IsRequired(d.scored)
                BY <3>1, <3>3, RequiredDecided
            <4>2. d.scored \in S
                BY <3>2, <4>1 DEF Chosen
            <4>3. QED BY <3>2, <4>2
        <3>4. ASSUME d.decision = "filtered", IdOf(d.scored) \in Elements(settled.order) PROVE FALSE
            <4>1. PICK s \in S : IdOf(s) = IdOf(d.scored)
                BY <3>2, <3>4
            <4>2. s \in Elements(Eligible(out.decisions))
                BY <3>2 DEF Chosen
            <4>3. d.decision = "eligible"
                BY <3>1, <4>1, <4>2, DecidedApart
            <4>4. QED BY <3>4, <4>3
        <3>5. QED BY <3>3, <3>4
    <2>4. ASSUME out.decisions # <<>>, NEW d \in Elements(out.decisions), HasRequired(d.scored)
          PROVE  d.decision = "eligible"
        BY <2>1, <2>4, RequiredDecided
    <2>5. QED BY <2>3, <2>4 DEF RequiredSurvives
<1>4. QED BY <1>1, <1>2, <1>3, StagesHandOn, PTL DEF Spec

-----------------------------------------------------------------------------
(* The order of the candidates and of the documents. *)

\* Two arrangements of the same places, neither of which puts a place after one
\* it comes before, have at k places neither of which comes before the other.
LEMMA TwoArrangements ==
    ASSUME NEW n \in Nat, NEW D, NEW alpha \in Bijection(1..n, D), NEW beta \in Bijection(1..n, D), NEW B,
           \A x, y, z \in D : << x, y >> \in B => << x, z >> \in B \/ << z, y >> \in B,
           \A a, b \in 1..n : a < b => << alpha[b], alpha[a] >> \notin B,
           \A a, b \in 1..n : a < b => << beta[b], beta[a] >> \notin B,
           \A x \in D : << x, x >> \notin B,
           NEW k \in 1..n
    PROVE  << alpha[k], beta[k] >> \notin B
<1> SUFFICES ASSUME << alpha[k], beta[k] >> \in B PROVE FALSE
    OBVIOUS
<1> DEFINE place(i) == CHOOSE j \in 1..n : beta[j] = alpha[i]
           f == [i \in 1..k |-> place(i)]
<1>1. /\ alpha \in [1..n -> D] /\ beta \in [1..n -> D]
      /\ \A i, j \in 1..n : alpha[i] = alpha[j] => i = j
      /\ \A x \in D : \E j \in 1..n : beta[j] = x
    <2> DEFINE N == 1..n
    <2>1. alpha \in Bijection(N, D)
        OBVIOUS
    <2>2. beta \in Bijection(N, D)
        OBVIOUS
    <2> HIDE DEF N
    <2>3. alpha \in [N -> D]
        BY <2>1, Arranges
    <2>4. \A i, j \in N : alpha[i] = alpha[j] => i = j
        BY <2>1, Arranges
    <2>5. beta \in [N -> D]
        BY <2>2, Arranges
    <2>6. \A x \in D : \E j \in N : beta[j] = x
        BY <2>2, Arranges
    <2>7. QED BY <2>3, <2>4, <2>5, <2>6 DEF N
<1>2. \A i \in 1..k : i \in 1..n /\ place(i) \in 1..n /\ beta[place(i)] = alpha[i]
    <2> SUFFICES ASSUME NEW i \in 1..k PROVE i \in 1..n /\ place(i) \in 1..n /\ beta[place(i)] = alpha[i]
        OBVIOUS
    <2>1. i \in 1..n
        OBVIOUS
    <2>2. \E j \in 1..n : beta[j] = alpha[i]
        BY <1>1, <2>1
    <2>3. QED BY <2>1, <2>2, Zenon
<1> HIDE DEF place
<1>3. \A i \in 1..k : << alpha[k], alpha[i] >> \notin B
    <2> SUFFICES ASSUME NEW i \in 1..k PROVE << alpha[k], alpha[i] >> \notin B
        OBVIOUS
    <2>1. CASE i = k
        BY <1>1, <2>1
    <2>2. CASE i < k
        BY <1>2, <2>2
    <2>3. QED BY <2>1, <2>2
<1>4. \A i \in 1..k : << alpha[i], beta[k] >> \in B
    BY <1>1, <1>2, <1>3
<1>5. \A j \in 1..n : j >= k => << beta[j], beta[k] >> \notin B
    <2> SUFFICES ASSUME NEW j \in 1..n, j >= k PROVE << beta[j], beta[k] >> \notin B
        OBVIOUS
    <2>1. CASE j = k
        BY <1>1, <2>1
    <2>2. CASE j > k
        BY <2>2
    <2>3. QED BY <2>1, <2>2
<1>6. f \in [1..k -> 1..(k - 1)]
    <2> SUFFICES ASSUME NEW i \in 1..k PROVE place(i) \in 1..(k - 1)
        OBVIOUS
    <2>1. place(i) \in 1..n /\ << beta[place(i)], beta[k] >> \in B
        BY <1>2, <1>4
    <2>2. ~ (place(i) >= k)
        BY <1>5, <2>1
    <2>3. QED BY <2>1, <2>2
<1>7. /\ IsFiniteSet(1..k) /\ IsFiniteSet(1..(k - 1))
      /\ Cardinality(1..k) = k /\ Cardinality(1..(k - 1)) = k - 1
    <2>1. 1 \in Int /\ k \in Int /\ k - 1 \in Int
        OBVIOUS
    <2>2. IsFiniteSet(1..k) /\ Cardinality(1..k) = k
        BY <2>1, FS_Interval
    <2>3. IsFiniteSet(1..(k - 1)) /\ Cardinality(1..(k - 1)) = IF 1 > k - 1 THEN 0 ELSE (k - 1) - 1 + 1
        BY <2>1, FS_Interval
    <2>4. QED BY <2>2, <2>3
<1>8. \E x, y \in 1..k : x # y /\ f[x] = f[y]
    <2>1. Cardinality(1..(k - 1)) < Cardinality(1..k)
        BY <1>7
    <2>2. IsFiniteSet(1..k) /\ IsFiniteSet(1..(k - 1))
        BY <1>7
    <2> HIDE DEF f
    <2> DEFINE S == 1..k
               T == 1..(k - 1)
    <2>3. IsFiniteSet(S) /\ IsFiniteSet(T) /\ Cardinality(T) < Cardinality(S) /\ f \in [S -> T]
        BY <1>6, <2>1, <2>2
    <2> HIDE DEF S, T
    <2>4. \E x, y \in S : x # y /\ f[x] = f[y]
        BY <2>3, FS_PigeonHole
    <2>5. QED BY <2>4 DEF S
<1>9. PICK x \in 1..k, y \in 1..k : x # y /\ place(x) = place(y)
    BY <1>8
<1>10. QED BY <1>1, <1>2, <1>9

\* Another order of a sequence has the same elements, each as often.
LEMMA Rearranged ==
    ASSUME NEW s, NEW p \in Orders(s)
    PROVE  /\ DOMAIN Permuted(s, p) = DOMAIN s
           /\ \A i \in DOMAIN s : p[i] \in DOMAIN s /\ Permuted(s, p)[i] = s[p[i]]
           /\ \A i, j \in DOMAIN s : p[i] = p[j] => i = j
           /\ \A k \in DOMAIN s : \E i \in DOMAIN s : p[i] = k
           /\ Elements(Permuted(s, p)) = Elements(s)
<1> DEFINE t == Permuted(s, p)
           D == DOMAIN s
<1>1. DOMAIN t = D /\ \A i \in D : t[i] = s[p[i]]
    BY DEF Permuted
<1>2. p \in Bijection(D, D)
    BY DEF Orders
<1> HIDE DEF t, D
<1>3. p \in [D -> D] /\ \A i, j \in D : p[i] = p[j] => i = j
    BY <1>2, Arranges
<1>4. \A k \in D : \E i \in D : p[i] = k
    BY <1>2, Arranges
<1>5. Elements(t) = Elements(s)
    <2>1. ASSUME NEW x \in Elements(t) PROVE x \in Elements(s)
        BY <1>1, <1>3 DEF Elements, D
    <2>2. ASSUME NEW x \in Elements(s) PROVE x \in Elements(t)
        <3>1. PICK k \in D : x = s[k]
            BY DEF Elements, D
        <3>2. PICK i \in D : p[i] = k
            BY <1>4
        <3>3. t[i] = x /\ i \in DOMAIN t
            BY <1>1, <3>1, <3>2
        <3>4. QED BY <3>3 DEF Elements
    <2>3. QED BY <2>1, <2>2
<1>6. QED BY <1>1, <1>3, <1>4, <1>5 DEF t, D

\* Another order of a batch is a batch, and as sound.
LEMMA RearrangedIsSound ==
    ASSUME NEW candidates, IsSound(candidates), NEW p \in Orders(candidates)
    PROVE  IsSound(Permuted(candidates, p))
<1> DEFINE t == Permuted(candidates, p)
<1>1. DOMAIN t = DOMAIN candidates /\ Elements(t) = Elements(candidates)
    BY Rearranged
<1>2. t = [ i \in DOMAIN t |-> t[i] ]
    BY DEF Permuted
<1> HIDE DEF t
<1>3. t \in Seq(Elements(t))
    <2>1. Len(candidates) \in Nat /\ DOMAIN candidates = 1..Len(candidates)
        BY DEF IsSound, IsBatch
    <2>2. QED BY <1>1, <1>2, <2>1, LenIsLast
<1>4. IsSound(t)
    BY <1>1, <1>3 DEF IsSound, IsBatch
<1>5. QED BY <1>4 DEF t

\* A wrapper's retrieval can be told from what it is compared by.
LEMMA RetrievalKeyTells ==
    ASSUME NEW v, WrapperShape(v), NEW w, WrapperShape(w), RetrievalKey(v) = RetrievalKey(w)
    PROVE  v.retrieval = w.retrieval
<1> DEFINE q == The(v.retrieval)
           r == The(w.retrieval)
<1>1. ASSUME NEW u, WrapperShape(u), u.retrieval # {}
      PROVE  LET x == The(u.retrieval)
             IN  /\ u.retrieval = {x} /\ RetrievalShape(x)
                 /\ RetrievalKey(u)[1] = IF x.score = {} THEN 1 ELSE 2
                 /\ RetrievalKey(u)[2] = x.contract
                 /\ x.score # {} => x.score = {RetrievalKey(u)[3]}
    <2> DEFINE x == The(u.retrieval)
    <2>1. x \in u.retrieval
        BY <1>1, TheOption
    <2>2. AtMostOne(u.retrieval) /\ RetrievalShape(x)
        BY <1>1, <2>1 DEF WrapperShape
    <2>3. RetrievalKey(u) = IF x.score = {} THEN << 1, x.contract, 0 >> ELSE << 2, x.contract, The(x.score) >>
        BY <1>1 DEF RetrievalKey
    <2> HIDE DEF x
    <2>4. u.retrieval = {x}
        BY <2>1, <2>2 DEF AtMostOne
    <2>5. x.score # {} => x.score = {The(x.score)}
        BY <2>2, TheOption DEF RetrievalShape, OptionOf, AtMostOne
    <2>6. CASE x.score = {}
        <3>1. RetrievalKey(u) = << 1, x.contract, 0 >>
            BY <2>3, <2>6
        <3>2. RetrievalKey(u)[1] = 1 /\ RetrievalKey(u)[2] = x.contract
            BY <3>1
        <3>3. QED BY <2>2, <2>4, <2>6, <3>2 DEF x
    <2>7. CASE x.score # {}
        <3>1. RetrievalKey(u) = << 2, x.contract, The(x.score) >>
            BY <2>3, <2>7
        <3>2. RetrievalKey(u)[1] = 2 /\ RetrievalKey(u)[2] = x.contract /\ RetrievalKey(u)[3] = The(x.score)
            BY <3>1
        <3>3. QED BY <2>2, <2>4, <2>5, <2>7, <3>2 DEF x
    <2>8. QED BY <2>6, <2>7
<1>2. ASSUME NEW u, u.retrieval = {} PROVE RetrievalKey(u)[1] = 0
    <2>1. RetrievalKey(u) = << 0, 0, 0 >>
        BY <1>2 DEF RetrievalKey
    <2>2. QED BY <2>1
<1>3. v.retrieval = {} <=> w.retrieval = {}
    <2>1. v.retrieval # {} => RetrievalKey(v)[1] \in {1, 2}
        BY <1>1
    <2>2. w.retrieval # {} => RetrievalKey(w)[1] \in {1, 2}
        BY <1>1
    <2>3. QED BY <1>2, <2>1, <2>2
<1>4. ASSUME v.retrieval # {} PROVE v.retrieval = w.retrieval
    <2>1. /\ v.retrieval = {q} /\ RetrievalShape(q)
          /\ RetrievalKey(v)[1] = IF q.score = {} THEN 1 ELSE 2
          /\ RetrievalKey(v)[2] = q.contract
          /\ q.score # {} => q.score = {RetrievalKey(v)[3]}
        BY <1>1, <1>4
    <2>2. /\ w.retrieval = {r} /\ RetrievalShape(r)
          /\ RetrievalKey(w)[1] = IF r.score = {} THEN 1 ELSE 2
          /\ RetrievalKey(w)[2] = r.contract
          /\ r.score # {} => r.score = {RetrievalKey(w)[3]}
        BY <1>1, <1>3, <1>4
    <2> HIDE DEF q, r
    <2>3. q.contract = r.contract /\ q.score = r.score
        BY <2>1, <2>2
    <2>4. q = r
        BY <2>1, <2>2, <2>3 DEF RetrievalShape
    <2>5. QED BY <2>1, <2>2, <2>4
<1>5. QED BY <1>3, <1>4

\* Wrappers of a sound batch neither of which comes before the other are one.
LEMMA TiedWrappers ==
    ASSUME NEW candidates, IsSound(candidates), NEW v \in Elements(candidates), NEW w \in Elements(candidates),
           ~ WrapperBefore(v, w), ~ WrapperBefore(w, v)
    PROVE  v = w
<1> DEFINE k == RetrievalKey(v)
           l == RetrievalKey(w)
<1>1. WrapperShape(v) /\ WrapperShape(w)
    BY DEF IsSound, IsBatch
<1>2. v.block.id \in Nat /\ w.block.id \in Nat
    BY <1>1 DEF WrapperShape, BlockShape
<1>3. k \in [1..3 -> Int] /\ l \in [1..3 -> Int]
    BY <1>1, RetrievalKeys
<1>4. v.block.id = w.block.id /\ ~ KeyBefore(k, l) /\ ~ KeyBefore(l, k)
    BY <1>2 DEF WrapperBefore
<1>5. v.block = w.block
    BY <1>4 DEF IsSound
<1> HIDE DEF k, l
<1>6. k = l
    <2>1. 3 \in Nat
        OBVIOUS
    <2>2. QED BY <1>3, <1>4, <2>1, KeyOrder
<1>7. v.retrieval = w.retrieval
    BY <1>1, <1>6, RetrievalKeyTells DEF k, l
<1>8. QED BY <1>1, <1>5, <1>7 DEF WrapperShape

\* One arrangement after another is an arrangement.
LEMMA ArrangesAgain ==
    ASSUME NEW S, NEW T, NEW U, NEW f \in Bijection(S, T), NEW g \in Bijection(T, U)
    PROVE  [ k \in S |-> g[f[k]] ] \in Bijection(S, U)
<1> DEFINE h == [ k \in S |-> g[f[k]] ]
<1>1. f \in [S -> T] /\ \A i, j \in S : f[i] = f[j] => i = j
    BY Arranges
<1>2. \A k \in T : \E i \in S : f[i] = k
    BY Arranges
<1>3. g \in [T -> U] /\ \A i, j \in T : g[i] = g[j] => i = j
    BY Arranges
<1>4. \A k \in U : \E i \in T : g[i] = k
    BY Arranges
<1>5. h \in [S -> U] /\ \A k \in S : h[k] = g[f[k]]
    BY <1>1, <1>3
<1> HIDE DEF h
<1>6. \A i, j \in S : h[i] = h[j] => i = j
    BY <1>1, <1>3, <1>5
<1>7. \A k \in U : \E i \in S : h[i] = k
    BY <1>2, <1>4, <1>5
<1>8. h \in Bijection(S, U)
    BY <1>5, <1>6, <1>7, IsArrangement
<1>9. QED BY <1>8 DEF h

\* The members of a group are the wrappers of the batch at the places of its key,
\* none behind one it comes before.
LEMMA MembersPlaces ==
    ASSUME NEW candidates, IsBatch(candidates), NEW key
    PROVE  LET D == PlacesOf(candidates, key)
               n == Cardinality(D)
           IN  /\ n \in Nat
               /\ \E f \in Bijection(1..n, D) :
                     /\ Sorted(MembersOf(candidates, key), WrapperBefore) = [ k \in 1..n |-> candidates[f[k]] ]
                     /\ \A a, b \in 1..n : a < b => ~ WrapperBefore(candidates[f[b]], candidates[f[a]])
<1> DEFINE D  == PlacesOf(candidates, key)
           n  == Cardinality(D)
           N  == 1..n
           ms == MembersOf(candidates, key)
           order  == WrapperOrderOf(ms)
           sorted == Sorted(ms, WrapperBefore)
           first  == Lined(D, Stable(D, {}))
           second == Lined(N, Stable(N, order))
           f      == [ k \in N |-> first[second[k]] ]
<1>1. D \in SUBSET Nat /\ IsFiniteSet(D)
    <2>1. D \in SUBSET DOMAIN candidates
        BY DEF PlacesOf
    <2>2. candidates \in Seq(Elements(candidates))
        BY DEF IsBatch
    <2>3. QED BY <2>1, <2>2, PlacesFinite
<1>2. ms = Picked(candidates, D, {})
    BY DEF MembersOf, Filtered, PlacesOf
<1>3. WeakOrder({}, D)
    BY DEF WeakOrder
<1> HIDE DEF D, ms
<1>4. n \in Nat /\ first \in Bijection(N, D) /\ DOMAIN ms = N /\ \A k \in N : ms[k] = candidates[first[k]]
    <2>1. n \in Nat
        BY <1>1, <1>3, PickedPlaces
    <2>2. first \in Bijection(N, D)
        BY <1>1, <1>3, PickedPlaces
    <2>3. DOMAIN ms = N
        BY <1>1, <1>2, <1>3, PickedPlaces
    <2>4. \A k \in N : ms[k] = candidates[first[k]]
        BY <1>1, <1>2, <1>3, PickedPlaces
    <2>5. QED BY <2>1, <2>2, <2>3, <2>4
<1>5. IsFiniteSet(N) /\ Cardinality(N) = n /\ N \in SUBSET Nat
    BY <1>4, FS_Interval
<1>6. WeakOrder(order, N)
    <2>1. \A i \in DOMAIN ms : WrapperShape(ms[i])
        <3>1. Elements(ms) = Under(candidates, key)
            BY MembersUnderKey DEF ms
        <3>2. QED BY <3>1 DEF Elements, Under, IsBatch
    <2>2. WeakOrder(order, DOMAIN ms)
        BY <2>1, WrappersWeak
    <2>3. QED BY <1>4, <2>2
<1>7. sorted = Picked(ms, N, order)
    BY <1>4 DEF Sorted, WrapperOrderOf
<1>8. \A i, j \in N : << i, j >> \in order <=> WrapperBefore(ms[i], ms[j])
    BY <1>4 DEF WrapperOrderOf
<1> HIDE DEF n, order, sorted, first
<1>9. /\ second \in Bijection(N, N)
      /\ DOMAIN sorted = N
      /\ \A k \in N : sorted[k] = ms[second[k]]
      /\ \A a, b \in N : a < b => << second[b], second[a] >> \notin order
    <2> DEFINE M == Cardinality(N)
    <2>0. M = n
        BY <1>5
    <2>1. Lined(N, Stable(N, order)) \in Bijection(1..M, N)
        <3> HIDE DEF N
        <3>1. QED BY <1>5, <1>6, PickedPlaces
    <2>2. DOMAIN sorted = 1..M
        <3> HIDE DEF N
        <3>1. QED BY <1>5, <1>6, <1>7, PickedPlaces
    <2>3. \A k \in 1..M : sorted[k] = ms[second[k]]
        <3> HIDE DEF N
        <3>1. QED BY <1>5, <1>6, <1>7, PickedPlaces
    <2>4. \A a, b \in 1..M : a < b => << second[b], second[a] >> \notin order
        <3> HIDE DEF N
        <3>1. QED BY <1>5, <1>6, PickedPlaces
    <2> HIDE DEF M, second
    <2>5. second \in Bijection(1..n, N)
        BY <2>0, <2>1 DEF second
    <2>6. QED BY <2>0, <2>2, <2>3, <2>4, <2>5
<1>10. sorted = [ k \in DOMAIN sorted |-> sorted[k] ]
    BY <1>7 DEF Picked
<1> HIDE DEF second, N
<1>11. f \in Bijection(N, D)
    BY <1>4, <1>9, ArrangesAgain
<1>12. second \in [N -> N]
    BY <1>9, Arranges
<1>13. \A k \in N : sorted[k] = candidates[f[k]]
    BY <1>4, <1>9, <1>12
<1>14. sorted = [ k \in N |-> candidates[f[k]] ]
    BY <1>9, <1>10, <1>13
<1>15. ASSUME NEW a \in N, NEW b \in N, a < b PROVE ~ WrapperBefore(candidates[f[b]], candidates[f[a]])
    <2>1. second[a] \in N /\ second[b] \in N
        BY <1>12
    <2>2. ~ WrapperBefore(ms[second[b]], ms[second[a]])
        BY <1>8, <1>9, <1>15, <2>1
    <2>3. ms[second[a]] = candidates[f[a]] /\ ms[second[b]] = candidates[f[b]]
        BY <1>4, <2>1
    <2>4. QED BY <2>2, <2>3
<1> HIDE DEF f
<1>16. QED BY <1>4, <1>11, <1>14, <1>15 DEF n, N, D, sorted, ms

\* The group of a key does not depend on the order of the batch.
LEMMA GroupsAlike ==
    ASSUME NEW candidates, IsSound(candidates), NEW p \in Orders(candidates), NEW key
    PROVE  GroupFor(Permuted(candidates, p), key) = GroupFor(candidates, key)
<1> DEFINE t  == Permuted(candidates, p)
           D  == PlacesOf(candidates, key)
           E  == PlacesOf(t, key)
           n  == Cardinality(D)
           m  == Cardinality(E)
           ms == MembersOf(candidates, key)
           ls == MembersOf(t, key)
           B  == { q \in D \X D : WrapperBefore(candidates[q[1]], candidates[q[2]]) }
<1>1. IsSound(t)
    BY RearrangedIsSound
<1>2. /\ DOMAIN t = DOMAIN candidates
      /\ \A i \in DOMAIN candidates : p[i] \in DOMAIN candidates /\ t[i] = candidates[p[i]]
      /\ \A i, j \in DOMAIN candidates : p[i] = p[j] => i = j
      /\ \A k \in DOMAIN candidates : \E i \in DOMAIN candidates : p[i] = k
      /\ Elements(t) = Elements(candidates)
    <2>1. DOMAIN t = DOMAIN candidates
        BY Rearranged
    <2>2. \A i \in DOMAIN candidates : p[i] \in DOMAIN candidates /\ t[i] = candidates[p[i]]
        BY Rearranged
    <2>3. \A i, j \in DOMAIN candidates : p[i] = p[j] => i = j
        BY Rearranged
    <2>4. \A k \in DOMAIN candidates : \E i \in DOMAIN candidates : p[i] = k
        BY Rearranged
    <2>5. Elements(t) = Elements(candidates)
        BY Rearranged
    <2>6. QED BY <2>1, <2>2, <2>3, <2>4, <2>5
<1> HIDE DEF t
<1>3. [ i \in E |-> p[i] ] \in Bijection(E, D)
    <2> DEFINE g == [ i \in E |-> p[i] ]
    <2>1. g \in [E -> D]
        BY <1>2 DEF PlacesOf
    <2>2. \A i, j \in E : g[i] = g[j] => i = j
        BY <1>2 DEF PlacesOf
    <2>3. \A k \in D : \E i \in E : g[i] = k
        BY <1>2 DEF PlacesOf
    <2> HIDE DEF g, D, E
    <2>4. g \in Bijection(E, D)
        BY <2>1, <2>2, <2>3, IsArrangement
    <2>5. QED BY <2>4 DEF g
<1>4. \A x, y \in D : << x, y >> \in B <=> WrapperBefore(candidates[x], candidates[y])
    OBVIOUS
<1>5. \A x \in D : candidates[x] \in Elements(candidates) /\ WrapperShape(candidates[x])
    BY DEF PlacesOf, Elements, IsSound, IsBatch
<1>6. /\ \A x, y, z \in D : << x, y >> \in B => << x, z >> \in B \/ << z, y >> \in B
      /\ \A x \in D : << x, x >> \notin B
    <2> HIDE DEF B, D
    <2>1. ASSUME NEW x \in D, NEW y \in D, NEW z \in D, WrapperBefore(candidates[x], candidates[y])
          PROVE  WrapperBefore(candidates[x], candidates[z]) \/ WrapperBefore(candidates[z], candidates[y])
        BY <1>5, <2>1, WrapperOrder
    <2>2. ASSUME NEW x \in D, WrapperBefore(candidates[x], candidates[x]) PROVE FALSE
        BY <1>5, <2>2, WrapperOrder
    <2>3. QED BY <1>4, <2>1, <2>2
<1>7. PICK f \in Bijection(1..n, D) :
         /\ Sorted(ms, WrapperBefore) = [ k \in 1..n |-> candidates[f[k]] ]
         /\ \A a, b \in 1..n : a < b => ~ WrapperBefore(candidates[f[b]], candidates[f[a]])
    BY MembersPlaces DEF IsSound
<1>8. PICK g \in Bijection(1..m, E) :
         /\ Sorted(ls, WrapperBefore) = [ k \in 1..m |-> t[g[k]] ]
         /\ \A a, b \in 1..m : a < b => ~ WrapperBefore(t[g[b]], t[g[a]])
    BY <1>1, MembersPlaces DEF IsSound
<1>9. n \in Nat /\ m \in Nat
    BY <1>1, MembersPlaces DEF IsSound
<1> HIDE DEF D, E, B, n, m, ms, ls
<1> DEFINE h == [ k \in 1..m |-> p[g[k]] ]
<1>10. h \in Bijection(1..m, D)
    <2> DEFINE one == [ i \in E |-> p[i] ]
               M   == 1..m
    <2>1. one \in Bijection(E, D) /\ g \in Bijection(M, E)
        BY <1>3, <1>8
    <2>2. g \in [M -> E]
        BY <2>1, Arranges
    <2>3. h = [ k \in M |-> one[g[k]] ]
        BY <2>2
    <2> HIDE DEF one, M, h
    <2>4. [ k \in M |-> one[g[k]] ] \in Bijection(M, D)
        BY <2>1, ArrangesAgain
    <2>5. QED BY <2>3, <2>4 DEF M
<1>11. n = m
    <2> DEFINE M == 1..m
    <2>1. IsFiniteSet(M) /\ Cardinality(M) = m /\ h \in Bijection(M, D)
        BY <1>9, <1>10, FS_Interval
    <2> HIDE DEF M, h
    <2>2. h \in Injection(M, D) /\ h \in Surjection(M, D)
        BY <2>1 DEF Bijection
    <2>3. Cardinality(D) = Cardinality(M)
        BY <2>1, <2>2, FS_Surjection
    <2>4. QED BY <2>1, <2>3 DEF n
<1>12. \A k \in 1..n : t[g[k]] = candidates[h[k]]
    <2>1. \A k \in 1..m : g[k] \in E
        <3> DEFINE M == 1..m
        <3>1. g \in Bijection(M, E)
            BY <1>8
        <3> HIDE DEF M
        <3>2. g \in [M -> E]
            BY <3>1, Arranges
        <3>3. QED BY <3>2 DEF M
    <2>2. E \subseteq DOMAIN candidates
        BY <1>2 DEF E, PlacesOf
    <2>3. QED BY <1>2, <1>11, <2>1, <2>2
<1>13. \A k \in 1..n : f[k] \in D /\ h[k] \in D
    <2> DEFINE N == 1..n
    <2>1. f \in Bijection(N, D)
        BY <1>7
    <2>2. h \in Bijection(N, D)
        BY <1>10, <1>11
    <2> HIDE DEF N, h
    <2>3. f \in [N -> D]
        BY <2>1, Arranges
    <2>4. h \in [N -> D]
        BY <2>2, Arranges
    <2>5. QED BY <2>3, <2>4 DEF N
<1> HIDE DEF h
<1>14. \A a, b \in 1..n : a < b => << f[b], f[a] >> \notin B
    BY <1>4, <1>7, <1>13
<1>15. ASSUME NEW a \in 1..n, NEW b \in 1..n, a < b PROVE << h[b], h[a] >> \notin B
    <2>1. ~ WrapperBefore(t[g[b]], t[g[a]])
        BY <1>8, <1>11, <1>15
    <2>2. t[g[b]] = candidates[h[b]] /\ t[g[a]] = candidates[h[a]]
        BY <1>12
    <2>3. ~ WrapperBefore(candidates[h[b]], candidates[h[a]])
        BY <2>1, <2>2
    <2>4. QED BY <1>4, <1>13, <2>3
<1>16. ASSUME NEW k \in 1..n PROVE candidates[f[k]] = t[g[k]]
    <2>1. << f[k], h[k] >> \notin B
        BY <1>6, <1>9, <1>7, <1>10, <1>11, <1>14, <1>15, TwoArrangements
    <2>2. << h[k], f[k] >> \notin B
        BY <1>6, <1>9, <1>7, <1>10, <1>11, <1>14, <1>15, TwoArrangements
    <2>3. candidates[f[k]] = candidates[h[k]]
        BY <1>4, <1>5, <1>13, <2>1, <2>2, TiedWrappers
    <2>4. QED BY <1>12, <2>3
<1>17. Sorted(ls, WrapperBefore) = Sorted(ms, WrapperBefore)
    BY <1>7, <1>8, <1>11, <1>16
<1>18. BlocksById(ls) = BlocksById(ms)
    <2>1. ms \in Seq(Under(candidates, key)) /\ Elements(ms) = Under(candidates, key)
        BY MembersUnderKey DEF IsSound, ms
    <2>2. ls \in Seq(Under(t, key)) /\ Elements(ls) = Under(t, key)
        BY <1>1, MembersUnderKey DEF IsSound, ls
    <2>3. Under(t, key) = Under(candidates, key)
        BY <1>2 DEF Under
    <2>4. \A v, w \in Under(candidates, key) : v.block.id = w.block.id => v.block = w.block
        BY DEF IsSound, Under
    <2>5. BlocksById(ms) = BlocksOf(Elements(ms))
        BY <2>1, <2>4, BlocksByIdAre
    <2>6. BlocksById(ls) = BlocksOf(Elements(ls))
        BY <2>2, <2>3, <2>4, BlocksByIdAre
    <2>7. QED BY <2>1, <2>2, <2>3, <2>5, <2>6
<1>19. QED BY <1>17, <1>18 DEF GroupFor, ms, ls, t

\* The groups do not depend on the order of the batch.
LEMMA DeduplicateAlike ==
    ASSUME NEW candidates, IsSound(candidates), NEW p \in Orders(candidates)
    PROVE  Deduplicate(Permuted(candidates, p)) = Deduplicate(candidates)
<1> DEFINE t == Permuted(candidates, p)
<1>1. Elements(t) = Elements(candidates)
    BY Rearranged
<1>2. \A key : GroupFor(t, key) = GroupFor(candidates, key)
    BY GroupsAlike
<1> HIDE DEF t
<1>3. { GroupFor(t, GroupKey(w)) : w \in Elements(t) }
          = { GroupFor(candidates, GroupKey(w)) : w \in Elements(candidates) }
    <2> DEFINE here(w)  == GroupFor(t, GroupKey(w))
               there(w) == GroupFor(candidates, GroupKey(w))
    <2>1. \A w : here(w) = there(w)
        BY <1>2
    <2> HIDE DEF here, there
    <2>2. { here(w) : w \in Elements(t) } = { there(w) : w \in Elements(candidates) }
        BY <1>1, <2>1
    <2>3. QED BY <2>2 DEF here, there
<1>4. QED BY <1>3 DEF Deduplicate, Listed, t

\* An identifier is declared as often, whatever the order of the documents.
LEMMA DeclaredAlike ==
    ASSUME NEW X, NEW docs \in Seq(X), NEW q \in Orders(docs), NEW id
    PROVE  DeclaredTimes(Permuted(docs, q), id) = DeclaredTimes(docs, id)
<1> DEFINE t == Permuted(docs, q)
           D == { i \in DOMAIN docs : docs[i].id = id }
           E == { i \in DOMAIN t : t[i].id = id }
           g == [ i \in E |-> q[i] ]
<1>1. DOMAIN t = DOMAIN docs
    BY Rearranged
<1>2. \A i \in DOMAIN docs : q[i] \in DOMAIN docs /\ t[i] = docs[q[i]]
    BY Rearranged
<1>3. \A i, j \in DOMAIN docs : q[i] = q[j] => i = j
    BY Rearranged
<1>4. \A k \in DOMAIN docs : \E i \in DOMAIN docs : q[i] = k
    BY Rearranged
<1> HIDE DEF t
<1>5. g \in [E -> D]
    BY <1>1, <1>2
<1>6. \A i, j \in E : g[i] = g[j] => i = j
    BY <1>1, <1>3
<1>7. \A k \in D : \E i \in E : g[i] = k
    BY <1>1, <1>2, <1>4
<1>8. IsFiniteSet(E)
    <2>1. E \in SUBSET DOMAIN docs
        BY <1>1
    <2>2. QED BY <2>1, PlacesFinite
<1> HIDE DEF D, E, g
<1>9. g \in Injection(E, D) /\ g \in Surjection(E, D)
    BY <1>5, <1>6, <1>7, IsArrangement DEF Bijection
<1>10. Cardinality(D) = Cardinality(E)
    BY <1>8, <1>9, FS_Surjection
<1>11. QED BY <1>10 DEF DeclaredTimes, D, E, t

\* What is wrong with a block does not depend on the order of the documents.
LEMMA BlockIssuesAlike ==
    ASSUME NEW X, NEW docs \in Seq(X), NEW q \in Orders(docs), NEW scope, NEW counts, NEW b
    PROVE  BlockIssues(scope, Permuted(docs, q), counts, b) = BlockIssues(scope, docs, counts, b)
<1> DEFINE t == Permuted(docs, q)
<1>1. \A id : DeclaredTimes(t, id) = DeclaredTimes(docs, id)
    BY DeclaredAlike
<1>2. Elements(t) = Elements(docs)
    BY Rearranged
<1> HIDE DEF t
<1>3. Registry(t) = Registry(docs)
    BY <1>1, <1>2 DEF Registry
<1>4. SourceIssues(t, b) = SourceIssues(docs, b)
    BY <1>1, <1>3 DEF SourceIssues
<1> DEFINE others == { code \in {"source_location_type_mismatch"} :
                         \E place \in b.location : place.kind # ExpectedLocation[b.type] }
           strange == { code \in {"scope_mismatch"} : b.scope # scope }
<1>5. ASSUME NEW ds
      PROVE  BlockIssues(scope, ds, counts, b)
                 = strange \cup SourceIssues(ds, b) \cup others \cup ContentIssues(counts, b)
    BY Zenon DEF BlockIssues
<1> HIDE DEF others, strange
<1>6. BlockIssues(scope, t, counts, b) = BlockIssues(scope, docs, counts, b)
    BY <1>4, <1>5
<1>7. QED BY <1>6 DEF t

\* The codes of the issues of a batch, without the places they are reported at.
CodesOf(scope, docs, counts, candidates) ==
    { i.code : i \in ValidationIssues(scope, docs, counts, candidates) }

Declared(docs) == \E j, k \in DOMAIN docs : j # k /\ docs[j].id = docs[k].id

\* Every code that is reported, by the document or the block it is reported for.
LEMMA CodesAre ==
    ASSUME NEW X, NEW docs \in Seq(X), NEW scope, NEW counts, NEW candidates, NEW code
    PROVE  code \in CodesOf(scope, docs, counts, candidates) <=>
              \/ code = "duplicate_source_document_id" /\ Declared(docs)
              \/ code = "scope_mismatch" /\ \E d \in Elements(docs) : d.scope # scope
              \/ \E w \in Elements(candidates) : code \in BlockIssues(scope, docs, counts, w.block)
              \/ code = "conflicting_block_id" /\ ConflictingIds(candidates) # {}
<1> DEFINE twice   == { j \in DOMAIN docs : \E k \in 1..(j - 1) : docs[k].id = docs[j].id }
           strange == { j \in DOMAIN docs : docs[j].scope # scope }
           codes(i) == BlockIssues(scope, docs, counts, candidates[i].block)
           first(id) == FirstIndex(candidates, id)
           conflicts == ConflictingIds(candidates)
<1>1. \A c, part, at : Issue(c, part, at).code = c
    BY DEF Issue
<1>2. twice # {} <=> Declared(docs)
    <2>1. Len(docs) \in Nat /\ DOMAIN docs = 1..Len(docs)
        OBVIOUS
    <2>2. ASSUME NEW j \in twice PROVE Declared(docs)
        <3>1. PICK k \in 1..(j - 1) : docs[k].id = docs[j].id
            OBVIOUS
        <3>2. k \in DOMAIN docs /\ j \in DOMAIN docs /\ k # j
            BY <2>1
        <3>3. QED BY <3>1, <3>2 DEF Declared
    <2>3. ASSUME NEW j \in DOMAIN docs, NEW k \in DOMAIN docs, j # k, docs[j].id = docs[k].id PROVE twice # {}
        <3>1. CASE j < k
            <4>1. j \in 1..(k - 1)
                BY <2>1, <3>1
            <4>2. k \in twice
                BY <2>3, <4>1
            <4>3. QED BY <4>2
        <3>2. CASE k < j
            <4>1. k \in 1..(j - 1)
                BY <2>1, <3>2
            <4>2. j \in twice
                BY <2>3, <4>1
            <4>3. QED BY <4>2
        <3>3. QED BY <2>1, <2>3, <3>1, <3>2
    <2>4. QED BY <2>2, <2>3 DEF Declared
<1>3. strange # {} <=> \E d \in Elements(docs) : d.scope # scope
    BY DEF Elements
<1>4. (\E i \in DOMAIN candidates : code \in codes(i))
          <=> \E w \in Elements(candidates) : code \in BlockIssues(scope, docs, counts, w.block)
    BY DEF Elements
<1>5. ValidationIssues(scope, docs, counts, candidates)
          = { Issue("duplicate_source_document_id", "sourceDocuments", i) : i \in twice }
            \cup { Issue("scope_mismatch", "sourceDocuments", i) : i \in strange }
            \cup (UNION { { Issue(c, "candidates", i) : c \in codes(i) } : i \in DOMAIN candidates })
            \cup { Issue("conflicting_block_id", "candidates", first(id)) : id \in conflicts }
    BY DEF ValidationIssues, RegistryIssues, CandidateIssues
<1> HIDE DEF twice, strange, codes, first, conflicts
<1>6. code \in CodesOf(scope, docs, counts, candidates) <=>
          \/ code = "duplicate_source_document_id" /\ twice # {}
          \/ code = "scope_mismatch" /\ strange # {}
          \/ \E i \in DOMAIN candidates : code \in codes(i)
          \/ code = "conflicting_block_id" /\ conflicts # {}
    <2>1. ASSUME code \in CodesOf(scope, docs, counts, candidates)
          PROVE  \/ code = "duplicate_source_document_id" /\ twice # {}
                 \/ code = "scope_mismatch" /\ strange # {}
                 \/ \E i \in DOMAIN candidates : code \in codes(i)
                 \/ code = "conflicting_block_id" /\ conflicts # {}
        <3>1. PICK issue \in ValidationIssues(scope, docs, counts, candidates) : code = issue.code
            BY <2>1 DEF CodesOf
        <3>2. CASE issue \in { Issue("duplicate_source_document_id", "sourceDocuments", i) : i \in twice }
            BY <1>1, <3>1, <3>2
        <3>3. CASE issue \in { Issue("scope_mismatch", "sourceDocuments", i) : i \in strange }
            BY <1>1, <3>1, <3>3
        <3>4. CASE issue \in UNION { { Issue(c, "candidates", i) : c \in codes(i) } : i \in DOMAIN candidates }
            BY <1>1, <3>1, <3>4
        <3>5. CASE issue \in { Issue("conflicting_block_id", "candidates", first(id)) : id \in conflicts }
            BY <1>1, <3>1, <3>5
        <3>6. QED BY <1>5, <3>1, <3>2, <3>3, <3>4, <3>5
    <2>2. ASSUME NEW issue \in ValidationIssues(scope, docs, counts, candidates), issue.code = code
          PROVE  code \in CodesOf(scope, docs, counts, candidates)
        BY <2>2 DEF CodesOf
    <2>3. ASSUME NEW i \in twice, code = "duplicate_source_document_id"
          PROVE  code \in CodesOf(scope, docs, counts, candidates)
        BY <1>1, <1>5, <2>2, <2>3
    <2>4. ASSUME NEW i \in strange, code = "scope_mismatch"
          PROVE  code \in CodesOf(scope, docs, counts, candidates)
        BY <1>1, <1>5, <2>2, <2>4
    <2>5. ASSUME NEW i \in DOMAIN candidates, code \in codes(i)
          PROVE  code \in CodesOf(scope, docs, counts, candidates)
        <3>1. Issue(code, "candidates", i) \in ValidationIssues(scope, docs, counts, candidates)
            BY <1>5, <2>5
        <3>2. QED BY <1>1, <2>2, <3>1
    <2>6. ASSUME NEW id \in conflicts, code = "conflicting_block_id"
          PROVE  code \in CodesOf(scope, docs, counts, candidates)
        BY <1>1, <1>5, <2>2, <2>6
    <2>7. QED BY <2>1, <2>3, <2>4, <2>5, <2>6
<1>7. QED BY <1>2, <1>3, <1>4, <1>6 DEF conflicts

\* The problems that are found in a batch do not depend on its order, nor on that
\* of the documents.
LEMMA CodesAlike ==
    ASSUME NEW X, NEW docs \in Seq(X), NEW q \in Orders(docs),
           NEW scope, NEW counts, NEW candidates, NEW p \in Orders(candidates)
    PROVE  CodesOf(scope, Permuted(docs, q), counts, Permuted(candidates, p))
               = CodesOf(scope, docs, counts, candidates)
<1> DEFINE t == Permuted(docs, q)
           u == Permuted(candidates, p)
<1>1. Elements(t) = Elements(docs) /\ DOMAIN t = DOMAIN docs
    BY Rearranged
<1>2. Elements(u) = Elements(candidates)
    BY Rearranged
<1>3. \A b : BlockIssues(scope, t, counts, b) = BlockIssues(scope, docs, counts, b)
    BY BlockIssuesAlike
<1>4. Declared(t) <=> Declared(docs)
    <2>1. \A i \in DOMAIN docs : q[i] \in DOMAIN docs /\ t[i] = docs[q[i]]
        BY Rearranged
    <2>2. \A i, j \in DOMAIN docs : q[i] = q[j] => i = j
        BY Rearranged
    <2>3. \A k \in DOMAIN docs : \E i \in DOMAIN docs : q[i] = k
        BY Rearranged
    <2> HIDE DEF t
    <2>4. ASSUME NEW j \in DOMAIN docs, NEW k \in DOMAIN docs, j # k, t[j].id = t[k].id PROVE Declared(docs)
        <3>1. q[j] \in DOMAIN docs /\ q[k] \in DOMAIN docs /\ q[j] # q[k] /\ docs[q[j]].id = docs[q[k]].id
            BY <2>1, <2>2, <2>4
        <3>2. QED BY <3>1 DEF Declared
    <2>5. ASSUME NEW j \in DOMAIN docs, NEW k \in DOMAIN docs, j # k, docs[j].id = docs[k].id PROVE Declared(t)
        <3>1. PICK a \in DOMAIN docs : q[a] = j
            BY <2>3
        <3>2. PICK b \in DOMAIN docs : q[b] = k
            BY <2>3
        <3>3. a # b /\ t[a].id = t[b].id
            BY <2>1, <2>5, <3>1, <3>2
        <3>4. QED BY <1>1, <3>3 DEF Declared
    <2>6. QED BY <1>1, <2>4, <2>5 DEF Declared
<1>5. ConflictingIds(u) = ConflictingIds(candidates)
    BY <1>2 DEF ConflictingIds
<1>6. t \in Seq(Elements(t))
    <2>1. t = [ i \in DOMAIN t |-> t[i] ]
        BY DEF Permuted
    <2>2. Len(docs) \in Nat /\ DOMAIN docs = 1..Len(docs)
        OBVIOUS
    <2> HIDE DEF t
    <2>3. QED BY <1>1, <2>1, <2>2, LenIsLast
<1> HIDE DEF t, u
<1>7. ASSUME NEW code
      PROVE  code \in CodesOf(scope, t, counts, u) <=> code \in CodesOf(scope, docs, counts, candidates)
    <2>1. code \in CodesOf(scope, t, counts, u) <=>
              \/ code = "duplicate_source_document_id" /\ Declared(t)
              \/ code = "scope_mismatch" /\ \E d \in Elements(t) : d.scope # scope
              \/ \E w \in Elements(u) : code \in BlockIssues(scope, t, counts, w.block)
              \/ code = "conflicting_block_id" /\ ConflictingIds(u) # {}
        BY <1>6, CodesAre
    <2>2. code \in CodesOf(scope, docs, counts, candidates) <=>
              \/ code = "duplicate_source_document_id" /\ Declared(docs)
              \/ code = "scope_mismatch" /\ \E d \in Elements(docs) : d.scope # scope
              \/ \E w \in Elements(candidates) : code \in BlockIssues(scope, docs, counts, w.block)
              \/ code = "conflicting_block_id" /\ ConflictingIds(candidates) # {}
        BY CodesAre
    <2>3. QED BY <1>1, <1>2, <1>3, <1>4, <1>5, <2>1, <2>2
<1>8. QED BY <1>7 DEF t, u

\* The caller's order of the candidates and of the documents decides nothing:
\* not the problems that are found, not the groups, not the ranking.
THEOREM OrderIndependentHolds == Spec => []OrderIndependent
<1>1. StageInv => OrderIndependent
    <2> SUFFICES ASSUME StageInv PROVE OrderIndependent
        OBVIOUS
    <2>1. ASSUME failedAt = "candidate-validation",
                 NEW p \in Orders(request.candidates), NEW q \in Orders(request.docs)
          PROVE  issues = { i.code : i \in ValidationIssues(request.scope, Permuted(request.docs, q),
                                             answers, Permuted(request.candidates, p)) }
        <3>1. issues = CodesOf(request.scope, request.docs, answers, request.candidates)
            BY <2>1 DEF StageInv, FailureInv, CodesOf
        <3>2. request.docs \in Seq(Elements(request.docs))
            BY DEF StageInv, CheckedInv, RequestShape
        <3>3. CodesOf(request.scope, Permuted(request.docs, q), answers, Permuted(request.candidates, p))
                  = CodesOf(request.scope, request.docs, answers, request.candidates)
            BY <3>2, CodesAlike
        <3>4. QED BY <3>1, <3>3 DEF CodesOf
    <2>2. ASSUME stage = "filtering", NEW p \in Orders(request.candidates)
          PROVE  out.scored = Score(scoring, request.reference, Deduplicate(Permuted(request.candidates, p)))
        <3>1. where \in WithBatch /\ where \in WithGroups /\ where \in WithScores
            BY <2>2 DEF where, WithBatch, WithEvidence, WithGroups, WithScores
        <3>2. IsSound(request.candidates) /\ out.groups = Deduplicate(request.candidates)
            BY <3>1, GroupsOfSound
        <3>3. out.scored = Score(scoring, request.reference, Deduplicate(request.candidates))
            BY <3>1, <3>2 DEF StageInv, OutputInv
        <3>4. Deduplicate(Permuted(request.candidates, p)) = Deduplicate(request.candidates)
            BY <3>2, DeduplicateAlike
        <3>5. QED BY <3>3, <3>4
    <2>3. QED BY <2>1, <2>2 DEF OrderIndependent
<1>2. QED BY <1>1, StagesHandOn, PTL

-----------------------------------------------------------------------------
(* Induction on finite sets, in the form the provers can use: a family of    *)
(* subsets of a finite set has a member none of the others is a part of.     *)

\* A family of subsets of a finite set has a minimal member.
LEMMA MinimalMember ==
    ASSUME NEW S, IsFiniteSet(S), NEW F \in SUBSET SUBSET S, F # {}
    PROVE  \E T \in F : \A U \in F : U \subseteq T => U = T
<1>1. IsWellFoundedOn(StrictSubsetOrdering(S), SUBSET S)
    BY FS_StrictSubsetOrderingWellFounded, FS_FiniteSubsetsOfFinite
<1>2. \E T \in F : \A U \in F : ~ (<<U, T>> \in StrictSubsetOrdering(S))
    BY <1>1, WFMin, Zenon
<1>3. QED BY <1>2, Zenon DEF StrictSubsetOrdering

\* What holds of the empty set, and of a set and one element more, holds of a
\* finite set.
LEMMA SubsetInduction ==
    ASSUME NEW S, IsFiniteSet(S), NEW G \in SUBSET SUBSET S, {} \in G,
           \A T \in G : \A x \in S \ T : T \cup {x} \in G
    PROVE  S \in G
<1> SUFFICES ASSUME S \notin G PROVE FALSE
    OBVIOUS
<1> DEFINE F == (SUBSET S) \ G
<1>1. F # {} /\ F \in SUBSET SUBSET S
    OBVIOUS
<1>2. PICK T \in F : \A U \in F : U \subseteq T => U = T
    <2> HIDE DEF F
    <2>1. QED BY <1>1, MinimalMember
<1>3. PICK x \in T : TRUE
    BY <1>2
<1>4. T \ {x} \in SUBSET S /\ T \ {x} \subseteq T /\ T \ {x} # T
    BY <1>2, <1>3
<1>5. T \ {x} \in G
    BY <1>2, <1>4
<1>6. (T \ {x}) \cup {x} = T /\ x \in S \ (T \ {x})
    BY <1>2, <1>3
<1>7. QED BY <1>2, <1>5, <1>6

-----------------------------------------------------------------------------
(* The sum over a set does not depend on the order it is taken in.           *)

\* The element a fold takes first.
Pick(s) == CHOOSE x \in s : TRUE

\* The function the fold of a set is defined with.
IsSum(g, w, D) ==
    g = [s \in SUBSET D |-> IF s = {} THEN 0 ELSE w[Pick(s)] + g[s \ {Pick(s)}]]

\* What IsSum says of one set.
LEMMA SumAt ==
    ASSUME NEW w, NEW D, NEW g, IsSum(g, w, D), NEW s \in SUBSET D
    PROVE  /\ s = {} => g[s] = 0
           /\ s # {} => /\ Pick(s) \in s
                        /\ s \ {Pick(s)} \in SUBSET D
                        /\ g[s] = w[Pick(s)] + g[s \ {Pick(s)}]
<1> DEFINE F(x) == IF x = {} THEN 0 ELSE w[Pick(x)] + g[x \ {Pick(x)}]
<1>1. g = [x \in SUBSET D |-> F(x)]
    BY DEF IsSum
<1>2. g[s] = F(s)
    <2> HIDE DEF F
    <2>1. QED BY <1>1
<1>3. s # {} => Pick(s) \in s
    BY DEF Pick
<1>4. QED BY <1>2, <1>3

\* Two of them agree wherever both are defined.
LEMMA SumsAgree ==
    ASSUME NEW w, NEW D, IsFiniteSet(D), NEW E \in SUBSET D, NEW g, NEW h,
           IsSum(g, w, D), IsSum(h, w, E)
    PROVE  \A s \in SUBSET E : g[s] = h[s]
<1> DEFINE F == { s \in SUBSET E : g[s] # h[s] }
<1> SUFFICES ASSUME F # {} PROVE FALSE
    OBVIOUS
<1>1. F \in SUBSET SUBSET E /\ IsFiniteSet(E)
    BY FS_Subset
<1>2. PICK T \in F : \A U \in F : U \subseteq T => U = T
    <2> HIDE DEF F
    <2>1. QED BY <1>1, MinimalMember
<1>3. T \in SUBSET E /\ T \in SUBSET D /\ g[T] # h[T]
    BY <1>2
<1>4. T # {}
    <2> HIDE DEF F
    <2>1. ASSUME T = {} PROVE g[T] = 0 /\ h[T] = 0
        BY <1>3, <2>1, SumAt
    <2>2. QED BY <1>3, <2>1
<1>5. /\ Pick(T) \in T
      /\ g[T] = w[Pick(T)] + g[T \ {Pick(T)}]
      /\ h[T] = w[Pick(T)] + h[T \ {Pick(T)}]
    BY <1>3, <1>4, SumAt
<1>6. g[T \ {Pick(T)}] = h[T \ {Pick(T)}]
    <2>1. T \ {Pick(T)} \in SUBSET E /\ T \ {Pick(T)} \subseteq T /\ T \ {Pick(T)} # T
        BY <1>3, <1>5
    <2>2. QED BY <1>2, <2>1
<1>7. QED BY <1>3, <1>5, <1>6

\* There is one for every finite set.
LEMMA SumExists ==
    ASSUME NEW w, NEW D, IsFiniteSet(D)
    PROVE  \E g : IsSum(g, w, D)
<1> DEFINE F == { s \in SUBSET D : ~ \E g : IsSum(g, w, s) }
<1> SUFFICES ASSUME F # {} PROVE FALSE
    BY Zenon
<1>1. F \in SUBSET SUBSET D
    OBVIOUS
<1>2. PICK T \in F : \A U \in F : U \subseteq T => U = T
    <2> HIDE DEF F
    <2>1. QED BY <1>1, MinimalMember
<1> DEFINE h(s) == CHOOSE g : IsSum(g, w, s)
           val(s) == IF s = {} THEN 0 ELSE w[Pick(s)] + h(s \ {Pick(s)})[s \ {Pick(s)}]
           g == [s \in SUBSET T |-> val(s)]
<1>3. T \in SUBSET D /\ ~ \E x : IsSum(x, w, T)
    BY <1>2
<1>4. ASSUME NEW u \in SUBSET T, u # T PROVE IsSum(h(u), w, u) /\ IsFiniteSet(u)
    <2>1. u \notin F /\ u \in SUBSET D
        BY <1>2, <1>3, <1>4
    <2>2. \E x : IsSum(x, w, u)
        BY <2>1
    <2>3. IsSum(h(u), w, u)
        BY <2>2, Zenon
    <2>4. QED BY <2>1, <2>3, FS_Subset
<1>5. ASSUME NEW u \in SUBSET T, u # T PROVE val(u) = h(u)[u]
    <2>1. CASE u = {}
        <3>1. IsSum(h(u), w, u) /\ u \in SUBSET u
            BY <1>4, <1>5
        <3>2. h(u)[u] = 0
            <4> HIDE DEF h
            <4>1. QED BY <2>1, <3>1, SumAt
        <3>3. QED BY <2>1, <3>2
    <2>2. CASE u # {}
        <3> DEFINE r == u \ {Pick(u)}
        <3>1. /\ Pick(u) \in u
              /\ h(u)[u] = w[Pick(u)] + h(u)[r]
            BY <1>4, <1>5, <2>2, SumAt
        <3>2. r \in SUBSET u /\ r \in SUBSET T /\ r # T
            BY <1>5, <3>1
        <3>3. IsSum(h(r), w, r) /\ IsSum(h(u), w, u) /\ IsFiniteSet(u)
            BY <1>4, <1>5, <3>2
        <3>4. h(u)[r] = h(r)[r]
            <4> HIDE DEF h, r
            <4>1. r \in SUBSET r
                OBVIOUS
            <4>2. QED BY <3>2, <3>3, <4>1, SumsAgree
        <3>5. QED BY <2>2, <3>1, <3>4
    <2>3. QED BY <2>1, <2>2
<1>6. \A s \in SUBSET T : s # {} => g[s \ {Pick(s)}] = h(s \ {Pick(s)})[s \ {Pick(s)}]
    <2> SUFFICES ASSUME NEW s \in SUBSET T, s # {}
                 PROVE  g[s \ {Pick(s)}] = h(s \ {Pick(s)})[s \ {Pick(s)}]
        OBVIOUS
    <2>1. Pick(s) \in s
        BY DEF Pick
    <2>2. s \ {Pick(s)} \in SUBSET T /\ s \ {Pick(s)} # T
        BY <2>1
    <2> HIDE DEF val, h
    <2>3. g[s \ {Pick(s)}] = val(s \ {Pick(s)})
        BY <2>2
    <2>4. QED BY <1>5, <2>2, <2>3
<1>7. \A s \in SUBSET T :
         val(s) = IF s = {} THEN 0 ELSE w[Pick(s)] + g[s \ {Pick(s)}]
    <2> HIDE DEF h, g
    <2>1. QED BY <1>6
<1>8. IsSum(g, w, T)
    <2> HIDE DEF h, val
    <2>1. g = [s \in SUBSET T |-> val(s)]
        OBVIOUS
    <2> HIDE DEF g
    <2>2. QED BY <1>7, <2>1 DEF IsSum
<1>9. QED BY <1>3, <1>8, Zenon

\* A sum is what its first element adds to the sum of the others.
LEMMA SumStarts ==
    ASSUME NEW w, NEW S, IsFiniteSet(S)
    PROVE  /\ S = {} => SumOver(w, S) = 0
           /\ S # {} => /\ Pick(S) \in S
                        /\ SumOver(w, S) = w[Pick(S)] + SumOver(w, S \ {Pick(S)})
<1> DEFINE h(s) == CHOOSE g : IsSum(g, w, s)
           r == S \ {Pick(S)}
<1>1. \A s : SumOver(w, s) = h(s)[s]
    BY Zenon DEF SumOver, MapThenSumSet, MapThenFoldSet, IsSum, Pick
<1>2. \A s \in SUBSET S : IsFiniteSet(s) /\ IsSum(h(s), w, s)
    <2> SUFFICES ASSUME NEW s \in SUBSET S PROVE IsFiniteSet(s) /\ IsSum(h(s), w, s)
        OBVIOUS
    <2>1. IsFiniteSet(s)
        BY FS_Subset
    <2>2. \E g : IsSum(g, w, s)
        BY <2>1, SumExists
    <2>3. QED BY <2>1, <2>2, Zenon
<1> HIDE DEF h
<1>3. S = {} => h(S)[S] = 0
    BY <1>2, SumAt
<1>4. ASSUME S # {}
      PROVE  Pick(S) \in S /\ h(S)[S] = w[Pick(S)] + h(r)[r]
    <2>1. Pick(S) \in S /\ h(S)[S] = w[Pick(S)] + h(S)[r]
        BY <1>2, <1>4, SumAt
    <2>2. r \in SUBSET S /\ r \in SUBSET r
        OBVIOUS
    <2> HIDE DEF r
    <2>3. h(S)[r] = h(r)[r]
        BY <1>2, <2>2, SumsAgree
    <2>4. QED BY <2>1, <2>3
<1>5. QED BY <1>1, <1>3, <1>4

\* The sum of naturals is a natural.
LEMMA SumIsNat ==
    ASSUME NEW w, NEW S, IsFiniteSet(S), \A x \in S : w[x] \in Nat
    PROVE  SumOver(w, S) \in Nat
<1> DEFINE F == { s \in SUBSET S : SumOver(w, s) \notin Nat }
<1> SUFFICES ASSUME F # {} PROVE FALSE
    OBVIOUS
<1>1. PICK T \in F : \A U \in F : U \subseteq T => U = T
    <2>1. F \in SUBSET SUBSET S
        OBVIOUS
    <2> HIDE DEF F
    <2>2. QED BY <2>1, MinimalMember
<1>2. T \in SUBSET S /\ IsFiniteSet(T) /\ SumOver(w, T) \notin Nat
    BY <1>1, FS_Subset
<1>3. T # {} /\ Pick(T) \in T /\ SumOver(w, T) = w[Pick(T)] + SumOver(w, T \ {Pick(T)})
    <2> HIDE DEF F
    <2>1. T = {} => SumOver(w, T) = 0
        BY <1>2, SumStarts
    <2>2. T # {}
        BY <1>2, <2>1
    <2>3. QED BY <1>2, <2>2, SumStarts
<1>4. T \ {Pick(T)} \notin F
    BY <1>1, <1>3
<1>5. SumOver(w, T \ {Pick(T)}) \in Nat /\ w[Pick(T)] \in Nat
    BY <1>2, <1>3, <1>4
<1>6. QED BY <1>2, <1>3, <1>5

\* One element more adds itself, whichever it is.
LEMMA SumAdd ==
    ASSUME NEW w, NEW S, IsFiniteSet(S), NEW b, b \notin S, w[b] \in Nat,
           \A x \in S : w[x] \in Nat
    PROVE  SumOver(w, S \cup {b}) = SumOver(w, S) + w[b]
<1> DEFINE N == S \cup {b}
           Adds(s, x) == SumOver(w, s \cup {x}) = SumOver(w, s) + w[x]
           F == { s \in SUBSET N : \E x \in N \ s : ~ Adds(s, x) }
<1>1. /\ IsFiniteSet(N) /\ (\A x \in N : w[x] \in Nat)
      /\ \A s \in SUBSET N : IsFiniteSet(s) /\ SumOver(w, s) \in Nat
    <2>1. IsFiniteSet(N) /\ (\A x \in N : w[x] \in Nat)
        BY FS_AddElement
    <2> HIDE DEF N
    <2>2. ASSUME NEW s \in SUBSET N PROVE IsFiniteSet(s) /\ SumOver(w, s) \in Nat
        <3>1. IsFiniteSet(s) /\ (\A x \in s : w[x] \in Nat)
            BY <2>1, FS_Subset
        <3>2. QED BY <3>1, SumIsNat
    <2>3. QED BY <2>1, <2>2
<1> SUFFICES ASSUME F # {} PROVE FALSE
    <2>1. S \in SUBSET N /\ S \notin F => \A x \in N \ S : Adds(S, x)
        OBVIOUS
    <2>2. S \in SUBSET N /\ b \in N \ S
        OBVIOUS
    <2>3. QED BY <2>1, <2>2
<1>2. PICK T \in F : \A U \in F : U \subseteq T => U = T
    <2>1. F \in SUBSET SUBSET N
        OBVIOUS
    <2> HIDE DEF F, N
    <2>2. QED BY <1>1, <2>1, MinimalMember
<1>3. PICK x \in N \ T : ~ Adds(T, x)
    BY <1>2
<1> DEFINE p == Pick(T \cup {x})
<1>4. T \in SUBSET N /\ T \cup {x} \in SUBSET N /\ T \cup {x} # {}
    BY <1>2, <1>3
<1>5. /\ p \in T \cup {x}
      /\ SumOver(w, T \cup {x}) = w[p] + SumOver(w, (T \cup {x}) \ {p})
    <2> HIDE DEF N, Adds
    <2>1. QED BY <1>1, <1>4, SumStarts
<1> HIDE DEF p
<1>6. CASE p = x
    <2>1. (T \cup {x}) \ {p} = T
        BY <1>3, <1>6
    <2> HIDE DEF N
    <2>2. w[x] \in Nat /\ SumOver(w, T) \in Nat
        BY <1>1, <1>3, <1>4
    <2>3. SumOver(w, (T \cup {x}) \ {p}) = SumOver(w, T)
        BY <2>1, Zenon
    <2>4. QED BY <1>3, <1>5, <1>6, <2>2, <2>3
<1>7. CASE p \in T /\ p # x
    <2> DEFINE r == T \ {p}
    <2>1. r \in SUBSET N /\ r \subseteq T /\ r # T /\ x \in N \ r /\ p \in N \ r
        BY <1>3, <1>4, <1>7
    <2>2. r \notin F
        BY <1>2, <2>1
    <2>3. Adds(r, x) /\ Adds(r, p)
        <3>1. \A y \in N \ r : Adds(r, y)
            <4> HIDE DEF r, N, Adds
            <4>1. QED BY <2>1, <2>2
        <3> HIDE DEF Adds, r, N
        <3>2. QED BY <2>1, <3>1
    <2>4. (T \cup {x}) \ {p} = r \cup {x} /\ r \cup {p} = T
        BY <1>3, <1>7
    <2> HIDE DEF r, N
    <2>5. w[x] \in Nat /\ w[p] \in Nat /\ SumOver(w, r) \in Nat
        BY <1>1, <1>3, <2>1
    <2>6. /\ SumOver(w, (T \cup {x}) \ {p}) = SumOver(w, r \cup {x})
          /\ SumOver(w, T) = SumOver(w, r \cup {p})
        BY <2>4, Zenon
    <2>7. QED BY <1>3, <1>5, <2>3, <2>5, <2>6
<1>8. QED BY <1>5, <1>6, <1>7

\* A part of a set of naturals never sums to more than the set.
LEMMA SumMonotone ==
    ASSUME NEW w, NEW S, IsFiniteSet(S), \A x \in S : w[x] \in Nat, NEW T \in SUBSET S
    PROVE  SumOver(w, T) <= SumOver(w, S)
<1> DEFINE G == { U \in SUBSET (S \ T) : SumOver(w, T) <= SumOver(w, T \cup U) }
<1>1. IsFiniteSet(S \ T) /\ IsFiniteSet(T) /\ SumOver(w, T) \in Nat
    BY FS_Subset, SumIsNat
<1>2. G \in SUBSET SUBSET (S \ T) /\ {} \in G
    <2>1. T \cup {} = T
        OBVIOUS
    <2>2. SumOver(w, T \cup {}) = SumOver(w, T)
        BY <2>1, Zenon
    <2>3. QED BY <1>1, <2>2
<1>3. ASSUME NEW U \in G, NEW x \in (S \ T) \ U PROVE U \cup {x} \in G
    <2> DEFINE V == T \cup U
    <2>1. V \in SUBSET S /\ x \in S /\ x \notin V
        BY <1>3
    <2>2. IsFiniteSet(V) /\ \A y \in V : w[y] \in Nat
        BY <2>1, FS_Subset
    <2>3. SumOver(w, T) <= SumOver(w, V)
        BY <1>3
    <2>4. T \cup (U \cup {x}) = V \cup {x}
        OBVIOUS
    <2>5. SumOver(w, T \cup (U \cup {x})) = SumOver(w, V \cup {x})
        BY <2>4, Zenon
    <2>6. w[x] \in Nat
        BY <2>1
    <2> HIDE DEF V
    <2>7. SumOver(w, V \cup {x}) = SumOver(w, V) + w[x]
        BY <2>1, <2>2, <2>6, SumAdd
    <2>8. SumOver(w, V) \in Nat
        BY <2>2, SumIsNat
    <2>9. SumOver(w, T) <= SumOver(w, T \cup (U \cup {x}))
        BY <1>1, <2>3, <2>5, <2>6, <2>7, <2>8
    <2>10. QED BY <1>3, <2>9
<1>4. S \ T \in G
    <2> HIDE DEF G
    <2>1. QED BY <1>1, <1>2, <1>3, SubsetInduction
<1>5. T \cup (S \ T) = S
    OBVIOUS
<1>6. SumOver(w, T \cup (S \ T)) = SumOver(w, S)
    BY <1>5, Zenon
<1>7. QED BY <1>4, <1>6

\* Disjoint sets sum to the sum of their sums.
LEMMA SumUnion ==
    ASSUME NEW w, NEW S, NEW T, IsFiniteSet(S), IsFiniteSet(T), S \cap T = {},
           \A x \in S \cup T : w[x] \in Nat
    PROVE  SumOver(w, S \cup T) = SumOver(w, S) + SumOver(w, T)
<1> DEFINE G == { U \in SUBSET T : SumOver(w, S \cup U) = SumOver(w, S) + SumOver(w, U) }
<1>1. SumOver(w, S) \in Nat /\ SumOver(w, {}) = 0
    BY SumIsNat, SumStarts, FS_EmptySet
<1>2. G \in SUBSET SUBSET T /\ {} \in G
    <2>1. S \cup {} = S
        OBVIOUS
    <2>2. SumOver(w, S \cup {}) = SumOver(w, S)
        BY <2>1, Zenon
    <2>3. QED BY <1>1, <2>2
<1>3. ASSUME NEW U \in G, NEW x \in T \ U PROVE U \cup {x} \in G
    <2> DEFINE V == S \cup U
    <2>1. U \in SUBSET T /\ x \in T /\ x \notin V /\ x \notin U
        BY <1>3
    <2>2. IsFiniteSet(U) /\ IsFiniteSet(V) /\ \A y \in V : w[y] \in Nat
        BY <2>1, FS_Subset, FS_Union
    <2>3. SumOver(w, V) = SumOver(w, S) + SumOver(w, U)
        BY <1>3
    <2>4. S \cup (U \cup {x}) = V \cup {x}
        OBVIOUS
    <2>5. SumOver(w, S \cup (U \cup {x})) = SumOver(w, V \cup {x})
        BY <2>4, Zenon
    <2>6. w[x] \in Nat /\ \A y \in U : w[y] \in Nat
        BY <2>1
    <2> HIDE DEF V
    <2>7. SumOver(w, V \cup {x}) = SumOver(w, V) + w[x]
        BY <2>1, <2>2, <2>6, SumAdd
    <2>8. SumOver(w, U \cup {x}) = SumOver(w, U) + w[x]
        BY <2>1, <2>2, <2>6, SumAdd
    <2>9. SumOver(w, U) \in Nat
        BY <2>2, <2>6, SumIsNat
    <2>10. SumOver(w, S \cup (U \cup {x})) = SumOver(w, S) + SumOver(w, U \cup {x})
        BY <1>1, <2>3, <2>5, <2>6, <2>7, <2>8, <2>9
    <2>11. QED BY <2>1, <2>10
<1>4. T \in G
    <2> HIDE DEF G
    <2>1. QED BY <1>2, <1>3, SubsetInduction
<1>5. QED BY <1>4

\* To take the members of a set under other names does not change their sum.
LEMMA SumRenamed ==
    ASSUME NEW D, IsFiniteSet(D), NEW f, NEW E, NEW g, NEW p \in Bijection(D, E),
           \A i \in D : f[i] \in Nat /\ f[i] = g[p[i]]
    PROVE  SumOver(f, D) = SumOver(g, E)
<1> DEFINE image(T) == { p[i] : i \in T }
           G == { T \in SUBSET D : SumOver(f, T) = SumOver(g, image(T)) }
<1>1. p \in [D -> E] /\ (\A i, j \in D : p[i] = p[j] => i = j) /\ \A k \in E : \E i \in D : p[i] = k
    BY Arranges
<1>2. image({}) = {} /\ image(D) = E
    BY <1>1
<1>3. {} \in G
    <2>1. SumOver(f, {}) = 0 /\ SumOver(g, {}) = 0
        BY SumStarts, FS_EmptySet
    <2>2. image({}) = {}
        BY <1>2
    <2> HIDE DEF image
    <2>3. SumOver(g, image({})) = SumOver(g, {})
        BY <2>2, Zenon
    <2>4. SumOver(f, {}) = SumOver(g, image({}))
        BY <2>1, <2>3
    <2>5. QED BY <2>4
<1>4. ASSUME NEW T \in G, NEW x \in D \ T PROVE T \cup {x} \in G
    <2>1. T \in SUBSET D /\ IsFiniteSet(T) /\ x \in D /\ x \notin T /\ T \cup {x} \in SUBSET D
        BY <1>4, FS_Subset
    <2>2. image(T \cup {x}) = image(T) \cup {p[x]} /\ p[x] \notin image(T)
        BY <1>1, <2>1
    <2>3. IsFiniteSet(image(T))
        <3> DEFINE q == [ i \in T |-> p[i] ]
        <3>1. q \in Surjection(T, image(T))
            <4>1. q \in [T -> image(T)] /\ \A k \in image(T) : \E i \in T : q[i] = k
                OBVIOUS
            <4> HIDE DEF q, image
            <4>2. QED BY <4>1, Fun_IsSurj
        <3> HIDE DEF q, image
        <3>2. QED BY <2>1, <3>1, FS_Surjection
    <2>4. \A k \in image(T) : g[k] \in Nat
        BY <2>1
    <2>5. SumOver(f, T) = SumOver(g, image(T))
        BY <1>4
    <2> HIDE DEF image, G
    <2>6. SumOver(f, T \cup {x}) = SumOver(f, T) + f[x]
        BY <2>1, SumAdd
    <2>7. SumOver(g, image(T) \cup {p[x]}) = SumOver(g, image(T)) + g[p[x]]
        <3>1. g[p[x]] \in Nat
            BY <2>1
        <3>2. QED BY <2>2, <2>3, <2>4, <3>1, SumAdd
    <2>8. SumOver(g, image(T \cup {x})) = SumOver(g, image(T) \cup {p[x]})
        BY <2>2, Zenon
    <2>9. SumOver(f, T \cup {x}) = SumOver(g, image(T \cup {x}))
        BY <2>1, <2>5, <2>6, <2>7, <2>8
    <2>10. QED BY <2>1, <2>9 DEF G
<1>5. G \in SUBSET SUBSET D
    OBVIOUS
<1>6. D \in G
    <2> HIDE DEF G
    <2>1. QED BY <1>3, <1>4, <1>5, SubsetInduction
<1>7. SumOver(f, D) = SumOver(g, image(D))
    BY <1>6
<1>8. SumOver(g, image(D)) = SumOver(g, E)
    <2> HIDE DEF image
    <2>1. QED BY <1>2, Zenon
<1>9. QED BY <1>7, <1>8

-----------------------------------------------------------------------------
(* Sequences in which nothing stands twice. *)

\* Whatever stands at two places is not the same.
Distinct(s) == s \in Seq(Elements(s)) /\ \A i, j \in DOMAIN s : s[i] = s[j] => i = j

\* Such a sequence is as long as what stands in it is many.
LEMMA DistinctCount ==
    ASSUME NEW s, Distinct(s)
    PROVE  /\ Len(s) \in Nat /\ DOMAIN s = 1..Len(s) /\ IsFiniteSet(DOMAIN s)
           /\ s \in Bijection(DOMAIN s, Elements(s))
           /\ IsFiniteSet(Elements(s)) /\ Cardinality(Elements(s)) = Len(s)
<1> DEFINE D == DOMAIN s
           S == Elements(s)
<1>1. Len(s) \in Nat /\ D = 1..Len(s)
    BY DEF Distinct
<1>2. IsFiniteSet(D) /\ Cardinality(D) = Len(s)
    <2> DEFINE n == Len(s)
    <2>0. n \in Nat /\ D = 1..n
        BY <1>1
    <2> HIDE DEF D, S, n
    <2>1. IsFiniteSet(1..n) /\ Cardinality(1..n) = n
        BY <2>0, FS_Interval
    <2>2. QED BY <2>0, <2>1 DEF n
<1>3. s \in [D -> S]
    <2>1. s \in Seq(S)
        BY DEF Distinct
    <2> HIDE DEF S, D
    <2>2. s \in [1..Len(s) -> S]
        BY <2>1, LenProperties
    <2>3. QED BY <1>1, <2>2
<1>4. (\A i, j \in D : s[i] = s[j] => i = j) /\ \A x \in S : \E i \in D : s[i] = x
    BY DEF Distinct, Elements
<1> HIDE DEF D, S
<1>5. s \in Bijection(D, S)
    BY <1>3, <1>4, IsArrangement
<1>6. IsFiniteSet(S) /\ Cardinality(S) = Cardinality(D)
    <2>1. ExistsBijection(D, S)
        BY <1>5 DEF ExistsBijection
    <2>2. QED BY <1>2, <2>1, FS_Bijection
<1>7. QED BY <1>1, <1>2, <1>5, <1>6 DEF D, S

\* What is taken of a sequence at places where nothing stands twice.
LEMMA PickedDistinct ==
    ASSUME NEW X, NEW s \in Seq(X), NEW D \in SUBSET DOMAIN s, NEW order, WeakOrder(order, D),
           \A i, j \in D : s[i] = s[j] => i = j
    PROVE  Distinct(Picked(s, D, order))
<1> DEFINE n == Cardinality(D)
           place == Lined(D, Stable(D, order))
           t == Picked(s, D, order)
           N == 1..n
<1>1. D \in SUBSET Nat /\ IsFiniteSet(D)
    BY PlacesFinite
<1>2. place \in Bijection(N, D)
    BY <1>1, PickedPlaces
<1>3. DOMAIN t = N
    BY <1>1, PickedPlaces
<1>4. \A k \in N : t[k] = s[place[k]]
    BY <1>1, PickedPlaces
<1>5. t \in Seq(Elements(t))
    <2>1. t \in Seq({ s[i] : i \in D })
        BY <1>1, PickedElements
    <2>2. Elements(t) = { s[i] : i \in D }
        BY <1>1, PickedElements
    <2>3. QED BY <2>1, <2>2
<1> HIDE DEF place, t, N
<1>6. place \in [N -> D] /\ \A i, j \in N : place[i] = place[j] => i = j
    BY <1>2, Arranges
<1>7. \A i, j \in DOMAIN t : t[i] = t[j] => i = j
    BY <1>3, <1>4, <1>6
<1>8. QED BY <1>5, <1>7 DEF Distinct, t

\* To sort such a sequence leaves it one.
LEMMA SortDistinct ==
    ASSUME NEW s, Distinct(s), NEW order, WeakOrder(order, DOMAIN s)
    PROVE  Distinct(Picked(s, DOMAIN s, order))
<1>1. s \in Seq(Elements(s)) /\ \A i, j \in DOMAIN s : s[i] = s[j] => i = j
    BY DEF Distinct
<1>2. QED BY <1>1, PickedDistinct

\* So does to filter it.
LEMMA FilterDistinct ==
    ASSUME NEW s, Distinct(s), NEW D \in SUBSET DOMAIN s
    PROVE  Distinct(Picked(s, D, {}))
<1>1. s \in Seq(Elements(s)) /\ \A i, j \in D : s[i] = s[j] => i = j
    BY DEF Distinct
<1>2. WeakOrder({}, D)
    BY DEF WeakOrder
<1>3. QED BY <1>1, <1>2, PickedDistinct

\* A sequence that tells apart whatever such a sequence does is one.
LEMMA MapDistinct ==
    ASSUME NEW s, Distinct(s), NEW t, t = [ k \in DOMAIN t |-> t[k] ], DOMAIN t = DOMAIN s,
           \A i, j \in DOMAIN s : t[i] = t[j] => s[i] = s[j]
    PROVE  Distinct(t)
<1>1. Len(s) \in Nat /\ DOMAIN t = 1..Len(s)
    BY DEF Distinct
<1>2. t \in Seq(Elements(t))
    BY <1>1, LenIsLast
<1>3. QED BY <1>2 DEF Distinct

\* Two of them with nothing in common, one after the other.
LEMMA ConcatDistinct ==
    ASSUME NEW s, Distinct(s), NEW t, Distinct(t), Elements(s) \cap Elements(t) = {}
    PROVE  Distinct(s \o t)
<1> DEFINE X == Elements(s) \cup Elements(t)
           u == s \o t
<1>1. s \in Seq(X) /\ t \in Seq(X)
    BY DEF Distinct
<1>2. u \in Seq(X) /\ Elements(u) = X
    BY <1>1, ConcatElements
<1>3. /\ Len(s) \in Nat /\ DOMAIN s = 1..Len(s) /\ Len(t) \in Nat /\ DOMAIN t = 1..Len(t)
      /\ DOMAIN u = 1..(Len(s) + Len(t))
      /\ \A i \in 1..(Len(s) + Len(t)) : u[i] = IF i <= Len(s) THEN s[i] ELSE t[i - Len(s)]
    BY <1>1
<1> HIDE DEF u
<1>4. ASSUME NEW i \in DOMAIN u, NEW j \in DOMAIN u, u[i] = u[j] PROVE i = j
    <2>1. CASE i <= Len(s) /\ j <= Len(s)
        <3>1. i \in DOMAIN s /\ j \in DOMAIN s /\ s[i] = s[j]
            BY <1>3, <1>4, <2>1
        <3>2. QED BY <3>1 DEF Distinct
    <2>2. CASE ~ (i <= Len(s)) /\ ~ (j <= Len(s))
        <3>1. (i - Len(s)) \in DOMAIN t /\ (j - Len(s)) \in DOMAIN t /\ t[i - Len(s)] = t[j - Len(s)]
            BY <1>3, <1>4, <2>2
        <3>2. i - Len(s) = j - Len(s)
            BY <3>1 DEF Distinct
        <3>3. QED BY <1>3, <3>2
    <2>3. CASE i <= Len(s) /\ ~ (j <= Len(s))
        <3>1. i \in DOMAIN s /\ (j - Len(s)) \in DOMAIN t /\ s[i] = t[j - Len(s)]
            BY <1>3, <1>4, <2>3
        <3>2. QED BY <3>1 DEF Elements
    <2>4. CASE ~ (i <= Len(s)) /\ j <= Len(s)
        <3>1. j \in DOMAIN s /\ (i - Len(s)) \in DOMAIN t /\ s[j] = t[i - Len(s)]
            BY <1>3, <1>4, <2>4
        <3>2. QED BY <3>1 DEF Elements
    <2>5. QED BY <2>1, <2>2, <2>3, <2>4
<1> HIDE DEF X
<1>5. QED BY <1>2, <1>4 DEF Distinct, u

\* Two of them with the same in them cover each other exactly once.
LEMMA DistinctCovers ==
    ASSUME NEW a, NEW b, Distinct(a), Distinct(b), Elements(a) = Elements(b)
    PROVE  CoversExactlyOnce(a, b)
<1>1. ASSUME NEW s, Distinct(s), NEW x \in Elements(s)
      PROVE  Occurrences(s, x) = 1
    <2>1. PICK k \in DOMAIN s : s[k] = x
        BY <1>1 DEF Elements
    <2>2. { i \in DOMAIN s : s[i] = x } = {k}
        BY <1>1, <2>1 DEF Distinct
    <2>3. Cardinality({k}) = 1
        BY FS_Singleton
    <2>4. QED BY <2>2, <2>3 DEF Occurrences
<1>2. SameBag(a, b)
    BY <1>1 DEF SameBag
<1>3. Len(a) = Len(b)
    <2>1. Cardinality(Elements(a)) = Len(a)
        BY DistinctCount
    <2>2. Cardinality(Elements(b)) = Len(b)
        BY DistinctCount
    <2>3. QED BY <2>1, <2>2
<1>4. \A i, j \in DOMAIN a : a[i] = a[j] => i = j
    BY DEF Distinct
<1>5. QED BY <1>2, <1>3, <1>4 DEF CoversExactlyOnce, IsInjective

\* What is taken of a sequence sums to the sum over the places it is taken from.
LEMMA PickedSum ==
    ASSUME NEW X, NEW s \in Seq(X), NEW D \in SUBSET DOMAIN s, NEW order, WeakOrder(order, D),
           NEW amount, \A i \in D : amount[i] \in Nat,
           NEW numbers, DOMAIN numbers = DOMAIN Picked(s, D, order),
           \A k \in DOMAIN numbers, i \in D : Picked(s, D, order)[k] = s[i] => numbers[k] = amount[i]
    PROVE  SumOf(numbers) = SumOver(amount, D)
<1> DEFINE n == Cardinality(D)
           place == Lined(D, Stable(D, order))
           t == Picked(s, D, order)
           N == 1..n
<1>1. D \in SUBSET Nat /\ IsFiniteSet(D)
    BY PlacesFinite
<1>2. place \in Bijection(N, D) /\ n \in Nat
    BY <1>1, PickedPlaces
<1>3. DOMAIN t = N
    BY <1>1, PickedPlaces
<1>4. \A k \in N : t[k] = s[place[k]]
    BY <1>1, PickedPlaces
<1>5. IsFiniteSet(N)
    BY <1>2, FS_Interval
<1> HIDE DEF place, t, N
<1>6. place \in [N -> D]
    BY <1>2, Arranges
<1>7. DOMAIN numbers = N
    BY <1>3 DEF t
<1>8. \A k \in N : numbers[k] = amount[place[k]]
    BY <1>4, <1>6, <1>7 DEF t
<1>9. \A k \in N : numbers[k] \in Nat
    BY <1>6, <1>8
<1>10. SumOver(numbers, N) = SumOver(amount, D)
    BY <1>2, <1>5, <1>8, <1>9, SumRenamed
<1>11. QED BY <1>7, <1>10 DEF SumOf

-----------------------------------------------------------------------------
(* Nothing stands twice in what the stages hand on. *)

\* A batch has its groups once each.
LEMMA GroupsDistinct ==
    ASSUME NEW candidates, IsSound(candidates)
    PROVE  Distinct(Deduplicate(candidates))
<1> DEFINE p == Deduplicate(candidates)
           G == GroupsOf(candidates)
           n == Cardinality(G)
           N == 1..n
<1>1. n \in Nat /\ DOMAIN p = N /\ p \in Bijection(N, G) /\ Elements(p) = G
    BY DeduplicateLists
<1> HIDE DEF p, G, n
<1>2. p \in [N -> G]
    <2> HIDE DEF N
    <2>1. QED BY <1>1, Arranges
<1>3. \A i, j \in N : p[i] = p[j] => i = j
    <2> HIDE DEF N
    <2>1. QED BY <1>1, Arranges
<1>4. p \in Seq(G)
    BY <1>1, <1>2
<1>5. QED BY <1>1, <1>3, <1>4 DEF Distinct, p

\* And each of them is scored once.
LEMMA ScoredDistinct ==
    ASSUME NEW candidates, IsSound(candidates), NEW policy, ScoringPolicyShape(policy), NEW reference \in Int
    PROVE  Distinct(Score(policy, reference, Deduplicate(candidates)))
<1> DEFINE groups == Deduplicate(candidates)
           ss     == ScoredGroups(policy, reference, groups)
<1>1. Distinct(groups) /\ Elements(groups) = GroupsOf(candidates)
    BY GroupsDistinct, DeduplicateLists
<1>2. \A i \in DOMAIN groups : groups[i] \in GroupsOf(candidates)
    BY <1>1 DEF Elements
<1> HIDE DEF groups
<1>3. \A i \in DOMAIN ss : ss[i].total \in Int /\ ss[i].id \in Int
    <2>1. ASSUME NEW i \in DOMAIN ss PROVE ss[i].total \in Int /\ ss[i].id \in Int
        <3>1. i \in DOMAIN groups /\ ss[i] = ScoreGroup(policy, reference, groups[i])
            BY DEF ScoredGroups
        <3>2. ss[i].total = Total(policy, reference, groups[i]) /\ ss[i].id = groups[i].canonical.id
            BY <3>1 DEF ScoreGroup
        <3>3. Total(policy, reference, groups[i]) \in Nat /\ groups[i].canonical.id \in Nat
            BY <1>2, <3>1, SoundGroups
        <3>4. QED BY <3>2, <3>3
    <2>2. QED BY <2>1
<1>4. Distinct(ss)
    <2>1. \A i \in DOMAIN groups : ss[i].group = groups[i]
        BY DEF ScoredGroups, ScoreGroup
    <2>2. ss = [ i \in DOMAIN ss |-> ss[i] ] /\ DOMAIN ss = DOMAIN groups
        BY DEF ScoredGroups
    <2> HIDE DEF ss
    <2>3. QED BY <1>1, <2>1, <2>2, MapDistinct
<1>5. Score(policy, reference, groups) = Picked(ss, DOMAIN ss, RankOrderOf(ss))
    BY DEF Score, Sorted, RankOrderOf, ScoredGroups
<1> HIDE DEF ss
<1>6. WeakOrder(RankOrderOf(ss), DOMAIN ss)
    BY <1>3, RanksWeak
<1>7. Distinct(Picked(ss, DOMAIN ss, RankOrderOf(ss)))
    BY <1>4, <1>6, SortDistinct
<1>8. QED BY <1>5, <1>7 DEF groups

\* And decided on, and admitted.
LEMMA DecisionsDistinct ==
    ASSUME NEW policy, NEW scored, Distinct(scored)
    PROVE  LET decisions == FilterDecisions(policy, scored)
           IN  /\ Distinct(decisions)
               /\ ScoredOf(decisions) = scored
               /\ Eligible(decisions) = ScoredOf(Filtered(decisions, IsEligible))
               /\ Distinct(Eligible(decisions))
<1> DEFINE decisions == FilterDecisions(policy, scored)
           D         == { i \in DOMAIN decisions : IsEligible(decisions[i]) }
           admitted  == Picked(decisions, D, {})
<1>1. DOMAIN decisions = DOMAIN scored /\ decisions = [ i \in DOMAIN decisions |-> decisions[i] ]
    BY DEF FilterDecisions
<1>2. \A i \in DOMAIN scored : decisions[i].scored = scored[i]
    BY DecisionIs DEF FilterDecisions
<1>3. Eligible(decisions) = [ i \in DOMAIN admitted |-> admitted[i].scored ]
    BY DEF Eligible, Filtered
<1>4. Eligible(decisions) = ScoredOf(Filtered(decisions, IsEligible))
    BY DEF Eligible, ScoredOf
<1>5. D \in SUBSET DOMAIN decisions
    OBVIOUS
<1> HIDE DEF decisions, D
<1>6. Distinct(decisions)
    BY <1>1, <1>2, MapDistinct
<1>7. ScoredOf(decisions) = scored
    <2>1. scored = [ i \in DOMAIN scored |-> scored[i] ]
        BY DEF Distinct
    <2>2. QED BY <1>1, <1>2, <2>1 DEF ScoredOf
<1>8. Distinct(admitted)
    BY <1>5, <1>6, FilterDistinct
<1>9. Elements(admitted) \subseteq Elements(decisions)
    <2>1. Elements(admitted) = { decisions[i] : i \in D }
        <3>1. decisions \in Seq(Elements(decisions))
            BY <1>6 DEF Distinct
        <3>2. QED BY <1>5, <3>1, FilterElements
    <2> HIDE DEF admitted
    <2>2. QED BY <1>5, <2>1 DEF Elements
<1> HIDE DEF admitted
<1>10. \A c, d \in Elements(decisions) : c.scored = d.scored => c = d
    <2>1. ASSUME NEW i \in DOMAIN decisions, NEW j \in DOMAIN decisions, decisions[i].scored = decisions[j].scored
          PROVE  decisions[i] = decisions[j]
        BY <1>1, <1>2, <2>1 DEF Distinct
    <2>2. QED BY <2>1 DEF Elements
<1>11. \A i, j \in DOMAIN admitted : admitted[i].scored = admitted[j].scored => admitted[i] = admitted[j]
    BY <1>9, <1>10 DEF Elements
<1> DEFINE e == Eligible(decisions)
<1>12. DOMAIN e = DOMAIN admitted /\ e = [ i \in DOMAIN e |-> e[i] ] /\ \A i \in DOMAIN admitted : e[i] = admitted[i].scored
    BY <1>3
<1> HIDE DEF e
<1>13. \A i, j \in DOMAIN admitted : e[i] = e[j] => admitted[i] = admitted[j]
    BY <1>11, <1>12
<1>14. Distinct(e)
    BY <1>8, <1>12, <1>13, MapDistinct
<1>15. QED BY <1>4, <1>6, <1>7, <1>14 DEF e, decisions

\* Every eligible group claims its turn once.
LEMMA ClaimantsDistinct ==
    ASSUME NEW e, Distinct(e), \A s \in Elements(e) : ScoredShape(s)
    PROVE  Distinct(Claimants(e)) /\ Elements(Claimants(e)) = Elements(e)
<1> DEFINE D     == { i \in DOMAIN e : IsRequired(e[i]) }
           O     == { i \in DOMAIN e : IsOptional(e[i]) }
           must  == Picked(e, D, {})
           may   == Picked(e, O, {})
           order == { q \in (DOMAIN must) \X (DOMAIN must) : CanonicalBefore(must[q[1]], must[q[2]]) }
           first == Picked(must, DOMAIN must, order)
<1>0. e \in Seq(Elements(e))
    BY DEF Distinct
<1>1. D \in SUBSET DOMAIN e /\ O \in SUBSET DOMAIN e
    OBVIOUS
<1>2. Claimants(e) = first \o may
    BY DEF Claimants, Sorted, Filtered
<1>3. (\A i \in D : IsRequired(e[i])) /\ \A i \in O : ~ IsRequired(e[i])
    BY DEF IsOptional
<1> HIDE DEF D, O
<1>4. Distinct(must)
    BY <1>1, FilterDistinct
<1>5. Distinct(may)
    BY <1>1, FilterDistinct
<1>6. Elements(must) = { e[i] : i \in D }
    BY <1>0, <1>1, FilterElements
<1>7. Elements(may) = { e[i] : i \in O }
    BY <1>0, <1>1, FilterElements
<1> HIDE DEF must, may
<1>8. WeakOrder(order, DOMAIN must)
    <2>1. \A i \in DOMAIN must : must[i] \in Elements(e)
        BY <1>1, <1>6 DEF Elements
    <2>2. \A i \in DOMAIN must : IdOf(must[i]) \in Nat
        BY <2>1 DEF ScoredShape, CanonicalOf, IdOf, BlockShape
    <2>3. \A i, j \in DOMAIN must : << i, j >> \in order <=> IdOf(must[i]) < IdOf(must[j])
        BY DEF CanonicalBefore
    <2> HIDE DEF order
    <2>4. QED BY <2>2, <2>3 DEF WeakOrder
<1> HIDE DEF order
<1>9. Distinct(first)
    BY <1>4, <1>8, SortDistinct
<1>10. Elements(first) = Elements(must)
    <2>1. must \in Seq(Elements(must))
        BY <1>4 DEF Distinct
    <2>2. QED BY <1>8, <2>1, SortElements
<1> HIDE DEF first
<1>11. Elements(first) \cap Elements(may) = {}
    <2>1. ASSUME NEW s \in Elements(first), s \in Elements(may) PROVE FALSE
        <3>1. PICK i \in D : s = e[i]
            BY <1>6, <1>10
        <3>2. PICK j \in O : s = e[j]
            BY <1>7, <2>1
        <3>3. QED BY <1>3, <3>1, <3>2
    <2>2. QED BY <2>1
<1>12. Distinct(first \o may)
    BY <1>5, <1>9, <1>11, ConcatDistinct
<1>13. Elements(Claimants(e)) = Elements(e)
    BY <1>0, ClaimantsAre
<1>14. QED BY <1>2, <1>12, <1>13

-----------------------------------------------------------------------------
(* The budget, one claim after another. *)

\* What a claim leaves of the budget it is met with.
LeftAfter(claim, before) == IF CostOf(claim) <= before THEN before - CostOf(claim) ELSE before

\* What is left after each claim is what its definition says.
LEMMA RemainingIs ==
    ASSUME NEW X, NEW claims \in Seq(X)
    PROVE  /\ DOMAIN Remaining(claims) = 0..Len(claims)
           /\ Remaining(claims)[0] = request.available
           /\ \A k \in 1..Len(claims) :
                 Remaining(claims)[k] = LeftAfter(claims[k], Remaining(claims)[k - 1])
<1> DEFINE n == Len(claims)
           Body(f, k) == IF k = 0 THEN request.available ELSE LeftAfter(claims[k], f[k - 1])
           Is(f, m) == f = [ k \in 0..m |-> Body(f, k) ]
           Wrong == { m \in 0..n : ~ \E f : Is(f, m) }
<1>1. n \in Nat
    OBVIOUS
<1> HIDE DEF n
<1>2. ASSUME NEW f, NEW m \in Nat
      PROVE  Is(f, m) <=> /\ f = [ k \in 0..m |-> f[k] ]
                          /\ f[0] = request.available
                          /\ \A k \in 1..m : f[k] = LeftAfter(claims[k], f[k - 1])
    <2>1. ASSUME Is(f, m)
          PROVE  /\ f = [ k \in 0..m |-> f[k] ]
                 /\ f[0] = request.available
                 /\ \A k \in 1..m : f[k] = LeftAfter(claims[k], f[k - 1])
        <3> DEFINE B(k) == Body(f, k)
        <3>1. f = [ k \in 0..m |-> B(k) ]
            BY <2>1
        <3>2. 0 \in 0..m /\ B(0) = request.available
            OBVIOUS
        <3>3. \A k \in 1..m : k \in 0..m /\ B(k) = LeftAfter(claims[k], f[k - 1])
            OBVIOUS
        <3> HIDE DEF B
        <3>4. QED BY <3>1, <3>2, <3>3
    <2>2. ASSUME f = [ k \in 0..m |-> f[k] ], f[0] = request.available,
                 \A k \in 1..m : f[k] = LeftAfter(claims[k], f[k - 1])
          PROVE  Is(f, m)
        <3> DEFINE B(k) == Body(f, k)
        <3>1. ASSUME NEW k \in 0..m PROVE f[k] = B(k)
            <4>1. CASE k = 0
                BY <2>2, <4>1
            <4>2. CASE k # 0
                <5>1. k \in 1..m
                    BY <4>2
                <5>2. QED BY <2>2, <4>2, <5>1
            <4>3. QED BY <4>1, <4>2
        <3> HIDE DEF B
        <3>2. f = [ k \in 0..m |-> B(k) ]
            BY <2>2, <3>1
        <3>3. QED BY <3>2 DEF B
    <2>3. QED BY <2>1, <2>2
<1>3. Wrong = {}
    <2> SUFFICES ASSUME Wrong # {} PROVE FALSE
        OBVIOUS
    <2>1. Wrong \in SUBSET Nat
        BY <1>1
    <2>2. PICK m \in Wrong : \A l \in Wrong : m <= l
        <3> HIDE DEF Wrong
        <3>1. QED BY <2>1, FirstPlace
    <2> HIDE DEF Is
    <2>3. m \in 0..n /\ ~ \E f : Is(f, m)
        OBVIOUS
    <2>4. CASE m = 0
        <3> DEFINE f == [ k \in 0..0 |-> request.available ]
        <3>1. f = [ k \in 0..0 |-> f[k] ] /\ f[0] = request.available
            OBVIOUS
        <3> HIDE DEF f
        <3>0. 0 \in Nat /\ \A k \in 1..0 : f[k] = LeftAfter(claims[k], f[k - 1])
            OBVIOUS
        <3>2. Is(f, 0)
            BY <1>2, <3>0, <3>1
        <3>3. QED BY <2>3, <2>4, <3>2
    <2>5. CASE m # 0
        <3>1. m - 1 \in 0..n /\ m - 1 \notin Wrong
            BY <1>1, <2>2, <2>3, <2>5
        <3>2. PICK f : Is(f, m - 1)
            BY <3>1
        <3> DEFINE g == [ k \in 0..m |-> IF k < m THEN f[k] ELSE LeftAfter(claims[m], f[m - 1]) ]
        <3>3. f[0] = request.available /\ \A k \in 1..(m - 1) : f[k] = LeftAfter(claims[k], f[k - 1])
            <4>1. m - 1 \in Nat
                BY <2>3, <2>5
            <4>2. QED BY <1>2, <3>2, <4>1
        <3>4. g = [ k \in 0..m |-> g[k] ]
            OBVIOUS
        <3>5. \A k \in 0..(m - 1) : g[k] = f[k]
            BY <1>1, <2>3
        <3>6. g[m] = LeftAfter(claims[m], f[m - 1])
            BY <1>1, <2>3
        <3> HIDE DEF g
        <3>7. g[0] = request.available
            BY <1>1, <2>3, <2>5, <3>3, <3>5
        <3>8. ASSUME NEW k \in 1..m PROVE g[k] = LeftAfter(claims[k], g[k - 1])
            <4>1. k - 1 \in 0..(m - 1)
                BY <1>1, <2>3
            <4>2. g[k - 1] = f[k - 1]
                BY <3>5, <4>1
            <4>3. CASE k = m
                BY <3>6, <4>2, <4>3
            <4>4. CASE k # m
                <5>1. k \in 1..(m - 1) /\ k \in 0..(m - 1)
                    BY <1>1, <2>3, <4>4
                <5>2. QED BY <3>3, <3>5, <4>2, <5>1
            <4>5. QED BY <4>3, <4>4
        <3>9. m \in Nat
            BY <1>1, <2>3
        <3>10. Is(g, m)
            BY <1>2, <3>4, <3>7, <3>8, <3>9
        <3>11. QED BY <2>3, <3>10
    <2>6. QED BY <2>4, <2>5
<1>4. \E f : Is(f, n)
    BY <1>1, <1>3
<1>5. Remaining(claims) = CHOOSE f : Is(f, n)
    BY DEF Remaining, LeftAfter, n
<1> HIDE DEF Is
<1>6. Is(Remaining(claims), n)
    BY <1>4, <1>5
<1> DEFINE left == Remaining(claims)
<1> HIDE DEF left
<1>7. left = [ k \in 0..n |-> left[k] ] /\ left[0] = request.available
      /\ \A k \in 1..n : left[k] = LeftAfter(claims[k], left[k - 1])
    BY <1>1, <1>2, <1>6 DEF left
<1>8. DOMAIN left = 0..n
    BY <1>7
<1>9. QED BY <1>7, <1>8 DEF left, n

\* The claims that were met among the first k, and what claims cost.
Paid(claims, k) == { i \in 1..k : CostOf(claims[i]) <= Remaining(claims)[i - 1] }
Costs(claims)   == [ i \in DOMAIN claims |-> CostOf(claims[i]) ]

\* The budget is what is left and what was paid.
LEMMA BudgetIsKept ==
    ASSUME NEW X, NEW claims \in Seq(X), \A s \in X : CostOf(s) \in Nat, request.available \in Nat
    PROVE  \A k \in 0..Len(claims) :
              /\ Remaining(claims)[k] \in Nat
              /\ SumOver(Costs(claims), Paid(claims, k)) \in Nat
              /\ request.available = Remaining(claims)[k] + SumOver(Costs(claims), Paid(claims, k))
<1> DEFINE n == Len(claims)
           left == Remaining(claims)
           cost == Costs(claims)
           P(k) == Paid(claims, k)
           Fine(k) == left[k] \in Nat /\ SumOver(cost, P(k)) \in Nat /\ request.available = left[k] + SumOver(cost, P(k))
           Wrong == { k \in 0..n : ~ Fine(k) }
<1>1. n \in Nat /\ DOMAIN claims = 1..n
    OBVIOUS
<1>2. \A i \in 1..n : cost[i] \in Nat /\ cost[i] = CostOf(claims[i])
    BY <1>1 DEF Costs
<1>3. left[0] = request.available /\ \A k \in 1..n : left[k] = LeftAfter(claims[k], left[k - 1])
    BY RemainingIs
<1>4. \A k \in 1..n : P(k) = IF cost[k] <= left[k - 1] THEN P(k - 1) \cup {k} ELSE P(k - 1)
    <2>1. ASSUME NEW k \in 1..n PROVE P(k) = IF cost[k] <= left[k - 1] THEN P(k - 1) \cup {k} ELSE P(k - 1)
        <3>1. k \in Nat /\ k >= 1 /\ 1..k = (1..(k - 1)) \cup {k} /\ cost[k] = CostOf(claims[k])
            BY <1>1, <1>2
        <3>2. QED BY <3>1 DEF Paid
    <2>2. QED BY <2>1
<1>5. \A k \in 0..n : P(k) \subseteq 1..k
    BY DEF Paid
<1> HIDE DEF n, left, cost, P
<1>6. ASSUME NEW k \in 0..n PROVE IsFiniteSet(P(k)) /\ \A i \in P(k) : cost[i] \in Nat
    <2>1. IsFiniteSet(1..k)
        BY <1>1, FS_Interval
    <2>2. IsFiniteSet(P(k))
        BY <1>5, <2>1, FS_Subset
    <2>3. \A i \in P(k) : i \in 1..n
        BY <1>1, <1>5
    <2>4. QED BY <1>2, <2>2, <2>3
<1>7. Wrong = {}
    <2> SUFFICES ASSUME Wrong # {} PROVE FALSE
        OBVIOUS
    <2>1. Wrong \in SUBSET Nat
        BY <1>1
    <2>2. PICK k \in Wrong : \A l \in Wrong : k <= l
        <3> HIDE DEF Wrong
        <3>1. QED BY <2>1, FirstPlace
    <2> HIDE DEF Fine
    <2>3. k \in 0..n /\ ~ Fine(k)
        OBVIOUS
    <2>4. CASE k = 0
        <3>1. P(0) = {}
            BY <1>1, <1>5
        <3>2. SumOver(cost, {}) = 0
            BY SumStarts, FS_EmptySet
        <3>3. SumOver(cost, P(0)) = 0
            BY <3>1, <3>2, Zenon
        <3>4. Fine(0)
            BY <1>3, <3>3 DEF Fine
        <3>5. QED BY <2>3, <2>4, <3>4
    <2>5. CASE k # 0
        <3>1. k \in 1..n /\ k - 1 \in 0..n /\ k - 1 \notin Wrong /\ k \in Nat
            BY <1>1, <2>2, <2>3, <2>5
        <3>2. Fine(k - 1)
            BY <3>1
        <3>3. left[k - 1] \in Nat /\ SumOver(cost, P(k - 1)) \in Nat
              /\ request.available = left[k - 1] + SumOver(cost, P(k - 1))
            BY <3>2 DEF Fine
        <3>4. cost[k] \in Nat /\ cost[k] = CostOf(claims[k])
            BY <1>2, <3>1
        <3>5. CASE cost[k] <= left[k - 1]
            <4>1. P(k) = P(k - 1) \cup {k}
                BY <1>4, <3>1, <3>5
            <4>2. k \notin P(k - 1)
                BY <1>5, <3>1
            <4>3. SumOver(cost, P(k - 1) \cup {k}) = SumOver(cost, P(k - 1)) + cost[k]
                BY <1>6, <3>1, <3>4, <4>2, SumAdd
            <4>4. SumOver(cost, P(k)) = SumOver(cost, P(k - 1) \cup {k})
                BY <4>1, Zenon
            <4>5. left[k] = left[k - 1] - cost[k]
                BY <1>3, <3>1, <3>4, <3>5 DEF LeftAfter
            <4>6. Fine(k)
                BY <3>3, <3>4, <3>5, <4>3, <4>4, <4>5 DEF Fine
            <4>7. QED BY <2>3, <4>6
        <3>6. CASE ~ (cost[k] <= left[k - 1])
            <4>1. P(k) = P(k - 1)
                BY <1>4, <3>1, <3>6
            <4>2. SumOver(cost, P(k)) = SumOver(cost, P(k - 1))
                BY <4>1, Zenon
            <4>3. left[k] = left[k - 1]
                BY <1>3, <3>1, <3>4, <3>6 DEF LeftAfter
            <4>4. Fine(k)
                BY <3>3, <4>2, <4>3 DEF Fine
            <4>5. QED BY <2>3, <4>4
        <3>7. QED BY <3>5, <3>6
    <2>6. QED BY <2>4, <2>5
<1>8. \A k \in 0..n : Fine(k)
    BY <1>7
<1>9. QED BY <1>8 DEF n, left, cost, P

\* Every eligible group is decided on once, and the amounts add up.
LEMMA AllocationIs ==
    ASSUME NEW e, Distinct(e), \A s \in Elements(e) : ScoredShape(s), request.available \in 0..MaxSafe
    PROVE  LET a == Allocation(e)
           IN  /\ Distinct(a.included)
               /\ Distinct(ScoredOf(a.included))
               /\ Elements(ScoredOf(a.included)) \subseteq Elements(e)
               /\ Distinct(ScoredOf(a.included \o a.excluded))
               /\ Elements(ScoredOf(a.included \o a.excluded)) = Elements(e)
               /\ Accounted(a)
<1> DEFINE claims == Claimants(e)
           turns  == Turns(claims)
           n == Len(claims)
           D == { i \in DOMAIN turns : Fits(turns[i]) }
           O == { i \in DOMAIN turns : Exceeds(turns[i]) }
           taken  == Picked(turns, D, {})
           passed == Picked(turns, O, {})
           in  == Allocation(e).included
           off == Allocation(e).excluded
<1>1. Distinct(claims) /\ Elements(claims) = Elements(e)
    BY ClaimantsDistinct
<1>2. in = [ k \in DOMAIN taken |-> Take(taken[k]) ] /\ off = [ k \in DOMAIN passed |-> Leave(passed[k]) ]
    BY DEF Allocation, Filtered
<1>3. /\ Allocation(e).selected = request.available - Remaining(claims)[Len(turns)]
      /\ Allocation(e).unallocated = Remaining(claims)[Len(turns)]
      /\ Allocation(e).available = request.available
    BY DEF Allocation
<1> HIDE DEF claims
<1>4. /\ DOMAIN turns = DOMAIN claims /\ turns = [ k \in DOMAIN turns |-> turns[k] ]
      /\ \A k \in DOMAIN claims : turns[k].scored = claims[k] /\ turns[k].before = Remaining(claims)[k - 1]
    BY DEF Turns
<1> HIDE DEF turns
<1>5. D \in SUBSET DOMAIN turns /\ O \in SUBSET DOMAIN turns
    OBVIOUS
<1>6. (\A i \in D : Fits(turns[i])) /\ (\A i \in O : ~ Fits(turns[i])) /\ \A i \in DOMAIN turns : i \in D \/ i \in O
    BY DEF Exceeds
<1>7. n \in Nat /\ DOMAIN claims = 1..n /\ claims \in Seq(Elements(claims))
    BY <1>1 DEF Distinct
<1>8. Distinct(turns)
    BY <1>1, <1>4, MapDistinct
<1>9. turns \in Seq(Elements(turns)) /\ Len(turns) = n
    <2>1. DOMAIN turns = 1..n
        BY <1>4, <1>7
    <2>2. QED BY <1>4, <1>7, <2>1, LenIsLast
<1>10. \A t, u \in Elements(turns) : t.scored = u.scored => t = u
    <2>1. ASSUME NEW i \in DOMAIN turns, NEW j \in DOMAIN turns, turns[i].scored = turns[j].scored PROVE turns[i] = turns[j]
        BY <1>1, <1>4, <2>1 DEF Distinct
    <2>2. QED BY <2>1 DEF Elements
<1> DEFINE fits == { turns[i] : i \in D }
           rest == { turns[i] : i \in O }
<1>11. (\A t \in fits : Fits(t) /\ t \in Elements(turns)) /\ (\A t \in rest : ~ Fits(t) /\ t \in Elements(turns))
    BY <1>5, <1>6 DEF Elements
<1>12. \A t \in Elements(turns) : t \in fits \/ t \in rest
    BY <1>6 DEF Elements
<1>13. { t.scored : t \in Elements(turns) } = Elements(e)
    <2>1. { t.scored : t \in Elements(turns) } = Elements(claims)
        BY <1>4 DEF Elements
    <2>2. QED BY <1>1, <2>1
<1>14. Distinct(taken) /\ Distinct(passed)
    <2> HIDE DEF D, O
    <2>1. Distinct(taken)
        BY <1>5, <1>8, FilterDistinct
    <2>2. Distinct(passed)
        BY <1>5, <1>8, FilterDistinct
    <2>3. QED BY <2>1, <2>2
<1>15. Elements(taken) = fits /\ Elements(passed) = rest
    <2> HIDE DEF D, O
    <2>1. Elements(taken) = { turns[i] : i \in D }
        BY <1>5, <1>9, FilterElements
    <2>2. Elements(passed) = { turns[i] : i \in O }
        BY <1>5, <1>9, FilterElements
    <2>3. QED BY <2>1, <2>2
<1> DEFINE F == DOMAIN turns
<1>16. SumOf(TokensOf(in)) = SumOver(Costs(claims), D)
    <2> DEFINE numbers == TokensOf(in)
               cost == Costs(claims)
    <2>1. DOMAIN numbers = DOMAIN taken /\ \A k \in DOMAIN taken : numbers[k] = CostOf(taken[k].scored)
        BY <1>2 DEF TokensOf, Take
    <2>2. \A i \in D : cost[i] = CostOf(turns[i].scored)
        BY <1>4 DEF Costs
    <2>3. \A i \in D : cost[i] \in Nat
        <3>1. \A i \in DOMAIN claims : claims[i] \in Elements(e)
            BY <1>1 DEF Elements
        <3>2. QED BY <1>4, <1>5, <3>1 DEF Costs, CostOf, ScoredShape, BlockShape
    <2>4. WeakOrder({}, D)
        BY DEF WeakOrder
    <2> HIDE DEF D, numbers, cost
    <2>5. \A k \in DOMAIN numbers, i \in D : taken[k] = turns[i] => numbers[k] = cost[i]
        BY <2>1, <2>2
    <2>6. SumOf(numbers) = SumOver(cost, D)
        BY <1>5, <1>9, <2>1, <2>3, <2>4, <2>5, PickedSum
    <2>7. QED BY <2>6 DEF numbers, cost
<1>17. D = Paid(claims, n)
    <2>1. \A i \in DOMAIN turns : Fits(turns[i]) <=> CostOf(claims[i]) <= Remaining(claims)[i - 1]
        BY <1>4 DEF Fits
    <2>2. DOMAIN turns = 1..n
        BY <1>4, <1>7
    <2>3. QED BY <2>1, <2>2 DEF Paid
<1> HIDE DEF fits, rest, D, O, taken, passed, n
<1> DEFINE m == Remaining(claims)[n]
           paid == SumOver(Costs(claims), Paid(claims, n))
<1>18. m \in Nat /\ paid \in Nat /\ request.available = m + paid
    <2>1. \A s \in Elements(claims) : CostOf(s) \in Nat
        BY <1>1 DEF CostOf, ScoredShape, BlockShape
    <2>2. \A k \in 0..Len(claims) :
              /\ Remaining(claims)[k] \in Nat
              /\ SumOver(Costs(claims), Paid(claims, k)) \in Nat
              /\ request.available = Remaining(claims)[k] + SumOver(Costs(claims), Paid(claims, k))
        <3>1. request.available \in Nat
            BY StagesAssumption
        <3>2. QED BY <1>7, <2>1, <3>1, BudgetIsKept
    <2>3. n \in 0..Len(claims)
        BY <1>7 DEF n
    <2>4. QED BY <2>2, <2>3
<1>19. SumOf(TokensOf(in)) = paid
    BY <1>16, <1>17, Zenon
<1>20. Distinct(in)
    <2>1. DOMAIN in = DOMAIN taken /\ in = [ k \in DOMAIN in |-> in[k] ] /\ \A k \in DOMAIN taken : in[k].scored = taken[k].scored
        BY <1>2 DEF Take
    <2> HIDE DEF in
    <2>2. \A i \in DOMAIN taken : taken[i] \in Elements(turns)
        <3>1. \A i \in DOMAIN taken : taken[i] \in Elements(taken)
            BY DEF Elements
        <3>2. QED BY <1>11, <1>15, <3>1
    <2>4. \A i, j \in DOMAIN taken : in[i] = in[j] => taken[i] = taken[j]
        BY <1>10, <2>1, <2>2
    <2>3. QED BY <1>14, <2>1, <2>4, MapDistinct
<1>21. Distinct(off)
    <2>1. DOMAIN off = DOMAIN passed /\ off = [ k \in DOMAIN off |-> off[k] ] /\ \A k \in DOMAIN passed : off[k].scored = passed[k].scored
        BY <1>2 DEF Leave
    <2> HIDE DEF off
    <2>2. \A i \in DOMAIN passed : passed[i] \in Elements(turns)
        <3>1. \A i \in DOMAIN passed : passed[i] \in Elements(passed)
            BY DEF Elements
        <3>2. QED BY <1>11, <1>15, <3>1
    <2>4. \A i, j \in DOMAIN passed : off[i] = off[j] => passed[i] = passed[j]
        BY <1>10, <2>1, <2>2
    <2>3. QED BY <1>14, <2>1, <2>4, MapDistinct
<1>22. Elements(in) = { Take(t) : t \in fits } /\ Elements(off) = { Leave(t) : t \in rest }
    <2>1. Elements(in) = { Take(t) : t \in Elements(taken) }
        BY <1>2 DEF Elements
    <2>2. Elements(off) = { Leave(t) : t \in Elements(passed) }
        BY <1>2 DEF Elements
    <2>3. QED BY <1>15, <2>1, <2>2
<1>23. \A t : Take(t).scored = t.scored /\ Leave(t).scored = t.scored
    BY DEF Take, Leave
<1> DEFINE amounts(d) == d.tokens = AllocatedBlock(d).tokens
<1>24. (\A d \in Elements(in) : amounts(d) /\ d.before - d.tokens = d.after) /\ \A d \in Elements(off) : amounts(d)
    <2>1. \A t : amounts(Take(t)) /\ Take(t).before - Take(t).tokens = Take(t).after /\ amounts(Leave(t))
        BY DEF Take, Leave, AllocatedBlock, CostOf
    <2> HIDE DEF amounts, in, off
    <2>2. QED BY <1>22, <2>1
<1> HIDE DEF in, off, amounts
<1> DEFINE all == in \o off
<1>25. Elements(in) \cap Elements(off) = {}
    <2>1. ASSUME NEW d \in Elements(in), d \in Elements(off) PROVE FALSE
        <3>1. PICK t \in fits : d = Take(t)
            BY <1>22
        <3>2. PICK u \in rest : d = Leave(u)
            BY <1>22, <2>1
        <3>3. t.scored = u.scored
            BY <1>23, <3>1, <3>2
        <3>4. t = u
            BY <1>10, <1>11, <3>3
        <3>5. QED BY <1>11, <3>4
    <2>2. QED BY <2>1
<1>26. Distinct(all)
    BY <1>20, <1>21, <1>25, ConcatDistinct
<1>27. Elements(all) = Elements(in) \cup Elements(off)
    <2> DEFINE X == Elements(in) \cup Elements(off)
    <2>1. in \in Seq(X) /\ off \in Seq(X)
        BY <1>20, <1>21 DEF Distinct
    <2> HIDE DEF X
    <2>2. QED BY <2>1, ConcatElements
<1> HIDE DEF all
<1>28. \A c, d \in Elements(all) : c.scored = d.scored => c = d
    <2>1. \A d \in Elements(all) : \E t \in Elements(turns) :
              d.scored = t.scored /\ d = IF Fits(t) THEN Take(t) ELSE Leave(t)
        BY <1>11, <1>22, <1>23, <1>27
    <2>2. QED BY <1>10, <2>1
<1>29. ASSUME NEW ds, Distinct(ds), Elements(ds) \subseteq Elements(all)
      PROVE  Distinct(ScoredOf(ds)) /\ Elements(ScoredOf(ds)) = { d.scored : d \in Elements(ds) }
    <2> DEFINE ss == ScoredOf(ds)
    <2>1. DOMAIN ss = DOMAIN ds /\ ss = [ i \in DOMAIN ss |-> ss[i] ] /\ \A i \in DOMAIN ds : ss[i] = ds[i].scored
        BY DEF ScoredOf
    <2> HIDE DEF ss
    <2>2. \A i, j \in DOMAIN ds : ss[i] = ss[j] => ds[i] = ds[j]
        <3>1. \A i \in DOMAIN ds : ds[i] \in Elements(all)
            BY <1>29 DEF Elements
        <3>2. QED BY <1>28, <2>1, <3>1
    <2>3. Distinct(ss)
        BY <1>29, <2>1, <2>2, MapDistinct
    <2>4. Elements(ss) = { d.scored : d \in Elements(ds) }
        BY <2>1 DEF Elements
    <2>5. QED BY <2>3, <2>4 DEF ss
<1>30. Distinct(ScoredOf(in)) /\ Elements(ScoredOf(in)) = { d.scored : d \in Elements(in) }
    <2>1. Elements(in) \subseteq Elements(all)
        BY <1>27
    <2>2. QED BY <1>20, <1>29, <2>1
<1>31. Distinct(ScoredOf(all)) /\ Elements(ScoredOf(all)) = { d.scored : d \in Elements(all) }
    BY <1>26, <1>29
<1>32. { d.scored : d \in Elements(all) } = { t.scored : t \in Elements(turns) }
    <2>1. ASSUME NEW d \in Elements(all) PROVE \E t \in Elements(turns) : d.scored = t.scored
        BY <1>11, <1>22, <1>23, <1>27
    <2>2. ASSUME NEW t \in Elements(turns) PROVE \E d \in Elements(all) : d.scored = t.scored
        <3>1. CASE t \in fits
            BY <1>22, <1>23, <1>27, <3>1
        <3>2. CASE t \in rest
            BY <1>22, <1>23, <1>27, <3>2
        <3>3. QED BY <1>12, <3>1, <3>2
    <2>3. QED BY <2>1, <2>2
<1>33. Elements(ScoredOf(in)) \subseteq Elements(e)
    BY <1>13, <1>27, <1>30, <1>32
<1>34. Elements(ScoredOf(all)) = Elements(e)
    BY <1>13, <1>31, <1>32
<1> DEFINE a == Allocation(e)
<1>35. Accounted(a)
    <2>1. a.included = in /\ a.excluded = off /\ a.included \o a.excluded = all
        BY DEF in, off, all
    <2>2. a.selected = paid /\ a.unallocated = m /\ a.available = m + paid
        BY <1>3, <1>9, <1>18
    <2> HIDE DEF a, m, paid
    <2>3. \A d \in Elements(a.included \o a.excluded) : d.tokens = AllocatedBlock(d).tokens
        BY <1>24, <1>27, <2>1 DEF amounts
    <2>4. \A d \in Elements(a.included) : d.before - d.tokens = d.after
        BY <1>24, <2>1
    <2>5. SafeSum(TokensOf(a.included)) = {a.selected}
        <3>1. SumOf(TokensOf(a.included)) = paid
            BY <1>19, <2>1 DEF m, paid
        <3>2. paid <= MaxSafe
            <4>1. m + paid \in 0..MaxSafe /\ MaxSafe \in Nat
                BY <1>18, StagesAssumption
            <4>2. QED BY <1>18, <4>1
        <3>3. QED BY <2>2, <3>1, <3>2 DEF SafeSum
    <2>6. SafeDifference(a.available, a.selected) = {a.unallocated}
        BY <1>18, <2>2 DEF SafeDifference
    <2>7. QED BY <2>3, <2>4, <2>5, <2>6 DEF Accounted
<1>36. QED BY <1>20, <1>30, <1>31, <1>33, <1>34, <1>35 DEF in, off, all

-----------------------------------------------------------------------------
(* The members of all groups are the batch. *)

\* A sequence in another arrangement.
Rearranges(s, t) ==
    \E q \in Bijection(DOMAIN s, DOMAIN t) : \A k \in DOMAIN s : s[k] = t[q[k]]

\* The places of the members of a group are those of the batch under its key.
PlacedAs(candidates, group, key, f) ==
    /\ group = GroupFor(candidates, key)
    /\ f \in Bijection(DOMAIN group.members, PlacesOf(candidates, key))
    /\ \A j \in DOMAIN group.members : group.members[j].candidate = candidates[f[j]]

\* Every group has its members at places of the batch.
LEMMA MembersPlaced ==
    ASSUME NEW candidates, IsBatch(candidates), NEW key
    PROVE  /\ \E f : PlacedAs(candidates, GroupFor(candidates, key), key, f)
           /\ \E n \in Nat : DOMAIN GroupFor(candidates, key).members = 1..n
<1> DEFINE D == PlacesOf(candidates, key)
           n == Cardinality(D)
           N == 1..n
           sorted == Sorted(MembersOf(candidates, key), WrapperBefore)
           g == GroupFor(candidates, key)
<1>1. n \in Nat /\ \E f \in Bijection(N, D) : sorted = [ k \in N |-> candidates[f[k]] ]
    <2>1. n \in Nat
        BY MembersPlaces
    <2>2. \E f \in Bijection(1..n, D) :
             /\ sorted = [ k \in 1..n |-> candidates[f[k]] ]
             /\ \A a, b \in 1..n : a < b => ~ WrapperBefore(candidates[f[b]], candidates[f[a]])
        BY MembersPlaces
    <2> HIDE DEF n, D, sorted
    <2>3. QED BY <2>1, <2>2
<1>2. DOMAIN g.members = DOMAIN sorted /\ \A i \in DOMAIN sorted : g.members[i].candidate = sorted[i]
    BY DEF GroupFor
<1> HIDE DEF sorted, N, D, n
<1>3. PICK f \in Bijection(N, D) : sorted = [ k \in N |-> candidates[f[k]] ]
    BY <1>1
<1>4. DOMAIN g.members = N /\ \A i \in N : g.members[i].candidate = candidates[f[i]]
    BY <1>2, <1>3
<1>5. PlacedAs(candidates, g, key, f)
    BY <1>4 DEF PlacedAs, D
<1>6. DOMAIN g.members = 1..n
    BY <1>4 DEF N
<1>7. QED BY <1>1, <1>5, <1>6

\* Places of members in their order.
LEMMA PlacesStrict ==
    ASSUME NEW M \in SUBSET (Nat \X Nat)
    PROVE  StrictOrder({ q \in M \X M : PlaceBefore(q[1], q[2]) }, M)
<1> DEFINE R == { q \in M \X M : PlaceBefore(q[1], q[2]) }
<1>1. \A x, y \in M : << x, y >> \in R <=> x[1] < y[1] \/ (x[1] = y[1] /\ x[2] < y[2])
    BY DEF PlaceBefore
<1>2. \A x \in M : x = << x[1], x[2] >> /\ x[1] \in Nat /\ x[2] \in Nat
    OBVIOUS
<1> HIDE DEF R
<1>3. \A x \in M : << x, x >> \notin R
    BY <1>1, <1>2
<1>4. ASSUME NEW x \in M, NEW y \in M, x # y PROVE << x, y >> \in R \/ << y, x >> \in R
    <2>1. x[1] # y[1] \/ x[2] # y[2]
        BY <1>2, <1>4
    <2>2. QED BY <1>1, <1>2, <2>1
<1>5. ASSUME NEW x \in M, NEW y \in M, NEW z \in M, << x, y >> \in R, << y, z >> \in R PROVE << x, z >> \in R
    <2>1. x[1] \in Nat /\ y[1] \in Nat /\ z[1] \in Nat /\ x[2] \in Nat /\ y[2] \in Nat /\ z[2] \in Nat
        BY <1>2
    <2>2. QED BY <1>1, <1>5, <2>1
<1>6. QED BY <1>3, <1>4, <1>5 DEF StrictOrder, R

\* The members of all groups are the batch in another arrangement.
LEMMA MembersAreBatch ==
    ASSUME NEW candidates, IsSound(candidates)
    PROVE  LET ms == AllMembers(Deduplicate(candidates))
           IN  ms \in Seq(Elements(ms)) /\ Len(ms) = Len(candidates) /\ Rearranges(ms, candidates)
<1> DEFINE groups == Deduplicate(candidates)
           C == DOMAIN candidates
           M == MemberPlaces(groups)
           R == { q \in M \X M : PlaceBefore(q[1], q[2]) }
           Known(i, key) == groups[i] = GroupFor(candidates, key)
           Key(i) == CHOOSE key : Known(i, key)
           Place(i) == CHOOSE f : PlacedAs(candidates, groups[i], Key(i), f)
           r == [ p \in M |-> Place(p[1])[p[2]] ]
           ms == AllMembers(groups)
<1>1. IsBatch(candidates) /\ Len(candidates) \in Nat /\ C = 1..Len(candidates)
    BY DEF IsSound, IsBatch
<1>2. Distinct(groups) /\ Elements(groups) = GroupsOf(candidates)
    BY GroupsDistinct, DeduplicateLists
<1>m. ms = [ k \in DOMAIN Lined(M, R) |-> groups[Lined(M, R)[k][1]].members[Lined(M, R)[k][2]].candidate ]
    BY DEF AllMembers, Listed
<1> HIDE DEF groups, ms
<1>3. ASSUME NEW i \in DOMAIN groups PROVE Known(i, Key(i)) /\ PlacedAs(candidates, groups[i], Key(i), Place(i))
                                           /\ \E n \in Nat : DOMAIN groups[i].members = 1..n
    <2>1. groups[i] \in GroupsOf(candidates)
        BY <1>2 DEF Elements
    <2>2. \E key : Known(i, key)
        BY <2>1 DEF GroupsOf
    <2>3. Known(i, Key(i))
        BY <2>2
    <2>4. \E f : PlacedAs(candidates, groups[i], Key(i), f)
        BY <1>1, <2>3, MembersPlaced
    <2>5. \E n \in Nat : DOMAIN groups[i].members = 1..n
        BY <1>1, <2>3, MembersPlaced
    <2> HIDE DEF Key
    <2>6. QED BY <2>3, <2>4, <2>5
<1> HIDE DEF Place
<1>4. ASSUME NEW i \in DOMAIN groups
      PROVE  /\ Place(i) \in [DOMAIN groups[i].members -> PlacesOf(candidates, Key(i))]
             /\ \A j, k \in DOMAIN groups[i].members : Place(i)[j] = Place(i)[k] => j = k
             /\ \A x \in PlacesOf(candidates, Key(i)) : \E j \in DOMAIN groups[i].members : Place(i)[j] = x
             /\ \A j \in DOMAIN groups[i].members : groups[i].members[j].candidate = candidates[Place(i)[j]]
    <2> DEFINE f == Place(i)
               U == DOMAIN groups[i].members
               V == PlacesOf(candidates, Key(i))
    <2>1. f \in Bijection(U, V) /\ \A j \in U : groups[i].members[j].candidate = candidates[f[j]]
        BY <1>3 DEF PlacedAs
    <2> HIDE DEF U, V, f
    <2>2. f \in [U -> V] /\ (\A j, k \in U : f[j] = f[k] => j = k) /\ \A x \in V : \E j \in U : f[j] = x
        BY <2>1, Arranges
    <2>3. QED BY <2>1, <2>2 DEF U, V, f
<1> HIDE DEF Key
<1>5. ASSUME NEW i \in DOMAIN groups, NEW j \in DOMAIN groups, Key(i) = Key(j) PROVE i = j
    BY <1>2, <1>3, <1>5 DEF Distinct
<1>6. ASSUME NEW x \in C PROVE \E i \in DOMAIN groups : x \in PlacesOf(candidates, Key(i))
    <2> DEFINE w == candidates[x]
               g == GroupFor(candidates, GroupKey(w))
    <2>1. w \in Elements(candidates)
        BY DEF Elements
    <2>2. g \in GroupsOf(candidates)
        BY <2>1 DEF GroupsOf
    <2>3. PICK i \in DOMAIN groups : groups[i] = g
        BY <1>2, <2>2 DEF Elements
    <2> HIDE DEF w
    <2>4. WrappersOf(g) = Under(candidates, GroupKey(w)) /\ WrappersOf(GroupFor(candidates, Key(i))) = Under(candidates, Key(i))
        BY <1>1, GroupHolds
    <2>5. GroupFor(candidates, Key(i)) = g
        BY <1>3, <2>3
    <2>6. w \in Under(candidates, Key(i))
        BY <2>1, <2>4, <2>5 DEF Under
    <2>7. GroupKey(w) = Key(i)
        BY <2>6 DEF Under
    <2>8. QED BY <2>7 DEF PlacesOf, w
<1>7. \A key : PlacesOf(candidates, key) \subseteq C /\ \A x \in PlacesOf(candidates, key) : GroupKey(candidates[x]) = key
    BY DEF PlacesOf
<1>8. \A p \in M : p = << p[1], p[2] >> /\ p[1] \in DOMAIN groups /\ p[2] \in DOMAIN groups[p[1]].members
    BY DEF MemberPlaces
<1>9. \A i \in DOMAIN groups : \A j \in DOMAIN groups[i].members : << i, j >> \in M
    BY DEF MemberPlaces
<1> HIDE DEF M, C
<1>10. r \in [M -> C]
    BY <1>4, <1>7, <1>8
<1>11. ASSUME NEW p \in M, NEW q \in M, r[p] = r[q] PROVE p = q
    <2>1. r[p] \in PlacesOf(candidates, Key(p[1])) /\ r[q] \in PlacesOf(candidates, Key(q[1]))
        BY <1>4, <1>8
    <2>2. Key(p[1]) = Key(q[1])
        BY <1>7, <1>11, <2>1
    <2>3. p[1] = q[1]
        BY <1>5, <1>8, <2>2
    <2>4. Place(p[1])[p[2]] = Place(p[1])[q[2]]
        BY <1>11, <2>3
    <2>5. p[2] = q[2]
        BY <1>4, <1>8, <2>3, <2>4
    <2>6. QED BY <1>8, <2>3, <2>5
<1>12. ASSUME NEW x \in C PROVE \E p \in M : r[p] = x
    <2>1. PICK i \in DOMAIN groups : x \in PlacesOf(candidates, Key(i))
        BY <1>6
    <2>2. PICK j \in DOMAIN groups[i].members : Place(i)[j] = x
        BY <1>4, <2>1
    <2>3. << i, j >> \in M /\ r[<< i, j >>] = x
        BY <1>9, <2>2
    <2>4. QED BY <2>3
<1>13. \A p \in M : groups[p[1]].members[p[2]].candidate = candidates[r[p]]
    BY <1>4, <1>8
<1> HIDE DEF r
<1>14. r \in Bijection(M, C)
    BY <1>10, <1>11, <1>12, IsArrangement
<1>15. IsFiniteSet(C) /\ Cardinality(C) = Len(candidates)
    <2> DEFINE n == Len(candidates)
    <2>1. n \in Nat /\ C = 1..n
        BY <1>1
    <2> HIDE DEF n
    <2>2. IsFiniteSet(1..n) /\ Cardinality(1..n) = n
        BY <2>1, FS_Interval
    <2>3. QED BY <2>1, <2>2 DEF n
<1>16. IsFiniteSet(M) /\ Cardinality(M) = Len(candidates)
    <2>1. r \in Injection(M, C) /\ r \in Surjection(M, C)
        BY <1>14 DEF Bijection
    <2>2. QED BY <1>15, <2>1, FS_Injection
<1>17. M \in SUBSET (Nat \X Nat)
    <2>1. Len(groups) \in Nat /\ DOMAIN groups = 1..Len(groups)
        BY <1>2 DEF Distinct
    <2>2. ASSUME NEW p \in M PROVE p \in Nat \X Nat
        <3>1. PICK n \in Nat : DOMAIN groups[p[1]].members = 1..n
            BY <1>3, <1>8
        <3>2. p[1] \in Nat /\ p[2] \in Nat
            BY <1>8, <2>1, <3>1
        <3>3. QED BY <1>8, <3>2
    <2>3. QED BY <2>2
<1>18. StrictOrder(R, M)
    BY <1>17, PlacesStrict
<1> DEFINE n == Len(candidates)
           N == 1..n
           places == Lined(M, R)
           s == [ k \in N |-> r[places[k]] ]
<1>19. places \in Bijection(1..Cardinality(M), M) /\ DOMAIN places = 1..Cardinality(M)
    <2> HIDE DEF R
    <2>1. places \in Bijection(1..Cardinality(M), M)
        BY <1>16, <1>18, LinedArranges
    <2>2. DOMAIN places = 1..Cardinality(M)
        BY DEF Lined
    <2>3. QED BY <2>1, <2>2
<1> HIDE DEF R
<1>20. ms = [ k \in DOMAIN places |-> groups[places[k][1]].members[places[k][2]].candidate ]
    BY <1>m
<1> HIDE DEF places
<1>21. places \in Bijection(N, M) /\ DOMAIN places = N /\ n \in Nat
    BY <1>1, <1>16, <1>19
<1> HIDE DEF N
<1>22. places \in [N -> M]
    BY <1>21, Arranges
<1>23. s \in Bijection(N, C)
    BY <1>14, <1>21, ArrangesAgain
<1>24. DOMAIN ms = N /\ \A k \in N : ms[k] = candidates[s[k]]
    BY <1>13, <1>20, <1>21, <1>22
<1> HIDE DEF s
<1>25. Rearranges(ms, candidates)
    BY <1>23, <1>24 DEF Rearranges, C
<1>26. ms \in Seq(Elements(ms)) /\ Len(ms) = n
    <2>1. ms = [ k \in DOMAIN ms |-> ms[k] ] /\ DOMAIN ms = 1..n
        BY <1>20, <1>24 DEF N
    <2>2. QED BY <1>21, <2>1, LenIsLast
<1>27. QED BY <1>25, <1>26 DEF ms, groups

\* In another arrangement everything stands as often.
LEMMA RearrangedBag ==
    ASSUME NEW s, NEW t, Rearranges(s, t), IsFiniteSet(DOMAIN s)
    PROVE  SameBag(s, t)
<1> DEFINE S == DOMAIN s
           T == DOMAIN t
<1>1. PICK q \in Bijection(S, T) : \A k \in S : s[k] = t[q[k]]
    BY DEF Rearranges
<1> HIDE DEF S, T
<1>2. q \in [S -> T] /\ (\A i, j \in S : q[i] = q[j] => i = j) /\ \A k \in T : \E i \in S : q[i] = k
    BY <1>1, Arranges
<1>3. ASSUME NEW x PROVE Occurrences(s, x) = Occurrences(t, x)
    <2> DEFINE A == { i \in S : s[i] = x }
               B == { i \in T : t[i] = x }
               f == [ i \in A |-> q[i] ]
    <2>1. f \in [A -> B] /\ (\A i, j \in A : f[i] = f[j] => i = j) /\ \A k \in B : \E i \in A : f[i] = k
        BY <1>1, <1>2
    <2>0. A \in SUBSET S
        OBVIOUS
    <2> HIDE DEF A, B, f
    <2>2. f \in Bijection(A, B)
        BY <2>1, IsArrangement
    <2>3. IsFiniteSet(A)
        BY <2>0, FS_Subset DEF S
    <2>4. Cardinality(B) = Cardinality(A)
        <3>1. ExistsBijection(A, B)
            BY <2>2 DEF ExistsBijection
        <3>2. QED BY <2>3, <3>1, FS_Bijection
    <2>5. QED BY <2>4 DEF Occurrences, A, B, S, T
<1>4. QED BY <1>3 DEF SameBag

-----------------------------------------------------------------------------
(* The totals of a trace. *)

\* The token counts of a batch.
BatchTokens(candidates) == [ i \in DOMAIN candidates |-> candidates[i].block.tokens ]

\* In another arrangement the tokens sum to the same.
LEMMA RearrangedSum ==
    ASSUME NEW s, NEW t, Rearranges(s, t), IsFiniteSet(DOMAIN s),
           \A i \in DOMAIN s : s[i].block.tokens \in Nat
    PROVE  SumOf(BatchTokens(s)) = SumOf(BatchTokens(t))
<1> DEFINE S == DOMAIN s
           T == DOMAIN t
           f == BatchTokens(s)
           g == BatchTokens(t)
<1>1. PICK q \in Bijection(S, T) : \A k \in S : s[k] = t[q[k]]
    BY DEF Rearranges
<1>2. DOMAIN f = S /\ DOMAIN g = T /\ (\A i \in S : f[i] = s[i].block.tokens) /\ \A i \in T : g[i] = t[i].block.tokens
    BY DEF BatchTokens
<1>3. IsFiniteSet(S) /\ \A i \in S : s[i].block.tokens \in Nat
    OBVIOUS
<1> HIDE DEF S, T, f, g
<1>4. q \in [S -> T]
    BY <1>1, Arranges
<1>5. \A i \in S : f[i] \in Nat /\ f[i] = g[q[i]]
    BY <1>1, <1>2, <1>3, <1>4
<1>6. SumOver(f, S) = SumOver(g, T)
    BY <1>1, <1>3, <1>5, SumRenamed
<1>7. QED BY <1>2, <1>6 DEF SumOf, f, g

\* The blocks that represent the groups are some of the batch.
LEMMA CanonicalWithinBatch ==
    ASSUME NEW candidates, IsSound(candidates)
    PROVE  LET groups == Deduplicate(candidates)
           IN  /\ Len(groups) <= Len(candidates)
               /\ SumOf(ContentTokens(groups)) \in Nat
               /\ SumOf(BatchTokens(candidates)) \in Nat
               /\ SumOf(ContentTokens(groups)) <= SumOf(BatchTokens(candidates))
<1> DEFINE groups == Deduplicate(candidates)
           C == DOMAIN candidates
           D == DOMAIN groups
           f == ContentTokens(groups)
           g == BatchTokens(candidates)
           At(i) == CHOOSE x \in C : candidates[x].block = groups[i].canonical
           c == [ i \in D |-> At(i) ]
           image == { c[i] : i \in D }
<1>1. Len(candidates) \in Nat /\ C = 1..Len(candidates)
    BY DEF IsSound, IsBatch
<1>2. \A x \in C : candidates[x].block.tokens \in Nat
    BY DEF IsSound, IsBatch, WrapperShape, BlockShape, Elements
<1>3. Distinct(groups) /\ Elements(groups) = GroupsOf(candidates)
    BY GroupsDistinct, DeduplicateLists
<1>4. DOMAIN f = D /\ DOMAIN g = C /\ (\A i \in D : f[i] = groups[i].canonical.tokens) /\ \A i \in C : g[i] = candidates[i].block.tokens
    BY DEF BatchTokens, ContentTokens
<1> HIDE DEF groups
<1>5. \A i \in D : groups[i] \in GroupsOf(candidates)
    BY <1>3 DEF Elements
<1>6. ASSUME NEW i \in D PROVE At(i) \in C /\ candidates[At(i)].block = groups[i].canonical
    <2>1. \E w \in Elements(candidates) : groups[i].canonical = w.block
        BY <1>5, CanonicalIds
    <2>2. \E x \in C : candidates[x].block = groups[i].canonical
        BY <2>1 DEF Elements
    <2>3. QED BY <2>2
<1>7. ASSUME NEW i \in D, NEW j \in D, c[i] = c[j] PROVE i = j
    <2>1. groups[i].canonical = groups[j].canonical
        BY <1>6, <1>7
    <2>2. groups[i] = groups[j]
        BY <1>5, <2>1, GroupsDiffer
    <2>3. QED BY <1>3, <2>2 DEF Distinct
<1>8. IsFiniteSet(C) /\ Cardinality(C) = Len(candidates) /\ IsFiniteSet(D) /\ Cardinality(D) = Len(groups) /\ Len(groups) \in Nat
    <2> DEFINE n == Len(candidates)
               m == Len(groups)
    <2>1. n \in Nat /\ C = 1..n /\ m \in Nat /\ D = 1..m
        BY <1>1, <1>3 DEF Distinct
    <2> HIDE DEF n, m, C, D
    <2>2. IsFiniteSet(1..n) /\ Cardinality(1..n) = n
        BY <2>1, FS_Interval
    <2>3. IsFiniteSet(1..m) /\ Cardinality(1..m) = m
        BY <2>1, FS_Interval
    <2>4. QED BY <2>1, <2>2, <2>3 DEF n, m
<1> HIDE DEF At, f, g
<1>9. c \in [D -> C] /\ c \in [D -> image] /\ \A x \in image : \E i \in D : c[i] = x
    BY <1>6
<1>10. image \in SUBSET C
    BY <1>9
<1>11. \A i \in D : f[i] = g[c[i]]
    BY <1>4, <1>6, <1>9
<1> HIDE DEF C, D, c, image
<1>12. c \in Bijection(D, image)
    BY <1>7, <1>9, IsArrangement
<1>13. Len(groups) <= Len(candidates)
    <2>1. c \in Injection(D, C)
        BY <1>7, <1>9, Fun_IsInj
    <2>2. Cardinality(D) <= Cardinality(C)
        BY <1>8, <2>1, FS_Injection
    <2>3. QED BY <1>8, <2>2
<1>14. \A x \in C : g[x] \in Nat
    BY <1>2, <1>4
<1>15. \A i \in D : f[i] \in Nat /\ f[i] = g[c[i]]
    BY <1>9, <1>11, <1>14
<1>16. SumOver(f, D) = SumOver(g, image)
    BY <1>8, <1>12, <1>15, SumRenamed
<1>17. SumOver(g, image) <= SumOver(g, C)
    BY <1>8, <1>10, <1>14, SumMonotone
<1>18. SumOver(g, C) \in Nat
    BY <1>8, <1>14, SumIsNat
<1>19. SumOver(f, D) \in Nat
    BY <1>8, <1>15, SumIsNat
<1>20. SumOf(f) = SumOver(f, D) /\ SumOf(g) = SumOver(g, C)
    BY <1>4 DEF SumOf
<1>21. SumOf(f) \in Nat /\ SumOf(g) \in Nat /\ SumOf(f) <= SumOf(g)
    BY <1>16, <1>17, <1>18, <1>19, <1>20
<1>22. QED BY <1>13, <1>21 DEF f, g, groups

\* The places of the groups of a disposition.
Disposed(groups, disposition) == { i \in DOMAIN groups : groups[i].disposition = disposition }

\* The groups of a disposition are as many as their places, and so are their tokens.
LEMMA WithIs ==
    ASSUME NEW groups, groups \in Seq(Elements(groups)),
           \A i \in DOMAIN groups : groups[i].canonical.tokens \in Nat, NEW disposition
    PROVE  /\ Len(With(groups, disposition)) = Cardinality(Disposed(groups, disposition))
           /\ SumOf(ContentTokens(With(groups, disposition))) = SumOver(ContentTokens(groups), Disposed(groups, disposition))
<1> DEFINE D == Disposed(groups, disposition)
           s == Picked(groups, D, {})
           numbers == ContentTokens(s)
           amount == ContentTokens(groups)
<1>1. With(groups, disposition) = s
    BY DEF With, Filtered, Disposed
<1>2. D \in SUBSET DOMAIN groups
    BY DEF Disposed
<1>3. DOMAIN numbers = DOMAIN s /\ (\A k \in DOMAIN s : numbers[k] = s[k].canonical.tokens)
      /\ \A i \in DOMAIN groups : amount[i] = groups[i].canonical.tokens
    BY DEF ContentTokens
<1>4. WeakOrder({}, D)
    BY DEF WeakOrder
<1> HIDE DEF D
<1>5. Len(s) = Cardinality(D)
    BY <1>2, FilterElements
<1> HIDE DEF numbers, amount
<1>6. \A i \in D : amount[i] \in Nat
    BY <1>2, <1>3
<1>7. \A k \in DOMAIN numbers, i \in D : s[k] = groups[i] => numbers[k] = amount[i]
    BY <1>2, <1>3
<1>8. SumOf(numbers) = SumOver(amount, D)
    <2>1. groups \in Seq(Elements(groups))
        OBVIOUS
    <2>2. QED BY <1>2, <1>3, <1>4, <1>6, <1>7, <2>1, PickedSum
<1>9. QED BY <1>1, <1>5, <1>8 DEF D, numbers, amount

\* Totals over disjoint dispositions add up.
LEMMA TotalsAddUp ==
    ASSUME NEW groups, groups \in Seq(Elements(groups)),
           \A i \in DOMAIN groups : /\ groups[i].canonical.tokens \in Nat
                                    /\ groups[i].disposition \in {"filtered", "included", "excluded"},
           NEW wrappers, Len(wrappers) \in Nat, Len(groups) <= Len(wrappers), Len(wrappers) <= MaxSafe,
           SumOf(BatchTokens(wrappers)) \in Nat, SumOf(BatchTokens(wrappers)) <= MaxSafe,
           SumOf(ContentTokens(groups)) <= SumOf(BatchTokens(wrappers))
    PROVE  TotalsHold(Totals(groups, wrappers))
<1> DEFINE D == DOMAIN groups
           F == Disposed(groups, "filtered")
           I == Disposed(groups, "included")
           X == Disposed(groups, "excluded")
           cost == ContentTokens(groups)
           f == Cardinality(F)
           i == Cardinality(I)
           x == Cardinality(X)
           n == Len(groups)
           w == Len(wrappers)
           tf == SumOver(cost, F)
           ti == SumOver(cost, I)
           tx == SumOver(cost, X)
           tn == SumOf(cost)
           tw == SumOf(BatchTokens(wrappers))
<1>1. /\ Len(With(groups, "filtered")) = f /\ Len(With(groups, "included")) = i /\ Len(With(groups, "excluded")) = x
      /\ SumOf(ContentTokens(With(groups, "filtered"))) = tf
      /\ SumOf(ContentTokens(With(groups, "included"))) = ti
      /\ SumOf(ContentTokens(With(groups, "excluded"))) = tx
    <2>1. \A d : Len(With(groups, d)) = Cardinality(Disposed(groups, d))
        BY WithIs
    <2>2. \A d : SumOf(ContentTokens(With(groups, d))) = SumOver(ContentTokens(groups), Disposed(groups, d))
        BY WithIs
    <2>3. QED BY <2>1, <2>2
<1>2. D = (F \cup I) \cup X /\ F \cap I = {} /\ (F \cup I) \cap X = {}
    BY DEF Disposed
<1>3. n \in Nat /\ D = 1..n
    OBVIOUS
<1>4. DOMAIN cost = D /\ \A k \in D : cost[k] \in Nat
    BY DEF ContentTokens
<1>5. w \in Nat /\ n <= w /\ w <= MaxSafe /\ tw \in Nat /\ tw <= MaxSafe /\ tn <= tw /\ MaxSafe \in Nat
    BY StagesAssumption
<1>6. BatchTokens(wrappers) = [ k \in DOMAIN wrappers |-> wrappers[k].block.tokens ]
    BY DEF BatchTokens
<1>7. Totals(groups, wrappers)
      = [ candidates |-> w, groups |-> n, duplicates |-> w - n, filtered |-> f, eligible |-> i + x, included |-> i,
          excluded |-> x, candidateTokens |-> tw, canonicalTokens |-> tn, duplicateTokens |-> tw - tn,
          filteredTokens |-> tf, includedTokens |-> ti, excludedTokens |-> tx ]
    <2> HIDE DEF F, I, X, cost
    <2>1. Totals(groups, wrappers)
          = [ candidates |-> w, groups |-> n, duplicates |-> w - n, filtered |-> Len(With(groups, "filtered")),
              eligible |-> Len(With(groups, "included")) + Len(With(groups, "excluded")),
              included |-> Len(With(groups, "included")), excluded |-> Len(With(groups, "excluded")),
              candidateTokens |-> tw, canonicalTokens |-> tn, duplicateTokens |-> tw - tn,
              filteredTokens |-> SumOf(ContentTokens(With(groups, "filtered"))),
              includedTokens |-> SumOf(ContentTokens(With(groups, "included"))),
              excludedTokens |-> SumOf(ContentTokens(With(groups, "excluded"))) ]
        BY <1>6, Zenon DEF Totals, cost
    <2>2. QED BY <1>1, <2>1
<1> DEFINE total == Totals(groups, wrappers)
<1> HIDE DEF D, F, I, X, cost, w, n, total
<1>8. IsFiniteSet(D) /\ Cardinality(D) = n
    <2>1. IsFiniteSet(1..n) /\ Cardinality(1..n) = n
        BY <1>3, FS_Interval
    <2>2. QED BY <1>3, <2>1
<1>9. IsFiniteSet(F) /\ IsFiniteSet(I) /\ IsFiniteSet(X) /\ IsFiniteSet(F \cup I)
    <2>1. F \in SUBSET D /\ I \in SUBSET D /\ X \in SUBSET D /\ F \cup I \in SUBSET D
        BY <1>2
    <2>2. QED BY <1>8, <2>1, FS_Subset
<1>10. f \in Nat /\ i \in Nat /\ x \in Nat
    BY <1>9, FS_CardinalityType
<1>11. Cardinality(F \cup I) = f + i
    <2>1. Cardinality(F \cup I) = f + i - Cardinality(F \cap I)
        BY <1>9, FS_Union
    <2>2. Cardinality(F \cap I) = 0
        BY <1>2, FS_EmptySet
    <2>3. QED BY <1>10, <2>1, <2>2
<1>12. n = (f + i) + x
    <2> DEFINE Y == F \cup I
    <2> HIDE DEF Y
    <2>1. Cardinality(Y \cup X) = Cardinality(Y) + x - Cardinality(Y \cap X)
        BY <1>9, FS_Union DEF Y
    <2>2. Cardinality(Y \cap X) = 0
        BY <1>2, FS_EmptySet DEF Y
    <2>3. Cardinality(Y \cup X) = n
        BY <1>2, <1>8 DEF Y
    <2>4. QED BY <1>10, <1>11, <2>1, <2>2, <2>3 DEF Y
<1>13. (\A k \in F : cost[k] \in Nat) /\ (\A k \in I : cost[k] \in Nat) /\ (\A k \in X : cost[k] \in Nat)
       /\ (\A k \in F \cup I : cost[k] \in Nat) /\ (\A k \in (F \cup I) \cup X : cost[k] \in Nat)
    BY <1>2, <1>4
<1>14. tf \in Nat /\ ti \in Nat /\ tx \in Nat
    BY <1>9, <1>13, SumIsNat
<1>15. SumOver(cost, F \cup I) = tf + ti
    BY <1>2, <1>9, <1>13, SumUnion
<1>16. SumOver(cost, (F \cup I) \cup X) = SumOver(cost, F \cup I) + tx
    <2> DEFINE Y == F \cup I
    <2> HIDE DEF Y
    <2>1. IsFiniteSet(Y) /\ Y \cap X = {} /\ \A k \in Y \cup X : cost[k] \in Nat
        BY <1>2, <1>9, <1>13 DEF Y
    <2>2. SumOver(cost, Y \cup X) = SumOver(cost, Y) + tx
        BY <1>9, <2>1, SumUnion
    <2>3. QED BY <2>2 DEF Y
<1>17. tn = SumOver(cost, (F \cup I) \cup X)
    <2>1. tn = SumOver(cost, D)
        BY <1>4 DEF SumOf
    <2>2. SumOver(cost, D) = SumOver(cost, (F \cup I) \cup X)
        BY <1>2, Zenon
    <2>3. QED BY <2>1, <2>2
<1>18. tn = (tf + ti) + tx
    BY <1>14, <1>15, <1>16, <1>17
<1> HIDE DEF f, i, x, tf, ti, tx, tn, tw
<1>19. /\ w \in 0..MaxSafe /\ n \in 0..MaxSafe /\ w - n \in 0..MaxSafe /\ f \in 0..MaxSafe /\ i + x \in 0..MaxSafe
       /\ i \in 0..MaxSafe /\ x \in 0..MaxSafe
    BY <1>3, <1>5, <1>10, <1>12
<1>20. /\ tw \in 0..MaxSafe /\ tn \in 0..MaxSafe /\ tw - tn \in 0..MaxSafe
       /\ tf \in 0..MaxSafe /\ ti \in 0..MaxSafe /\ tx \in 0..MaxSafe
    BY <1>5, <1>14, <1>18
<1>21. \A k \in DOMAIN total : total[k] \in 0..MaxSafe
    <2> DEFINE Safe == 0..MaxSafe
    <2> HIDE DEF Safe
    <2>1. total \in [ candidates : Safe, groups : Safe, duplicates : Safe, filtered : Safe, eligible : Safe, included : Safe,
                      excluded : Safe, candidateTokens : Safe, canonicalTokens : Safe, duplicateTokens : Safe,
                      filteredTokens : Safe, includedTokens : Safe, excludedTokens : Safe ]
        BY <1>7, <1>19, <1>20 DEF Safe, total
    <2>2. \A k \in DOMAIN total : total[k] \in Safe
        BY <2>1
    <2>3. QED BY <2>2 DEF Safe
<1>22. /\ total.candidates = w /\ total.groups = n /\ total.duplicates = w - n
       /\ total.filtered = f /\ total.eligible = i + x /\ total.included = i /\ total.excluded = x
       /\ total.candidateTokens = tw /\ total.canonicalTokens = tn /\ total.duplicateTokens = tw - tn
       /\ total.filteredTokens = tf /\ total.includedTokens = ti /\ total.excludedTokens = tx
    BY <1>7 DEF total
<1>23. w = n + (w - n) /\ n = f + (i + x) /\ tw = tn + (tw - tn) /\ tn = ti + tf + tx
    BY <1>3, <1>5, <1>10, <1>12, <1>14, <1>18, <1>20
<1>24. TotalsHold(total)
    BY <1>21, <1>22, <1>23 DEF TotalsHold
<1>25. QED BY <1>24 DEF total

-----------------------------------------------------------------------------
(* The evidence the trace is built from. *)

\* Decisions on different groups stay so when only the groups are looked at.
LEMMA ScoredOfDistinct ==
    ASSUME NEW ds, Distinct(ds), \A c, d \in Elements(ds) : c.scored = d.scored => c = d
    PROVE  Distinct(ScoredOf(ds)) /\ Elements(ScoredOf(ds)) = { d.scored : d \in Elements(ds) }
<1> DEFINE ss == ScoredOf(ds)
<1>1. DOMAIN ss = DOMAIN ds /\ ss = [ i \in DOMAIN ss |-> ss[i] ] /\ \A i \in DOMAIN ds : ss[i] = ds[i].scored
    BY DEF ScoredOf
<1> HIDE DEF ss
<1>2. \A i, j \in DOMAIN ds : ss[i] = ss[j] => ds[i] = ds[j]
    <2>1. \A i \in DOMAIN ds : ds[i] \in Elements(ds)
        BY DEF Elements
    <2>2. QED BY <1>1, <2>1
<1>3. Distinct(ss)
    BY <1>1, <1>2, MapDistinct
<1>4. Elements(ss) = { d.scored : d \in Elements(ds) }
    BY <1>1 DEF Elements
<1>5. QED BY <1>3, <1>4 DEF ss

\* And the other way round.
LEMMA ScoredTellApart ==
    ASSUME NEW ds, Distinct(ScoredOf(ds))
    PROVE  \A c, d \in Elements(ds) : c.scored = d.scored => c = d
<1>1. DOMAIN ScoredOf(ds) = DOMAIN ds /\ \A i \in DOMAIN ds : ScoredOf(ds)[i] = ds[i].scored
    BY DEF ScoredOf
<1>2. ASSUME NEW i \in DOMAIN ds, NEW j \in DOMAIN ds, ds[i].scored = ds[j].scored PROVE i = j
    BY <1>1, <1>2 DEF Distinct
<1>3. QED BY <1>2 DEF Elements

\* So do their identifiers.
LEMMA IdsDistinct ==
    ASSUME NEW ss, Distinct(ss), \A s, t \in Elements(ss) : IdOf(s) = IdOf(t) => s = t
    PROVE  Distinct(IdSeq(ss)) /\ Elements(IdSeq(ss)) = { IdOf(s) : s \in Elements(ss) }
<1> DEFINE ids == IdSeq(ss)
<1>1. DOMAIN ids = DOMAIN ss /\ ids = [ i \in DOMAIN ids |-> ids[i] ] /\ \A i \in DOMAIN ss : ids[i] = IdOf(ss[i])
    BY DEF IdSeq
<1> HIDE DEF ids
<1>2. \A i, j \in DOMAIN ss : ids[i] = ids[j] => ss[i] = ss[j]
    <2>1. \A i \in DOMAIN ss : ss[i] \in Elements(ss)
        BY DEF Elements
    <2>2. QED BY <1>1, <2>1
<1>3. Distinct(ids)
    BY <1>1, <1>2, MapDistinct
<1>4. Elements(ids) = { IdOf(s) : s \in Elements(ss) }
    BY <1>1 DEF Elements
<1>5. QED BY <1>3, <1>4 DEF ids

\* What the stages before the trace have left.
LEMMA StagesLeft ==
    ASSUME StageInv, where \in WithOrder
    PROVE  LET e == Eligible(out.decisions)
           IN  /\ IsSound(request.candidates)
               /\ out.groups = Deduplicate(request.candidates)
               /\ Distinct(out.scored)
               /\ Elements(out.scored) = { ScoreGroup(scoring, request.reference, g) : g \in GroupsOf(request.candidates) }
               /\ out.decisions = FilterDecisions(filtering, out.scored)
               /\ Distinct(e)
               /\ e = ScoredOf(Filtered(out.decisions, IsEligible))
               /\ Elements(e) = { s \in Elements(out.scored) : FilterDecision(filtering, s).decision = "eligible" }
               /\ \A s \in Elements(e) : ScoredShape(s)
               /\ The(out.allocation) = Allocation(e)
               /\ out.ordered = OrderIncluded(Allocation(e).included)
               /\ request.available \in 0..MaxSafe
<1> DEFINE candidates == request.candidates
           reference  == request.reference
           e          == Eligible(out.decisions)
<1>1. where \in WithScores /\ where \in WithGroups /\ where \in WithBatch /\ where \in WithDecisions /\ where \in WithAllocation
    BY DEF WithBatch, WithEvidence, WithGroups, WithScores, WithDecisions, WithAllocation
<1>2. IsSound(candidates) /\ out.groups = Deduplicate(candidates)
    BY <1>1, GroupsOfSound
<1>3. ScoringPolicyShape(scoring) /\ reference \in Int /\ request.available \in 0..MaxSafe
    BY DEF StageInv, CheckedInv, RequestShape, scoring
<1>4. out.scored = Score(scoring, reference, Deduplicate(candidates)) /\ out.decisions = FilterDecisions(filtering, out.scored)
    BY <1>1, <1>2 DEF StageInv, OutputInv
<1>5. Distinct(out.scored)
    BY <1>2, <1>3, <1>4, ScoredDistinct
<1>6. Elements(out.scored) = { ScoreGroup(scoring, reference, g) : g \in GroupsOf(candidates) }
    BY <1>2, <1>3, <1>4, ScoreIs
<1>7. Distinct(e) /\ e = ScoredOf(Filtered(out.decisions, IsEligible))
    BY <1>4, <1>5, DecisionsDistinct
<1>8. Elements(e) = { s \in Elements(out.scored) : FilterDecision(filtering, s).decision = "eligible" }
    <2>1. out.scored \in Seq(Elements(out.scored))
        BY <1>5 DEF Distinct
    <2>2. QED BY <1>4, <2>1, EligibleAre
<1>9. \A s \in Elements(e) : ScoredShape(s)
    BY <1>1, DecidedGroups
<1> HIDE DEF e
<1>10. The(out.allocation) = Allocation(e)
    <2>1. out.allocation = {Allocation(e)}
        BY <1>1 DEF StageInv, OutputInv, e
    <2>2. QED BY <2>1, TheOption
<1>11. out.ordered = OrderIncluded(Allocation(e).included)
    BY <1>10 DEF StageInv, OutputInv
<1>12. QED BY <1>2, <1>3, <1>4, <1>5, <1>6, <1>7, <1>8, <1>9, <1>10, <1>11 DEF e

\* The identifiers of the groups tell the scored groups apart.
LEMMA ScoredIds ==
    ASSUME StageInv, where \in WithOrder
    PROVE  /\ \A s, t \in Elements(out.scored) : IdOf(s) = IdOf(t) => s = t
           /\ \A s \in Elements(out.scored) : s.group \in GroupsOf(request.candidates)
<1> DEFINE G == GroupsOf(request.candidates)
           rank(g) == ScoreGroup(scoring, request.reference, g)
<1>1. IsSound(request.candidates) /\ Elements(out.scored) = { rank(g) : g \in G }
    BY StagesLeft
<1>2. \A g : rank(g).group = g
    BY DEF ScoreGroup
<1>3. \A g, h \in G : g.canonical.id = h.canonical.id => g = h
    BY <1>1, GroupsDiffer
<1> HIDE DEF rank, G
<1>4. \A s, t \in Elements(out.scored) : IdOf(s) = IdOf(t) => s = t
    BY <1>1, <1>2, <1>3 DEF IdOf
<1>5. QED BY <1>1, <1>2, <1>4 DEF G

\* What was included and what was ordered.
LEMMA OrderLeft ==
    ASSUME StageInv, where \in WithOrder
    PROVE  LET in == Allocation(Eligible(out.decisions)).included
           IN  /\ Distinct(ScoredOf(out.ordered))
               /\ Elements(out.ordered) = Elements(in)
               /\ Elements(ScoredOf(out.ordered)) = Elements(ScoredOf(in))
               /\ Distinct(ScoredOf(in))
               /\ Elements(ScoredOf(in)) \subseteq Elements(Eligible(out.decisions))
<1> DEFINE e  == Eligible(out.decisions)
           in == Allocation(e).included
           order == { q \in (DOMAIN in) \X (DOMAIN in) : BlockPrecedes(AllocatedBlock(in[q[1]]), AllocatedBlock(in[q[2]])) }
           bs    == [ i \in DOMAIN in |-> AllocatedBlock(in[i]) ]
<1>1. Distinct(e) /\ (\A s \in Elements(e) : ScoredShape(s)) /\ request.available \in 0..MaxSafe /\ out.ordered = OrderIncluded(in)
    BY StagesLeft
<1> HIDE DEF e
<1>2. Distinct(in) /\ Distinct(ScoredOf(in)) /\ Elements(ScoredOf(in)) \subseteq Elements(e)
    BY <1>1, AllocationIs
<1> HIDE DEF in
<1>3. \A ds : Elements(ScoredOf(ds)) = { d.scored : d \in Elements(ds) }
    BY DEF ScoredOf, Elements
<1>4. \A d \in Elements(in) : ScoredShape(d.scored)
    BY <1>1, <1>2, <1>3
<1>5. OrderIncluded(in) = Picked(in, DOMAIN in, order)
    BY DEF OrderIncluded, OrderForRendering, Sorted
<1>6. \A i \in DOMAIN bs : BlockShape(bs[i])
    BY <1>4 DEF ScoredShape, AllocatedBlock, Elements
<1>7. DOMAIN bs = DOMAIN in /\ \A i, j \in DOMAIN bs : << i, j >> \in order <=> BlockPrecedes(bs[i], bs[j])
    OBVIOUS
<1> HIDE DEF order, bs
<1>8. WeakOrder(order, DOMAIN in)
    <2>1. WeakOrder(order, DOMAIN bs)
        BY <1>6, <1>7, RenderingWeak
    <2>2. QED BY <1>7, <2>1
<1>9. Distinct(out.ordered)
    BY <1>1, <1>2, <1>5, <1>8, SortDistinct
<1>10. Elements(out.ordered) = Elements(in)
    <2>1. in \in Seq(Elements(in))
        BY <1>2 DEF Distinct
    <2>2. QED BY <1>1, <1>4, <2>1, OrderedDecisions
<1>11. \A c, d \in Elements(out.ordered) : c.scored = d.scored => c = d
    BY <1>2, <1>10, ScoredTellApart
<1>12. Distinct(ScoredOf(out.ordered))
    BY <1>9, <1>11, ScoredOfDistinct
<1>13. QED BY <1>2, <1>3, <1>10, <1>12 DEF in, e

\* A rendering is what was ordered, with a count.
RenderedInv ==
    where \in {"trace"} \cup WithTrace =>
        \E answer \in Nat : out.rendered = {Render(out.ordered, request.available, answer)}

\* The evidence, field by field.
LEMMA EvidenceIs ==
    /\ Evidence.request = request
    /\ Evidence.validated = StageSet(request.candidates)
    /\ Evidence.deduplicated = [scope |-> request.scope, docs |-> request.docs, groups |-> out.groups]
    /\ Evidence.scored = StageSet(out.scored)
    /\ Evidence.filteringPolicy = filtering.id
    /\ Evidence.eligible = StageSet(Eligible(out.decisions))
    /\ Evidence.decisions = out.decisions
    /\ Evidence.allocation = The(out.allocation)
    /\ Evidence.ordered = out.ordered
    /\ Evidence.rendered = The(out.rendered)
BY DEF Evidence

\* A set of candidates carries the labels of the request.
LEMMA StageSetIs ==
    ASSUME NEW candidates
    PROVE  /\ StageSet(candidates).scope = request.scope /\ StageSet(candidates).docs = request.docs
           /\ StageSet(candidates).policy = scoring.id /\ StageSet(candidates).reference = request.reference
           /\ StageSet(candidates).candidates = candidates
BY DEF StageSet

\* So does an allocation.
LEMMA AllocationLabels ==
    ASSUME NEW e
    PROVE  /\ Allocation(e).scope = request.scope /\ Allocation(e).docs = request.docs
           /\ Allocation(e).policy = scoring.id /\ Allocation(e).reference = request.reference
           /\ Allocation(e).available = request.available
BY DEF Allocation

\* A sequence holds what it holds.
LEMMA SameAsItself ==
    ASSUME NEW s
    PROVE  SameBag(s, s)
BY DEF SameBag

\* The evidence is about the request it is compared with.
LEMMA RequestCoherent ==
    ASSUME StageInv, where \in WithOrder
    PROVE  CoherentWithRequest(Evidence)
<1>1. The(out.allocation) = Allocation(Eligible(out.decisions))
    BY StagesLeft
<1>2. The(out.allocation).available = request.available
    BY <1>1, AllocationLabels
<1>3. Evidence.scored.policy = scoring.id /\ Evidence.scored.reference = request.reference
    BY EvidenceIs, StageSetIs
<1>4. /\ Evidence.validated.scope = request.scope /\ Evidence.validated.docs = request.docs
      /\ Evidence.validated.candidates = request.candidates
    BY EvidenceIs, StageSetIs
<1>5. SameBag(request.docs, request.docs) /\ SameBag(request.candidates, request.candidates)
    BY SameAsItself
<1>6. QED BY <1>2, <1>3, <1>4, <1>5, EvidenceIs DEF CoherentWithRequest, scoring, filtering

\* The groups are those of the batch.
LEMMA GroupsCoherent ==
    ASSUME StageInv, where \in WithOrder
    PROVE  CoherentGroups(Evidence)
<1> DEFINE groups == out.groups
           C == request.candidates
<1>1. IsSound(C) /\ groups = Deduplicate(C)
    BY StagesLeft
<1>2. Distinct(groups) /\ Elements(groups) = GroupsOf(C)
    BY <1>1, GroupsDistinct, DeduplicateLists
<1>3. ASSUME NEW g \in Elements(groups) PROVE GroupSound(g)
    <2>1. WrappersOf(g) # {} /\ \E w \in WrappersOf(g) : g.canonical = w.block
        BY <1>1, <1>2, GroupWrappers
    <2>2. PICK m \in Elements(g.members) : m.candidate.block = g.canonical
        BY <2>1 DEF WrappersOf
    <2>3. g.members # <<>>
        BY <2>2 DEF Elements
    <2>4. QED BY <2>2, <2>3 DEF GroupSound
<1>4. ASSUME NEW i \in DOMAIN groups, NEW j \in DOMAIN groups, groups[i].canonical.id = groups[j].canonical.id PROVE i = j
    <2>1. groups[i] \in GroupsOf(C) /\ groups[j] \in GroupsOf(C)
        BY <1>2 DEF Elements
    <2>2. groups[i] = groups[j]
        BY <1>1, <1>4, <2>1, GroupsDiffer
    <2>3. QED BY <1>2, <2>2 DEF Distinct
<1>5. SameBag(AllMembers(groups), C)
    <2> DEFINE ms == AllMembers(groups)
    <2>1. ms \in Seq(Elements(ms))
        BY <1>1, MembersAreBatch
    <2>2. Rearranges(ms, C)
        BY <1>1, MembersAreBatch
    <2> HIDE DEF ms
    <2>3. IsFiniteSet(DOMAIN ms)
        BY <2>1, PlacesFinite
    <2>4. QED BY <2>2, <2>3, RearrangedBag DEF ms
<1>6. /\ Evidence.deduplicated.groups = groups
      /\ Evidence.deduplicated.scope = Evidence.validated.scope
      /\ Evidence.validated.candidates = C
      /\ Evidence.deduplicated.docs = Evidence.validated.docs
    BY EvidenceIs, StageSetIs
<1>7. SameBag(Evidence.deduplicated.docs, Evidence.validated.docs)
    BY <1>6, SameAsItself
<1> HIDE DEF groups, C
<1>8. QED BY <1>3, <1>4, <1>5, <1>6, <1>7 DEF CoherentGroups

\* Each of them is scored once.
LEMMA ScoresCoherent ==
    ASSUME StageInv, where \in WithOrder
    PROVE  CoherentScores(Evidence)
<1> DEFINE groups == out.groups
           C == request.candidates
           ids == [ i \in DOMAIN groups |-> groups[i].canonical.id ]
           rank(g) == ScoreGroup(scoring, request.reference, g)
<1>1. IsSound(C) /\ groups = Deduplicate(C) /\ Distinct(out.scored) /\ Elements(out.scored) = { rank(g) : g \in GroupsOf(C) }
    BY StagesLeft
<1>2. Distinct(groups) /\ Elements(groups) = GroupsOf(C)
    BY <1>1, GroupsDistinct, DeduplicateLists
<1>3. Distinct(IdSeq(out.scored)) /\ Elements(IdSeq(out.scored)) = { IdOf(s) : s \in Elements(out.scored) }
    BY <1>1, ScoredIds, IdsDistinct
<1>4. Distinct(ids) /\ Elements(ids) = { g.canonical.id : g \in GroupsOf(C) }
    <2>1. DOMAIN ids = DOMAIN groups /\ ids = [ i \in DOMAIN ids |-> ids[i] ] /\ \A i \in DOMAIN groups : ids[i] = groups[i].canonical.id
        OBVIOUS
    <2> HIDE DEF ids
    <2>2. ASSUME NEW i \in DOMAIN groups, NEW j \in DOMAIN groups, ids[i] = ids[j] PROVE groups[i] = groups[j]
        <3>1. groups[i] \in GroupsOf(C) /\ groups[j] \in GroupsOf(C)
            BY <1>2 DEF Elements
        <3>2. QED BY <1>1, <2>1, <2>2, <3>1, GroupsDiffer
    <2>3. Distinct(ids)
        BY <1>2, <2>1, <2>2, MapDistinct
    <2>4. Elements(ids) = { g.canonical.id : g \in Elements(groups) }
        BY <2>1 DEF Elements
    <2>5. QED BY <1>2, <2>3, <2>4
<1>5. \A g : IdOf(rank(g)) = g.canonical.id /\ rank(g).group = g
    BY DEF IdOf, ScoreGroup
<1> HIDE DEF rank
<1>6. Elements(IdSeq(out.scored)) = Elements(ids)
    BY <1>1, <1>3, <1>4, <1>5
<1> HIDE DEF ids
<1>7. CoversExactlyOnce(IdSeq(out.scored), ids)
    BY <1>3, <1>4, <1>6, DistinctCovers
<1>8. \A s \in Elements(out.scored) : s.group \in Elements(groups)
    BY <1>1, <1>2, <1>5
<1>9. Evidence.deduplicated.groups = groups /\ Evidence.scored.candidates = out.scored
    BY EvidenceIs, StageSetIs
<1>10. Envelope(Evidence.scored) = Envelope(Evidence.deduplicated)
    <2>1. Evidence.scored.scope = Evidence.deduplicated.scope /\ Evidence.scored.docs = Evidence.deduplicated.docs
        BY EvidenceIs, StageSetIs
    <2>2. QED BY <2>1 DEF Envelope
<1> HIDE DEF groups
<1>11. QED BY <1>7, <1>8, <1>9, <1>10 DEF CoherentScores, ids

\* Stage sets carry the same labels.
LEMMA StageLabels ==
    /\ Envelope(Evidence.eligible) = Envelope(Evidence.scored)
    /\ PolicyOf(Evidence.eligible) = PolicyOf(Evidence.scored)
    /\ \A e : The(out.allocation) = Allocation(e) =>
          /\ Envelope(Evidence.allocation) = Envelope(Evidence.eligible)
          /\ PolicyOf(Evidence.allocation) = PolicyOf(Evidence.eligible)
<1>1. /\ Evidence.scored.scope = request.scope /\ Evidence.scored.docs = request.docs
      /\ Evidence.scored.policy = scoring.id /\ Evidence.scored.reference = request.reference
    BY EvidenceIs, StageSetIs
<1>2. /\ Evidence.eligible.scope = request.scope /\ Evidence.eligible.docs = request.docs
      /\ Evidence.eligible.policy = scoring.id /\ Evidence.eligible.reference = request.reference
    BY EvidenceIs, StageSetIs
<1>3. ASSUME NEW e, The(out.allocation) = Allocation(e)
      PROVE  /\ Evidence.allocation.scope = request.scope /\ Evidence.allocation.docs = request.docs
             /\ Evidence.allocation.policy = scoring.id /\ Evidence.allocation.reference = request.reference
    BY <1>3, EvidenceIs, AllocationLabels
<1>4. QED BY <1>1, <1>2, <1>3 DEF Envelope, PolicyOf

\* Each of them is decided on once, and what was admitted goes on.
LEMMA FilteringCoherent ==
    ASSUME StageInv, where \in WithOrder
    PROVE  CoherentFiltering(Evidence)
<1>1. Distinct(out.scored) /\ out.decisions = FilterDecisions(filtering, out.scored)
    BY StagesLeft
<1>2. Eligible(out.decisions) = ScoredOf(Filtered(out.decisions, IsEligible))
    BY StagesLeft
<1>3. ScoredOf(out.decisions) = out.scored
    BY <1>1, DecisionsDistinct
<1>4. Distinct(IdSeq(out.scored))
    BY <1>1, ScoredIds, IdsDistinct
<1>5. CoversExactlyOnce(IdSeq(out.scored), IdSeq(out.scored))
    BY <1>4, DistinctCovers
<1>6. Restates(out.scored, out.scored)
    BY DEF Restates
<1>7. Evidence.decisions = out.decisions /\ Evidence.scored.candidates = out.scored
      /\ Evidence.eligible.candidates = Eligible(out.decisions)
    BY EvidenceIs, StageSetIs
<1>8. IdSeq(Evidence.eligible.candidates) = IdSeq(ScoredOf(Filtered(Evidence.decisions, IsEligible)))
    BY <1>2, <1>7
<1>9. CoversExactlyOnce(IdSeq(ScoredOf(Evidence.decisions)), IdSeq(Evidence.scored.candidates))
      /\ Restates(Evidence.scored.candidates, ScoredOf(Evidence.decisions))
    BY <1>3, <1>5, <1>6, <1>7
<1>10. Envelope(Evidence.eligible) = Envelope(Evidence.scored) /\ PolicyOf(Evidence.eligible) = PolicyOf(Evidence.scored)
    BY StageLabels
<1>11. QED BY <1>8, <1>9, <1>10 DEF CoherentFiltering

\* Each of those gets its turn at the budget once, and the amounts add up.
LEMMA AllocationCoherent ==
    ASSUME StageInv, where \in WithOrder
    PROVE  CoherentAllocation(Evidence)
<1> DEFINE e == Eligible(out.decisions)
           a == Allocation(e)
           decided == ScoredOf(a.included \o a.excluded)
<1>1. Distinct(e) /\ (\A s \in Elements(e) : ScoredShape(s)) /\ request.available \in 0..MaxSafe /\ The(out.allocation) = a
    BY StagesLeft
<1>2. Elements(e) \subseteq Elements(out.scored)
    <2>1. Elements(e) = { s \in Elements(out.scored) : FilterDecision(filtering, s).decision = "eligible" }
        BY StagesLeft
    <2>2. QED BY <2>1
<1> HIDE DEF e
<1>3. Distinct(decided) /\ Elements(decided) = Elements(e) /\ Accounted(a)
    <2>1. Distinct(decided)
        BY <1>1, AllocationIs
    <2>2. Elements(decided) = Elements(e)
        BY <1>1, AllocationIs
    <2>3. Accounted(a)
        BY <1>1, AllocationIs
    <2>4. QED BY <2>1, <2>2, <2>3
<1>4. Envelope(Evidence.allocation) = Envelope(Evidence.eligible) /\ PolicyOf(Evidence.allocation) = PolicyOf(Evidence.eligible)
    BY <1>1, StageLabels
<1> HIDE DEF decided, a
<1>5. \A s, t \in Elements(e) : IdOf(s) = IdOf(t) => s = t
    BY <1>2, ScoredIds
<1>6. Distinct(IdSeq(decided)) /\ Elements(IdSeq(decided)) = { IdOf(s) : s \in Elements(e) }
    BY <1>3, <1>5, IdsDistinct
<1>7. Distinct(IdSeq(e)) /\ Elements(IdSeq(e)) = { IdOf(s) : s \in Elements(e) }
    BY <1>1, <1>5, IdsDistinct
<1>8. CoversExactlyOnce(IdSeq(decided), IdSeq(e))
    BY <1>6, <1>7, DistinctCovers
<1>9. Restates(out.scored, decided)
    BY <1>2, <1>3 DEF Restates
<1>10. /\ Evidence.allocation = a /\ Evidence.eligible.candidates = e /\ Evidence.scored.candidates = out.scored
       /\ ScoredOf(Evidence.allocation.included \o Evidence.allocation.excluded) = decided
    BY <1>1, EvidenceIs, StageSetIs DEF decided, e
<1>11. QED BY <1>3, <1>4, <1>8, <1>9, <1>10 DEF CoherentAllocation

\* What was included is rendered, in another order.
LEMMA RenderingCoherent ==
    ASSUME StageInv, RenderedInv, where \in {"trace"} \cup WithTrace
    PROVE  CoherentRendering(Evidence)
<1> DEFINE e  == Eligible(out.decisions)
           in == Allocation(e).included
<1>0. where \in WithOrder
    BY DEF WithOrder
<1>1. The(out.allocation) = Allocation(e) /\ out.ordered = OrderIncluded(in)
    BY <1>0, StagesLeft
<1>2. Elements(e) \subseteq Elements(out.scored)
    <2>1. Elements(e) = { s \in Elements(out.scored) : FilterDecision(filtering, s).decision = "eligible" }
        BY <1>0, StagesLeft
    <2>2. QED BY <2>1
<1>3. /\ Distinct(ScoredOf(out.ordered)) /\ Elements(out.ordered) = Elements(in) /\ Distinct(ScoredOf(in))
      /\ Elements(ScoredOf(out.ordered)) = Elements(ScoredOf(in)) /\ Elements(ScoredOf(in)) \subseteq Elements(e)
    BY <1>0, OrderLeft
<1> HIDE DEF in, e
<1>4. \A s, t \in Elements(ScoredOf(in)) : IdOf(s) = IdOf(t) => s = t
    BY <1>0, <1>2, <1>3, ScoredIds
<1>5. Distinct(IdSeq(ScoredOf(in))) /\ Elements(IdSeq(ScoredOf(in))) = { IdOf(s) : s \in Elements(ScoredOf(in)) }
    BY <1>3, <1>4, IdsDistinct
<1>6. Distinct(IdSeq(ScoredOf(out.ordered))) /\ Elements(IdSeq(ScoredOf(out.ordered))) = { IdOf(s) : s \in Elements(ScoredOf(in)) }
    BY <1>3, <1>4, IdsDistinct
<1>7. CoversExactlyOnce(IdSeq(ScoredOf(out.ordered)), IdSeq(ScoredOf(in)))
    BY <1>5, <1>6, DistinctCovers
<1>8. PICK answer \in Nat : out.rendered = {Render(out.ordered, request.available, answer)}
    BY DEF RenderedInv
<1>9. The(out.rendered) = Render(out.ordered, request.available, answer)
    BY <1>8, TheOption
<1>10. The(out.rendered).fits = (The(out.rendered).tokens <= request.available)
    BY <1>9 DEF Render
<1>11. /\ Evidence.ordered = out.ordered /\ Evidence.allocation.included = in
       /\ Evidence.rendered = The(out.rendered) /\ Evidence.allocation.available = request.available
    BY <1>1, EvidenceIs, AllocationLabels DEF in
<1>12. QED BY <1>3, <1>7, <1>10, <1>11 DEF CoherentRendering

\* The builder finds nothing wrong with the evidence of the stages.
LEMMA StagesCoherent ==
    ASSUME StageInv, RenderedInv, where \in {"trace"} \cup WithTrace
    PROVE  CoherentWithRequest(Evidence) /\ CoherentStages(Evidence)
<1>1. where \in WithOrder
    BY DEF WithOrder
<1>2. CoherentWithRequest(Evidence)
    BY <1>1, RequestCoherent
<1>3. CoherentGroups(Evidence) /\ CoherentScores(Evidence) /\ CoherentFiltering(Evidence)
    BY <1>1, GroupsCoherent, ScoresCoherent, FilteringCoherent
<1>4. CoherentAllocation(Evidence) /\ CoherentRendering(Evidence)
    BY <1>1, AllocationCoherent, RenderingCoherent
<1>5. QED BY <1>2, <1>3, <1>4 DEF CoherentStages

-----------------------------------------------------------------------------
(* The snapshot of the groups. *)

\* The rank of a group, which is what the later stages hold of it.
RankOf(g) == ScoreGroup(scoring, request.reference, g)

\* Each group has one rank, and the decision looked up for it is the one made
\* on that rank.
LEMMA GroupDecided ==
    ASSUME StageInv, where \in WithOrder, NEW g \in Elements(out.groups)
    PROVE  /\ RankOf(g) \in Elements(out.scored)
           /\ IdOf(RankOf(g)) = g.canonical.id
           /\ DecisionOn(out.decisions, g.canonical.id) = FilterDecision(filtering, RankOf(g))
<1> DEFINE s  == RankOf(g)
           id == g.canonical.id
           decide(x) == FilterDecision(filtering, x)
<1>1. IsSound(request.candidates) /\ out.groups = Deduplicate(request.candidates)
      /\ Elements(out.scored) = { RankOf(h) : h \in GroupsOf(request.candidates) }
      /\ out.decisions = FilterDecisions(filtering, out.scored) /\ Distinct(out.scored)
    BY StagesLeft DEF RankOf
<1>2. g \in GroupsOf(request.candidates)
    BY <1>1, DeduplicateLists
<1>3. s \in Elements(out.scored)
    BY <1>1, <1>2
<1>4. IdOf(s) = id
    BY DEF IdOf, RankOf, ScoreGroup
<1>5. Elements(out.decisions) = { decide(x) : x \in Elements(out.scored) }
    <2>1. out.scored \in Seq(Elements(out.scored))
        BY <1>1 DEF Distinct
    <2>2. QED BY <1>1, <2>1, EligibleAre
<1>6. \A x : decide(x).scored = x
    BY DecisionIs
<1> HIDE DEF s, id, decide
<1>7. decide(s) \in Elements(out.decisions) /\ IdOf(decide(s).scored) = id
    BY <1>3, <1>4, <1>5, <1>6
<1>8. ASSUME NEW d \in Elements(out.decisions), IdOf(d.scored) = id PROVE d = decide(s)
    <2>1. PICK x \in Elements(out.scored) : d = decide(x)
        BY <1>5
    <2>2. IdOf(x) = IdOf(s)
        BY <1>4, <1>6, <1>8, <2>1
    <2>3. x = s
        BY <1>3, <2>2, ScoredIds
    <2>4. QED BY <2>1, <2>3
<1>9. DecisionOn(out.decisions, id) = decide(s)
    BY <1>7, <1>8 DEF DecisionOn
<1>10. QED BY <1>3, <1>4, <1>9 DEF s, id, decide

\* The snapshot of a group.
LEMMA TracedIs ==
    ASSUME StageInv, where \in WithOrder, NEW g \in Elements(out.groups)
    PROVE  LET t == TraceGroup(Evidence, g)
               d == FilterDecision(filtering, RankOf(g))
           IN  /\ t.canonical = TraceCanonical(g.canonical)
               /\ t.selection = g.reason
               /\ t.members = [ i \in DOMAIN g.members |-> TraceMember(g.members[i]) ]
               /\ t.evidence = RankOf(g).evidence
               /\ t.filtering = TraceDecision(d)
               /\ t.disposition = IF d.decision = "filtered" THEN "filtered"
                                  ELSE IF DecidedIn(Evidence.allocation.included, g.canonical.id) THEN "included"
                                  ELSE "excluded"
               /\ t.position = PositionOf(out.ordered, g.canonical.id)
<1> DEFINE d == FilterDecision(filtering, RankOf(g))
           id == g.canonical.id
<1>1. Evidence.decisions = out.decisions /\ Evidence.ordered = out.ordered
    BY EvidenceIs
<1>2. DecisionOn(Evidence.decisions, id) = d /\ d.scored = RankOf(g)
    BY <1>1, GroupDecided, DecisionIs
<1>3. Disposition(Evidence, id) = IF d.decision = "filtered" THEN "filtered"
                                  ELSE IF DecidedIn(Evidence.allocation.included, id) THEN "included"
                                  ELSE "excluded"
    BY <1>2, Zenon DEF Disposition
<1> HIDE DEF d
<1>4. QED BY <1>1, <1>2, <1>3 DEF TraceGroup, d

\* Whether a group is included, and where, follows from what was ordered.
LEMMA TracedWhere ==
    ASSUME StageInv, where \in WithOrder, NEW g \in Elements(out.groups)
    PROVE  LET t == TraceGroup(Evidence, g)
           IN  /\ t.disposition \in {"filtered", "included", "excluded"}
               /\ t.disposition = "filtered" <=> FilterDecision(filtering, RankOf(g)).decision = "filtered"
               /\ t.disposition = "included" <=> RankOf(g) \in Elements(ScoredOf(out.ordered))
               /\ t.position = { i \in DOMAIN out.ordered : ScoredOf(out.ordered)[i] = RankOf(g) }
<1> DEFINE s  == RankOf(g)
           id == g.canonical.id
           d  == FilterDecision(filtering, s)
           t  == TraceGroup(Evidence, g)
           e  == Eligible(out.decisions)
           in == Allocation(e).included
<1>1. s \in Elements(out.scored) /\ IdOf(s) = id
    BY GroupDecided
<1>2. t.disposition = (IF d.decision = "filtered" THEN "filtered"
                       ELSE IF DecidedIn(Evidence.allocation.included, id) THEN "included" ELSE "excluded")
      /\ t.position = PositionOf(out.ordered, id)
    BY TracedIs
<1>3. Elements(e) = { x \in Elements(out.scored) : FilterDecision(filtering, x).decision = "eligible" }
      /\ The(out.allocation) = Allocation(e)
    BY StagesLeft
<1>4. d.decision \in {"eligible", "filtered"}
    BY DecisionIs
<1>5. /\ Elements(ScoredOf(out.ordered)) = Elements(ScoredOf(in)) /\ Elements(ScoredOf(in)) \subseteq Elements(e)
    BY OrderLeft
<1>6. Evidence.allocation.included = in
    BY <1>3, EvidenceIs
<1> HIDE DEF t, in
<1>7. \A ds : Elements(ScoredOf(ds)) = { c.scored : c \in Elements(ds) }
      /\ DOMAIN ScoredOf(ds) = DOMAIN ds /\ \A i \in DOMAIN ds : ScoredOf(ds)[i] = ds[i].scored
    BY DEF ScoredOf, Elements
<1>8. s \in Elements(e) <=> d.decision = "eligible"
    BY <1>1, <1>3
<1>9. \A x \in Elements(e) : IdOf(x) = id => x = s
    BY <1>1, <1>3, ScoredIds
<1> HIDE DEF d, e, s
<1>10. DecidedIn(in, id) <=> s \in Elements(ScoredOf(in))
    <2>1. ASSUME NEW c \in Elements(in), IdOf(c.scored) = id PROVE s \in Elements(ScoredOf(in))
        <3>1. c.scored \in Elements(ScoredOf(in))
            BY <1>7
        <3>2. c.scored = s
            BY <1>5, <1>9, <2>1, <3>1
        <3>3. QED BY <3>1, <3>2
    <2>2. ASSUME s \in Elements(ScoredOf(in)) PROVE \E c \in Elements(in) : IdOf(c.scored) = id
        <3>1. PICK c \in Elements(in) : c.scored = s
            BY <1>7, <2>2
        <3>2. QED BY <1>1, <3>1
    <2>3. QED BY <2>1, <2>2 DEF DecidedIn
<1>11. PositionOf(out.ordered, id) = { i \in DOMAIN out.ordered : ScoredOf(out.ordered)[i] = s }
    <2>1. ASSUME NEW i \in DOMAIN out.ordered PROVE IdOf(out.ordered[i].scored) = id <=> ScoredOf(out.ordered)[i] = s
        <3>1. ScoredOf(out.ordered)[i] = out.ordered[i].scored
            BY <1>7
        <3>2. ScoredOf(out.ordered)[i] \in Elements(ScoredOf(out.ordered))
            BY <1>7 DEF Elements
        <3>3. ScoredOf(out.ordered)[i] \in Elements(e)
            BY <1>5, <3>2
        <3>4. QED BY <1>1, <1>9, <3>1, <3>3
    <2>2. QED BY <2>1 DEF PositionOf
<1>12. s \in Elements(ScoredOf(in)) => d.decision # "filtered"
    BY <1>5, <1>8
<1>13. QED BY <1>2, <1>4, <1>5, <1>6, <1>10, <1>11, <1>12 DEF t, s, d

\* The snapshots of all groups.
TracedGroups == [ i \in DOMAIN out.groups |-> TraceGroup(Evidence, out.groups[i]) ]

\* What was ordered are ranks of groups, and each stands once.
LEMMA OrderedRanks ==
    ASSUME StageInv, where \in WithOrder
    PROVE  /\ Distinct(out.groups)
           /\ Distinct(ScoredOf(out.ordered))
           /\ Len(out.ordered) \in Nat /\ DOMAIN out.ordered = 1..Len(out.ordered)
           /\ Len(ScoredOf(out.ordered)) = Len(out.ordered) /\ DOMAIN ScoredOf(out.ordered) = DOMAIN out.ordered
           /\ \A s \in Elements(ScoredOf(out.ordered)) : \E i \in DOMAIN out.groups : s = RankOf(out.groups[i])
           /\ \A i, j \in DOMAIN out.groups : RankOf(out.groups[i]) = RankOf(out.groups[j]) => i = j
<1> DEFINE e == Eligible(out.decisions)
           ss == ScoredOf(out.ordered)
<1>1. /\ IsSound(request.candidates) /\ out.groups = Deduplicate(request.candidates)
      /\ Elements(out.scored) = { RankOf(h) : h \in GroupsOf(request.candidates) }
      /\ Elements(e) = { s \in Elements(out.scored) : FilterDecision(filtering, s).decision = "eligible" }
      /\ \A s \in Elements(e) : ScoredShape(s)
    BY StagesLeft DEF RankOf
<1>2. Distinct(out.groups) /\ Elements(out.groups) = GroupsOf(request.candidates)
    BY <1>1, GroupsDistinct, DeduplicateLists
<1>3. Distinct(ss) /\ Elements(ss) \subseteq Elements(e)
    BY OrderLeft
<1>4. DOMAIN ss = DOMAIN out.ordered
    BY DEF ScoredOf
<1>5. Len(ss) \in Nat /\ DOMAIN ss = 1..Len(ss)
    BY <1>3, DistinctCount
<1> HIDE DEF ss, e
<1>6. out.ordered \in Seq(Elements(out.ordered))
    <2> DEFINE in == Allocation(Eligible(out.decisions)).included
    <2>1. Distinct(Eligible(out.decisions)) /\ (\A s \in Elements(Eligible(out.decisions)) : ScoredShape(s))
          /\ request.available \in 0..MaxSafe /\ out.ordered = OrderIncluded(in)
        BY StagesLeft
    <2>2. Distinct(in)
        BY <2>1, AllocationIs
    <2>3. out.ordered = Picked(in, DOMAIN in, { q \in (DOMAIN in) \X (DOMAIN in) :
                            BlockPrecedes(AllocatedBlock(in[q[1]]), AllocatedBlock(in[q[2]])) })
        BY <2>1 DEF OrderIncluded, OrderForRendering, Sorted
    <2>4. out.ordered = [ k \in DOMAIN out.ordered |-> out.ordered[k] ]
        BY <2>3 DEF Picked
    <2>5. QED BY <1>4, <1>5, <2>4, LenIsLast
<1>7. Len(out.ordered) \in Nat /\ DOMAIN out.ordered = 1..Len(out.ordered) /\ Len(ss) = Len(out.ordered)
    <2> DEFINE m == Len(out.ordered)
               n == Len(ss)
    <2>1. m \in Nat /\ DOMAIN out.ordered = 1..m
        BY <1>6
    <2> HIDE DEF m, n
    <2>2. n \in Nat /\ 1..m = 1..n
        BY <1>4, <1>5, <2>1 DEF n
    <2>3. m = n
        BY <2>1, <2>2
    <2>4. QED BY <2>1, <2>3 DEF m, n
<1>8. \A g : RankOf(g).group = g
    BY DEF RankOf, ScoreGroup
<1>9. ASSUME NEW s \in Elements(ss) PROVE \E i \in DOMAIN out.groups : s = RankOf(out.groups[i])
    <2>1. PICK g \in Elements(out.groups) : s = RankOf(g)
        BY <1>1, <1>2, <1>3
    <2>2. QED BY <2>1 DEF Elements
<1>10. ASSUME NEW i \in DOMAIN out.groups, NEW j \in DOMAIN out.groups, RankOf(out.groups[i]) = RankOf(out.groups[j])
       PROVE  i = j
    <2>1. out.groups[i] = out.groups[j]
        BY <1>8, <1>10
    <2>2. QED BY <1>2, <2>1 DEF Distinct
<1>11. QED BY <1>2, <1>3, <1>4, <1>7, <1>9, <1>10 DEF ss

\* The positions of the included groups are those of the ordered blocks.
LEMMA PositionsHold ==
    ASSUME StageInv, where \in WithOrder
    PROVE  /\ \A i \in DOMAIN out.groups : TracedGroups[i].canonical.tokens = out.groups[i].canonical.tokens
                                           /\ out.groups[i].canonical.tokens \in Nat
           /\ \A i \in DOMAIN out.groups : TracedGroups[i].disposition \in {"filtered", "included", "excluded"}
           /\ TracedGroups \in Seq(Elements(TracedGroups))
           /\ RenderPositionsHold(TracedGroups)
<1> DEFINE groups == out.groups
           traced == TracedGroups
           D  == DOMAIN groups
           ss == ScoredOf(out.ordered)
           I  == Disposed(traced, "included")
           c  == [ i \in I |-> RankOf(groups[i]) ]
<1>1. traced = [ i \in DOMAIN traced |-> traced[i] ] /\ DOMAIN traced = D /\ \A i \in D : traced[i] = TraceGroup(Evidence, groups[i])
    BY DEF TracedGroups
<1>2. /\ Distinct(groups) /\ Distinct(ss)
      /\ Len(out.ordered) \in Nat /\ DOMAIN out.ordered = 1..Len(out.ordered)
      /\ Len(ss) = Len(out.ordered) /\ DOMAIN ss = DOMAIN out.ordered
      /\ \A s \in Elements(ss) : \E i \in D : s = RankOf(groups[i])
      /\ \A i, j \in D : RankOf(groups[i]) = RankOf(groups[j]) => i = j
    BY OrderedRanks
<1>3. Len(groups) \in Nat /\ D = 1..Len(groups) /\ \A i \in D : groups[i] \in Elements(groups)
    BY <1>2 DEF Distinct, Elements
<1> HIDE DEF traced, ss
<1>4. traced \in Seq(Elements(traced))
    BY <1>1, <1>3, LenIsLast
<1>5. ASSUME NEW i \in D
      PROVE  /\ traced[i].disposition \in {"filtered", "included", "excluded"}
             /\ traced[i].disposition = "included" <=> RankOf(groups[i]) \in Elements(ss)
             /\ traced[i].position = { k \in DOMAIN ss : ss[k] = RankOf(groups[i]) }
             /\ traced[i].canonical.tokens = groups[i].canonical.tokens
             /\ groups[i].canonical.tokens \in Nat
    <2>1. groups[i] \in Elements(groups) /\ traced[i] = TraceGroup(Evidence, groups[i])
        BY <1>1, <1>3
    <2>2. /\ traced[i].disposition \in {"filtered", "included", "excluded"}
          /\ traced[i].disposition = "included" <=> RankOf(groups[i]) \in Elements(ss)
        BY <2>1, TracedWhere DEF ss
    <2>3. traced[i].position = { k \in DOMAIN out.ordered : ScoredOf(out.ordered)[k] = RankOf(groups[i]) }
        BY <2>1, TracedWhere
    <2>4. traced[i].canonical = TraceCanonical(groups[i].canonical)
        BY <2>1, TracedIs
    <2>5. groups[i].canonical.tokens \in Nat
        <3>1. IsSound(request.candidates) /\ groups = Deduplicate(request.candidates)
            BY StagesLeft
        <3>2. groups[i] \in GroupsOf(request.candidates)
            BY <2>1, <3>1, DeduplicateLists
        <3>3. PICK w \in Elements(request.candidates) : groups[i].canonical = w.block
            BY <3>1, <3>2, CanonicalIds
        <3>4. QED BY <3>1, <3>3 DEF IsSound, IsBatch, WrapperShape, BlockShape
    <2>6. QED BY <1>2, <2>2, <2>3, <2>4, <2>5 DEF TraceCanonical, ss
<1>6. ASSUME NEW g \in Elements(traced) PROVE g.disposition = "included" <=> g.position # {}
    <2>1. PICK i \in D : g = traced[i]
        BY <1>1 DEF Elements
    <2>2. QED BY <1>5, <2>1 DEF Elements
<1>7. UNION { g.position : g \in Elements(traced) } = DOMAIN ss
    <2>1. ASSUME NEW g \in Elements(traced), NEW k \in g.position PROVE k \in DOMAIN ss
        <3>1. PICK i \in D : g = traced[i]
            BY <1>1 DEF Elements
        <3>2. QED BY <1>5, <2>1, <3>1
    <2>2. ASSUME NEW k \in DOMAIN ss PROVE \E g \in Elements(traced) : k \in g.position
        <3>1. PICK i \in D : ss[k] = RankOf(groups[i])
            BY <1>2 DEF Elements
        <3>2. k \in traced[i].position
            BY <1>5, <3>1
        <3>3. traced[i] \in Elements(traced)
            BY <1>1 DEF Elements
        <3>4. QED BY <3>2, <3>3
    <2>3. QED BY <2>1, <2>2
<1>8. Len(With(traced, "included")) = Len(ss)
    <2>1. Len(With(traced, "included")) = Cardinality(I)
        <3>1. \A i \in DOMAIN traced : traced[i].canonical.tokens \in Nat
            BY <1>1, <1>5
        <3>2. QED BY <1>4, <3>1, WithIs
    <2>2. I = { i \in D : RankOf(groups[i]) \in Elements(ss) }
        BY <1>1, <1>5 DEF Disposed
    <2>3. c \in [I -> Elements(ss)] /\ (\A i \in I : c[i] = RankOf(groups[i])) /\ I \in SUBSET D
        BY <2>2
    <2>4. IsFiniteSet(D)
        <3>1. IsFiniteSet(DOMAIN groups)
            BY <1>2, DistinctCount
        <3>2. QED BY <3>1
    <2> HIDE DEF c, I, D, groups
    <2>5. \A i, j \in I : c[i] = c[j] => i = j
        BY <1>2, <2>3
    <2>6. \A s \in Elements(ss) : \E i \in I : c[i] = s
        BY <1>2, <2>2, <2>3
    <2>7. c \in Bijection(I, Elements(ss))
        BY <2>3, <2>5, <2>6, IsArrangement
    <2>8. IsFiniteSet(I)
        BY <2>3, <2>4, FS_Subset
    <2>9. Cardinality(I) = Cardinality(Elements(ss))
        <3>1. ExistsBijection(I, Elements(ss))
            BY <2>7 DEF ExistsBijection
        <3>2. QED BY <2>8, <3>1, FS_Bijection
    <2>10. Cardinality(Elements(ss)) = Len(ss)
        BY <1>2, DistinctCount
    <2>11. QED BY <2>1, <2>9, <2>10
<1>9. RenderPositionsHold(traced)
    BY <1>2, <1>6, <1>7, <1>8 DEF RenderPositionsHold
<1>10. QED BY <1>4, <1>5, <1>9 DEF traced

\* The result of the builder holds unless the token counts of the batch are too
\* many to be summed.
LEMMA ResultIsHeld ==
    ASSUME StageInv, where \in WithOrder, SumOf(BatchTokens(request.candidates)) <= MaxSafe
    PROVE  ResultHolds(BuildTrace(Evidence))
<1> DEFINE C == request.candidates
           groups == out.groups
           traced == TracedGroups
           ms == AllMembers(groups)
<1>1. IsSound(C) /\ groups = Deduplicate(C)
    BY StagesLeft
<1>2. /\ \A i \in DOMAIN groups : traced[i].canonical.tokens = groups[i].canonical.tokens
                                   /\ groups[i].canonical.tokens \in Nat
      /\ \A i \in DOMAIN groups : traced[i].disposition \in {"filtered", "included", "excluded"}
      /\ traced \in Seq(Elements(traced))
      /\ RenderPositionsHold(traced)
    BY PositionsHold
<1>3. DOMAIN traced = DOMAIN groups
    BY DEF TracedGroups
<1>4. Distinct(groups)
    BY <1>1, GroupsDistinct
<1>5. Len(groups) \in Nat /\ DOMAIN groups = 1..Len(groups)
    BY <1>4 DEF Distinct
<1> HIDE DEF traced
<1>6. Len(traced) = Len(groups)
    <2>1. Len(traced) \in Nat /\ DOMAIN traced = 1..Len(traced)
        BY <1>2
    <2>2. QED BY <1>3, <1>5, <2>1
<1>7. ContentTokens(traced) = ContentTokens(groups)
    BY <1>2, <1>3 DEF ContentTokens
<1>8. ms \in Seq(Elements(ms)) /\ Len(ms) = Len(C)
    <2>1. ms \in Seq(Elements(ms))
        BY <1>1, MembersAreBatch
    <2>2. Len(ms) = Len(C)
        BY <1>1, MembersAreBatch
    <2>3. QED BY <2>1, <2>2
<1>9. Rearranges(ms, C)
    BY <1>1, MembersAreBatch
<1>10. Len(groups) <= Len(C)
    BY <1>1, CanonicalWithinBatch
<1>11. SumOf(BatchTokens(C)) \in Nat /\ SumOf(ContentTokens(groups)) <= SumOf(BatchTokens(C))
    <2>1. SumOf(BatchTokens(C)) \in Nat
        BY <1>1, CanonicalWithinBatch
    <2>2. SumOf(ContentTokens(groups)) <= SumOf(BatchTokens(C))
        BY <1>1, CanonicalWithinBatch
    <2>3. QED BY <2>1, <2>2
<1>12. Len(C) \in Nat /\ Len(C) <= MaxSafe
    BY <1>1 DEF IsSound, IsBatch, StageInv, CheckedInv, RequestShape
<1> HIDE DEF ms, groups
<1>13. SumOf(BatchTokens(ms)) = SumOf(BatchTokens(C))
    <2>1. IsFiniteSet(DOMAIN ms)
        BY <1>8, PlacesFinite
    <2>2. PICK q \in Bijection(DOMAIN ms, DOMAIN C) : \A k \in DOMAIN ms : ms[k] = C[q[k]]
        BY <1>9 DEF Rearranges
    <2>3. q \in [DOMAIN ms -> DOMAIN C]
        BY <2>2, Arranges
    <2>4. \A x \in DOMAIN C : C[x].block.tokens \in Nat
        BY <1>1 DEF IsSound, IsBatch, WrapperShape, BlockShape, Elements
    <2>5. \A k \in DOMAIN ms : ms[k].block.tokens \in Nat
        BY <2>2, <2>3, <2>4
    <2>6. QED BY <1>9, <2>1, <2>5, RearrangedSum
<1>14. TotalsHold(Totals(traced, ms))
    <2>1. \A i \in DOMAIN traced : /\ traced[i].canonical.tokens \in Nat
                                   /\ traced[i].disposition \in {"filtered", "included", "excluded"}
        BY <1>2, <1>3
    <2>2. Len(ms) \in Nat /\ Len(traced) <= Len(ms) /\ Len(ms) <= MaxSafe
        BY <1>6, <1>8, <1>10, <1>12
    <2>3. SumOf(BatchTokens(ms)) \in Nat /\ SumOf(BatchTokens(ms)) <= MaxSafe
          /\ SumOf(ContentTokens(traced)) <= SumOf(BatchTokens(ms))
        BY <1>7, <1>11, <1>13
    <2>4. QED BY <1>2, <2>1, <2>2, <2>3, TotalsAddUp
<1>15. BuildTrace(Evidence).groups = traced /\ BuildTrace(Evidence).totals = Totals(traced, ms)
    <2>1. Evidence.deduplicated.groups = groups
        BY EvidenceIs DEF groups
    <2> DEFINE all == [ i \in DOMAIN Evidence.deduplicated.groups |-> TraceGroup(Evidence, Evidence.deduplicated.groups[i]) ]
    <2>2. all = traced
        BY <2>1 DEF traced, TracedGroups, groups
    <2>3. BuildTrace(Evidence).groups = all
          /\ BuildTrace(Evidence).totals = Totals(all, AllMembers(Evidence.deduplicated.groups))
        BY DEF BuildTrace
    <2>4. QED BY <2>1, <2>2, <2>3 DEF ms
<1>16. QED BY <1>2, <1>14, <1>15 DEF ResultHolds

\* So the builder refuses nothing else.
LEMMA IssuesOfTrace ==
    ASSUME StageInv, RenderedInv, where \in {"trace"} \cup WithTrace
    PROVE  /\ TraceIssues(Evidence) \subseteq {"invalid_trace_result"}
           /\ SumOf(BatchTokens(request.candidates)) <= MaxSafe => TraceIssues(Evidence) = {}
<1>1. CoherentWithRequest(Evidence) /\ CoherentStages(Evidence)
    BY StagesCoherent
<1>2. TraceIssues(Evidence) \subseteq {"invalid_trace_result"}
      /\ ("invalid_trace_result" \in TraceIssues(Evidence) => ~ ResultHolds(BuildTrace(Evidence)))
    BY <1>1 DEF TraceIssues
<1>3. ASSUME SumOf(BatchTokens(request.candidates)) <= MaxSafe PROVE TraceIssues(Evidence) = {}
    <2>1. where \in WithOrder
        BY DEF WithOrder
    <2>2. ResultHolds(BuildTrace(Evidence))
        BY <1>3, <2>1, ResultIsHeld
    <2>3. QED BY <1>2, <2>2
<1>4. QED BY <1>2, <1>3

-----------------------------------------------------------------------------
(* What is read back of the snapshot. *)

\* An option holds one value: the one that is taken from it.
LEMMA TheOnly ==
    ASSUME NEW option, AtMostOne(option), NEW x \in option
    PROVE  The(option) = x
<1>1. The(option) \in option
    BY TheOption
<1>2. QED BY <1>1 DEF AtMostOne

\* A decision carries what its reason asks for, and an exclusion needs a policy
\* that has exclusions.
LEMMA DecisionHas ==
    ASSUME NEW policy, FilteringPolicyShape(policy), NEW s
    PROVE  LET d == FilterDecision(policy, s)
           IN  \/ /\ d.decision = "eligible" /\ d.reason = "ELIGIBLE_REQUIRED" /\ d.minimum = {}
               \/ d.decision = "eligible" /\ d.reason = "ELIGIBLE_POLICY"
               \/ /\ d.decision = "eligible" /\ d.reason = "ELIGIBLE_INCOMPLETE_EVIDENCE"
                  /\ d.minimum # {} /\ d.incomplete # <<>> /\ policy.schema = 3
               \/ /\ d.decision = "filtered" /\ d.reason = "FILTERED_SCORE_BELOW_MINIMUM" /\ d.minimum # {}
               \/ /\ d.decision = "filtered" /\ d.reason \in Applicability /\ d.declared # <<>>
                  /\ policy.schema # 1
<1> DEFINE d == FilterDecision(policy, s)
<1>1. CASE Excluding(policy, s) = {}
    <2>1. d = Decide(policy, s)
        BY <1>1 DEF FilterDecision
    <2>2. CASE s.group.canonical.required
        BY <2>1, <2>2 DEF Decide, Decision
    <2>3. CASE ~ s.group.canonical.required /\ ~ BelowMinimum(policy, s)
        BY <2>1, <2>3 DEF Decide, Decision
    <2>4. CASE ~ s.group.canonical.required /\ BelowMinimum(policy, s) /\ Undecidable(policy, s)
        <3>1. d = [Decision(s, "eligible", "ELIGIBLE_INCOMPLETE_EVIDENCE") EXCEPT
                       !.minimum = policy.minimum, !.incomplete = IncompleteComponents(s)]
            BY <2>1, <2>4 DEF Decide
        <3>2. policy.minimum # {} /\ policy.schema = 3 /\ IncompleteComponents(s) # <<>>
            BY <2>4 DEF BelowMinimum, Undecidable
        <3>3. QED BY <3>1, <3>2 DEF Decision
    <2>5. CASE ~ s.group.canonical.required /\ BelowMinimum(policy, s) /\ ~ Undecidable(policy, s)
        <3>1. d = [Decision(s, "filtered", "FILTERED_SCORE_BELOW_MINIMUM") EXCEPT !.minimum = policy.minimum]
            BY <2>1, <2>5 DEF Decide
        <3>2. policy.minimum # {}
            BY <2>5 DEF BelowMinimum
        <3>3. QED BY <3>1, <3>2 DEF Decision
    <2>6. QED BY <2>2, <2>3, <2>4, <2>5
<1>2. CASE Excluding(policy, s) # {}
    <2> DEFINE entries == EntriesFor(The(policy.applicability), s)
               blocks  == [ i \in DOMAIN entries |-> entries[i].block ]
    <2>1. PICK a \in policy.applicability : Elements(EntriesFor(a, s)) # {}
        BY <1>2 DEF Excluding
    <2>2. The(policy.applicability) = a /\ policy.schema # 1
        BY <2>1, TheOnly DEF FilteringPolicyShape
    <2>3. DOMAIN entries # {}
        BY <2>1, <2>2 DEF Elements
    <2>4. d = FilteredBy(entries, s)
        BY <1>2 DEF FilterDecision
    <2> HIDE DEF entries
    <2>5. blocks # <<>>
        <3>1. DOMAIN blocks # {}
            BY <2>3
        <3>2. QED BY <3>1
    <2>6. d.decision = "filtered" /\ d.reason \in Applicability /\ d.declared = blocks
        BY <2>4 DEF FilteredBy, Decision, Applicability
    <2>7. QED BY <2>2, <2>5, <2>6
<1>3. QED BY <1>1, <1>2

\* So its snapshot is accepted.
LEMMA DecisionsAccepted ==
    ASSUME NEW policy, FilteringPolicyShape(policy), NEW s
    PROVE  LET d == FilterDecision(policy, s)
               t == TraceDecision(d)
           IN  /\ DecisionAccepted(t)
               /\ t.decision = d.decision /\ t.reason = d.reason
               /\ t.reason = "ELIGIBLE_INCOMPLETE_EVIDENCE" => policy.schema = 3
               /\ t.reason \in Applicability => policy.schema # 1
               /\ t.decision = "filtered" => t.reason \in {"FILTERED_SCORE_BELOW_MINIMUM"} \cup Applicability
               /\ t.decision \in {"filtered", "eligible"}
<1> DEFINE d == FilterDecision(policy, s)
           t == TraceDecision(d)
<1>1. \/ /\ d.decision = "eligible" /\ d.reason = "ELIGIBLE_REQUIRED" /\ d.minimum = {}
      \/ d.decision = "eligible" /\ d.reason = "ELIGIBLE_POLICY"
      \/ /\ d.decision = "eligible" /\ d.reason = "ELIGIBLE_INCOMPLETE_EVIDENCE"
         /\ d.minimum # {} /\ d.incomplete # <<>> /\ policy.schema = 3
      \/ /\ d.decision = "filtered" /\ d.reason = "FILTERED_SCORE_BELOW_MINIMUM" /\ d.minimum # {}
      \/ /\ d.decision = "filtered" /\ d.reason \in Applicability /\ d.declared # <<>>
         /\ policy.schema # 1
    BY DecisionHas
<1> HIDE DEF d
<1>2. /\ t.decision = d.decision /\ t.reason = d.reason /\ t.minimum = d.minimum /\ t.incomplete = d.incomplete
      /\ t.declared = d.declared
      /\ t.total = IF d.reason \in {"ELIGIBLE_REQUIRED", "FILTERED_INAPPLICABLE", "FILTERED_SUPERSEDED"} THEN {} ELSE {d.scored.total}
    BY DEF TraceDecision
<1> HIDE DEF t
<1>3. /\ t.reason = "ELIGIBLE_INCOMPLETE_EVIDENCE" => t.decision = "eligible" /\ t.total # {} /\ t.minimum # {} /\ t.incomplete # <<>>
      /\ t.reason = "ELIGIBLE_REQUIRED" => t.decision = "eligible" /\ t.total = {} /\ t.minimum = {}
      /\ t.reason = "ELIGIBLE_POLICY"   => t.decision = "eligible" /\ t.total # {}
      /\ t.reason \in Applicability     => t.decision = "filtered" /\ t.declared # <<>>
      /\ t.reason = "FILTERED_SCORE_BELOW_MINIMUM" => t.decision = "filtered" /\ t.total # {} /\ t.minimum # {}
      /\ \/ t.reason = "ELIGIBLE_INCOMPLETE_EVIDENCE"
         \/ t.reason = "ELIGIBLE_REQUIRED"
         \/ t.reason = "ELIGIBLE_POLICY"
         \/ t.reason \in Applicability
         \/ t.reason = "FILTERED_SCORE_BELOW_MINIMUM"
    BY <1>1, <1>2 DEF Applicability
<1>4. DecisionAccepted(t)
    <2>1. CASE t.reason = "ELIGIBLE_INCOMPLETE_EVIDENCE"
        BY <1>3, <2>1 DEF DecisionAccepted, Applicability
    <2>2. CASE t.reason = "ELIGIBLE_REQUIRED"
        BY <1>3, <2>2 DEF DecisionAccepted, Applicability
    <2>3. CASE t.reason = "ELIGIBLE_POLICY"
        BY <1>3, <2>3 DEF DecisionAccepted, Applicability
    <2>4. CASE t.reason \in Applicability
        BY <1>3, <2>4 DEF DecisionAccepted, Applicability
    <2>5. CASE t.reason = "FILTERED_SCORE_BELOW_MINIMUM"
        BY <1>3, <2>5 DEF DecisionAccepted, Applicability
    <2>6. QED BY <1>3, <2>1, <2>2, <2>3, <2>4, <2>5
<1>5. QED BY <1>1, <1>2, <1>4 DEF Applicability, t, d

\* The members of a group say how they matched, and the group how it was chosen.
LEMMA GroupWords ==
    ASSUME NEW candidates, NEW key
    PROVE  LET g == GroupFor(candidates, key)
           IN  /\ g.reason \in {"single-block", "required-block", "required-then-stable-block-id", "stable-block-id"}
               /\ \A i \in DOMAIN g.members : g.members[i].match \in {"same-block-id", "same-normalized-content"}
<1> DEFINE g == GroupFor(candidates, key)
           blocks == BlocksById(MembersOf(candidates, key))
           sorted == Sorted(MembersOf(candidates, key), WrapperBefore)
<1>1. g.reason = SelectionReason(blocks)
      /\ g.members = [ i \in DOMAIN sorted |-> [candidate |-> sorted[i], match |-> MatchReason(sorted[i], Canonical(blocks))] ]
    BY DEF GroupFor
<1> HIDE DEF blocks, sorted, g
<1>2. \A i \in DOMAIN g.members : g.members[i].match = MatchReason(sorted[i], Canonical(blocks))
    BY <1>1
<1>3. QED BY <1>1, <1>2 DEF SelectionReason, MatchReason, g

\* The snapshot of a group is accepted under the version the policy asks for.
LEMMA GroupsAccepted ==
    ASSUME StageInv, where \in WithOrder, NEW i \in DOMAIN out.groups
    PROVE  /\ GroupAccepted(TracedGroups[i])
           /\ EvidenceAccepted(TraceVersion(filtering), TracedGroups[i])
           /\ TraceVersion(filtering) = 2 => TracedGroups[i].filtering.reason \notin Applicability
           /\ TraceVersion(filtering) \in Supported
<1> DEFINE g == out.groups[i]
           t == TracedGroups[i]
           s == RankOf(g)
           ss == ScoredOf(out.ordered)
<1>1. g \in Elements(out.groups) /\ t = TraceGroup(Evidence, g)
    BY DEF Elements, TracedGroups
<1>2. FilteringPolicyShape(filtering)
    BY DEF StageInv, CheckedInv, RequestShape, filtering
<1>3. (filtering.schema = 3) <=> (scoring.schema = 2)
    <2>1. where \in WithDecisions
        BY DEF WithDecisions, WithAllocation
    <2>2. FilterIssues(filtering, scoring, request.scope, out.scored) = {}
        BY <2>1 DEF StageInv, CheckedInv
    <2>3. ~ ((filtering.schema = 3) # (scoring.schema = 2))
        BY <2>2, Zenon DEF FilterIssues
    <2>4. QED BY <2>3
<1>4. TraceVersion(filtering) = (IF filtering.schema = 3 THEN 4 ELSE IF filtering.schema = 2 THEN 3 ELSE 2)
    <2>1. filtering.schema \in {1, 2, 3}
        BY <1>2 DEF FilteringPolicyShape
    <2>2. CASE filtering.schema = 3
        BY <2>2 DEF TraceVersion
    <2>3. CASE filtering.schema = 2
        BY <2>3 DEF TraceVersion
    <2>4. CASE filtering.schema = 1
        BY <2>4 DEF TraceVersion
    <2>5. QED BY <2>1, <2>2, <2>3, <2>4
<1>5. /\ t.canonical = TraceCanonical(g.canonical) /\ t.selection = g.reason
      /\ t.members = [ k \in DOMAIN g.members |-> TraceMember(g.members[k]) ]
      /\ t.evidence = s.evidence
      /\ t.filtering = TraceDecision(FilterDecision(filtering, s))
    BY <1>1, TracedIs
<1>6. t.disposition \in {"filtered", "included", "excluded"}
    BY <1>1, TracedWhere
<1>7. t.position = { k \in DOMAIN out.ordered : ss[k] = s }
    BY <1>1, TracedWhere
<1>8. Cardinality(t.position) <= 1
    <2>1. Distinct(ss) /\ DOMAIN ss = DOMAIN out.ordered
        BY OrderedRanks
    <2> HIDE DEF ss, t, s
    <2>2. CASE t.position = {}
        BY <2>2, FS_EmptySet
    <2>3. CASE t.position # {}
        <3>1. PICK k \in DOMAIN ss : ss[k] = s
            BY <1>7, <2>1, <2>3
        <3>2. t.position = {k}
            BY <1>7, <2>1, <3>1 DEF Distinct
        <3>3. Cardinality({k}) = 1
            BY FS_Singleton
        <3>4. QED BY <3>2, <3>3
    <2>4. QED BY <2>2, <2>3
<1>9. t.canonical.tokens \in Nat
    <2>1. t.canonical.tokens = g.canonical.tokens /\ g.canonical.tokens \in Nat
        BY PositionsHold
    <2>2. QED BY <2>1
<1>10. t.selection \in {"single-block", "required-block", "required-then-stable-block-id", "stable-block-id"}
       /\ \A m \in Elements(t.members) : m.match \in {"same-block-id", "same-normalized-content"}
    <2>1. IsSound(request.candidates) /\ out.groups = Deduplicate(request.candidates)
        BY StagesLeft
    <2>2. g \in GroupsOf(request.candidates)
        BY <1>1, <2>1, DeduplicateLists
    <2>3. PICK w \in Elements(request.candidates) : g = GroupFor(request.candidates, GroupKey(w))
        BY <2>2 DEF GroupsOf
    <2> HIDE DEF g, t
    <2>4. g.reason \in {"single-block", "required-block", "required-then-stable-block-id", "stable-block-id"}
        BY <2>3, GroupWords
    <2>5. \A k \in DOMAIN g.members : g.members[k].match \in {"same-block-id", "same-normalized-content"}
        BY <2>3, GroupWords
    <2>6. \A m : TraceMember(m).match = m.match
        BY DEF TraceMember
    <2>7. ASSUME NEW m \in Elements(t.members) PROVE m.match \in {"same-block-id", "same-normalized-content"}
        <3>1. PICK k \in DOMAIN t.members : m = t.members[k]
            BY DEF Elements
        <3>2. k \in DOMAIN g.members /\ m = TraceMember(g.members[k])
            BY <1>5, <3>1
        <3>3. QED BY <2>5, <2>6, <3>2
    <2>8. QED BY <1>5, <2>4, <2>7
<1>11. /\ DecisionAccepted(t.filtering)
       /\ t.filtering.reason = "ELIGIBLE_INCOMPLETE_EVIDENCE" => filtering.schema = 3
       /\ t.filtering.reason \in Applicability => filtering.schema # 1
    <2>1. DecisionAccepted(TraceDecision(FilterDecision(filtering, s)))
        BY <1>2, DecisionsAccepted
    <2>2. TraceDecision(FilterDecision(filtering, s)).reason = "ELIGIBLE_INCOMPLETE_EVIDENCE" => filtering.schema = 3
        BY <1>2, DecisionsAccepted
    <2>3. TraceDecision(FilterDecision(filtering, s)).reason \in Applicability => filtering.schema # 1
        BY <1>2, DecisionsAccepted
    <2>4. QED BY <1>5, <2>1, <2>2, <2>3
<1>12. t.evidence # {} <=> scoring.schema = 2
    <2>1. s.evidence = IF scoring.schema = 2 THEN {ObserveEvidence(scoring, g)} ELSE {}
        BY DEF RankOf, ScoreGroup
    <2>2. QED BY <1>5, <2>1
<1> HIDE DEF t
<1>13. GroupAccepted(t)
    BY <1>6, <1>8, <1>9, <1>10, <1>11 DEF GroupAccepted
<1>14. EvidenceAccepted(TraceVersion(filtering), t)
    BY <1>3, <1>4, <1>11, <1>12 DEF EvidenceAccepted
<1>15. TraceVersion(filtering) = 2 => filtering.schema = 1
    <2>1. filtering.schema \in {1, 2, 3}
        BY <1>2 DEF FilteringPolicyShape
    <2>2. QED BY <1>4, <2>1
<1>16. TraceVersion(filtering) \in Supported
    BY <1>4 DEF Supported
<1>17. QED BY <1>11, <1>13, <1>14, <1>15, <1>16 DEF t

\* The final decision on a group is accepted, and says where the group stands.
LEMMA FinalIs ==
    ASSUME NEW ev, NEW order, Distinct(order), NEW rebuilt, NEW g,
           g.filtering.decision = "filtered"
               => g.filtering.reason \in {"FILTERED_SCORE_BELOW_MINIMUM"} \cup Applicability
    PROVE  LET d == FinalDecision(ev, order, rebuilt, g)
           IN  /\ FinalAccepted(d)
               /\ d.block = g.canonical.id
               /\ d.disposition = "included" => d.position = { k \in DOMAIN order : order[k] = d.block }
               /\ d.disposition = "included"
                      <=> g.filtering.decision # "filtered" /\ g.canonical.id \in Elements(order)
               /\ d.reason \in Applicability => g.filtering.reason \in Applicability
<1> DEFINE d  == FinalDecision(ev, order, rebuilt, g)
           id == g.canonical.id
           at == { k \in DOMAIN order : order[k] = id }
           base == [block |-> id, disposition |-> "", reason |-> "", position |-> {}]
<1>1. at # {} <=> id \in Elements(order)
    BY DEF Elements
<1>2. Cardinality({}) = 0
    BY FS_EmptySet
<1>3. CASE g.filtering.decision = "filtered"
    <2> DEFINE r == IF g.filtering.reason = "FILTERED_SCORE_BELOW_MINIMUM" THEN "FILTERED_POLICY" ELSE g.filtering.reason
    <2>1. d = [base EXCEPT !.disposition = "filtered", !.reason = r]
        BY <1>3 DEF FinalDecision
    <2>2. r \in {"FILTERED_POLICY"} \cup Applicability /\ (r \in Applicability => g.filtering.reason \in Applicability)
        BY <1>3 DEF Applicability
    <2> HIDE DEF r
    <2>3. d.block = id /\ d.disposition = "filtered" /\ d.reason = r /\ d.position = {}
        BY <2>1
    <2> HIDE DEF d, at
    <2>4. FinalAccepted(d)
        BY <1>2, <2>2, <2>3 DEF FinalAccepted, FinalReasons
    <2>5. QED BY <1>3, <2>2, <2>3, <2>4 DEF d
<1>4. CASE g.filtering.decision # "filtered" /\ at # {}
    <2> DEFINE r == IF g.canonical.required THEN "INCLUDED_REQUIRED"
                    ELSE IF rebuilt THEN "INCLUDED_RENDER_AWARE_CORRECTION" ELSE "INCLUDED_SCORE_ORDER"
    <2>1. d = [base EXCEPT !.disposition = "included", !.position = at, !.reason = r]
        BY <1>4 DEF FinalDecision
    <2>2. r \in {"INCLUDED_REQUIRED", "INCLUDED_CATEGORY_MINIMUM", "INCLUDED_SCORE_ORDER", "INCLUDED_RENDER_AWARE_CORRECTION"}
        OBVIOUS
    <2>3. Cardinality(at) = 1
        <3>1. PICK k \in at : TRUE
            BY <1>4
        <3>2. at = {k}
            BY <3>1 DEF Distinct
        <3>3. Cardinality({k}) = 1
            BY FS_Singleton
        <3>4. QED BY <3>2, <3>3
    <2> HIDE DEF r
    <2>4. d.block = id /\ d.disposition = "included" /\ d.reason = r /\ d.position = at
        BY <2>1
    <2>5. r \notin Applicability
        BY <2>2 DEF Applicability
    <2>6. FinalAccepted(d)
        <3> HIDE DEF d, at
        <3>1. QED BY <2>2, <2>3, <2>4 DEF FinalAccepted, FinalReasons
    <2>7. QED BY <1>1, <1>4, <2>4, <2>5, <2>6
<1>5. CASE g.filtering.decision # "filtered" /\ at = {}
    <2> DEFINE r == IF DecidedIn(ev.allocation.excluded, id) /\ ~ rebuilt THEN "EXCLUDED_INITIAL_ALLOCATION"
                    ELSE "EXCLUDED_RENDER_AWARE_CORRECTION"
    <2>1. d = [base EXCEPT !.disposition = "excluded", !.reason = r]
        BY <1>5 DEF FinalDecision
    <2>2. r \in {"EXCLUDED_INITIAL_ALLOCATION", "EXCLUDED_RENDER_AWARE_CORRECTION"}
        OBVIOUS
    <2> HIDE DEF r
    <2>3. d.block = id /\ d.disposition = "excluded" /\ d.reason = r /\ d.position = {}
        BY <2>1
    <2>4. r \notin Applicability
        BY <2>2 DEF Applicability
    <2>5. FinalAccepted(d)
        <3> HIDE DEF d, at
        <3>1. QED BY <1>2, <2>2, <2>3 DEF FinalAccepted, FinalReasons
    <2>6. QED BY <1>1, <1>5, <2>3, <2>4, <2>5
<1>6. QED BY <1>3, <1>4, <1>5

\* The order that is settled on names every selected group once.
LEMMA SettledNames ==
    ASSUME StageInv, where \in WithOrder, NEW S, Chosen(S)
    PROVE  LET order == IdSeq(OrderForRendering(SetToSeq(S), CanonicalOf))
           IN  Distinct(order) /\ Elements(order) = { IdOf(s) : s \in S }
<1> DEFINE eligible == Elements(Eligible(out.decisions))
           ss == SetToSeq(S)
           before == { q \in (DOMAIN ss) \X (DOMAIN ss) : BlockPrecedes(CanonicalOf(ss[q[1]]), CanonicalOf(ss[q[2]])) }
           sorted == OrderForRendering(ss, CanonicalOf)
           bs == [ i \in DOMAIN ss |-> CanonicalOf(ss[i]) ]
<1>1. Distinct(Eligible(out.decisions)) /\ (\A s \in eligible : ScoredShape(s))
      /\ eligible = { s \in Elements(out.scored) : FilterDecision(filtering, s).decision = "eligible" }
    BY StagesLeft
<1>2. S \in SUBSET eligible
    BY DEF Chosen
<1>3. IsFiniteSet(S)
    <2>1. IsFiniteSet(eligible)
        BY <1>1, DistinctCount
    <2>2. QED BY <1>2, <2>1, FS_Subset
<1>4. ss \in Seq(S) /\ Elements(ss) = S /\ \A i, j \in DOMAIN ss : ss[i] = ss[j] => i = j
    BY <1>3, SetToSeqEnumerates
<1>5. sorted = Picked(ss, DOMAIN ss, before)
    BY DEF OrderForRendering, Sorted
<1>6. DOMAIN bs = DOMAIN ss /\ \A i, j \in DOMAIN bs : << i, j >> \in before <=> BlockPrecedes(bs[i], bs[j])
    OBVIOUS
<1> HIDE DEF eligible, ss
<1>7. \A s \in S : ScoredShape(s)
    BY <1>1, <1>2
<1>8. \A i \in DOMAIN bs : BlockShape(bs[i])
    BY <1>4, <1>7 DEF ScoredShape, Elements
<1> HIDE DEF before, bs, sorted
<1>9. WeakOrder(before, DOMAIN ss)
    <2>1. WeakOrder(before, DOMAIN bs)
        BY <1>6, <1>8, RenderingWeak
    <2>2. QED BY <1>6, <2>1
<1>10. Distinct(ss)
    BY <1>4 DEF Distinct
<1>11. Distinct(sorted)
    BY <1>5, <1>9, <1>10, SortDistinct
<1>12. Elements(sorted) = S
    <2>1. Elements(OrderForRendering(ss, CanonicalOf)) = Elements(ss)
        BY <1>4, <1>7, OrderedGroups
    <2>2. QED BY <1>4, <2>1 DEF sorted
<1>13. \A s, t \in S : IdOf(s) = IdOf(t) => s = t
    BY <1>1, <1>2, ScoredIds
<1>14. Distinct(IdSeq(sorted)) /\ Elements(IdSeq(sorted)) = { IdOf(s) : s \in S }
    BY <1>11, <1>12, <1>13, IdsDistinct
<1>15. QED BY <1>14 DEF sorted, ss

\* The snapshot, field by field.
LEMMA SnapshotIs ==
    LET b == BuildTrace(Evidence)
    IN  /\ b = [ version |-> TraceVersion(filtering), settled |-> FALSE, coverage |-> "rendering-attempt-only",
                 sources |-> b.sources, groups |-> TracedGroups, included |-> b.included, excluded |-> b.excluded,
                 order |-> b.order, tokens |-> b.tokens, totals |-> b.totals, settlement |-> {} ]
        /\ b.totals = Totals(TracedGroups, AllMembers(out.groups))
<1> DEFINE b == BuildTrace(Evidence)
           all == [ i \in DOMAIN Evidence.deduplicated.groups |-> TraceGroup(Evidence, Evidence.deduplicated.groups[i]) ]
<1>1. Evidence.deduplicated.groups = out.groups /\ Evidence.request.policy.filtering = filtering
    BY EvidenceIs DEF filtering
<1>2. all = TracedGroups
    BY <1>1 DEF TracedGroups
<1>3. b = [ version |-> TraceVersion(Evidence.request.policy.filtering), settled |-> FALSE,
            coverage |-> "rendering-attempt-only",
            sources |-> b.sources, groups |-> all, included |-> b.included, excluded |-> b.excluded,
            order |-> b.order, tokens |-> b.tokens, totals |-> b.totals, settlement |-> {} ]
      /\ b.totals = Totals(all, AllMembers(Evidence.deduplicated.groups))
    BY DEF BuildTrace
<1> HIDE DEF b, all
<1>4. QED BY <1>1, <1>2, <1>3 DEF b

\* What settlement adds, and what it leaves.
LEMMA SettledIs ==
    ASSUME NEW settlement
    PROVE  LET t == SettleTrace(BuildTrace(Evidence), settlement)
           IN  /\ t.version = TraceVersion(filtering) /\ t.settled /\ t.coverage = "validation-and-rendering"
               /\ t.groups = TracedGroups /\ t.totals = Totals(TracedGroups, AllMembers(out.groups))
               /\ t.settlement = {settlement}
<1> DEFINE b == BuildTrace(Evidence)
<1>1. b = [ version |-> TraceVersion(filtering), settled |-> FALSE, coverage |-> "rendering-attempt-only",
            sources |-> b.sources, groups |-> TracedGroups, included |-> b.included, excluded |-> b.excluded,
            order |-> b.order, tokens |-> b.tokens, totals |-> b.totals, settlement |-> {} ]
    BY SnapshotIs
<1>2. b.totals = Totals(TracedGroups, AllMembers(out.groups))
    BY SnapshotIs
<1> HIDE DEF b
<1>3. SettleTrace(b, settlement)
      = [b EXCEPT !.settled = TRUE, !.coverage = "validation-and-rendering", !.settlement = {settlement}]
    BY DEF SettleTrace
<1>4. QED BY <1>1, <1>2, <1>3 DEF b

\* A settlement includes what its order names, where it names it.
NamesItsOrder(s) ==
    /\ { d.block : d \in { e \in Elements(s.decisions) : e.disposition = "included" } } = Elements(s.order)
    /\ \A d \in Elements(s.decisions) : d.disposition = "included" =>
          d.position = { i \in DOMAIN s.order : s.order[i] = d.block }

\* A settlement says nothing of exclusions.
NamesNoExclusion(s) == \A d \in Elements(s.decisions) : d.reason \notin Applicability

\* The final decisions on the groups, for an order of a selection.
LEMMA SettlementIs ==
    ASSUME StageInv, where \in WithOrder, NEW S, Chosen(S), NEW rebuilt, NEW tokens \in Nat,
           NEW order, Distinct(order), Elements(order) = { IdOf(s) : s \in S }
    PROVE  LET b == BuildTrace(Evidence)
               s == Settlement(Evidence, b, order, rebuilt, tokens)
           IN  /\ s.order = order
               /\ SettlementAccepted(s)
               /\ Len(s.decisions) = Len(TracedGroups)
               /\ NamesItsOrder(s)
               /\ TraceVersion(filtering) = 2 => NamesNoExclusion(s)
<1> DEFINE b == BuildTrace(Evidence)
           s == Settlement(Evidence, b, order, rebuilt, tokens)
           D == DOMAIN out.groups
           final(i) == FinalDecision(Evidence, order, rebuilt, TracedGroups[i])
           ds == s.decisions
<1>1. b.groups = TracedGroups
    BY SnapshotIs
<1>2. DOMAIN TracedGroups = D /\ \A i \in D : TracedGroups[i] = TraceGroup(Evidence, out.groups[i])
    BY DEF TracedGroups
<1>3. ds = [ i \in DOMAIN b.groups |-> FinalDecision(Evidence, order, rebuilt, b.groups[i]) ]
      /\ s.order = order /\ s.tokens = tokens
    BY DEF Settlement
<1> HIDE DEF b
<1>4. ds = [ i \in D |-> final(i) ]
    BY <1>1, <1>2, <1>3
<1> HIDE DEF s
<1>5. ASSUME NEW i \in D
      PROVE  LET t == TracedGroups[i]
             IN  /\ t.filtering.decision = "filtered"
                        => t.filtering.reason \in {"FILTERED_SCORE_BELOW_MINIMUM"} \cup Applicability
                 /\ t.filtering.decision = "filtered"
                        <=> FilterDecision(filtering, RankOf(out.groups[i])).decision = "filtered"
                 /\ t.canonical.id = out.groups[i].canonical.id
    <2> DEFINE g == out.groups[i]
               t == TracedGroups[i]
               d == FilterDecision(filtering, RankOf(g))
    <2>1. g \in Elements(out.groups) /\ t = TraceGroup(Evidence, g)
        BY <1>2 DEF Elements
    <2>2. t.canonical = TraceCanonical(g.canonical) /\ t.filtering = TraceDecision(d)
        BY <2>1, TracedIs
    <2>3. FilteringPolicyShape(filtering)
        BY DEF StageInv, CheckedInv, RequestShape, filtering
    <2>4. TraceDecision(d).decision = "filtered"
              => TraceDecision(d).reason \in {"FILTERED_SCORE_BELOW_MINIMUM"} \cup Applicability
        BY <2>3, DecisionsAccepted
    <2>5. TraceDecision(d).decision = d.decision
        BY DEF TraceDecision
    <2>6. TraceCanonical(g.canonical).id = g.canonical.id
        BY DEF TraceCanonical
    <2> HIDE DEF t, d, g
    <2>7. QED BY <2>2, <2>4, <2>5, <2>6 DEF t, d, g
<1>6. ASSUME NEW i \in D
      PROVE  /\ FinalAccepted(final(i))
             /\ final(i).block = out.groups[i].canonical.id
             /\ final(i).disposition = "included" => final(i).position = { k \in DOMAIN order : order[k] = final(i).block }
             /\ final(i).disposition = "included"
                    <=> FilterDecision(filtering, RankOf(out.groups[i])).decision # "filtered"
                        /\ out.groups[i].canonical.id \in Elements(order)
             /\ final(i).reason \in Applicability => TracedGroups[i].filtering.reason \in Applicability
    <2> DEFINE t == TracedGroups[i]
    <2>1. t.filtering.decision = "filtered"
              => t.filtering.reason \in {"FILTERED_SCORE_BELOW_MINIMUM"} \cup Applicability
        BY <1>5
    <2> HIDE DEF t
    <2>2. FinalAccepted(FinalDecision(Evidence, order, rebuilt, t))
        BY <2>1, FinalIs
    <2>3. FinalDecision(Evidence, order, rebuilt, t).block = t.canonical.id
        BY <2>1, FinalIs
    <2>4. FinalDecision(Evidence, order, rebuilt, t).disposition = "included"
              => FinalDecision(Evidence, order, rebuilt, t).position
                   = { k \in DOMAIN order : order[k] = FinalDecision(Evidence, order, rebuilt, t).block }
        BY <2>1, FinalIs
    <2>5. FinalDecision(Evidence, order, rebuilt, t).disposition = "included"
              <=> t.filtering.decision # "filtered" /\ t.canonical.id \in Elements(order)
        BY <2>1, FinalIs
    <2>6. FinalDecision(Evidence, order, rebuilt, t).reason \in Applicability => t.filtering.reason \in Applicability
        BY <2>1, FinalIs
    <2>7. t.canonical.id = out.groups[i].canonical.id
          /\ (t.filtering.decision = "filtered" <=> FilterDecision(filtering, RankOf(out.groups[i])).decision = "filtered")
        BY <1>5 DEF t
    <2>8. QED BY <2>2, <2>3, <2>4, <2>5, <2>6, <2>7 DEF t
<1> HIDE DEF final
<1>7. Elements(ds) = { final(i) : i \in D }
    BY <1>4 DEF Elements
<1>8. SettlementAccepted(s)
    BY <1>3, <1>6, <1>7 DEF SettlementAccepted
<1>9. Len(ds) = Len(TracedGroups)
    <2> DEFINE n == Len(out.groups)
    <2>1. n \in Nat /\ D = 1..n
        BY OrderedRanks DEF Distinct
    <2>2. ds = [ i \in DOMAIN ds |-> ds[i] ] /\ DOMAIN ds = 1..n
        BY <1>4, <2>1
    <2>3. TracedGroups = [ i \in DOMAIN TracedGroups |-> TracedGroups[i] ]
        BY DEF TracedGroups
    <2> HIDE DEF n, D, ds
    <2>4. Len(ds) = n
        BY <2>1, <2>2, LenIsLast
    <2>5. Len(TracedGroups) = n
        BY <1>2, <2>1, <2>3, LenIsLast
    <2>6. QED BY <2>4, <2>5
<1>10. \A d \in Elements(ds) : d.disposition = "included" => d.position = { i \in DOMAIN order : order[i] = d.block }
    BY <1>6, <1>7
<1>11. ASSUME TraceVersion(filtering) = 2, NEW d \in Elements(ds) PROVE d.reason \notin Applicability
    <2>1. PICK i \in D : d = final(i)
        BY <1>7
    <2>2. TracedGroups[i].filtering.reason \notin Applicability
        BY <1>11, GroupsAccepted
    <2>3. QED BY <1>6, <2>1, <2>2
<1>12. ASSUME NEW d \in Elements(ds), d.disposition = "included" PROVE d.block \in Elements(order)
    <2>1. PICK i \in D : d = final(i)
        BY <1>7
    <2>2. QED BY <1>6, <1>12, <2>1
<1>13. ASSUME NEW id \in Elements(order) PROVE \E d \in Elements(ds) : d.disposition = "included" /\ d.block = id
    <2>1. PICK x \in S : id = IdOf(x)
        OBVIOUS
    <2>2. x \in Elements(out.scored) /\ FilterDecision(filtering, x).decision = "eligible"
        <3>1. Elements(Eligible(out.decisions))
              = { y \in Elements(out.scored) : FilterDecision(filtering, y).decision = "eligible" }
            BY StagesLeft
        <3>2. x \in Elements(Eligible(out.decisions))
            BY DEF Chosen
        <3>3. QED BY <3>1, <3>2
    <2>3. PICK i \in D : x = RankOf(out.groups[i])
        <3>1. /\ IsSound(request.candidates) /\ out.groups = Deduplicate(request.candidates)
              /\ Elements(out.scored) = { RankOf(h) : h \in GroupsOf(request.candidates) }
            BY StagesLeft DEF RankOf
        <3>2. Elements(out.groups) = GroupsOf(request.candidates)
            BY <3>1, DeduplicateLists
        <3>3. PICK g \in Elements(out.groups) : x = RankOf(g)
            BY <2>2, <3>1, <3>2
        <3>4. QED BY <3>3 DEF Elements
    <2>4. out.groups[i].canonical.id = id
        BY <2>1, <2>3 DEF IdOf, RankOf, ScoreGroup
    <2>5. final(i) \in Elements(ds) /\ final(i).disposition = "included" /\ final(i).block = id
        BY <1>6, <1>7, <2>2, <2>3, <2>4
    <2>6. QED BY <2>5
<1> HIDE DEF ds
<1>14. { d.block : d \in { e \in Elements(ds) : e.disposition = "included" } } = Elements(order)
    <2>1. ASSUME NEW id \in { d.block : d \in { e \in Elements(ds) : e.disposition = "included" } } PROVE id \in Elements(order)
        BY <1>12
    <2>2. ASSUME NEW id \in Elements(order) PROVE id \in { d.block : d \in { e \in Elements(ds) : e.disposition = "included" } }
        BY <1>13
    <2>3. QED BY <2>1, <2>2
<1>15. NamesItsOrder(s) /\ (TraceVersion(filtering) = 2 => NamesNoExclusion(s))
    BY <1>3, <1>10, <1>11, <1>14 DEF ds, NamesItsOrder, NamesNoExclusion
<1>16. QED BY <1>3, <1>8, <1>9, <1>15 DEF ds, s, b

\* What was settled is accepted when it is read back.
LEMMA SettledAccepted ==
    ASSUME StageInv, where \in WithOrder, ResultHolds(BuildTrace(Evidence)),
           NEW S, Chosen(S), NEW rebuilt, NEW tokens \in Nat,
           NEW order, Distinct(order), Elements(order) = { IdOf(s) : s \in S }
    PROVE  LET b == BuildTrace(Evidence)
               t == SettleTrace(b, Settlement(Evidence, b, order, rebuilt, tokens))
           IN  PersistedIssues(t) = {}
<1> DEFINE b == BuildTrace(Evidence)
           one == Settlement(Evidence, b, order, rebuilt, tokens)
           t == SettleTrace(b, one)
<1>1. SettlementAccepted(one)
    BY SettlementIs
<1>2. TraceVersion(filtering) = 2 => NamesNoExclusion(one)
    BY SettlementIs
<1>3. b.totals = Totals(TracedGroups, AllMembers(out.groups))
    BY SnapshotIs
<1> HIDE DEF one
<1>4. /\ t.version = TraceVersion(filtering) /\ t.settled /\ t.coverage = "validation-and-rendering"
      /\ t.groups = TracedGroups /\ t.totals = Totals(TracedGroups, AllMembers(out.groups))
      /\ t.settlement = {one}
    BY SettledIs
<1>5. \A f \in DOMAIN b.totals : b.totals[f] \in Nat
    <2>1. \A f \in DOMAIN b.totals : b.totals[f] \in 0..MaxSafe
        BY DEF ResultHolds, TotalsHold
    <2>2. QED BY <2>1
<1> HIDE DEF b, t
<1>6. \A i \in DOMAIN out.groups : /\ GroupAccepted(TracedGroups[i])
                                   /\ EvidenceAccepted(TraceVersion(filtering), TracedGroups[i])
                                   /\ TraceVersion(filtering) = 2 => TracedGroups[i].filtering.reason \notin Applicability
    BY GroupsAccepted
<1>7. \A g \in Elements(TracedGroups) : \E i \in DOMAIN out.groups : g = TracedGroups[i]
    BY DEF TracedGroups, Elements
<1>8. \A g \in Elements(TracedGroups) : /\ GroupAccepted(g)
                                        /\ EvidenceAccepted(TraceVersion(filtering), g)
                                        /\ TraceVersion(filtering) = 2 => g.filtering.reason \notin Applicability
    BY <1>6, <1>7
<1>9. VersionAccepted(t)
    BY <1>2, <1>4, <1>8 DEF VersionAccepted, NamesNoExclusion
<1>10. Cardinality(t.settlement) = 1
    BY <1>4, FS_Singleton
<1>11. TraceAccepted(t)
    BY <1>1, <1>3, <1>4, <1>5, <1>8, <1>9, <1>10 DEF TraceAccepted
<1>12. t.version \in Supported
    <2>1. filtering.schema \in {1, 2, 3}
        BY DEF StageInv, CheckedInv, RequestShape, FilteringPolicyShape, filtering
    <2>2. CASE filtering.schema = 3
        BY <1>4, <2>2 DEF TraceVersion, Supported
    <2>3. CASE filtering.schema = 2
        BY <1>4, <2>3 DEF TraceVersion, Supported
    <2>4. CASE filtering.schema = 1
        BY <1>4, <2>4 DEF TraceVersion, Supported
    <2>5. QED BY <2>1, <2>2, <2>3, <2>4
<1>13. PersistedIssues(t) = {}
    BY <1>4, <1>11, <1>12 DEF PersistedIssues
<1>14. QED BY <1>13 DEF t, one, b

-----------------------------------------------------------------------------
(* The trace of a run. *)

\* The trace of a run that settled on a selection.
SettledAs(S, rebuilt, tokens) ==
    LET b == BuildTrace(Evidence)
    IN  SettleTrace(b, Settlement(Evidence, b, IdSeq(OrderForRendering(SetToSeq(S), CanonicalOf)), rebuilt, tokens))

\* The builder found what it says, and nothing where the run went on; what is
\* stored is the settled trace of some selection; and it is read back.
TracedInv ==
    /\ failedAt = "trace" => issues = TraceIssues(Evidence) /\ issues # {}
    /\ where \in WithTrace => TraceIssues(Evidence) = {}
    /\ where \in {"persistence", "persisted"} =>
          \E S, rebuilt : \E tokens \in Nat : Chosen(S) /\ out.trace = {SettledAs(S, rebuilt, tokens)}
    /\ failedAt # "persistence"

\* What is built from the evidence does not change with the trace.
LEMMA TraceKept ==
    ASSUME request' = request,
           out'.groups = out.groups, out'.scored = out.scored, out'.decisions = out.decisions,
           out'.allocation = out.allocation, out'.ordered = out.ordered, out'.rendered = out.rendered
    PROVE  /\ TraceIssues(Evidence)' = TraceIssues(Evidence)
           /\ \A S, rebuilt, tokens : SettledAs(S, rebuilt, tokens)' = SettledAs(S, rebuilt, tokens)
           /\ \A S : Chosen(S)' <=> Chosen(S)
<1>1. scoring' = scoring /\ filtering' = filtering
    BY DEF scoring, filtering
<1>2. Evidence' = Evidence
    BY <1>1 DEF Evidence, StageSet
<1>3. TraceIssues(Evidence)' = TraceIssues(Evidence)
    BY <1>2
<1>4. ASSUME NEW S, NEW rebuilt, NEW tokens PROVE SettledAs(S, rebuilt, tokens)' = SettledAs(S, rebuilt, tokens)
    BY <1>2 DEF SettledAs
<1>5. ASSUME NEW S PROVE Chosen(S)' <=> Chosen(S)
    BY DEF Chosen
<1>6. QED BY <1>3, <1>4, <1>5

\* The stored trace of a run is accepted, and it says where every block stands.
LEMMA StoredAccepted ==
    ASSUME StageInv, RenderedInv, TracedInv, where \in {"persistence", "persisted"}, NEW t \in out.trace
    PROVE  /\ PersistedIssues(t) = {}
           /\ \A s \in t.settlement : Len(s.decisions) = t.totals.groups /\ NamesItsOrder(s)
<1>1. where \in WithTrace /\ where \in WithOrder
    BY DEF WithTrace, WithOrder
<1>2. PICK S, rebuilt : \E tokens \in Nat : Chosen(S) /\ out.trace = {SettledAs(S, rebuilt, tokens)}
    BY DEF TracedInv
<1>3. PICK tokens \in Nat : Chosen(S) /\ out.trace = {SettledAs(S, rebuilt, tokens)}
    BY <1>2
<1> DEFINE b     == BuildTrace(Evidence)
           order == IdSeq(OrderForRendering(SetToSeq(S), CanonicalOf))
           one   == Settlement(Evidence, b, order, rebuilt, tokens)
<1>4. Distinct(order) /\ Elements(order) = { IdOf(s) : s \in S }
    BY <1>1, <1>3, SettledNames
<1>5. t = SettleTrace(b, one)
    BY <1>3 DEF SettledAs
<1> HIDE DEF order
<1>6. ResultHolds(b)
    <2>1. TraceIssues(Evidence) = {}
        BY <1>1 DEF TracedInv
    <2>2. CoherentWithRequest(Evidence) /\ CoherentStages(Evidence)
        BY <1>1, StagesCoherent
    <2>3. "invalid_trace_result" \notin TraceIssues(Evidence)
        BY <2>1
    <2>4. QED BY <2>2, <2>3 DEF TraceIssues
<1>7. PersistedIssues(SettleTrace(b, one)) = {}
    BY <1>1, <1>3, <1>4, <1>6, SettledAccepted
<1>8. Len(one.decisions) = Len(TracedGroups)
    BY <1>1, <1>3, <1>4, SettlementIs
<1>9. NamesItsOrder(one)
    BY <1>1, <1>3, <1>4, SettlementIs
<1> HIDE DEF one
<1>10. t.settlement = {one} /\ t.totals = Totals(TracedGroups, AllMembers(out.groups))
    BY <1>5, SettledIs
<1>11. Totals(TracedGroups, AllMembers(out.groups)).groups = Len(TracedGroups)
    BY DEF Totals
<1>12. QED BY <1>5, <1>7, <1>8, <1>9, <1>10, <1>11

\* To settle on a selection keeps both.
LEMMA TracedSettles ==
    ASSUME StageInv, RenderedInv, TracedInv, stage = "correction", NEW S, Chosen(S), NEW rebuilt, NEW tokens \in Nat,
           Run("correction", {}, "persistence", [out EXCEPT !.trace = {Settled(S, rebuilt, tokens)}])
    PROVE  RenderedInv' /\ TracedInv'
<1> DEFINE trace == Settled(S, rebuilt, tokens)
<1>1. where = "correction" /\ where \in WithTrace
    BY DEF where, WithTrace
<1>2. stage' = "persistence" /\ out' = [out EXCEPT !.trace = {trace}] /\ UNCHANGED <<request, issues, failedAt>>
    BY DEF Run
<1>3. where' = "persistence"
    BY <1>2 DEF where
<1>4. trace = SettledAs(S, rebuilt, tokens)
    <2>1. out.trace = {BuildTrace(Evidence)}
        BY <1>1 DEF StageInv, OutputInv
    <2>2. The(out.trace) = BuildTrace(Evidence)
        BY <2>1, TheOption
    <2>3. QED BY <2>2 DEF Settled, SettledAs
<1> HIDE DEF trace
<1>5. /\ out'.trace = {trace} /\ request' = request
      /\ out'.groups = out.groups /\ out'.scored = out.scored /\ out'.decisions = out.decisions
      /\ out'.allocation = out.allocation /\ out'.ordered = out.ordered /\ out'.rendered = out.rendered
    BY <1>2 DEF StageInv, OutputInv
<1>6. TraceIssues(Evidence)' = TraceIssues(Evidence)
    BY <1>5, TraceKept
<1>7. SettledAs(S, rebuilt, tokens)' = SettledAs(S, rebuilt, tokens)
    BY <1>5, TraceKept
<1>8. Chosen(S)'
    BY <1>5, TraceKept
<1>9. RenderedInv'
    BY <1>1, <1>5 DEF RenderedInv
<1>10. failedAt' = "none"
    BY <1>2 DEF StageInv, FailureInv
<1>11. (TraceIssues(Evidence) = {})'
    BY <1>1, <1>6 DEF TracedInv
<1>12. (\E T, again : \E number \in Nat : Chosen(T) /\ out.trace = {SettledAs(T, again, number)})'
    BY <1>4, <1>5, <1>7, <1>8
<1>13. TracedInv'
    BY <1>10, <1>11, <1>12 DEF TracedInv
<1>14. QED BY <1>9, <1>13

\* A step that changes nothing but what the trace is not about keeps both.
LEMMA TracedStays ==
    ASSUME RenderedInv, TracedInv, UNCHANGED <<request, out>>,
           failedAt' # "trace", failedAt' # "persistence",
           where' # where => where = "persistence" /\ where' = "persisted"
    PROVE  RenderedInv' /\ TracedInv'
<1>1. TraceIssues(Evidence)' = TraceIssues(Evidence)
    BY TraceKept
<1>2. \A S, rebuilt, tokens : SettledAs(S, rebuilt, tokens)' = SettledAs(S, rebuilt, tokens)
    BY TraceKept
<1>3. \A S : Chosen(S)' <=> Chosen(S)
    BY TraceKept
<1>4. RenderedInv'
    BY DEF RenderedInv, WithTrace
<1>5. (where \in WithTrace => TraceIssues(Evidence) = {})'
    BY <1>1 DEF TracedInv, WithTrace
<1>6. (where \in {"persistence", "persisted"} =>
          \E S, rebuilt : \E tokens \in Nat : Chosen(S) /\ out.trace = {SettledAs(S, rebuilt, tokens)})'
    <2>1. SUFFICES ASSUME where' \in {"persistence", "persisted"}
                   PROVE  (\E S, rebuilt : \E tokens \in Nat : Chosen(S) /\ out.trace = {SettledAs(S, rebuilt, tokens)})'
        OBVIOUS
    <2>2. where \in {"persistence", "persisted"}
        BY <2>1
    <2>3. PICK S, rebuilt : \E tokens \in Nat : Chosen(S) /\ out.trace = {SettledAs(S, rebuilt, tokens)}
        BY <2>2 DEF TracedInv
    <2>4. PICK tokens \in Nat : Chosen(S) /\ out.trace = {SettledAs(S, rebuilt, tokens)}
        BY <2>3
    <2>5. Chosen(S)' /\ (out.trace = {SettledAs(S, rebuilt, tokens)})'
        BY <1>2, <1>3, <2>4
    <2>6. QED BY <2>5
<1>7. QED BY <1>4, <1>5, <1>6 DEF TracedInv

\* Both are kept.
LEMMA TracedStep == StageInv /\ StageInv' /\ RenderedInv /\ TracedInv /\ [Next]_vars => RenderedInv' /\ TracedInv'
<1> SUFFICES ASSUME StageInv, StageInv', RenderedInv, TracedInv, [Next]_vars PROVE RenderedInv' /\ TracedInv'
    OBVIOUS
<1>1. ASSUME where' \notin {"trace"} \cup WithTrace, failedAt' \notin {"trace", "persistence"}
      PROVE  RenderedInv' /\ TracedInv'
    BY <1>1 DEF RenderedInv, TracedInv, WithTrace
<1>2. ASSUME NEW here \in StageNames, NEW there \in StageNames, NEW found, NEW output, Run(here, found, there, output),
             here \notin {"trace"} \cup WithTrace, there \notin {"trace"} \cup WithTrace
      PROVE  RenderedInv' /\ TracedInv'
    <2>1. where' \in {here, there}
        BY <1>2, RunsTo
    <2>2. failedAt = "none"
        BY <1>2 DEF Run, StageInv, FailureInv, StageNames, WithBatch, WithEvidence, WithGroups, WithScores, WithDecisions,
                    WithAllocation, WithOrder, WithTrace
    <2>3. failedAt' \in {here, "none"}
        BY <1>2, <2>2 DEF Run
    <2>4. QED BY <1>1, <1>2, <2>1, <2>3 DEF WithTrace
<1>3. CASE ValidateRequest
    BY <1>2, <1>3 DEF ValidateRequest, StageNames, WithBatch, WithEvidence, WithGroups, WithScores, WithDecisions,
       WithAllocation, WithOrder, WithTrace
<1>4. CASE ValidateCandidates
    BY <1>2, <1>4 DEF ValidateCandidates, StageNames, WithBatch, WithEvidence, WithGroups, WithScores, WithDecisions,
       WithAllocation, WithOrder, WithTrace
<1>5. CASE ValidateEvidence
    BY <1>2, <1>5 DEF ValidateEvidence, StageNames, WithBatch, WithEvidence, WithGroups, WithScores, WithDecisions,
       WithAllocation, WithOrder, WithTrace
<1>6. CASE DeduplicateBatch
    BY <1>2, <1>6 DEF DeduplicateBatch, StageNames, WithBatch, WithEvidence, WithGroups, WithScores, WithDecisions,
       WithAllocation, WithOrder, WithTrace
<1>7. CASE ScoreBatch
    BY <1>2, <1>7 DEF ScoreBatch, StageNames, WithBatch, WithEvidence, WithGroups, WithScores, WithDecisions,
       WithAllocation, WithOrder, WithTrace
<1>8. CASE FilterBatch
    BY <1>2, <1>8 DEF FilterBatch, StageNames, WithBatch, WithEvidence, WithGroups, WithScores, WithDecisions,
       WithAllocation, WithOrder, WithTrace
<1>9. CASE Allocate
    BY <1>2, <1>9 DEF Allocate, StageNames, WithBatch, WithEvidence, WithGroups, WithScores, WithDecisions,
       WithAllocation, WithOrder, WithTrace
<1>10. CASE Order
    BY <1>2, <1>10 DEF Order, StageNames, WithBatch, WithEvidence, WithGroups, WithScores, WithDecisions,
       WithAllocation, WithOrder, WithTrace
<1>11. CASE \E answer \in RenderAnswers : RenderContext(answer)
    <2>1. PICK answer \in RenderAnswers : RenderContext(answer)
        BY <1>11
    <2>2. stage = "rendering" /\ failedAt = "none"
        BY <2>1 DEF RenderContext, Run, StageInv, FailureInv
    <2>3. CASE CountIssues(answer) # {}
        <3>1. stage' = "failed" /\ failedAt' = "rendering"
            BY <2>1, <2>3 DEF RenderContext, Run
        <3>2. where' = "rendering"
            BY <3>1 DEF where
        <3>3. QED BY <1>1, <3>1, <3>2 DEF WithTrace
    <2>4. CASE CountIssues(answer) = {}
        <3> DEFINE drawn == Render(out.ordered, request.available, answer)
        <3>1. stage' = "trace" /\ failedAt' = "none" /\ out' = [out EXCEPT !.rendered = {drawn}] /\ request' = request
            BY <2>1, <2>2, <2>4 DEF RenderContext, Run
        <3> HIDE DEF drawn
        <3>2. where' = "trace"
            BY <3>1 DEF where
        <3>3. out'.rendered = {drawn} /\ out'.ordered = out.ordered
            BY <3>1 DEF StageInv, OutputInv
        <3>4. answer \in Nat
            <4>1. answer # Threw
                BY <2>4 DEF CountIssues
            <4>2. answer # Unusable
                BY <2>4 DEF CountIssues
            <4>3. QED BY <4>1, <4>2, StagesAssumption
        <3>5. RenderedInv'
            BY <3>1, <3>3, <3>4 DEF RenderedInv, drawn
        <3>6. TracedInv'
            BY <3>1, <3>2 DEF TracedInv, WithTrace
        <3>7. QED BY <3>5, <3>6
    <2>5. QED BY <2>3, <2>4
<1>12. CASE TakeSnapshot
    <2>1. stage = "trace" /\ where = "trace" /\ failedAt = "none" /\ request' = request
        BY <1>12 DEF TakeSnapshot, Run, StageInv, FailureInv, where
    <2>2. CASE TraceIssues(Evidence) # {}
        <3>1. stage' = "failed" /\ failedAt' = "trace" /\ issues' = TraceIssues(Evidence) /\ out' = out
            BY <1>12, <2>2 DEF TakeSnapshot, Run
        <3>2. where' = "trace"
            BY <3>1 DEF where
        <3>3. TraceIssues(Evidence)' = TraceIssues(Evidence)
            BY <2>1, <3>1, TraceKept
        <3>4. RenderedInv'
            BY <2>1, <3>1 DEF RenderedInv
        <3>5. TracedInv'
            BY <2>2, <3>1, <3>2, <3>3 DEF TracedInv, WithTrace
        <3>6. QED BY <3>4, <3>5
    <2>3. CASE TraceIssues(Evidence) = {}
        <3> DEFINE b == BuildTrace(Evidence)
        <3>1. stage' = "correction" /\ failedAt' = "none" /\ out' = [out EXCEPT !.trace = {b}]
            BY <1>12, <2>1, <2>3 DEF TakeSnapshot, Run
        <3> HIDE DEF b
        <3>2. where' = "correction"
            BY <3>1 DEF where
        <3>3. /\ out'.groups = out.groups /\ out'.scored = out.scored /\ out'.decisions = out.decisions
              /\ out'.allocation = out.allocation /\ out'.ordered = out.ordered /\ out'.rendered = out.rendered
            BY <3>1 DEF StageInv, OutputInv
        <3>4. TraceIssues(Evidence)' = TraceIssues(Evidence)
            BY <2>1, <3>3, TraceKept
        <3>5. RenderedInv'
            BY <2>1, <3>3 DEF RenderedInv
        <3>6. TracedInv'
            BY <2>3, <3>1, <3>2, <3>4 DEF TracedInv
        <3>7. QED BY <3>5, <3>6
    <2>4. QED BY <2>2, <2>3
<1>13. CASE KeepRendering
    <2>1. stage = "correction" /\ where = "correction"
        BY <1>13 DEF KeepRendering, where
    <2>2. Chosen(Elements(ScoredOf(out.ordered)))
        BY <2>1, SelectionsAreChosen
    <2>3. The(out.rendered).tokens \in Nat
        <3>1. PICK answer \in Nat : out.rendered = {Render(out.ordered, request.available, answer)}
            BY <2>1 DEF RenderedInv, WithTrace
        <3>2. The(out.rendered) = Render(out.ordered, request.available, answer)
            BY <3>1, TheOption
        <3>3. QED BY <3>2 DEF Render
    <2>4. Run("correction", {}, "persistence",
              [out EXCEPT !.trace = {Settled(Elements(ScoredOf(out.ordered)), FALSE, The(out.rendered).tokens)}])
        BY <1>13 DEF KeepRendering
    <2>5. QED BY <2>1, <2>2, <2>3, <2>4, TracedSettles
<1>14. CASE stage = "correction" /\ \E rebuilt \in BOOLEAN : \E S \in Selections(rebuilt) : Correct(S, rebuilt)
    <2>1. PICK rebuilt \in BOOLEAN : \E S \in Selections(rebuilt) : Correct(S, rebuilt)
        BY <1>14
    <2>2. PICK S \in Selections(rebuilt) : Correct(S, rebuilt)
        BY <2>1
    <2>3. where = "correction"
        BY <1>14 DEF where
    <2>4. Chosen(S)
        BY <2>3, SelectionsAreChosen
    <2>5. Run("correction", {}, "persistence", [out EXCEPT !.trace = {Settled(S, rebuilt, 0)}])
        BY <2>2 DEF Correct
    <2>6. QED BY <1>14, <2>4, <2>5, TracedSettles
<1>15. CASE GiveUp
    <2>1. PICK code : Run("correction", {code}, "failed", out)
        BY <1>15 DEF GiveUp
    <2>2. stage = "correction" /\ stage' = "failed" /\ failedAt' = "correction" /\ UNCHANGED <<request, out>>
        BY <2>1 DEF Run
    <2>3. where = "correction" /\ where' = "correction"
        BY <2>2 DEF where
    <2>4. QED BY <2>2, <2>3, TracedStays
<1>16. CASE ReadBack
    <2> DEFINE found == UNION { PersistedIssues(t) : t \in out.trace }
    <2>1. stage = "persistence" /\ where = "persistence" /\ failedAt = "none"
        BY <1>16 DEF ReadBack, Run, StageInv, FailureInv, where
    <2>2. found = {}
        <3>1. \A t \in out.trace : PersistedIssues(t) = {}
            BY <2>1, StoredAccepted
        <3>2. QED BY <3>1
    <2>3. stage' = "persisted" /\ failedAt' = "none" /\ UNCHANGED <<request, out>>
        <3>1. Run("persistence", found, "persisted", out)
            BY <1>16 DEF ReadBack
        <3> HIDE DEF found
        <3>2. QED BY <2>1, <2>2, <3>1 DEF Run
    <2>4. where' = "persisted"
        BY <2>3 DEF where
    <2>5. QED BY <2>1, <2>3, <2>4, TracedStays
<1>17. CASE UNCHANGED vars
    <2>1. UNCHANGED <<request, out, issues, stage, failedAt>> /\ where' = where
        BY <1>17 DEF vars, where
    <2>2. CASE failedAt # "trace" /\ failedAt # "persistence"
        BY <2>1, <2>2, TracedStays
    <2>3. CASE failedAt = "trace"
        <3>1. stage = "failed" /\ where = "trace"
            BY <2>3 DEF StageInv, FailureInv, where
        <3>2. TraceIssues(Evidence)' = TraceIssues(Evidence)
            BY <2>1, TraceKept
        <3>3. RenderedInv'
            BY <2>1 DEF RenderedInv
        <3>4. TracedInv'
            BY <2>1, <2>3, <3>1, <3>2 DEF TracedInv, WithTrace
        <3>5. QED BY <3>3, <3>4
    <2>4. CASE failedAt = "persistence"
        BY <2>4 DEF TracedInv
    <2>5. QED BY <2>2, <2>3, <2>4
<1>18. QED BY <1>3, <1>4, <1>5, <1>6, <1>7, <1>8, <1>9, <1>10, <1>11, <1>12, <1>13, <1>14, <1>15, <1>16, <1>17 DEF Next

\* The trace builder refuses nothing the stages produce, except sums that are no
\* exact integers, and what was settled is accepted when it is read back
\* (PipelineTraceAccepted): every later stage restates what the earlier ones
\* decided, each group once, and the amounts it reports add up.
THEOREM PipelineTraceAcceptedHolds == Spec => []PipelineTraceAccepted
<1>1. Init => RenderedInv /\ TracedInv
    <2> SUFFICES ASSUME Init PROVE RenderedInv /\ TracedInv
        OBVIOUS
    <2>1. where = "request-validation" /\ failedAt = "none"
        BY DEF Init, where
    <2>2. QED BY <2>1 DEF RenderedInv, TracedInv, WithTrace
<1>2. StageInv /\ RenderedInv /\ TracedInv => PipelineTraceAccepted
    <2> SUFFICES ASSUME StageInv, RenderedInv, TracedInv PROVE PipelineTraceAccepted
        OBVIOUS
    <2>1. ASSUME failedAt = "trace"
          PROVE  /\ issues = {"invalid_trace_result"}
                 /\ SumOf([ i \in DOMAIN request.candidates |-> request.candidates[i].block.tokens ]) > MaxSafe
        <3>1. stage = "failed" /\ where = "trace"
            BY <2>1 DEF StageInv, FailureInv, where
        <3>2. issues = TraceIssues(Evidence) /\ issues # {}
            BY <2>1 DEF TracedInv
        <3>3. TraceIssues(Evidence) \subseteq {"invalid_trace_result"}
            BY <3>1, IssuesOfTrace
        <3>4. SumOf(BatchTokens(request.candidates)) <= MaxSafe => TraceIssues(Evidence) = {}
            BY <3>1, IssuesOfTrace
        <3>5. IsSound(request.candidates)
            BY <3>1, StagesLeft DEF WithOrder
        <3>6. SumOf(BatchTokens(request.candidates)) \in Nat
            BY <3>5, CanonicalWithinBatch
        <3>7. SumOf(BatchTokens(request.candidates)) > MaxSafe
            BY <3>2, <3>4, <3>6, StagesAssumption
        <3>8. BatchTokens(request.candidates) = [ i \in DOMAIN request.candidates |-> request.candidates[i].block.tokens ]
            BY DEF BatchTokens
        <3>9. QED BY <3>2, <3>3, <3>7, <3>8
    <2>2. ASSUME stage = "persisted"
          PROVE  \A t \in out.trace : \A s \in t.settlement :
                     /\ Len(s.decisions) = t.totals.groups
                     /\ { d.block : d \in { e \in Elements(s.decisions) : e.disposition = "included" } }
                           = Elements(s.order)
                     /\ \A d \in Elements(s.decisions) : d.disposition = "included" =>
                           d.position = { i \in DOMAIN s.order : s.order[i] = d.block }
        <3>1. where = "persisted"
            BY <2>2 DEF where
        <3>2. QED BY <3>1, StoredAccepted DEF NamesItsOrder
    <2>3. failedAt # "persistence"
        BY DEF TracedInv
    <2>4. QED BY <2>1, <2>2, <2>3 DEF PipelineTraceAccepted
<1>3. QED BY <1>1, <1>2, TracedStep, StagesHandOn, PTL DEF Spec

=============================================================================
