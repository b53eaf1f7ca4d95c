----------------------- MODULE LocalCompilationProofs -----------------------
(***************************************************************************)
(* Theorems about LocalCompilation, for every registry, every content of   *)
(* the files, every listing, every hit of the engine and any number of     *)
(* changes by others.                                                      *)
(*                                                                         *)
(*   CorpusInv    what was read is what the listing named;                 *)
(*   HeapInv      who holds which object, and what it says;                *)
(*   TraceInv     what the trace store holds of this compilation;          *)
(*   EngineInv    what the engine found and what was answered.             *)
(***************************************************************************)
EXTENDS LocalCompilation, TLAPS, FunctionTheorems, FiniteSetTheorems,
        SequenceTheorems, NaturalsInduction, WellFoundedInduction

-----------------------------------------------------------------------------
(* Sorting: the places 1..n, in an order R of them.                        *)

StrictOrder(R, n) ==
    /\ \A i \in 1..n : << i, i >> \notin R
    /\ \A i, j \in 1..n : i # j => << i, j >> \in R \/ << j, i >> \in R
    /\ \A i, j, k \in 1..n : << i, j >> \in R /\ << j, k >> \in R => << i, k >> \in R

Ahead(R, n, i) == { j \in 1..n : << j, i >> \in R }

\* What comes later has more ahead of it, and no two places have as many: so
\* some place has k - 1 ahead of it, for every k.
LEMMA PlaceExists ==
    ASSUME NEW n \in Nat, NEW R, StrictOrder(R, n)
    PROVE  /\ \A i \in 1..n : Cardinality(Ahead(R, n, i)) \in Nat
           /\ \A i, j \in 1..n : << i, j >> \in R => Cardinality(Ahead(R, n, i)) < Cardinality(Ahead(R, n, j))
           /\ \A k \in 1..n : \E i \in 1..n : Cardinality(Ahead(R, n, i)) = k - 1
<1> DEFINE D == 1..n
           rank == [i \in D |-> Cardinality(Ahead(R, n, i)) + 1]
<1>1. IsFiniteSet(D) /\ Cardinality(D) = n
    BY FS_Interval
<1>2. \A i \in D : Cardinality(Ahead(R, n, i)) \in 0..(n - 1)
    <2> SUFFICES ASSUME NEW i \in D PROVE Cardinality(Ahead(R, n, i)) \in 0..(n - 1)
        OBVIOUS
    <2>1. Ahead(R, n, i) \in SUBSET (D \ {i})
        BY DEF Ahead, StrictOrder
    <2>2. IsFiniteSet(D \ {i}) /\ Cardinality(D \ {i}) = n - 1
        BY <1>1, FS_RemoveElement
    <2>3. IsFiniteSet(Ahead(R, n, i)) /\ Cardinality(Ahead(R, n, i)) <= n - 1
        BY <2>1, <2>2, FS_Subset
    <2>4. Cardinality(Ahead(R, n, i)) \in Nat
        BY <2>3, FS_CardinalityType
    <2>5. QED BY <2>3, <2>4
<1>3. \A i, j \in D : << i, j >> \in R => Cardinality(Ahead(R, n, i)) < Cardinality(Ahead(R, n, j))
    <2> SUFFICES ASSUME NEW i \in D, NEW j \in D, << i, j >> \in R
                 PROVE  Cardinality(Ahead(R, n, i)) < Cardinality(Ahead(R, n, j))
        OBVIOUS
    <2>1. Ahead(R, n, i) \in SUBSET Ahead(R, n, j) /\ i \in Ahead(R, n, j) /\ i \notin Ahead(R, n, i)
        BY DEF Ahead, StrictOrder
    <2>2. Ahead(R, n, j) \in SUBSET D
        BY DEF Ahead
    <2>3. IsFiniteSet(Ahead(R, n, j))
        BY <1>1, <2>2, FS_Subset
    <2>4. /\ Cardinality(Ahead(R, n, i)) <= Cardinality(Ahead(R, n, j))
          /\ Cardinality(Ahead(R, n, j)) = Cardinality(Ahead(R, n, i)) => Ahead(R, n, j) = Ahead(R, n, i)
        BY <2>1, <2>3, FS_Subset
    <2>5. Ahead(R, n, j) # Ahead(R, n, i)
        BY <2>1
    <2>6. Cardinality(Ahead(R, n, i)) # Cardinality(Ahead(R, n, j))
        BY <2>4, <2>5
    <2>7. QED BY <2>4, <2>6, <1>2
<1>4. rank \in Injection(D, D)
    <2>1. rank \in [D -> D]
        BY <1>2
    <2>2. \A i, j \in D : rank[i] = rank[j] => i = j
        <3> SUFFICES ASSUME NEW i \in D, NEW j \in D, i # j PROVE rank[i] # rank[j]
            OBVIOUS
        <3>1. << i, j >> \in R \/ << j, i >> \in R
            BY DEF StrictOrder
        <3>2. \/ Cardinality(Ahead(R, n, i)) < Cardinality(Ahead(R, n, j))
              \/ Cardinality(Ahead(R, n, j)) < Cardinality(Ahead(R, n, i))
            BY <1>3, <3>1
        <3>3. QED BY <1>2, <3>2
    <2>3. QED BY <2>1, <2>2, Fun_IsInj
<1>5. rank \in Surjection(D, D)
    BY <1>1, <1>4, FS_Injection
<1>6. \A k \in D : \E i \in D : rank[i] = k
    BY <1>5 DEF Surjection
<1>7. \A k \in D : \E i \in D : Cardinality(Ahead(R, n, i)) = k - 1
    <2> SUFFICES ASSUME NEW k \in D PROVE \E i \in D : Cardinality(Ahead(R, n, i)) = k - 1
        OBVIOUS
    <2>1. PICK i \in D : rank[i] = k
        BY <1>6
    <2>2. Cardinality(Ahead(R, n, i)) + 1 = k /\ Cardinality(Ahead(R, n, i)) \in Int
        BY <1>2, <2>1
    <2>3. QED BY <2>2
<1>8. QED BY <1>2, <1>3, <1>7

\* To put at k the place that has k - 1 ahead of it is to put all of them in
\* order, each once.
LEMMA PlacesInOrder ==
    ASSUME NEW n \in Nat, NEW R, StrictOrder(R, n), NEW p \in [1..n -> 1..n],
           \A k \in 1..n : Cardinality(Ahead(R, n, p[k])) = k - 1
    PROVE  /\ p \in Bijection(1..n, 1..n)
           /\ \A a, b \in 1..n : a < b => << p[a], p[b] >> \in R
<1>1. IsFiniteSet(1..n)
    BY FS_Interval
<1>2. \A a, b \in 1..n : p[a] = p[b] => a = b
    <2> SUFFICES ASSUME NEW a \in 1..n, NEW b \in 1..n, p[a] = p[b] PROVE a = b
        OBVIOUS
    <2>1. a - 1 = b - 1
        OBVIOUS
    <2>2. QED BY <2>1
<1>3. p \in Injection(1..n, 1..n)
    BY <1>2, Fun_IsInj
<1>4. p \in Surjection(1..n, 1..n)
    BY <1>1, <1>3, FS_Injection
<1>5. ASSUME NEW a \in 1..n, NEW b \in 1..n, a < b
      PROVE  << p[a], p[b] >> \in R
    <2>1. p[a] # p[b]
        BY <1>2, <1>5
    <2>2. CASE << p[b], p[a] >> \in R
        <3>1. Cardinality(Ahead(R, n, p[b])) < Cardinality(Ahead(R, n, p[a]))
            BY <2>2, PlaceExists
        <3>2. b - 1 < a - 1
            BY <3>1
        <3>3. QED BY <3>2, <1>5
    <2>3. QED BY <2>1, <2>2 DEF StrictOrder
<1>6. QED BY <1>3, <1>4, <1>5 DEF Bijection

\* A weak order of the places: asymmetric, and what lies between two comparable
\* places is comparable to one of them.
WeakOrder(order, n) ==
    /\ \A x, y \in 1..n : << x, y >> \in order => << y, x >> \notin order
    /\ \A x, y, z \in 1..n : << x, y >> \in order => << x, z >> \in order \/ << z, y >> \in order

\* Ties kept in the order they stand in, the order of the places is strict.
LEMMA StableIsStrict ==
    ASSUME NEW n \in Nat, NEW order, WeakOrder(order, n)
    PROVE  StrictOrder(Stable(1..n, order), n)
<1> DEFINE R == Stable(1..n, order)
<1>1. \A x, y \in 1..n : << x, y >> \in R <=> << x, y >> \in order \/ (x < y /\ << y, x >> \notin order)
    BY DEF Stable
<1> HIDE DEF R
<1>2. \A x \in 1..n : << x, x >> \notin R
    BY <1>1 DEF WeakOrder
<1>3. ASSUME NEW x \in 1..n, NEW y \in 1..n, x # y
      PROVE  << x, y >> \in R \/ << y, x >> \in R
    <2>1. x < y \/ y < x
        BY <1>3
    <2>2. << x, y >> \in order => << y, x >> \notin order
        BY DEF WeakOrder
    <2>3. QED BY <1>1, <2>1, <2>2
<1>4. ASSUME NEW x \in 1..n, NEW y \in 1..n, NEW z \in 1..n, << x, y >> \in R, << y, z >> \in R
      PROVE  << x, z >> \in R
    <2>1. CASE << x, y >> \in order
        BY <1>1, <1>4, <2>1 DEF WeakOrder
    <2>2. CASE << x, y >> \notin order
        <3>1. x < y /\ << y, x >> \notin order
            BY <1>1, <1>4, <2>2
        <3>2. CASE << y, z >> \in order
            BY <1>1, <3>1, <3>2 DEF WeakOrder
        <3>3. CASE << y, z >> \notin order
            <4>1. y < z /\ << z, y >> \notin order
                BY <1>1, <1>4, <3>3
            <4>2. x < z
                BY <3>1, <4>1
            <4>3. << z, x >> \notin order
                BY <3>1, <4>1 DEF WeakOrder
            <4>4. QED BY <1>1, <4>2, <4>3
        <3>4. QED BY <3>2, <3>3
    <2>3. QED BY <2>1, <2>2
<1>5. StrictOrder(R, n)
    BY <1>2, <1>3, <1>4 DEF StrictOrder
<1>6. QED BY <1>5 DEF R

\* What is picked in a weak order of the places is all that stands there, each
\* place once, and none behind one it comes before.
LEMMA PickedInOrder ==
    ASSUME NEW n \in Nat, NEW s, NEW order, WeakOrder(order, n)
    PROVE  \E p \in Bijection(1..n, 1..n) :
              /\ Picked(s, 1..n, order) = [k \in 1..n |-> s[p[k]]]
              /\ \A a, b \in 1..n : a < b => << p[b], p[a] >> \notin order
<1> DEFINE R == Stable(1..n, order)
           p == Lined(1..n, R)
           at(k) == CHOOSE x \in 1..n : Cardinality(Ahead(R, n, x)) = k - 1
<1>1. StrictOrder(R, n)
    BY StableIsStrict
<1>2. Cardinality(1..n) = n
    BY FS_Interval
<1>3. p = [k \in 1..n |-> at(k)]
    BY <1>2 DEF Lined, Ahead
<1>4. \A x, y \in 1..n : << x, y >> \in R => << y, x >> \notin order
    BY DEF WeakOrder, Stable
<1>5. Picked(s, 1..n, order) = [k \in DOMAIN p |-> s[p[k]]]
    BY DEF Picked
<1> HIDE DEF R, p
<1>6. \A k \in 1..n : \E x \in 1..n : Cardinality(Ahead(R, n, x)) = k - 1
    BY <1>1, PlaceExists
<1>7. \A k \in 1..n : at(k) \in 1..n /\ Cardinality(Ahead(R, n, at(k))) = k - 1
    BY <1>6
<1> HIDE DEF at
<1>8. p \in [1..n -> 1..n] /\ \A k \in 1..n : Cardinality(Ahead(R, n, p[k])) = k - 1
    BY <1>3, <1>7
<1>9. p \in Bijection(1..n, 1..n)
    BY <1>1, <1>8, PlacesInOrder
<1>10. \A a, b \in 1..n : a < b => << p[a], p[b] >> \in R
    BY <1>1, <1>8, PlacesInOrder
<1>11. \A a, b \in 1..n : a < b => << p[b], p[a] >> \notin order
    BY <1>4, <1>8, <1>10
<1>12. DOMAIN p = 1..n
    BY <1>8
<1>13. Picked(s, 1..n, order) = [k \in 1..n |-> s[p[k]]]
    BY <1>5, <1>12
<1>14. QED BY <1>9, <1>11, <1>13

\* The order an answer of the registry is read in.
LEMMA RegistrationsSorted ==
    ASSUME NEW s, Len(s) \in Nat, DOMAIN s = 1..Len(s),
           \A i \in DOMAIN s : s[i].type \in DOMAIN TypeRank /\ s[i].name \in Nat
    PROVE  \E p \in Bijection(DOMAIN s, DOMAIN s) : InCanonicalOrder(s) = [k \in DOMAIN s |-> s[p[k]]]
<1> DEFINE n == Len(s)
           order == { q \in (1..n) \X (1..n) : RegistrationBefore(s[q[1]], s[q[2]]) }
<1>1. \A i, j \in 1..n : << i, j >> \in order <=> RegistrationBefore(s[i], s[j])
    OBVIOUS
<1>2. InCanonicalOrder(s) = Picked(s, 1..n, order)
    BY DEF InCanonicalOrder, Sorted
<1> HIDE DEF order
<1>3. \A i \in 1..n : TypeRank[s[i].type] \in Nat /\ s[i].name \in Nat
    BY DEF TypeRank
<1>4. /\ \A i, j \in 1..n : RegistrationBefore(s[i], s[j]) => ~ RegistrationBefore(s[j], s[i])
      /\ \A i, j, k \in 1..n : RegistrationBefore(s[i], s[j]) => RegistrationBefore(s[i], s[k]) \/ RegistrationBefore(s[k], s[j])
    BY <1>3 DEF RegistrationBefore
<1>5. WeakOrder(order, n)
    BY <1>1, <1>4, Zenon DEF WeakOrder
<1>6. n \in Nat /\ DOMAIN s = 1..n
    OBVIOUS
<1> HIDE DEF n
<1>7. PICK p \in Bijection(1..n, 1..n) :
         /\ Picked(s, 1..n, order) = [k \in 1..n |-> s[p[k]]]
         /\ \A a, b \in 1..n : a < b => << p[b], p[a] >> \notin order
    BY <1>5, <1>6, PickedInOrder
<1>8. InCanonicalOrder(s) = [k \in DOMAIN s |-> s[p[k]]]
    BY <1>2, <1>6, <1>7
<1>9. Bijection(1..n, 1..n) = Bijection(DOMAIN s, DOMAIN s)
    BY <1>6
<1>10. QED BY <1>8, <1>9, Zenon

\* The order the documents of a corpus are published in.
LEMMA DocumentsSorted ==
    ASSUME NEW s, Len(s) \in Nat, DOMAIN s = 1..Len(s),
           \A i \in DOMAIN s : IdRank(s[i].id) \in Nat
    PROVE  \E p \in Bijection(DOMAIN s, DOMAIN s) :
              /\ Sorted(s, DocumentBefore) = [k \in DOMAIN s |-> s[p[k]]]
              /\ \A a, b \in DOMAIN s : a < b => ~ DocumentBefore(s[p[b]], s[p[a]])
<1> DEFINE n == Len(s)
           order == { q \in (1..n) \X (1..n) : DocumentBefore(s[q[1]], s[q[2]]) }
<1>1. \A i, j \in 1..n : << i, j >> \in order <=> DocumentBefore(s[i], s[j])
    OBVIOUS
<1>2. Sorted(s, DocumentBefore) = Picked(s, 1..n, order)
    BY DEF Sorted
<1> HIDE DEF order
<1>3. \A i \in 1..n : IdRank(s[i].id) \in Nat
    OBVIOUS
<1>4. /\ \A i, j \in 1..n : DocumentBefore(s[i], s[j]) => ~ DocumentBefore(s[j], s[i])
      /\ \A i, j, k \in 1..n : DocumentBefore(s[i], s[j]) => DocumentBefore(s[i], s[k]) \/ DocumentBefore(s[k], s[j])
    BY <1>3 DEF DocumentBefore
<1>5. WeakOrder(order, n)
    BY <1>1, <1>4, Zenon DEF WeakOrder
<1>6. n \in Nat /\ DOMAIN s = 1..n
    OBVIOUS
<1> HIDE DEF n
<1>7. PICK p \in Bijection(1..n, 1..n) :
         /\ Picked(s, 1..n, order) = [k \in 1..n |-> s[p[k]]]
         /\ \A a, b \in 1..n : a < b => << p[b], p[a] >> \notin order
    BY <1>5, <1>6, PickedInOrder
<1>8. \A k \in 1..n : p[k] \in 1..n
    BY DEF Bijection, Injection
<1>9. \A a, b \in DOMAIN s : a < b => ~ DocumentBefore(s[p[b]], s[p[a]])
    BY <1>1, <1>6, <1>7, <1>8
<1>10. QED BY <1>2, <1>6, <1>7, <1>9

\* The order the blocks of a corpus are published in.
LEMMA BlocksSorted ==
    ASSUME NEW s, Len(s) \in Nat, DOMAIN s = 1..Len(s),
           \A i \in DOMAIN s : IdRank(s[i].document) \in Nat /\ s[i].at \in Nat,
           \A i, j \in DOMAIN s : IdRank(s[i].document) = IdRank(s[j].document) => s[i].document = s[j].document
    PROVE  \E p \in Bijection(DOMAIN s, DOMAIN s) : InBlockOrder(s) = [k \in DOMAIN s |-> s[p[k]]]
<1> DEFINE n == Len(s)
           order == { q \in (1..n) \X (1..n) : BlockBefore(s[q[1]], s[q[2]]) }
<1>1. \A i, j \in 1..n : << i, j >> \in order <=> BlockBefore(s[i], s[j])
    OBVIOUS
<1>2. InBlockOrder(s) = Picked(s, 1..n, order)
    BY DEF InBlockOrder, Sorted
<1> HIDE DEF order
<1>3. /\ \A i \in 1..n : IdRank(s[i].document) \in Nat /\ s[i].at \in Nat
      /\ \A i, j \in 1..n : IdRank(s[i].document) = IdRank(s[j].document) => s[i].document = s[j].document
    OBVIOUS
<1>4. /\ \A i, j \in 1..n : BlockBefore(s[i], s[j]) => ~ BlockBefore(s[j], s[i])
      /\ \A i, j, k \in 1..n : BlockBefore(s[i], s[j]) => BlockBefore(s[i], s[k]) \/ BlockBefore(s[k], s[j])
    BY <1>3 DEF BlockBefore
<1>5. WeakOrder(order, n)
    BY <1>1, <1>4, Zenon DEF WeakOrder
<1>6. n \in Nat /\ DOMAIN s = 1..n
    OBVIOUS
<1> HIDE DEF n
<1>7. PICK p \in Bijection(1..n, 1..n) :
         /\ Picked(s, 1..n, order) = [k \in 1..n |-> s[p[k]]]
         /\ \A a, b \in 1..n : a < b => << p[b], p[a] >> \notin order
    BY ONLY <1>5, <1>6, PickedInOrder
<1>8. InBlockOrder(s) = [k \in DOMAIN s |-> s[p[k]]]
    BY <1>2, <1>6, <1>7
<1>9. Bijection(1..n, 1..n) = Bijection(DOMAIN s, DOMAIN s)
    BY <1>6
<1>10. QED BY <1>8, <1>9, Zenon

-----------------------------------------------------------------------------
(* The corpus.                                                             *)

AllDocuments == { DocumentOf(r, c) : r \in Registrations, c \in Content }
AllBlocks    == UNION { Range(BlocksCut(r, c)) : r \in Registrations, c \in Content }

\* What the world holds are registrations and contents.
WorldInv ==
    /\ registry \in SUBSET Registrations /\ IsFiniteSet(registry)
    /\ \A l \in DOMAIN files : files[l] \in Content

\* What is read is what the listing names, each source once: what was read so
\* far are contents the files held, and the blocks are those cut from them.
ListedInv ==
    /\ listing.ok
    /\ listing.value \in Seq(Registrations)
    /\ CanonicalRegistrations(listing, request.scope) = Reply(sources)

ReadInv ==
    /\ documents \in Seq(AllDocuments) /\ blocks \in Seq(AllBlocks)
    /\ Len(documents) <= Len(sources)
    /\ \A i \in 1..Len(documents) :
          /\ documents[i].hash \in Content
          /\ documents[i] = DocumentOf(sources[i], documents[i].hash)
          /\ << sources[i].locator, documents[i].hash >> \in held
    /\ Range(blocks) = UNION { Range(BlocksCut(sources[i], documents[i].hash)) : i \in 1..Len(documents) }

\* The corpus is complete, and the provider was asked.
Asked == stage \in {"asking", "answered", "candidate-provider", "compilation", "done"}

CorpusInv ==
    /\ WorldInv
    /\ stage = "listing" => documents = <<>> /\ blocks = <<>>
    /\ stage = "reading" => \A l \in DOMAIN files : << l, files[l] >> \in held
    /\ stage = "reading" \/ Asked => ListedInv /\ ReadInv
    /\ Asked => Len(documents) = Len(sources)

\* The blocks of one content are told apart by their identifiers, all of which
\* name the document.
LEMMA BlocksCutFacts ==
    ASSUME NEW r, NEW c \in Content
    PROVE  /\ Len(BlocksCut(r, c)) = Len(Cut[c]) /\ Len(Cut[c]) \in Nat
           /\ DOMAIN BlocksCut(r, c) = 1..Len(Cut[c])
           /\ \A i \in 1..Len(Cut[c]) :
                 /\ BlocksCut(r, c)[i].document = DocumentId(r)
                 /\ BlocksCut(r, c)[i].id[1] = DocumentId(r)
                 /\ BlocksCut(r, c)[i].at = i
           /\ \A i, j \in 1..Len(Cut[c]) : BlocksCut(r, c)[i].id = BlocksCut(r, c)[j].id => i = j
<1> DEFINE texts == Cut[c]
           n == Len(texts)
           mark(i) == IF r.type = "conversation" THEN i ELSE Occurrence(texts, i)
<1>1. n \in Nat /\ DOMAIN texts = 1..n
    BY PreparationAssumption
<1>2. BlocksCut(r, c) = [ i \in 1..n |->
            [id |-> << DocumentId(r), texts[i], mark(i) >>, document |-> DocumentId(r),
             scope |-> r.scope, type |-> r.type, at |-> i, text |-> texts[i]] ]
    BY <1>1 DEF BlocksCut
<1>3. ASSUME NEW i \in 1..n, NEW j \in 1..n, i < j, texts[i] = texts[j]
      PROVE  Occurrence(texts, i) # Occurrence(texts, j)
    <2> DEFINE S == { k \in 1 .. i - 1 : texts[k] = texts[i] }
               T == { k \in 1 .. j - 1 : texts[k] = texts[j] }
    <2>1. S \in SUBSET T /\ i \in T /\ i \notin S
        BY <1>1, <1>3
    <2>2. IsFiniteSet(1 .. j - 1)
        <3>1. 1 \in Int /\ j - 1 \in Int
            BY <1>1
        <3>2. QED BY <3>1, FS_Interval
    <2>3. IsFiniteSet(T)
        BY <2>2, FS_Subset
    <2>4. Cardinality(T) = Cardinality(S) => T = S
        BY <2>1, <2>3, FS_Subset
    <2>5. T # S
        BY <2>1
    <2>6. QED BY <2>4, <2>5 DEF Occurrence
<1> HIDE DEF n, mark
<1>4. \A i, j \in 1..n : texts[i] = texts[j] /\ mark(i) = mark(j) => i = j
    <2> SUFFICES ASSUME NEW i \in 1..n, NEW j \in 1..n, texts[i] = texts[j], i # j PROVE mark(i) # mark(j)
        OBVIOUS
    <2>1. i < j \/ j < i
        BY <1>1
    <2>2. Occurrence(texts, i) # Occurrence(texts, j)
        BY <1>3, <2>1
    <2>3. QED BY <2>2 DEF mark
<1>5. \A i, j \in 1..n : BlocksCut(r, c)[i].id = BlocksCut(r, c)[j].id => i = j
    <2> SUFFICES ASSUME NEW i \in 1..n, NEW j \in 1..n, BlocksCut(r, c)[i].id = BlocksCut(r, c)[j].id PROVE i = j
        OBVIOUS
    <2>1. << DocumentId(r), texts[i], mark(i) >> = << DocumentId(r), texts[j], mark(j) >>
        BY <1>2
    <2>2. texts[i] = texts[j] /\ mark(i) = mark(j)
        BY <2>1
    <2>3. QED BY <1>4, <2>2
<1>6. Len(BlocksCut(r, c)) = n
    BY <1>1, <1>2
<1>7. DOMAIN BlocksCut(r, c) = 1..n
    BY <1>2
<1>8. \A i \in 1..n : /\ BlocksCut(r, c)[i].document = DocumentId(r)
                      /\ BlocksCut(r, c)[i].id[1] = DocumentId(r)
                      /\ BlocksCut(r, c)[i].at = i
    BY <1>2
<1>9. QED BY <1>1, <1>5, <1>6, <1>7, <1>8 DEF n

\* What a listing that was accepted names: registrations of the scope, each of
\* a source of its own, in an order that is none of the store's.
LEMMA ListedFacts ==
    ASSUME ListedInv
    PROVE  /\ sources \in Seq(Registrations) /\ Len(sources) = Len(listing.value)
           /\ ServiceLists(listing) = Reply(sources)
           /\ Range(sources) = Range(listing.value)
           /\ \A i \in 1..Len(sources) : sources[i].scope = request.scope
           /\ \A i, j \in 1..Len(sources) : DocumentId(sources[i]) = DocumentId(sources[j]) => i = j
<1> DEFINE rs == listing.value
           n == Len(rs)
<1>1. rs \in Seq(Registrations) /\ n \in Nat /\ DOMAIN rs = 1..n /\ \A i \in 1..n : rs[i] \in Registrations
    BY LenProperties DEF ListedInv
<1>2. /\ \A i \in DOMAIN rs : Parses(rs[i])
      /\ CrossScope(rs, request.scope) = {}
      /\ Repeated(rs) = {}
      /\ sources = InCanonicalOrder(rs)
    BY DEF ListedInv, CanonicalRegistrations, Reply, Failure
<1>3. \A i \in DOMAIN rs : rs[i].type \in DOMAIN TypeRank /\ rs[i].name \in Nat
    BY <1>1, <1>2, RegistrationAssumption
<1>4. PICK p \in Bijection(1..n, 1..n) : sources = [k \in 1..n |-> rs[p[k]]]
    <2> HIDE DEF rs
    <2>1. \E p \in Bijection(DOMAIN rs, DOMAIN rs) : InCanonicalOrder(rs) = [k \in DOMAIN rs |-> rs[p[k]]]
        BY <1>1, <1>3, RegistrationsSorted
    <2>2. QED BY <1>1, <1>2, <2>1, Zenon
<1> HIDE DEF rs, n
<1>5. /\ p \in [1..n -> 1..n]
      /\ \A i, j \in 1..n : p[i] = p[j] => i = j
      /\ \A k \in 1..n : \E i \in 1..n : p[i] = k
    BY <1>4 DEF Bijection, Injection, Surjection, IsInjective
<1>6. /\ \A i \in 1..n : rs[i].scope = request.scope
      /\ \A i, j \in 1..n : i # j => LogicalKey(rs[i]) # LogicalKey(rs[j])
    <2>1. \A i \in 1..n : rs[i].scope = request.scope
        BY <1>1, <1>2 DEF CrossScope
    <2>2. ASSUME NEW i \in 1..n, NEW j \in 1..n, j < i
          PROVE  LogicalKey(rs[i]) # LogicalKey(rs[j])
        <3>1. j \in 1 .. i - 1
            BY <1>1, <2>2
        <3>2. i \notin Repeated(rs)
            BY <1>2
        <3>3. QED BY <1>1, <3>1, <3>2 DEF Repeated
    <2>3. QED BY <1>1, <2>1, <2>2
<1>7. sources \in [1..n -> Registrations] /\ \A k \in 1..n : sources[k] = rs[p[k]]
    BY <1>1, <1>4, <1>5
<1>8. sources \in Seq(Registrations) /\ Len(sources) = n
    BY <1>1, <1>7, SeqDef
<1>9. Range(sources) = Range(rs)
    BY <1>1, <1>5, <1>7 DEF Range
<1>10. ServiceLists(listing) = Reply(sources)
    BY <1>2 DEF ListedInv, ServiceLists, rs
<1>11. \A i \in 1..n : sources[i].scope = request.scope
    BY <1>5, <1>6, <1>7
<1>12. \A i, j \in 1..n : DocumentId(sources[i]) = DocumentId(sources[j]) => i = j
    <2> SUFFICES ASSUME NEW i \in 1..n, NEW j \in 1..n, i # j
                 PROVE  DocumentId(sources[i]) # DocumentId(sources[j])
        BY <1>8
    <2>1. p[i] \in 1..n /\ p[j] \in 1..n /\ p[i] # p[j]
        BY <1>5
    <2>2. LogicalKey(rs[p[i]]) # LogicalKey(rs[p[j]])
        BY <1>6, <2>1
    <2>3. QED BY <1>7, <2>2 DEF DocumentId
<1>13. QED BY <1>8, <1>9, <1>10, <1>11, <1>12 DEF rs, n

\* A permutation of a sequence has its elements.
LEMMA PermutedRange ==
    ASSUME NEW s, NEW p \in Bijection(DOMAIN s, DOMAIN s)
    PROVE  Range([k \in DOMAIN s |-> s[p[k]]]) = Range(s)
<1>1. /\ p \in [DOMAIN s -> DOMAIN s]
      /\ \A k \in DOMAIN s : \E i \in DOMAIN s : p[i] = k
    BY DEF Bijection, Injection, Surjection
<1>2. QED BY <1>1 DEF Range

\* Every block of the corpus is of one of the documents read, at a place of the
\* content read.
LEMMA BlockOrigin ==
    ASSUME ListedInv, ReadInv
    PROVE  /\ \A i \in 1..Len(documents) :
                 /\ sources[i] \in Registrations /\ sources[i].scope = request.scope
                 /\ documents[i].id = DocumentId(sources[i])
                 /\ documents[i].scope = sources[i].scope
           /\ \A i, j \in 1..Len(documents) : documents[i].id = documents[j].id => i = j
           /\ Len(documents) \in Nat /\ DOMAIN documents = 1..Len(documents)
           /\ \A b \in Range(blocks) : \E i \in 1..Len(documents) : \E k \in 1..Len(Cut[documents[i].hash]) :
                 /\ b = BlocksCut(sources[i], documents[i].hash)[k]
                 /\ b.document = documents[i].id /\ b.id[1] = documents[i].id /\ b.at = k
<1>1. /\ Len(documents) \in Nat /\ DOMAIN documents = 1..Len(documents)
      /\ \A i \in 1..Len(documents) :
            /\ documents[i] = DocumentOf(sources[i], documents[i].hash)
            /\ documents[i].hash \in Content
    BY LenProperties DEF ReadInv
<1>2. \A i \in 1..Len(documents) : i \in 1..Len(sources)
    BY <1>1, ListedFacts, LenProperties DEF ReadInv
<1>3. \A i \in 1..Len(documents) :
         /\ sources[i] \in Registrations /\ sources[i].scope = request.scope
         /\ documents[i].id = DocumentId(sources[i]) /\ documents[i].scope = sources[i].scope
    <2>1. \A i \in 1..Len(sources) : sources[i] \in Registrations
        BY ListedFacts, LenProperties
    <2>2. \A i \in 1..Len(documents) : documents[i].id = DocumentId(sources[i]) /\ documents[i].scope = sources[i].scope
        BY <1>1 DEF DocumentOf
    <2>3. QED BY <1>2, <2>1, <2>2, ListedFacts
<1>4. \A i, j \in 1..Len(documents) : documents[i].id = documents[j].id => i = j
    BY <1>2, <1>3, ListedFacts
<1>5. ASSUME NEW b \in Range(blocks)
      PROVE  \E i \in 1..Len(documents) : \E k \in 1..Len(Cut[documents[i].hash]) :
                /\ b = BlocksCut(sources[i], documents[i].hash)[k]
                /\ b.document = documents[i].id /\ b.id[1] = documents[i].id /\ b.at = k
    <2>1. PICK i \in 1..Len(documents) : b \in Range(BlocksCut(sources[i], documents[i].hash))
        BY DEF ReadInv
    <2>2. documents[i].hash \in Content
        BY <1>1
    <2>3. PICK k \in 1..Len(Cut[documents[i].hash]) : b = BlocksCut(sources[i], documents[i].hash)[k]
        BY <2>1, <2>2, BlocksCutFacts DEF Range
    <2>4. b.document = documents[i].id /\ b.id[1] = documents[i].id /\ b.at = k
        BY <1>3, <2>2, <2>3, BlocksCutFacts
    <2>5. QED BY <2>3, <2>4
<1>6. QED BY <1>1, <1>3, <1>4, <1>5

\* The corpus is its documents and blocks as they were read, in another order.
LEMMA PublishedIsRead ==
    ASSUME ListedInv, ReadInv
    PROVE  /\ DOMAIN Documents = DOMAIN documents /\ Range(Documents) = Range(documents)
           /\ \A i, j \in DOMAIN Documents : i < j => IdRank(Documents[i].id) < IdRank(Documents[j].id)
           /\ DOMAIN Blocks = DOMAIN blocks /\ Range(Blocks) = Range(blocks)
           /\ blocks \in Seq(AllBlocks) /\ Blocks \in Seq(AllBlocks)
<1> DEFINE n == Len(documents)
<1>1. /\ n \in Nat /\ DOMAIN documents = 1..n
      /\ \A i \in 1..n : sources[i] \in Registrations /\ documents[i].id = DocumentId(sources[i])
      /\ \A i, j \in 1..n : documents[i].id = documents[j].id => i = j
    BY BlockOrigin
<1>2. /\ \A i \in 1..n : IdRank(documents[i].id) \in Nat
      /\ \A i, j \in 1..n : IdRank(documents[i].id) = IdRank(documents[j].id) => documents[i].id = documents[j].id
    BY <1>1, DigestAssumption
<1>3. PICK p \in Bijection(DOMAIN documents, DOMAIN documents) :
         /\ Documents = [k \in DOMAIN documents |-> documents[p[k]]]
         /\ \A a, b \in DOMAIN documents : a < b => ~ DocumentBefore(documents[p[b]], documents[p[a]])
    BY <1>1, <1>2, DocumentsSorted DEF Documents
<1>4. DOMAIN Documents = DOMAIN documents /\ Range(Documents) = Range(documents)
    <2>1. DOMAIN Documents = DOMAIN documents
        BY <1>3
    <2>2. Range(Documents) = Range(documents)
        BY <1>3, PermutedRange, Zenon
    <2>3. QED BY <2>1, <2>2
<1>5. ASSUME NEW i \in DOMAIN Documents, NEW j \in DOMAIN Documents, i < j
      PROVE  IdRank(Documents[i].id) < IdRank(Documents[j].id)
    <2>1. /\ p[i] \in 1..n /\ p[j] \in 1..n /\ p[i] # p[j]
          /\ Documents[i] = documents[p[i]] /\ Documents[j] = documents[p[j]]
        BY <1>1, <1>3, <1>4, <1>5 DEF Bijection, Injection, IsInjective
    <2>2. ~ (IdRank(documents[p[j]].id) < IdRank(documents[p[i]].id))
        BY <1>3, <1>4, <1>5 DEF DocumentBefore
    <2>3. IdRank(documents[p[i]].id) # IdRank(documents[p[j]].id)
        BY <1>1, <1>2, <2>1
    <2>4. IdRank(documents[p[i]].id) \in Nat /\ IdRank(documents[p[j]].id) \in Nat
        BY <1>2, <2>1
    <2>5. QED BY <2>1, <2>2, <2>3, <2>4
<1>6. blocks \in Seq(AllBlocks) /\ Len(blocks) \in Nat /\ DOMAIN blocks = 1..Len(blocks)
    BY LenProperties DEF ReadInv
<1>7. /\ \A i \in DOMAIN blocks : IdRank(blocks[i].document) \in Nat /\ blocks[i].at \in Nat
      /\ \A i, j \in DOMAIN blocks : IdRank(blocks[i].document) = IdRank(blocks[j].document) => blocks[i].document = blocks[j].document
    <2>1. \A b \in Range(blocks) : \E i \in 1..n : b.document = documents[i].id /\ b.at \in Nat
        <3> SUFFICES ASSUME NEW b \in Range(blocks) PROVE \E i \in 1..n : b.document = documents[i].id /\ b.at \in Nat
            OBVIOUS
        <3>1. PICK i \in 1..n : \E k \in 1..Len(Cut[documents[i].hash]) : b.document = documents[i].id /\ b.at = k
            BY BlockOrigin
        <3>2. QED BY <3>1
    <2>2. \A i \in DOMAIN blocks : blocks[i] \in Range(blocks)
        BY DEF Range
    <2> HIDE DEF n
    <2>3. QED BY <1>2, <2>1, <2>2
<1>8. PICK q \in Bijection(DOMAIN blocks, DOMAIN blocks) : Blocks = [k \in DOMAIN blocks |-> blocks[q[k]]]
    BY <1>6, <1>7, BlocksSorted DEF Blocks
<1>9. DOMAIN Blocks = DOMAIN blocks /\ Range(Blocks) = Range(blocks)
    <2>1. DOMAIN Blocks = DOMAIN blocks
        BY <1>8
    <2>2. Range(Blocks) = Range(blocks)
        BY <1>8, PermutedRange, Zenon
    <2>3. QED BY <2>1, <2>2
<1>10. Blocks \in Seq(AllBlocks)
    <2>1. q \in [1..Len(blocks) -> 1..Len(blocks)] /\ blocks \in [1..Len(blocks) -> AllBlocks]
        BY <1>6, <1>8, LenProperties DEF Bijection, Injection
    <2>2. Blocks \in [1..Len(blocks) -> AllBlocks]
        BY <1>6, <1>8, <2>1
    <2>3. QED BY <1>6, <2>2, SeqDef
<1>11. QED BY <1>4, <1>5, <1>6, <1>9, <1>10

\* What CorpusInv says of the sources read makes the published corpus one reading
\* of them.
LEMMA CorpusOfInv ==
    ASSUME CorpusInv
    PROVE  CorpusIsOneReading
<1> SUFFICES ASSUME stage \in {"asking", "answered", "done"} PROVE CorpusIsOneReading
    BY DEF CorpusIsOneReading
<1> DEFINE n == Len(documents)
           corpus == Range(Blocks)
<1>1. ListedInv /\ ReadInv /\ n = Len(sources)
    BY DEF CorpusInv, Asked
<1>2. /\ n \in Nat /\ DOMAIN documents = 1..n
      /\ \A i \in 1..n : sources[i].scope = request.scope /\ documents[i].id = DocumentId(sources[i])
                         /\ documents[i].scope = sources[i].scope
      /\ \A i, j \in 1..n : documents[i].id = documents[j].id => i = j
    BY <1>1, BlockOrigin
<1>3. corpus = Range(blocks) /\ Range(Documents) = Range(documents)
    BY <1>1, PublishedIsRead
<1>4. ASSUME NEW d \in Range(Documents)
      PROVE  /\ d.scope = request.scope
             /\ \E r \in Range(listing.value) :
                   /\ DocumentId(r) = d.id /\ << r.locator, d.hash >> \in held
                   /\ { b \in corpus : b.document = d.id } = Range(BlocksCut(r, d.hash))
    <2>1. PICK i \in 1..n : d = documents[i]
        BY <1>2, <1>3 DEF Range
    <2>2. /\ d.hash \in Content /\ << sources[i].locator, d.hash >> \in held
          /\ Range(BlocksCut(sources[i], d.hash)) \subseteq Range(blocks)
        BY <1>1, <2>1 DEF ReadInv
    <2>3. sources[i] \in Range(listing.value)
        <3>1. i \in DOMAIN sources
            BY <1>1, <2>1, ListedFacts, LenProperties
        <3>2. sources[i] \in Range(sources)
            BY <3>1 DEF Range
        <3>3. QED BY <1>1, <3>2, ListedFacts
    <2>4. \A b \in Range(BlocksCut(sources[i], d.hash)) : b.document = d.id
        BY <1>2, <2>1, <2>2, BlocksCutFacts DEF Range
    <2>5. ASSUME NEW b \in Range(blocks), b.document = d.id
          PROVE  b \in Range(BlocksCut(sources[i], d.hash))
        <3>1. PICK j \in 1..n : \E k \in 1..Len(Cut[documents[j].hash]) :
                 /\ b = BlocksCut(sources[j], documents[j].hash)[k] /\ b.document = documents[j].id
            BY <1>1, BlockOrigin
        <3>2. j = i
            BY <1>2, <2>1, <2>5, <3>1
        <3>3. QED BY <2>1, <2>2, <3>1, <3>2, BlocksCutFacts DEF Range
    <2>6. { b \in corpus : b.document = d.id } = Range(BlocksCut(sources[i], d.hash))
        <3> HIDE DEF corpus
        <3> QED BY <1>3, <2>2, <2>4, <2>5
    <2>7. d.scope = request.scope /\ DocumentId(sources[i]) = d.id
        BY <1>2, <2>1
    <2> HIDE DEF corpus
    <2>8. QED BY <2>2, <2>3, <2>6, <2>7
<1>5. \A b \in corpus : b.document \in { d.id : d \in Range(Documents) }
    <2> SUFFICES ASSUME NEW b \in Range(blocks) PROVE b.document \in { d.id : d \in Range(documents) }
        BY <1>3
    <2>1. PICK i \in 1..n : b.document = documents[i].id
        BY <1>1, BlockOrigin
    <2>2. documents[i] \in Range(documents)
        BY <1>2 DEF Range
    <2>3. QED BY <2>1, <2>2
<1>6. ASSUME NEW b \in corpus, NEW c \in corpus, b.id = c.id
      PROVE  b = c
    <2>1. b \in Range(blocks) /\ c \in Range(blocks)
        BY <1>3
    <2>2. PICK i \in 1..n : \E k \in 1..Len(Cut[documents[i].hash]) :
                 /\ b = BlocksCut(sources[i], documents[i].hash)[k] /\ b.id[1] = documents[i].id
        BY <1>1, <2>1, BlockOrigin
    <2>3. PICK j \in 1..n : \E k \in 1..Len(Cut[documents[j].hash]) :
                 /\ c = BlocksCut(sources[j], documents[j].hash)[k] /\ c.id[1] = documents[j].id
        BY <1>1, <2>1, BlockOrigin
    <2>4. i = j
        BY <1>2, <1>6, <2>2, <2>3
    <2>5. documents[i].hash \in Content
        BY <1>1 DEF ReadInv
    <2>6. QED BY <1>6, <2>2, <2>3, <2>4, <2>5, BlocksCutFacts
<1>7. /\ listing.ok /\ ServiceLists(listing) = Reply(sources)
      /\ \A i, j \in DOMAIN Documents : i < j => IdRank(Documents[i].id) < IdRank(Documents[j].id)
    BY <1>1, ListedFacts, PublishedIsRead DEF ListedInv
<1>8. { b.document : b \in corpus } \subseteq { d.id : d \in Range(Documents) }
    <2> HIDE DEF corpus
    <2> QED BY <1>5
<1>9. QED BY <1>4, <1>6, <1>7, <1>8 DEF CorpusIsOneReading

\* A function of 1..m is a sequence.
LEMMA FunctionIsSeq ==
    ASSUME NEW S, NEW m \in Nat, NEW f \in [1..m -> S]
    PROVE  f \in Seq(S) /\ Len(f) = m
BY SeqDef

\* A source that is read adds its document and the blocks cut from it.
LEMMA ReadStep ==
    ASSUME ListedInv, ReadInv, NEW c \in Content,
           Len(documents) < Len(sources),
           << sources[Len(documents) + 1].locator, c >> \in held,
           documents' = Append(documents, DocumentOf(sources[Len(documents) + 1], c)),
           blocks' = blocks \o BlocksCut(sources[Len(documents) + 1], c),
           sources' = sources, held' = held
    PROVE  ReadInv'
<1> DEFINE n == Len(documents)
           r == sources[n + 1]
           cut == BlocksCut(r, c)
<1>1. /\ n \in Nat /\ DOMAIN documents = 1..n /\ Len(sources) \in Nat /\ r \in Registrations
      /\ documents \in Seq(AllDocuments) /\ blocks \in Seq(AllBlocks)
    <2>1. sources \in Seq(Registrations)
        BY ListedFacts
    <2>2. documents \in Seq(AllDocuments) /\ blocks \in Seq(AllBlocks)
        BY DEF ReadInv
    <2>3. n + 1 \in 1..Len(sources)
        BY <2>1, <2>2, LenProperties
    <2>4. QED BY <2>1, <2>2, <2>3, LenProperties
<1>2. DocumentOf(r, c) \in AllDocuments /\ DocumentOf(r, c).hash = c
    BY <1>1 DEF AllDocuments, DocumentOf
<1>3. cut \in Seq(AllBlocks)
    <2>1. /\ DOMAIN cut = 1..Len(Cut[c]) /\ Len(Cut[c]) \in Nat
          /\ \A i \in DOMAIN cut : cut[i] \in Range(cut)
        BY BlocksCutFacts DEF Range
    <2>2. Range(cut) \subseteq AllBlocks
        BY <1>1 DEF AllBlocks
    <2>3. cut \in [1..Len(Cut[c]) -> AllBlocks]
        BY <2>1, <2>2 DEF BlocksCut
    <2>4. QED BY <2>1, <2>3, FunctionIsSeq
<1> HIDE DEF n, r, cut
<1>4. /\ documents' \in Seq(AllDocuments) /\ Len(documents') = n + 1
      /\ \A i \in 1..n : documents'[i] = documents[i]
      /\ documents'[n + 1] = DocumentOf(r, c)
    BY <1>1, <1>2 DEF n, r
<1>5. blocks' \in Seq(AllBlocks) /\ Range(blocks') = Range(blocks) \cup Range(cut)
    <2>1. blocks' = blocks \o cut
        BY DEF cut, r, n
    <2>2. /\ blocks' \in Seq(AllBlocks) /\ Len(blocks') = Len(blocks) + Len(cut)
          /\ Len(blocks) \in Nat /\ Len(cut) \in Nat
          /\ DOMAIN blocks = 1..Len(blocks) /\ DOMAIN cut = 1..Len(cut) /\ DOMAIN blocks' = 1..Len(blocks')
          /\ \A i \in 1..Len(blocks) : blocks'[i] = blocks[i]
          /\ \A i \in 1..Len(cut) : blocks'[Len(blocks) + i] = cut[i]
        BY <1>1, <1>3, <2>1
    <2>3. Range(blocks) \cup Range(cut) \subseteq Range(blocks')
        <3>1. \A i \in DOMAIN blocks : i \in DOMAIN blocks' /\ blocks[i] = blocks'[i]
            BY <2>2
        <3>2. \A i \in DOMAIN cut : Len(blocks) + i \in DOMAIN blocks' /\ cut[i] = blocks'[Len(blocks) + i]
            BY <2>2
        <3>3. QED BY <3>1, <3>2 DEF Range
    <2>4. ASSUME NEW i \in DOMAIN blocks'
          PROVE  blocks'[i] \in Range(blocks) \cup Range(cut)
        <3>1. CASE i <= Len(blocks)
            BY <2>2, <3>1 DEF Range
        <3>2. CASE i > Len(blocks)
            <4>1. i - Len(blocks) \in 1..Len(cut) /\ i = Len(blocks) + (i - Len(blocks))
                BY <2>2, <3>2
            <4>2. blocks'[i] = cut[i - Len(blocks)]
                BY <2>2, <4>1
            <4>3. QED BY <2>2, <4>1, <4>2 DEF Range
        <3>3. QED BY <2>2, <3>1, <3>2
    <2>5. Range(blocks') \subseteq Range(blocks) \cup Range(cut)
        BY <2>4 DEF Range
    <2>6. QED BY <2>2, <2>3, <2>5
<1>6. \A i \in 1..(n + 1) : i \in 1..n \/ i = n + 1
    BY <1>1
<1>7. \A i \in 1..Len(documents') :
          /\ documents'[i].hash \in Content
          /\ documents'[i] = DocumentOf(sources[i], documents'[i].hash)
          /\ << sources[i].locator, documents'[i].hash >> \in held
    BY <1>1, <1>2, <1>4, <1>6 DEF ReadInv, n, r
<1>8. Range(blocks') = UNION { Range(BlocksCut(sources[i], documents'[i].hash)) : i \in 1..Len(documents') }
    <2>1. Range(blocks) = UNION { Range(BlocksCut(sources[i], documents[i].hash)) : i \in 1..n }
        BY DEF ReadInv, n
    <2>2. \A i \in 1..n : documents'[i].hash = documents[i].hash
        BY <1>4
    <2>3. documents'[n + 1].hash = c /\ sources[n + 1] = r
        BY <1>2, <1>4 DEF r
    <2>4. \A i \in 1..n : i \in 1..(n + 1) /\ Range(BlocksCut(sources[i], documents'[i].hash)) \subseteq Range(blocks)
        BY <1>1, <2>1, <2>2
    <2>5. n + 1 \in 1..(n + 1) /\ Range(BlocksCut(sources[n + 1], documents'[n + 1].hash)) = Range(cut)
        BY <1>1, <2>3 DEF cut
    <2>6. ASSUME NEW b \in Range(blocks')
          PROVE  \E i \in 1..(n + 1) : b \in Range(BlocksCut(sources[i], documents'[i].hash))
        <3>1. CASE b \in Range(blocks)
            <4>1. PICK i \in 1..n : b \in Range(BlocksCut(sources[i], documents[i].hash))
                BY <2>1, <3>1
            <4>2. QED BY <2>2, <2>4, <4>1
        <3>2. CASE b \in Range(cut)
            BY <2>5, <3>2
        <3>3. QED BY <1>5, <3>1, <3>2
    <2>7. \A i \in 1..(n + 1) : Range(BlocksCut(sources[i], documents'[i].hash)) \subseteq Range(blocks')
        BY <1>5, <1>6, <2>4, <2>5
    <2>8. QED BY <1>4, <2>6, <2>7
<1>9. Len(documents') <= Len(sources')
    BY <1>1, <1>4 DEF n
<1>10. sources' = sources /\ held' = held
    OBVIOUS
<1>11. (documents \in Seq(AllDocuments))'
    BY <1>4
<1>12. (blocks \in Seq(AllBlocks))'
    BY <1>5
<1>13. (\A i \in 1..Len(documents) :
          /\ documents[i].hash \in Content
          /\ documents[i] = DocumentOf(sources[i], documents[i].hash)
          /\ << sources[i].locator, documents[i].hash >> \in held)'
    BY <1>7, <1>10
<1>14. (Range(blocks) = UNION { Range(BlocksCut(sources[i], documents[i].hash)) : i \in 1..Len(documents) })'
    BY <1>8, <1>10
<1>15. QED BY <1>9, <1>11, <1>12, <1>13, <1>14 DEF ReadInv

\* What was listed and read stays so while the files change.
LEMMA ReadStays ==
    ASSUME UNCHANGED << request, listing, sources, documents, blocks >>, held \subseteq held'
    PROVE  (ListedInv => ListedInv') /\ (ReadInv => ReadInv')
<1>1. ListedInv => ListedInv'
    BY DEF ListedInv
<1>2. ASSUME ReadInv PROVE ReadInv'
    <2>1. (documents \in Seq(AllDocuments))' /\ (blocks \in Seq(AllBlocks))' /\ (Len(documents) <= Len(sources))'
        BY <1>2 DEF ReadInv
    <2>2. (\A i \in 1..Len(documents) :
              /\ documents[i].hash \in Content
              /\ documents[i] = DocumentOf(sources[i], documents[i].hash)
              /\ << sources[i].locator, documents[i].hash >> \in held)'
        BY <1>2 DEF ReadInv
    <2>3. (Range(blocks) = UNION { Range(BlocksCut(sources[i], documents[i].hash)) : i \in 1..Len(documents) })'
        BY <1>2, Zenon DEF ReadInv
    <2>4. QED BY <2>1, <2>2, <2>3 DEF ReadInv
<1>3. QED BY <1>1, <1>2

\* Whatever the operator does to the registry, it holds registrations.
LEMMA WriterKeepsRegistrations ==
    ASSUME NEW rs \in SUBSET Registrations, IsFiniteSet(rs), NEW r \in Entries \cup rs,
           NEW operation \in {"register", "update", "remove"}
    PROVE  /\ WriterAnswers(rs, operation, r).registry \in SUBSET Registrations
           /\ IsFiniteSet(WriterAnswers(rs, operation, r).registry)
<1>1. r \in Registrations
    BY DEF Registrations
<1>2. Without(rs, r) \in SUBSET rs
    BY DEF Without
<1>3. IsFiniteSet(Without(rs, r)) /\ IsFiniteSet(Without(rs, r) \cup {r}) /\ IsFiniteSet(rs \cup {r})
    BY <1>2, FS_Subset, FS_AddElement
<1>4. WriterAnswers(rs, operation, r).registry \in { rs, rs \cup {r}, Without(rs, r), Without(rs, r) \cup {r} }
    BY DEF WriterAnswers, StoreRegisters, StoreUpdates, StoreRemoves
<1>5. QED BY <1>1, <1>2, <1>3, <1>4

\* Every answer to a listing that is no failure is a sequence of registrations.
LEMMA ListingsAreRegistrations ==
    ASSUME WorldInv, NEW l \in Listings, l.ok
    PROVE  l.value \in Seq(Registrations)
<1> DEFINE S == { r \in registry : r.scope = request.scope }
<1>1. IsFiniteSet(S) /\ S \in SUBSET Registrations /\ Cardinality(S) \in Nat
    BY FS_Subset, FS_CardinalityType DEF WorldInv
<1>2. \A h \in HonestListings : h \in Seq(Registrations)
    <2> SUFFICES ASSUME NEW h \in HonestListings PROVE h \in Seq(Registrations)
        OBVIOUS
    <2>1. h \in [1..Cardinality(S) -> S]
        BY DEF HonestListings, SetToSeqs
    <2>2. h \in [1..Cardinality(S) -> Registrations]
        BY <1>1, <2>1
    <2>3. QED BY <1>1, <2>2, FunctionIsSeq
<1>3. Entries \cup registry \subseteq Registrations
    BY DEF WorldInv, Registrations
<1>4. CASE l \in { Reply(h) : h \in HonestListings }
    BY <1>2, <1>4 DEF Reply
<1>5. CASE l \in { Reply(Append(h, e)) : h \in HonestListings, e \in Entries \cup registry }
    <2>1. PICK h \in HonestListings, e \in Entries \cup registry : l = Reply(Append(h, e))
        BY <1>5
    <2>2. Append(h, e) \in Seq(Registrations)
        BY <1>2, <1>3
    <2>3. QED BY <2>1, <2>2 DEF Reply
<1>6. CASE l = Failure("unavailable")
    BY <1>6 DEF Failure
<1>7. QED BY <1>4, <1>5, <1>6 DEF Listings

\* Before the registry is listed nothing is read.
LEMMA CorpusInit ==
    ASSUME Init
    PROVE  CorpusInv
<1>1. registry \in SUBSET Registrations /\ IsFiniteSet(registry) /\ \A l \in DOMAIN files : files[l] \in Content
    BY RegistrationAssumption DEF Init, Registrations
<1>2. QED BY <1>1 DEF Init, CorpusInv, Asked, WorldInv

\* What the compilation does with the corpus leaves it as it was.
CorpusRests ==
    /\ UNCHANGED << registry, files, request, listing, sources, documents, blocks, held >>
    /\ stage' = stage \/ (stage \in {"asking", "answered"} /\ stage' \notin {"listing", "reading"})

\* Every step of execute() and of the world keeps what was read what it was.
LEMMA CorpusStep ==
    ASSUME CorpusInv, [Next]_vars
    PROVE  CorpusInv'
<1> USE DEF worldVars, corpusVars, providerVars, traceVars
<1>1. ASSUME NEW operation \in {"register", "update", "remove"}, NEW r \in Entries \cup registry,
             Administers(operation, r)
      PROVE  CorpusInv'
    <2>1. WorldInv'
        BY <1>1, WriterKeepsRegistrations DEF CorpusInv, WorldInv, Administers
    <2>2. UNCHANGED << files, stage, request, listing, sources, documents, blocks, held >>
        BY <1>1 DEF Administers
    <2>3. (ListedInv => ListedInv') /\ (ReadInv => ReadInv')
        BY <2>2, ReadStays
    <2>4. QED BY <2>1, <2>2, <2>3 DEF CorpusInv, Asked
<1>2. ASSUME NEW l \in DOMAIN files, NEW c \in Content, WritesFile(l, c)
      PROVE  CorpusInv'
    <2>1. /\ files' = [files EXCEPT ![l] = c] /\ held' = held \cup { << l, c >> }
          /\ UNCHANGED << registry, stage, request, listing, sources, documents, blocks >>
        BY <1>2 DEF WritesFile
    <2>2. WorldInv'
        BY <2>1 DEF CorpusInv, WorldInv
    <2>3. (ListedInv => ListedInv') /\ (ReadInv => ReadInv')
        BY <2>1, ReadStays
    <2>4. stage = "reading" => \A k \in DOMAIN files' : << k, files'[k] >> \in held'
        BY <2>1 DEF CorpusInv
    <2>5. QED BY <2>1, <2>2, <2>3, <2>4 DEF CorpusInv, Asked
<1>3. ASSUME Lists
      PROVE  CorpusInv'
    <2>1. PICK l \in Listings :
             /\ listing' = l
             /\ IF CanonicalRegistrations(l, request.scope).ok
                THEN stage' = "reading" /\ sources' = CanonicalRegistrations(l, request.scope).value
                ELSE stage' = CanonicalRegistrations(l, request.scope).code
        BY <1>3 DEF Lists, Fail
    <2>2. /\ UNCHANGED << registry, files, request, documents, blocks >>
          /\ held' = { << k, files[k] >> : k \in DOMAIN files }
          /\ documents = <<>> /\ blocks = <<>>
        BY <1>3 DEF Lists, CorpusInv
    <2>3. WorldInv'
        BY <2>2 DEF CorpusInv, WorldInv
    <2>4. CASE CanonicalRegistrations(l, request.scope).ok
        <3>1. l.ok /\ CanonicalRegistrations(l, request.scope) = Reply(sources')
            BY <2>1, <2>4 DEF CanonicalRegistrations, Reply, Failure
        <3>2. ListedInv'
            BY <2>1, <2>2, <3>1, ListingsAreRegistrations DEF ListedInv, CorpusInv
        <3>3. Len(sources') \in Nat
            <4>1. ListedInv' => (sources \in Seq(Registrations))'
                BY ListedFacts, PTL
            <4>2. QED BY <3>2, <4>1
        <3>4. ReadInv'
            BY <2>2, <3>3 DEF ReadInv, Range
        <3>5. QED BY <2>1, <2>2, <2>3, <2>4, <3>2, <3>4 DEF CorpusInv, Asked
    <2>5. CASE ~ CanonicalRegistrations(l, request.scope).ok
        <3>1. CanonicalRegistrations(l, request.scope).code \in {"control-store", "source-registration"}
            BY <2>5 DEF CanonicalRegistrations, Reply, Failure
        <3>2. QED BY <2>1, <2>3, <2>5, <3>1 DEF CorpusInv, Asked
    <2>6. QED BY <2>4, <2>5
<1>4. ASSUME Reads
      PROVE  CorpusInv'
    <2> DEFINE r == sources[Len(documents) + 1]
    <2>1. /\ stage = "reading" /\ Len(documents) < Len(sources)
          /\ UNCHANGED << registry, files, request, listing, sources, held >>
        BY <1>4 DEF Reads
    <2>2. ListedInv /\ ReadInv /\ WorldInv /\ WorldInv' /\ ListedInv'
        BY <2>1, ReadStays DEF CorpusInv, WorldInv, ListedInv
    <2>3. PICK read \in { Reply(files[l]) : l \in {r.locator} \cap DOMAIN files } \cup { Failure("unreadable") },
              counted \in BOOLEAN :
             LET made == PrepareSource(r, read, counted)
             IN  IF made.ok
                 THEN /\ documents' = Append(documents, made.value.document)
                      /\ blocks' = blocks \o made.value.blocks
                      /\ UNCHANGED stage
                 ELSE Fail(made.code) /\ UNCHANGED << documents, blocks >>
        BY <1>4 DEF Reads
    <2>4. CASE PrepareSource(r, read, counted).ok
        <3>1. read.ok /\ r.locator \in DOMAIN files /\ read.value = files[r.locator]
            BY <2>3, <2>4 DEF PrepareSource, Reply, Failure
        <3>2. PrepareSource(r, read, counted).value = [document |-> DocumentOf(r, read.value), blocks |-> BlocksCut(r, read.value)]
            BY <2>4, <3>1 DEF PrepareSource, Reply, Failure
        <3>3. read.value \in Content /\ << r.locator, read.value >> \in held
            BY <2>1, <2>2, <3>1 DEF WorldInv, CorpusInv
        <3>4. /\ documents' = Append(documents, DocumentOf(r, read.value))
              /\ blocks' = blocks \o BlocksCut(r, read.value)
              /\ stage' = stage
            BY <2>3, <2>4, <3>2
        <3>5. ReadInv'
            BY <2>1, <2>2, <3>3, <3>4, ReadStep
        <3>6. QED BY <2>1, <2>2, <3>4, <3>5 DEF CorpusInv, Asked
    <2>5. CASE ~ PrepareSource(r, read, counted).ok
        <3>1. PrepareSource(r, read, counted).code \in {"source-read", "source-ingestion", "source-chunking"}
            BY <2>5 DEF PrepareSource, Reply, Failure
        <3>2. stage' \in {"source-read", "source-ingestion", "source-chunking"}
            BY <2>3, <2>5, <3>1 DEF Fail
        <3>3. QED BY <2>2, <3>2 DEF CorpusInv, Asked
    <2>6. QED BY <2>4, <2>5
<1>5. ASSUME Lend
      PROVE  CorpusInv'
    <2>1. /\ stage = "reading" /\ stage' = "asking" /\ Len(documents) = Len(sources)
          /\ UNCHANGED << registry, files, request, listing, sources, documents, blocks, held >>
        BY <1>5 DEF Lend
    <2>2. (ListedInv => ListedInv') /\ (ReadInv => ReadInv')
        BY <2>1, ReadStays
    <2>3. QED BY <2>1, <2>2 DEF CorpusInv, Asked, WorldInv
<1>6. ASSUME CorpusRests
      PROVE  CorpusInv'
    <2>1. (ListedInv => ListedInv') /\ (ReadInv => ReadInv')
        BY <1>6, ReadStays DEF CorpusRests
    <2>2. QED BY <1>6, <2>1 DEF CorpusRests, CorpusInv, Asked, WorldInv
<1>7. ASSUME \/ ProviderAnswers \/ ProviderFails \/ MiniSearchAnswers \/ Receives
             \/ StoresTrace \/ ReadsTrace \/ Ends \/ UNCHANGED vars
             \/ \E ref \in Known : Meddle(ref)
      PROVE  CorpusRests
    <2>1. CASE ProviderAnswers
        BY <2>1 DEF ProviderAnswers, Resolves, CorpusRests
    <2>2. CASE ProviderFails
        BY <2>2 DEF ProviderFails, Fail, CorpusRests
    <2>3. CASE MiniSearchAnswers
        BY <2>3 DEF MiniSearchAnswers, Resolves, Fail, CorpusRests
    <2>4. CASE Receives
        BY <2>4 DEF Receives, Fail, CorpusRests
    <2>5. CASE StoresTrace
        BY <2>5 DEF StoresTrace, CorpusRests
    <2>6. CASE ReadsTrace
        BY <2>6 DEF ReadsTrace, CorpusRests
    <2>7. CASE Ends \/ UNCHANGED vars
        BY <2>7 DEF Ends, vars, CorpusRests
    <2>8. CASE \E ref \in Known : Meddle(ref)
        BY <2>8 DEF Meddle, CorpusRests
    <2>9. QED BY <1>7, <2>1, <2>2, <2>3, <2>4, <2>5, <2>6, <2>7, <2>8
<1>8. QED BY <1>1, <1>2, <1>3, <1>4, <1>5, <1>6, <1>7 DEF Next

\* CorpusInv is an invariant.
LEMMA CorpusHolds == Spec => []CorpusInv
<1>1. Init => CorpusInv
    BY CorpusInit
<1>2. CorpusInv /\ [Next]_vars => CorpusInv'
    BY CorpusStep
<1>3. QED BY <1>1, <1>2, PTL DEF Spec

\* A corpus is one reading of the registrations one listing held, whatever an
\* operator and the files do meanwhile and whatever the store lists: prepare().
THEOREM CorpusIsOneReadingHolds == Spec => []CorpusIsOneReading
<1>1. CorpusInv => CorpusIsOneReading
    BY CorpusOfInv
<1>2. QED BY <1>1, CorpusHolds, PTL

-----------------------------------------------------------------------------
(* The objects.                                                            *)

Sequence(s) == s \in Seq(Range(s))

Kinds == Fields \cup {"data"}

IsObject(v) == v = [field |-> v.field, block |-> v.block] /\ v.field \in Kinds

\* The blocks the service holds are objects of its own, and so are the candidates
\* it resolved to, unless one may carry a field under a symbol.
HeapInv ==
    /\ Sequence(heap) /\ \A i \in DOMAIN heap : IsObject(heap[i])
    /\ Known \subseteq DOMAIN heap /\ Sequence(answer)
    /\ stage \in {"listing", "reading"} => lent = <<>> /\ answer = <<>>
    /\ Asked =>
          /\ prepared = [ i \in DOMAIN Blocks |-> i ]
          /\ DOMAIN Blocks \subseteq DOMAIN heap \ Known
          /\ \A i \in DOMAIN Blocks : heap[i] = Json(Blocks[i])
    /\ result # {} => stage = "done"
    /\ "symbol" \notin Fields => \A r \in result :
            /\ r.blocks = prepared
            /\ Range(r.compiled) \subseteq Range(Blocks)
            /\ \A i \in DOMAIN r.candidates :
                  r.candidates[i] \in DOMAIN heap \ Known /\ heap[r.candidates[i]].block = r.compiled[i]

\* A function of 1..m is a sequence, whatever its values are.
LEMMA SequenceFacts ==
    ASSUME NEW s, Sequence(s)
    PROVE  /\ Len(s) \in Nat /\ DOMAIN s = 1..Len(s)
           /\ s \in [1..Len(s) -> Range(s)]
BY LenProperties DEF Sequence

\* The same, of a function into any set.
LEMMA FunctionIsSequence ==
    ASSUME NEW m \in Nat, NEW S, NEW f \in [1..m -> S]
    PROVE  Sequence(f) /\ Len(f) = m
<1>1. f \in [1..m -> Range(f)]
    BY DEF Range
<1>2. QED BY <1>1, FunctionIsSeq DEF Sequence

\* What is appended has references beyond those in use.
LEMMA JoinFacts ==
    ASSUME NEW s, NEW t, Sequence(s), Sequence(t)
    PROVE  /\ Sequence(s \o t)
           /\ DOMAIN s = 1..Len(s) /\ DOMAIN t = 1..Len(t)
           /\ Len(s) \in Nat /\ Len(t) \in Nat
           /\ DOMAIN (s \o t) = 1..(Len(s) + Len(t))
           /\ \A i \in DOMAIN s : (s \o t)[i] = s[i]
           /\ \A i \in DOMAIN t : (s \o t)[Len(s) + i] = t[i]
           /\ \A i \in DOMAIN (s \o t) : i \in DOMAIN s \/ \E j \in DOMAIN t : i = Len(s) + j
<1> DEFINE S == Range(s) \cup Range(t)
<1>1. s \in Seq(S) /\ t \in Seq(S)
    BY SeqMonotonic DEF Sequence
<1>2. /\ Len(s) \in Nat /\ Len(t) \in Nat /\ DOMAIN s = 1..Len(s) /\ DOMAIN t = 1..Len(t)
    BY <1>1, LenProperties
<1>3. /\ s \o t \in Seq(S) /\ Len(s \o t) = Len(s) + Len(t)
      /\ \A i \in 1 .. Len(s) + Len(t) : (s \o t)[i] = IF i <= Len(s) THEN s[i] ELSE t[i - Len(s)]
    BY <1>1, ConcatProperties
<1>4. s \o t \in [1..(Len(s) + Len(t)) -> S]
    BY <1>3, LenProperties
<1>5. Sequence(s \o t)
    <2>1. Len(s) + Len(t) \in Nat
        BY <1>2
    <2>2. QED BY <1>4, <2>1, FunctionIsSequence
<1>6. \A i \in DOMAIN s : (s \o t)[i] = s[i]
    BY <1>2, <1>3
<1>7. \A i \in DOMAIN t : (s \o t)[Len(s) + i] = t[i]
    <2> SUFFICES ASSUME NEW i \in DOMAIN t PROVE (s \o t)[Len(s) + i] = t[i]
        OBVIOUS
    <2>1. Len(s) + i \in 1 .. Len(s) + Len(t) /\ ~ (Len(s) + i <= Len(s)) /\ (Len(s) + i) - Len(s) = i
        BY <1>2
    <2>2. QED BY <1>3, <2>1
<1>8. \A i \in 1..(Len(s) + Len(t)) : i \in DOMAIN s \/ \E j \in DOMAIN t : i = Len(s) + j
    <2> SUFFICES ASSUME NEW i \in 1..(Len(s) + Len(t)), i \notin DOMAIN s PROVE \E j \in DOMAIN t : i = Len(s) + j
        OBVIOUS
    <2>1. i - Len(s) \in DOMAIN t /\ i = Len(s) + (i - Len(s))
        BY <1>2
    <2>2. QED BY <2>1
<1>9. DOMAIN (s \o t) = 1..(Len(s) + Len(t))
    BY <1>4
<1>10. QED BY <1>2, <1>5, <1>6, <1>7, <1>8, <1>9

\* Objects that are appended leave the others as they are.
LEMMA JoinObjects ==
    ASSUME Sequence(heap), \A i \in DOMAIN heap : IsObject(heap[i]),
           NEW values, Sequence(values), \A i \in DOMAIN values : IsObject(values[i]),
           heap' = heap \o values
    PROVE  /\ Sequence(heap') /\ \A i \in DOMAIN heap' : IsObject(heap'[i])
           /\ \A i \in DOMAIN heap : i \in DOMAIN heap' /\ heap'[i] = heap[i]
           /\ \A i \in DOMAIN values : /\ Len(heap) + i \in DOMAIN heap' \ DOMAIN heap
                                       /\ heap'[Len(heap) + i] = values[i]
<1> DEFINE j == heap \o values
<1>1. /\ Sequence(j)
      /\ DOMAIN heap = 1..Len(heap) /\ DOMAIN values = 1..Len(values)
      /\ Len(heap) \in Nat /\ Len(values) \in Nat
      /\ DOMAIN j = 1..(Len(heap) + Len(values))
      /\ \A i \in DOMAIN heap : j[i] = heap[i]
      /\ \A i \in DOMAIN values : j[Len(heap) + i] = values[i]
      /\ \A i \in DOMAIN j : i \in DOMAIN heap \/ \E k \in DOMAIN values : i = Len(heap) + k
    BY JoinFacts
<1> HIDE DEF j
<1>2. heap' = j
    BY DEF j
<1>3. \A i \in DOMAIN j : IsObject(j[i])
    BY <1>1
<1>4. \A i \in DOMAIN heap : i \in DOMAIN j
    BY <1>1
<1>5. \A i \in DOMAIN values : Len(heap) + i \in DOMAIN j \ DOMAIN heap
    BY <1>1
<1>6. QED BY <1>1, <1>2, <1>3, <1>4, <1>5

\* Sorted keeps the length, so what MiniSearch resolves to is a sequence.
LEMMA CandidatesAreASequence ==
    ASSUME NEW given, NEW query, NEW found,
           found.ok => Len(found.value) \in Nat /\ DOMAIN found.value = 1..Len(found.value),
           GetCandidates(given, query, found).ok
    PROVE  \E m \in Nat : /\ m <= MaxCandidates
                          /\ DOMAIN GetCandidates(given, query, found).value = 1..m
<1> DEFINE made == GetCandidates(given, query, found)
           best == Sorted(found.value, HitBefore)
<1>1. CASE given = <<>> \/ query = "blank"
    <2>1. made.value = <<>>
        BY <1>1 DEF GetCandidates, Reply
    <2>2. 0 \in Nat /\ 0 <= MaxCandidates /\ DOMAIN made.value = 1..0
        BY <2>1, RetrievalAssumption
    <2>3. QED BY <2>2
<1>2. CASE ~ (given = <<>> \/ query = "blank")
    <2>1. found.ok /\ made.value = Wrapped(given, found.value)
        BY <1>2 DEF GetCandidates, Reply, Failure
    <2>2. Len(best) = Len(found.value)
        <3>1. DOMAIN best = 1..Cardinality(DOMAIN found.value)
            BY DEF Sorted, Picked, Lined
        <3>2. Cardinality(DOMAIN found.value) = Len(found.value)
            BY <2>1, FS_Interval
        <3>3. best \in [1..Len(found.value) -> Range(best)]
            BY <3>1, <3>2 DEF Range, Sorted, Picked
        <3>4. QED BY <2>1, <3>3, FunctionIsSeq
    <2>3. DOMAIN made.value = 1..(IF Len(best) < MaxCandidates THEN Len(best) ELSE MaxCandidates)
        BY <2>1 DEF Wrapped
    <2>4. QED BY <2>1, <2>2, <2>3, RetrievalAssumption
<1>3. QED BY <1>1, <1>2

\* What holds of the objects and of the corpus together.
OwnershipInv == CorpusInv /\ HeapInv

\* The blocks in the order they are published are those read.
LEMMA BlocksFacts ==
    ASSUME CorpusInv, stage = "reading" \/ Asked
    PROVE  /\ Len(Blocks) \in Nat /\ DOMAIN Blocks = 1..Len(Blocks)
           /\ Range(Blocks) = Range(blocks)
BY PublishedIsRead, LenProperties DEF CorpusInv

\* The objects, the corpus and the result are as they were, and what the provider
\* holds as well.
ObjectsRest ==
    UNCHANGED << heap, blocks, prepared, lent, answer, result >>

\* Steps that leave the objects alone, however the stage moves on.
LEMMA RestKeepsObjects ==
    ASSUME HeapInv, ObjectsRest,
           \/ stage' = stage
           \/ stage = "listing" /\ stage' = "reading"
           \/ stage \in {"listing", "reading"} /\ ~ Asked' /\ stage' \notin {"listing", "reading"}
           \/ stage = "asking" /\ stage' = "candidate-provider"
    PROVE  HeapInv'
<1>1. Blocks' = Blocks /\ Known' = Known
    BY DEF ObjectsRest, Blocks, Known
<1>2. (Sequence(heap) /\ (\A i \in DOMAIN heap : IsObject(heap[i])) /\ Known \subseteq DOMAIN heap /\ Sequence(answer))'
    BY <1>1 DEF HeapInv, ObjectsRest
<1>3. (stage \in {"listing", "reading"} => lent = <<>> /\ answer = <<>>)'
    BY DEF HeapInv, ObjectsRest
<1>4. (Asked =>
          /\ prepared = [ i \in DOMAIN Blocks |-> i ]
          /\ DOMAIN Blocks \subseteq DOMAIN heap \ Known
          /\ \A i \in DOMAIN Blocks : heap[i] = Json(Blocks[i]))'
    BY <1>1 DEF HeapInv, ObjectsRest, Asked
<1>5. (result # {} => stage = "done")'
    BY DEF HeapInv, ObjectsRest
<1>6. ("symbol" \notin Fields => \A r \in result :
          /\ r.blocks = prepared
          /\ Range(r.compiled) \subseteq Range(Blocks)
          /\ \A i \in DOMAIN r.candidates :
                r.candidates[i] \in DOMAIN heap \ Known /\ heap[r.candidates[i]].block = r.compiled[i])'
    BY <1>1 DEF HeapInv, ObjectsRest
<1>7. QED BY <1>2, <1>3, <1>4, <1>5, <1>6 DEF HeapInv

\* What is lent is a copy of each block.
LEMMA LendKeepsObjects ==
    ASSUME OwnershipInv, Lend
    PROVE  HeapInv'
<1> DEFINE n == Len(Blocks)
           copies == [ i \in 1 .. 2 * n |-> Json(Blocks[IF i > n THEN i - n ELSE i]) ]
<1>1. /\ stage = "reading" /\ stage' = "asking" /\ heap' = copies
      /\ prepared' = [ i \in DOMAIN Blocks |-> i ] /\ lent' = [ i \in DOMAIN Blocks |-> n + i ]
      /\ UNCHANGED << documents, blocks, answer, result >>
    BY DEF Lend, worldVars, corpusVars, providerVars, traceVars
<1>2. /\ n \in Nat /\ DOMAIN Blocks = 1..n /\ answer = <<>> /\ result = {} /\ Sequence(answer)
    BY <1>1, BlocksFacts DEF OwnershipInv, HeapInv
<1>3. Blocks' = Blocks
    BY <1>1 DEF Blocks
<1> HIDE DEF n
<1>4. Known' = { n + i : i \in 1..n }
    <2>1. Range(lent') = { n + i : i \in 1..n }
        BY <1>1, <1>2 DEF Range, n
    <2>2. Range(answer') = {}
        BY <1>1, <1>2 DEF Range
    <2>3. QED BY <2>1, <2>2 DEF Known
<1>5. /\ DOMAIN copies = 1 .. 2 * n
      /\ \A i \in 1..n : copies[i] = Json(Blocks[i]) /\ i \in 1 .. 2 * n /\ i \notin Known' /\ n + i \in 1 .. 2 * n
    BY <1>2, <1>4
<1>6. \A i \in 1 .. 2 * n : IsObject(copies[i])
    BY DEF IsObject, Json, Kinds
<1>7. Sequence(copies)
    <2>1. 2 * n \in Nat /\ copies \in [1 .. 2 * n -> Range(copies)]
        BY <1>2 DEF Range
    <2> HIDE DEF copies
    <2>2. QED BY <2>1, FunctionIsSequence
<1> HIDE DEF copies
<1>8. (Sequence(heap) /\ (\A i \in DOMAIN heap : IsObject(heap[i])) /\ Known \subseteq DOMAIN heap /\ Sequence(answer))'
    BY <1>1, <1>2, <1>4, <1>5, <1>6, <1>7
<1>9. (/\ prepared = [ i \in DOMAIN Blocks |-> i ]
       /\ DOMAIN Blocks \subseteq DOMAIN heap \ Known
       /\ \A i \in DOMAIN Blocks : heap[i] = Json(Blocks[i]))'
    BY <1>1, <1>2, <1>3, <1>4, <1>5
<1>10. QED BY <1>1, <1>2, <1>8, <1>9 DEF HeapInv, Asked

\* What the provider resolves to are objects of its own, new ones.
LEMMA ResolvesKeepsObjects ==
    ASSUME OwnershipInv, stage = "asking", NEW values, Sequence(values),
           \A i \in DOMAIN values : IsObject(values[i]),
           Resolves(values), UNCHANGED << blocks, prepared, result >>
    PROVE  HeapInv'
<1>1. /\ Sequence(heap) /\ \A i \in DOMAIN heap : IsObject(heap[i])
      /\ heap' = heap \o values /\ answer' = [ i \in DOMAIN values |-> Len(heap) + i ]
      /\ stage' = "answered" /\ lent' = lent /\ result = {} /\ result' = {}
    BY DEF OwnershipInv, HeapInv, Resolves
<1>2. /\ Sequence(heap') /\ \A i \in DOMAIN heap' : IsObject(heap'[i])
      /\ \A i \in DOMAIN heap : i \in DOMAIN heap' /\ heap'[i] = heap[i]
      /\ \A i \in DOMAIN values : Len(heap) + i \in DOMAIN heap' \ DOMAIN heap
    BY <1>1, JoinObjects
<1>3. Range(answer') = { Len(heap) + i : i \in DOMAIN values }
    BY <1>1 DEF Range
<1>4. Known' \subseteq Known \cup Range(answer') /\ Range(answer') \subseteq DOMAIN heap' \ DOMAIN heap
    BY <1>1, <1>2, <1>3 DEF Known
<1>5. Sequence(answer')
    <2>1. Len(values) \in Nat /\ DOMAIN values = 1..Len(values)
        BY SequenceFacts
    <2>2. answer' \in [1..Len(values) -> Range(answer')]
        BY <1>1, <2>1 DEF Range
    <2>3. QED BY <2>1, <2>2, FunctionIsSequence
<1>6. Blocks' = Blocks /\ DOMAIN Blocks \subseteq DOMAIN heap \ Known /\ Known \subseteq DOMAIN heap
      /\ prepared' = [ i \in DOMAIN Blocks |-> i ] /\ \A i \in DOMAIN Blocks : heap[i] = Json(Blocks[i])
    BY DEF OwnershipInv, HeapInv, Asked, Blocks
<1>7. DOMAIN Blocks \subseteq DOMAIN heap' \ Known' /\ Known' \subseteq DOMAIN heap'
    BY <1>2, <1>4, <1>6
<1>8. (/\ prepared = [ i \in DOMAIN Blocks |-> i ]
       /\ DOMAIN Blocks \subseteq DOMAIN heap \ Known
       /\ \A i \in DOMAIN Blocks : heap[i] = Json(Blocks[i]))'
    BY <1>2, <1>6, <1>7
<1>9. (Sequence(heap) /\ (\A i \in DOMAIN heap : IsObject(heap[i])) /\ Known \subseteq DOMAIN heap /\ Sequence(answer))'
    BY <1>2, <1>5, <1>7
<1>10. QED BY <1>1, <1>8, <1>9 DEF HeapInv, Asked

\* The provider changes what it holds, and nothing else.
LEMMA MeddleKeepsObjects ==
    ASSUME OwnershipInv, NEW ref \in Known, Meddle(ref)
    PROVE  HeapInv'
<1>1. /\ heap' = [heap EXCEPT ![ref].block = Changed(@)]
      /\ UNCHANGED << stage, blocks, prepared, lent, answer, result >>
    BY DEF Meddle, worldVars, corpusVars, traceVars
<1>2. Blocks' = Blocks /\ Known' = Known
    BY <1>1 DEF Blocks, Known
<1>3. /\ Sequence(heap) /\ \A i \in DOMAIN heap : IsObject(heap[i])
      /\ ref \in DOMAIN heap
    BY DEF OwnershipInv, HeapInv
<1>4. /\ DOMAIN heap' = DOMAIN heap
      /\ \A i \in DOMAIN heap : i # ref => heap'[i] = heap[i]
      /\ heap'[ref] = [heap[ref] EXCEPT !.block = Changed(@)]
    BY <1>1, <1>3
<1>5. \A i \in DOMAIN heap' : IsObject(heap'[i])
    <2>1. heap'[ref] = [field |-> heap[ref].field, block |-> Changed(heap[ref].block)]
        BY <1>3, <1>4 DEF IsObject
    <2>2. IsObject(heap'[ref])
        BY <1>3, <2>1 DEF IsObject
    <2>3. QED BY <1>3, <1>4, <2>2
<1>6. Sequence(heap')
    <2>1. /\ Len(heap) \in Nat /\ DOMAIN heap = 1..Len(heap)
        BY <1>3, SequenceFacts
    <2>2. heap' \in [1..Len(heap) -> Range(heap')]
        BY <1>1, <1>4, <2>1 DEF Range
    <2>3. QED BY <2>1, <2>2, FunctionIsSequence
<1>7. (Known \subseteq DOMAIN heap /\ Sequence(answer))'
    BY <1>1, <1>2, <1>4 DEF OwnershipInv, HeapInv
<1>8. (Asked =>
          /\ prepared = [ i \in DOMAIN Blocks |-> i ]
          /\ DOMAIN Blocks \subseteq DOMAIN heap \ Known
          /\ \A i \in DOMAIN Blocks : heap[i] = Json(Blocks[i]))'
    BY <1>1, <1>2, <1>4 DEF OwnershipInv, HeapInv, Asked
<1>9. ("symbol" \notin Fields => \A r \in result :
          /\ r.blocks = prepared
          /\ Range(r.compiled) \subseteq Range(Blocks)
          /\ \A i \in DOMAIN r.candidates :
                r.candidates[i] \in DOMAIN heap \ Known /\ heap[r.candidates[i]].block = r.compiled[i])'
    BY <1>1, <1>2, <1>4 DEF OwnershipInv, HeapInv
<1>10. (stage \in {"listing", "reading"} => lent = <<>> /\ answer = <<>>)' /\ (result # {} => stage = "done")'
    BY <1>1 DEF OwnershipInv, HeapInv
<1>11. QED BY <1>5, <1>6, <1>7, <1>8, <1>9, <1>10 DEF HeapInv

\* What the compiler copies and the service cannot has a field under a symbol:
\* without one, a candidate that is compiled was copied first.
LEMMA CompiledIsCopied ==
    ASSUME "symbol" \notin Fields, NEW v, IsObject(v), CompilerTakes(v)
    PROVE  CanCopy(v) /\ FieldOK("canonical", ObjectOf(v), v.field)
<1>1. v.field # "symbol" /\ ObjectOf(v).shape = "object"
    BY DEF IsObject, Kinds, ObjectOf
<1>2. v.field \in {"data", "hidden", "undefined"}
    BY <1>1 DEF CompilerTakes, FieldOK
<1>3. QED BY <1>1, <1>2 DEF CanCopy, FieldOK

\* What the provider resolved to is copied, whatever else becomes of it.
LEMMA ReceivedAreCopied ==
    ASSUME OwnershipInv, Receives
    PROVE  /\ Sequence(heap') /\ \A i \in DOMAIN heap' : IsObject(heap'[i])
           /\ \A i \in DOMAIN heap : i \in DOMAIN heap' /\ heap'[i] = heap[i]
           /\ \A i \in DOMAIN answer : /\ answer[i] \in DOMAIN heap /\ IsObject(heap[answer[i]])
                                       /\ Len(heap) + i \in DOMAIN heap' \ DOMAIN heap
                                       /\ heap'[Len(heap) + i] = heap[answer[i]]
<1> DEFINE copies == [ i \in DOMAIN answer |-> heap[answer[i]] ]
<1>1. heap' = heap \o copies
    BY DEF Receives, Owned
<1>2. /\ Sequence(heap) /\ \A i \in DOMAIN heap : IsObject(heap[i])
      /\ Sequence(answer) /\ Known \subseteq DOMAIN heap
    BY DEF OwnershipInv, HeapInv
<1>3. \A i \in DOMAIN answer : answer[i] \in DOMAIN heap /\ copies[i] = heap[answer[i]] /\ IsObject(copies[i])
    BY <1>2 DEF Known, Range
<1>4. Sequence(copies)
    <2>1. Len(answer) \in Nat /\ DOMAIN answer = 1..Len(answer)
        BY <1>2, SequenceFacts
    <2>2. copies \in [1..Len(answer) -> Range(copies)]
        BY <2>1 DEF Range
    <2> HIDE DEF copies
    <2>3. QED BY <2>1, <2>2, FunctionIsSequence
<1>5. /\ Sequence(heap') /\ \A i \in DOMAIN heap' : IsObject(heap'[i])
      /\ \A i \in DOMAIN heap : i \in DOMAIN heap' /\ heap'[i] = heap[i]
      /\ \A i \in DOMAIN answer : /\ Len(heap) + i \in DOMAIN heap' \ DOMAIN heap
                                  /\ heap'[Len(heap) + i] = heap[answer[i]]
    <2>1. DOMAIN copies = DOMAIN answer /\ \A i \in DOMAIN copies : copies[i] = heap[answer[i]] /\ IsObject(copies[i])
        BY <1>3
    <2> HIDE DEF copies
    <2>2. /\ Sequence(heap') /\ \A i \in DOMAIN heap' : IsObject(heap'[i])
          /\ \A i \in DOMAIN heap : i \in DOMAIN heap' /\ heap'[i] = heap[i]
          /\ \A i \in DOMAIN copies : /\ Len(heap) + i \in DOMAIN heap' \ DOMAIN heap
                                      /\ heap'[Len(heap) + i] = copies[i]
        BY <1>1, <1>2, <1>4, <2>1, JoinObjects
    <2>3. QED BY <2>1, <2>2
<1>6. QED BY <1>3, <1>5

\* Candidates that pass the comparison and the compiler are blocks of the corpus,
\* and what is compiled and published of them is the copy of the service.
LEMMA ReceivesKeepsObjects ==
    ASSUME OwnershipInv, Receives
    PROVE  HeapInv'
<1> DEFINE refs == Owned(answer).refs
           copies == [ i \in DOMAIN answer |-> heap[answer[i]] ]
           batch == [ i \in DOMAIN refs |-> heap'[refs[i]] ]
<1>1. /\ stage = "answered" /\ heap' = heap \o copies
      /\ UNCHANGED << blocks, prepared, lent, answer >>
    BY DEF Receives, Owned, corpusVars
<1>2. \/ stage' \in {"candidate-provider", "compilation"} /\ UNCHANGED result
      \/ /\ stage' = "done" /\ MembershipIssues(heap', refs) = {}
         /\ \A i \in DOMAIN batch : CompilerTakes(batch[i])
         /\ \E trace : result' = {[candidates |-> refs, blocks |-> prepared,
                                   compiled |-> [ i \in DOMAIN batch |-> batch[i].block ], trace |-> trace]}
    <2>1. heap' = Owned(answer).heap
        BY DEF Receives
    <2>2. \/ stage' = "candidate-provider" /\ UNCHANGED result
          \/ /\ MembershipIssues(heap', refs) = {}
             /\ \/ /\ \A i \in DOMAIN batch : CompilerTakes(batch[i])
                   /\ stage' = "done"
                   /\ result' = {[candidates |-> refs, blocks |-> prepared,
                                  compiled |-> [ i \in DOMAIN batch |-> batch[i].block ],
                                  trace |-> [valid |-> TRUE, scope |-> request.scope, id |-> request.id, version |-> 2]]}
                \/ stage' = "compilation" /\ UNCHANGED result
        BY <2>1 DEF Receives, Fail
    <2>3. QED BY <2>2
<1>3. /\ Sequence(heap) /\ \A i \in DOMAIN heap : IsObject(heap[i])
      /\ Sequence(answer) /\ Known \subseteq DOMAIN heap /\ result = {}
      /\ prepared = [ i \in DOMAIN Blocks |-> i ]
      /\ DOMAIN Blocks \subseteq DOMAIN heap \ Known
      /\ \A i \in DOMAIN Blocks : heap[i] = Json(Blocks[i])
    BY <1>1 DEF OwnershipInv, HeapInv, Asked
<1>4. /\ Sequence(heap') /\ \A i \in DOMAIN heap' : IsObject(heap'[i])
      /\ \A i \in DOMAIN heap : i \in DOMAIN heap' /\ heap'[i] = heap[i]
      /\ \A i \in DOMAIN answer : /\ answer[i] \in DOMAIN heap /\ IsObject(heap[answer[i]])
                                  /\ Len(heap) + i \in DOMAIN heap' \ DOMAIN heap
                                  /\ heap'[Len(heap) + i] = heap[answer[i]]
    BY ReceivedAreCopied
<1>7. Blocks' = Blocks /\ Known' = Known
    BY <1>1 DEF Blocks, Known
<1>8. (Sequence(heap) /\ (\A i \in DOMAIN heap : IsObject(heap[i])) /\ Known \subseteq DOMAIN heap /\ Sequence(answer))'
    BY <1>1, <1>3, <1>4, <1>7
<1>9. (/\ prepared = [ i \in DOMAIN Blocks |-> i ]
       /\ DOMAIN Blocks \subseteq DOMAIN heap \ Known
       /\ \A i \in DOMAIN Blocks : heap[i] = Json(Blocks[i]))'
    BY <1>1, <1>3, <1>4, <1>7
<1>10. CASE stage' \in {"candidate-provider", "compilation"} /\ UNCHANGED result
    BY <1>3, <1>8, <1>9, <1>10 DEF HeapInv, Asked
<1>11. CASE /\ stage' = "done" /\ MembershipIssues(heap', refs) = {}
            /\ \A i \in DOMAIN batch : CompilerTakes(batch[i])
            /\ \E trace : result' = {[candidates |-> refs, blocks |-> prepared,
                                      compiled |-> [ i \in DOMAIN batch |-> batch[i].block ], trace |-> trace]}
    <2> SUFFICES ASSUME "symbol" \notin Fields
                 PROVE  \A r \in result' :
                           /\ r.blocks = prepared'
                           /\ Range(r.compiled) \subseteq Range(Blocks')
                           /\ \A i \in DOMAIN r.candidates :
                                 r.candidates[i] \in DOMAIN heap' \ Known' /\ heap'[r.candidates[i]].block = r.compiled[i]
        BY <1>8, <1>9, <1>11 DEF HeapInv, Asked
    <2>1. /\ DOMAIN refs = DOMAIN answer
          /\ \A i \in DOMAIN answer : refs[i] = IF CanCopy(heap[answer[i]]) THEN Len(heap) + i ELSE answer[i]
        BY DEF Owned
    <2> HIDE DEF refs
    <2>2. \A i \in DOMAIN refs : heap'[refs[i]] = heap[answer[i]] /\ IsObject(heap'[refs[i]])
        BY <1>4, <2>1
    <2>3. \A i \in DOMAIN refs : CompilerTakes(heap'[refs[i]])
        BY <1>11
    <2>4. \A i \in DOMAIN refs : /\ CanCopy(heap[answer[i]])
                                 /\ FieldOK("canonical", ObjectOf(heap'[refs[i]]), heap'[refs[i]].field)
        BY <2>2, <2>3, CompiledIsCopied
    <2>5. \A i \in DOMAIN refs : refs[i] \in DOMAIN heap' \ Known'
        BY <1>3, <1>4, <1>7, <2>1, <2>4
    <2>6. { heap'[p].block : p \in Range(prepared) } = Range(Blocks)
        <3>1. Range(prepared) = DOMAIN Blocks
            BY <1>3 DEF Range
        <3>2. \A i \in DOMAIN Blocks : heap'[i].block = Blocks[i]
            <4> SUFFICES ASSUME NEW i \in DOMAIN Blocks PROVE heap'[i].block = Blocks[i]
                OBVIOUS
            <4>1. heap'[i] = Json(Blocks[i])
                BY <1>3, <1>4
            <4>2. QED BY <4>1 DEF Json
        <3>3. QED BY <3>1, <3>2 DEF Range
    <2>7. \A i \in DOMAIN refs : heap'[refs[i]].block \in Range(Blocks)
        <3> SUFFICES ASSUME NEW i \in DOMAIN refs PROVE heap'[refs[i]].block \in Range(Blocks)
            OBVIOUS
        <3> DEFINE v == heap'[refs[i]]
                   corpus == { heap'[p].block : p \in Range(prepared) }
                   issues == IF v.block.id = <<>> THEN {}
                             ELSE IF \A b \in corpus : b.id # v.block.id THEN {"candidate_outside_prepared_corpus"}
                             ELSE IF ~ FieldOK("canonical", ObjectOf(v), v.field) THEN {}
                             ELSE IF v.block \notin corpus THEN {"candidate_block_mismatch"}
                             ELSE {}
        <3>1. issues \subseteq MembershipIssues(heap', refs)
            BY DEF MembershipIssues
        <3>2. issues = {}
            BY <1>11, <3>1
        <3>3. v.block.id # <<>> /\ FieldOK("canonical", ObjectOf(v), v.field)
            BY <2>3, <2>4 DEF CompilerTakes
        <3> HIDE DEF v, corpus
        <3>4. v.block \in corpus
            BY <3>2, <3>3
        <3>5. QED BY <2>6, <3>4 DEF v, corpus
    <2>8. QED
        <3> SUFFICES ASSUME NEW r \in result'
                     PROVE  /\ r.blocks = prepared'
                            /\ Range(r.compiled) \subseteq Range(Blocks')
                            /\ \A i \in DOMAIN r.candidates :
                                  r.candidates[i] \in DOMAIN heap' \ Known' /\ heap'[r.candidates[i]].block = r.compiled[i]
            OBVIOUS
        <3>1. /\ r.candidates = refs /\ r.blocks = prepared'
              /\ r.compiled = [ i \in DOMAIN refs |-> heap'[refs[i]].block ]
            <4>1. PICK trace : r = [candidates |-> refs, blocks |-> prepared,
                                    compiled |-> [ i \in DOMAIN batch |-> batch[i].block ], trace |-> trace]
                BY <1>11
            <4>2. [ i \in DOMAIN batch |-> batch[i].block ] = [ i \in DOMAIN refs |-> heap'[refs[i]].block ]
                OBVIOUS
            <4> HIDE DEF batch
            <4>3. QED BY <1>1, <4>1, <4>2
        <3>2. Range(r.compiled) \subseteq Range(Blocks')
            BY <1>7, <2>7, <3>1 DEF Range
        <3>3. QED BY <2>5, <3>1, <3>2
<1>12. QED BY <1>2, <1>10, <1>11

\* At first there are no objects.
LEMMA OwnershipInit ==
    ASSUME Init
    PROVE  OwnershipInv
<1>1. Sequence(<<>>) /\ Range(<<>>) = {} /\ DOMAIN <<>> = {}
    BY EmptySeq DEF Sequence, Range
<1>2. HeapInv
    BY <1>1 DEF Init, HeapInv, Asked, Known
<1>3. QED BY <1>2, CorpusInit DEF OwnershipInv

\* Every step keeps the objects of the service apart from those of the provider.
LEMMA OwnershipStep ==
    ASSUME OwnershipInv, [Next]_vars
    PROVE  OwnershipInv'
<1> USE DEF worldVars, corpusVars, providerVars, traceVars
<1> SUFFICES HeapInv'
    BY CorpusStep DEF OwnershipInv
<1> HeapInv
    BY DEF OwnershipInv
<1>1. CASE ProviderAnswers
    <2>1. PICK n \in 0 .. MaxAnswer : \E values \in [1..n -> Proposals] : Resolves(values)
        BY <1>1 DEF ProviderAnswers
    <2>2. PICK values \in [1..n -> Proposals] : Resolves(values)
        BY <2>1
    <2>3. \A v \in Proposals : IsObject(v)
        BY DEF Proposals, IsObject, Json, Kinds
    <2>4. Sequence(values) /\ \A i \in DOMAIN values : IsObject(values[i])
        <3>1. n \in Nat
            BY RetrievalAssumption
        <3>2. Sequence(values)
            BY <3>1, FunctionIsSequence
        <3>3. QED BY <2>3, <3>2
    <2>5. stage = "asking" /\ UNCHANGED << blocks, prepared, result >>
        BY <1>1 DEF ProviderAnswers
    <2>6. QED BY <2>2, <2>4, <2>5, ResolvesKeepsObjects
<1>2. CASE MiniSearchAnswers
    <2>1. PICK reply \in { Reply(hits) : hits \in BoundedSeq(Hits, MaxAnswer) } \cup { Failure("SEARCH_FAILED") } :
             LET found == IF reply.ok THEN Reply([ i \in DOMAIN reply.value |-> HitOn(reply.value[i]) ]) ELSE reply
                 made  == GetCandidates([ i \in DOMAIN Lent |-> Lent[i].block ], request.query, found)
             IN  IF made.ok
                 THEN Resolves([ i \in DOMAIN made.value |-> Json(made.value[i].block) ])
                 ELSE Fail("candidate-provider") /\ UNCHANGED providerVars
        BY <1>2 DEF MiniSearchAnswers
    <2> DEFINE found == IF reply.ok THEN Reply([ i \in DOMAIN reply.value |-> HitOn(reply.value[i]) ]) ELSE reply
               made  == GetCandidates([ i \in DOMAIN Lent |-> Lent[i].block ], request.query, found)
               values == [ i \in DOMAIN made.value |-> Json(made.value[i].block) ]
    <2>2. stage = "asking" /\ UNCHANGED << blocks, prepared, result >>
        BY <1>2 DEF MiniSearchAnswers
    <2>3. CASE made.ok
        <3>1. found.ok => Len(found.value) \in Nat /\ DOMAIN found.value = 1..Len(found.value)
            BY FunctionIsSeq, RetrievalAssumption DEF Reply, Failure, BoundedSeq, SeqOf
        <3> HIDE DEF found
        <3>2. PICK m \in Nat : DOMAIN made.value = 1..m
            BY <2>3, <3>1, CandidatesAreASequence
        <3> HIDE DEF made
        <3>3. values \in [1..m -> Range(values)] /\ \A i \in DOMAIN values : IsObject(values[i])
            BY <3>2 DEF Range, IsObject, Json, Kinds
        <3>4. Resolves(values)
            BY <2>1, <2>3 DEF made, found
        <3> HIDE DEF values
        <3>5. Sequence(values)
            BY <3>3, FunctionIsSequence
        <3>6. QED BY <2>2, <3>3, <3>4, <3>5, ResolvesKeepsObjects
    <2>4. CASE ~ made.ok
        <3>1. stage' = "candidate-provider" /\ UNCHANGED providerVars
            BY <2>1, <2>4 DEF Fail
        <3>2. ObjectsRest
            BY <2>2, <3>1 DEF ObjectsRest
        <3>3. QED BY <2>2, <3>1, <3>2, RestKeepsObjects
    <2>5. QED BY <2>3, <2>4
<1>3. CASE Lend
    BY <1>3, LendKeepsObjects
<1>4. CASE Receives
    BY <1>4, ReceivesKeepsObjects
<1>5. CASE \E ref \in Known : Meddle(ref)
    BY <1>5, MeddleKeepsObjects
<1>6. CASE Reads
    <2>1. /\ stage = "reading" /\ UNCHANGED << heap, prepared, lent, answer, result >>
          /\ result = {} /\ lent = <<>> /\ answer = <<>>
        BY <1>6 DEF Reads, HeapInv
    <2>2. stage' \in {"reading", "source-read", "source-ingestion", "source-chunking"}
        BY <1>6, <2>1 DEF Reads, Fail, PrepareSource, Reply, Failure
    <2>3. Known' = Known
        BY <2>1 DEF Known
    <2>4. QED BY <2>1, <2>2, <2>3 DEF HeapInv, Asked
<1>7. CASE Lists
    <2>1. stage = "listing" /\ ObjectsRest
        BY <1>7 DEF Lists, ObjectsRest
    <2>2. stage' \in {"reading", "control-store", "source-registration"}
        BY <1>7 DEF Lists, Fail, CanonicalRegistrations, Reply, Failure
    <2>3. QED BY <2>1, <2>2, RestKeepsObjects DEF Asked
<1>8. CASE ProviderFails
    <2>1. stage = "asking" /\ stage' = "candidate-provider" /\ ObjectsRest
        BY <1>8 DEF ProviderFails, Fail, ObjectsRest
    <2>2. QED BY <2>1, RestKeepsObjects
<1>9. ASSUME \/ \E operation \in {"register", "update", "remove"}, r \in Entries \cup registry : Administers(operation, r)
             \/ \E l \in DOMAIN files, c \in Content : WritesFile(l, c)
             \/ StoresTrace \/ ReadsTrace \/ Ends \/ UNCHANGED vars
      PROVE  HeapInv'
    <2>1. stage' = stage /\ ObjectsRest
        BY <1>9 DEF Administers, WritesFile, StoresTrace, ReadsTrace, Ends, vars, ObjectsRest
    <2>2. QED BY <2>1, RestKeepsObjects
<1>10. QED BY <1>1, <1>2, <1>3, <1>4, <1>5, <1>6, <1>7, <1>8, <1>9 DEF Next

\* OwnershipInv is an invariant.
LEMMA OwnershipHolds == Spec => []OwnershipInv
<1>1. Init => OwnershipInv
    BY OwnershipInit
<1>2. OwnershipInv /\ [Next]_vars => OwnershipInv'
    BY OwnershipStep
<1>3. QED BY <1>1, <1>2, PTL DEF Spec

\* What was compiled is what was prepared, and stays so whatever the provider
\* changes: of the corpora no candidate of which carries a field under a symbol,
\* which the service passes on as it is.
THEOREM CompiledIsPreparedHolds ==
    ASSUME "symbol" \notin Fields
    PROVE  Spec => []CompiledIsPrepared
<1>1. OwnershipInv => CompiledIsPrepared
    <2> SUFFICES ASSUME OwnershipInv, NEW r \in result
                 PROVE  /\ \A i \in DOMAIN r.candidates : heap[r.candidates[i]].block = r.compiled[i]
                        /\ { heap[b].block : b \in Range(r.blocks) } = Range(Blocks)
                        /\ Range(r.compiled) \subseteq Range(Blocks)
        BY DEF CompiledIsPrepared
    <2>1. /\ stage = "done" /\ r.blocks = [ i \in DOMAIN Blocks |-> i ]
          /\ \A i \in DOMAIN Blocks : heap[i] = Json(Blocks[i])
          /\ Range(r.compiled) \subseteq Range(Blocks)
          /\ \A i \in DOMAIN r.candidates : heap[r.candidates[i]].block = r.compiled[i]
        BY DEF OwnershipInv, HeapInv, Asked
    <2>2. Range(r.blocks) = DOMAIN Blocks
        BY <2>1 DEF Range
    <2>3. \A i \in DOMAIN Blocks : heap[i].block = Blocks[i]
        <3> SUFFICES ASSUME NEW i \in DOMAIN Blocks PROVE heap[i].block = Blocks[i]
            OBVIOUS
        <3>1. heap[i] = Json(Blocks[i])
            BY <2>1
        <3>2. QED BY <3>1 DEF Json
    <2>4. { heap[b].block : b \in Range(r.blocks) } = Range(Blocks)
        BY <2>2, <2>3 DEF Range
    <2>5. QED BY <2>1, <2>4
<1>2. QED BY <1>1, OwnershipHolds, PTL

\* Under the same condition no published candidate is an object of the provider.
THEOREM ResultIsOwnedHolds ==
    ASSUME "symbol" \notin Fields
    PROVE  Spec => []ResultIsOwned
<1>1. OwnershipInv => ResultIsOwned
    BY DEF OwnershipInv, HeapInv, ResultIsOwned, Range
<1>2. QED BY <1>1, OwnershipHolds, PTL

-----------------------------------------------------------------------------
(* The trace.                                                              *)

TraceOf(asked) == [valid |-> TRUE, scope |-> asked.scope, id |-> asked.id, version |-> 2]

\* The one trace that is stored is that of the compilation, and what was read
\* back is what is accepted of an answer of at most one record.
TraceInv ==
    /\ \A r \in result : r.trace = TraceOf(request)
    /\ stored \subseteq { Envelope(TraceOf(request)) }
    /\ \A t \in traceRead :
          /\ t.got = TraceRead(t.answer, t.asked.scope, t.asked.id)
          /\ t.answer.ok => t.answer.value = {} \/ \E record : t.answer.value = {record}

\* A record that is accepted is of the key asked for, and so is its payload; an
\* envelope of a valid trace, asked for by its own key, is accepted.
LEMMA SettledFacts ==
    ASSUME NEW record, NEW scope, NEW id
    PROVE  /\ Settled(record, scope, id).ok =>
                 /\ Settled(record, scope, id).value = {record.payload}
                 /\ record.payload.valid /\ record.payload.scope = scope /\ record.payload.id = id
                 /\ record.payload.version = record.version
           /\ \A asked : Settled(Envelope(TraceOf(asked)), asked.scope, asked.id) = Reply({TraceOf(asked)})
<1>1. \A asked : LET e == Envelope(TraceOf(asked))
                 IN  /\ e.shape /\ e.scope = asked.scope /\ e.id = asked.id /\ e.version = 2
                     /\ e.payload = TraceOf(asked) /\ e.payload.valid /\ e.payload.scope = asked.scope
                     /\ e.payload.id = asked.id /\ e.payload.version = 2
    BY DEF Envelope, TraceOf
<1>2. \A asked : Settled(Envelope(TraceOf(asked)), asked.scope, asked.id) = Reply({TraceOf(asked)})
    BY <1>1 DEF Settled
<1>3. ASSUME Settled(record, scope, id).ok
      PROVE  /\ Settled(record, scope, id).value = {record.payload}
             /\ record.payload.valid /\ record.payload.scope = scope /\ record.payload.id = id
             /\ record.payload.version = record.version
    BY <1>3 DEF Settled, Reply, Failure
<1>4. QED BY <1>2, <1>3

\* Only StoresTrace stores, and what it stores is the envelope of the result.
LEMMA TraceStep ==
    ASSUME TraceInv, [Next]_vars
    PROVE  TraceInv'
<1> USE DEF worldVars, corpusVars, providerVars, traceVars
<1>1. CASE Receives
    <2>1. UNCHANGED << request, stored, traceRead >>
        BY <1>1 DEF Receives
    <2>2. result' = result \/ \E r : result' = {r} /\ r.trace = TraceOf(request)
        <3>1. UNCHANGED result \/ \E c, b, m : result' = {[candidates |-> c, blocks |-> b, compiled |-> m,
                                                             trace |-> TraceOf(request)]}
            BY <1>1, Zenon DEF Receives, TraceOf
        <3>2. \A c, b, m : [candidates |-> c, blocks |-> b, compiled |-> m, trace |-> TraceOf(request)].trace = TraceOf(request)
            OBVIOUS
        <3>3. QED BY <3>1, <3>2
    <2>3. QED BY <2>1, <2>2 DEF TraceInv
<1>2. CASE StoresTrace
    <2>1. UNCHANGED << request, result, traceRead >>
        BY <1>2 DEF StoresTrace
    <2>2. PICK r \in result : StoreOf(r.trace).ok /\ stored' = {StoreOf(r.trace).value}
        BY <1>2 DEF StoresTrace
    <2>3. StoreOf(r.trace).value = Envelope(TraceOf(request))
        BY <2>2 DEF TraceInv, StoreOf, Reply, Failure
    <2>4. QED BY <2>1, <2>2, <2>3 DEF TraceInv
<1>3. CASE ReadsTrace
    <2>1. UNCHANGED << request, result, stored >>
        BY <1>3 DEF ReadsTrace
    <2>2. PICK asked \in Requests : \E a \in StoreAnswers(asked.scope, asked.id) :
             traceRead' = {[asked |-> asked, answer |-> a, got |-> TraceRead(a, asked.scope, asked.id)]}
        BY <1>3 DEF ReadsTrace
    <2>3. PICK a \in StoreAnswers(asked.scope, asked.id) :
             traceRead' = {[asked |-> asked, answer |-> a, got |-> TraceRead(a, asked.scope, asked.id)]}
        BY <2>2
    <2>4. a.ok => a.value = {} \/ \E record : a.value = {record}
        <3> DEFINE mine == { r \in stored : r.scope = asked.scope /\ r.id = asked.id }
                   honest == IF mine = {} THEN {{}} ELSE { {r} : r \in mine }
        <3>1. \A v \in honest : v = {} \/ \E record : v = {record}
            OBVIOUS
        <3>2. \/ a \in { Reply(v) : v \in honest }
              \/ a \in { Reply({r}) : r \in StoredRecords }
              \/ a \in { Failure("INVALID_STORED_DATA"), Failure("other") }
            BY DEF StoreAnswers
        <3> HIDE DEF honest
        <3>3. QED BY <3>1, <3>2 DEF Reply, Failure
    <2>5. \A t \in traceRead' : t.asked = asked /\ t.answer = a /\ t.got = TraceRead(a, asked.scope, asked.id)
        BY <2>3
    <2>6. (\A t \in traceRead :
              /\ t.got = TraceRead(t.answer, t.asked.scope, t.asked.id)
              /\ t.answer.ok => t.answer.value = {} \/ \E record : t.answer.value = {record})'
        BY <2>4, <2>5
    <2>7. QED BY <2>1, <2>6 DEF TraceInv
<1>4. ASSUME \/ \E operation \in {"register", "update", "remove"}, r \in Entries \cup registry : Administers(operation, r)
             \/ \E l \in DOMAIN files, c \in Content : WritesFile(l, c)
             \/ Lists \/ Reads \/ Lend \/ ProviderAnswers \/ ProviderFails \/ MiniSearchAnswers
             \/ (\E ref \in Known : Meddle(ref)) \/ Ends \/ UNCHANGED vars
      PROVE  TraceInv'
    <2>1. UNCHANGED << request, result, stored, traceRead >>
        BY <1>4 DEF Administers, WritesFile, Lists, Reads, Lend, ProviderAnswers, ProviderFails,
                    MiniSearchAnswers, Meddle, Ends, vars
    <2>2. QED BY <2>1 DEF TraceInv
<1>5. QED BY <1>1, <1>2, <1>3, <1>4 DEF Next

\* A trace that is read back is that of the compilation and the scope asked for,
\* whatever the store answers; one that was stored is read back as it is: get().
THEOREM TraceReadIsTheirsHolds == Spec => []TraceReadIsTheirs
<1>1. Init => TraceInv
    BY DEF Init, TraceInv
<1>2. TraceInv /\ [Next]_vars => TraceInv'
    BY TraceStep
<1>3. TraceInv => TraceReadIsTheirs
    <2> SUFFICES ASSUME TraceInv, NEW t \in traceRead
                 PROVE  /\ t.got.ok => \A trace \in t.got.value :
                              /\ trace.valid /\ trace.scope = t.asked.scope /\ trace.id = t.asked.id
                              /\ \A record \in t.answer.value : trace.version = record.version
                        /\ \A r \in result : t.asked = request /\ t.answer.ok /\ t.answer.value # {} /\ t.answer.value = stored =>
                              t.got = Reply({r.trace})
        BY DEF TraceReadIsTheirs
    <2>1. t.got = TraceRead(t.answer, t.asked.scope, t.asked.id)
        BY DEF TraceInv
    <2>2. CASE ~ t.answer.ok
        BY <2>1, <2>2 DEF TraceRead, Failure
    <2>3. CASE t.answer.ok /\ t.answer.value = {}
        BY <2>1, <2>3 DEF TraceRead, Reply
    <2>4. CASE t.answer.ok /\ t.answer.value # {}
        <3>1. PICK record : t.answer.value = {record}
            BY <2>4 DEF TraceInv
        <3>2. (CHOOSE s \in t.answer.value : TRUE) = record
            BY <3>1
        <3>3. t.got = Settled(record, t.asked.scope, t.asked.id)
            BY <2>1, <2>4, <3>2 DEF TraceRead
        <3>4. ASSUME t.got.ok, NEW trace \in t.got.value
              PROVE  /\ trace.valid /\ trace.scope = t.asked.scope /\ trace.id = t.asked.id
                     /\ \A s \in t.answer.value : trace.version = s.version
            BY <3>1, <3>3, <3>4, SettledFacts
        <3>5. ASSUME NEW r \in result, t.asked = request, t.answer.value = stored
              PROVE  t.got = Reply({r.trace})
            <4>1. record = Envelope(TraceOf(request)) /\ r.trace = TraceOf(request)
                BY <3>1, <3>5 DEF TraceInv
            <4>2. QED BY <3>3, <3>5, <4>1, SettledFacts
        <3>6. QED BY <3>4, <3>5
    <2>5. QED BY <2>2, <2>3, <2>4
<1>4. QED BY <1>1, <1>2, <1>3, PTL DEF Spec

-----------------------------------------------------------------------------
(* Retrieval.                                                              *)

\* The order the hits of an engine are taken in.
LEMMA HitsSorted ==
    ASSUME NEW s, Len(s) \in Nat, DOMAIN s = 1..Len(s),
           \A i \in DOMAIN s : BlockRank(s[i].id) \in Nat /\ s[i].score \in Nat
    PROVE  \E p \in Bijection(DOMAIN s, DOMAIN s) :
              /\ Sorted(s, HitBefore) = [k \in DOMAIN s |-> s[p[k]]]
              /\ \A a, b \in DOMAIN s : a < b => ~ HitBefore(s[p[b]], s[p[a]])
<1> DEFINE n == Len(s)
           order == { q \in (1..n) \X (1..n) : HitBefore(s[q[1]], s[q[2]]) }
<1>1. \A i, j \in 1..n : << i, j >> \in order <=> HitBefore(s[i], s[j])
    OBVIOUS
<1>2. Sorted(s, HitBefore) = Picked(s, 1..n, order)
    BY DEF Sorted
<1> HIDE DEF order
<1>3. \A i \in 1..n : BlockRank(s[i].id) \in Nat /\ s[i].score \in Nat
    OBVIOUS
<1>4. /\ \A i, j \in 1..n : HitBefore(s[i], s[j]) => ~ HitBefore(s[j], s[i])
      /\ \A i, j, k \in 1..n : HitBefore(s[i], s[j]) => HitBefore(s[i], s[k]) \/ HitBefore(s[k], s[j])
    BY <1>3 DEF HitBefore
<1>5. WeakOrder(order, n)
    BY <1>1, <1>4, Zenon DEF WeakOrder
<1>6. n \in Nat /\ DOMAIN s = 1..n
    OBVIOUS
<1> HIDE DEF n
<1>7. PICK p \in Bijection(1..n, 1..n) :
         /\ Picked(s, 1..n, order) = [k \in 1..n |-> s[p[k]]]
         /\ \A a, b \in 1..n : a < b => << p[b], p[a] >> \notin order
    BY <1>5, <1>6, PickedInOrder
<1>8. \A k \in 1..n : p[k] \in 1..n
    BY DEF Bijection, Injection
<1>9. \A a, b \in DOMAIN s : a < b => ~ HitBefore(s[p[b]], s[p[a]])
    BY <1>1, <1>6, <1>7, <1>8
<1>10. QED BY <1>2, <1>6, <1>7, <1>9

\* An arrangement has every place, once.
LEMMA Arranges ==
    ASSUME NEW S, NEW p \in Bijection(S, S)
    PROVE  /\ p \in [S -> S]
           /\ \A i, j \in S : p[i] = p[j] => i = j
           /\ \A k \in S : \E i \in S : p[i] = k
<1>1. p \in Injection(S, S) /\ p \in Surjection(S, S)
    BY DEF Bijection
<1>2. p \in [S -> S] /\ IsInjective(p)
    BY <1>1 DEF Injection
<1>3. \A k \in S : \E i \in S : p[i] = k
    BY <1>1 DEF Surjection
<1>4. QED BY <1>2, <1>3 DEF IsInjective

\* Two arrangements of the same places, neither of which puts a place after one
\* it comes before, have at k places neither of which comes before the other.
LEMMA TwoArrangements ==
    ASSUME NEW n \in Nat, NEW alpha \in Bijection(1..n, 1..n), NEW beta \in Bijection(1..n, 1..n), NEW B,
           \A x, y, z \in 1..n : << x, y >> \in B => << x, z >> \in B \/ << z, y >> \in B,
           \A a, b \in 1..n : a < b => << alpha[b], alpha[a] >> \notin B,
           \A a, b \in 1..n : a < b => << beta[b], beta[a] >> \notin B,
           \A x \in 1..n : << x, x >> \notin B,
           NEW k \in 1..n
    PROVE  << alpha[k], beta[k] >> \notin B
<1> SUFFICES ASSUME << alpha[k], beta[k] >> \in B PROVE FALSE
    OBVIOUS
<1> DEFINE place(i) == CHOOSE j \in 1..n : beta[j] = alpha[i]
           f == [i \in 1..k |-> place(i)]
<1>1. /\ alpha \in [1..n -> 1..n] /\ beta \in [1..n -> 1..n]
      /\ \A i, j \in 1..n : alpha[i] = alpha[j] => i = j
      /\ \A x \in 1..n : \E j \in 1..n : beta[j] = x
    <2> DEFINE N == 1..n
    <2>1. alpha \in Bijection(N, N) /\ beta \in Bijection(N, N)
        OBVIOUS
    <2> HIDE DEF N
    <2>2. alpha \in [N -> N] /\ \A i, j \in N : alpha[i] = alpha[j] => i = j
        BY <2>1, Arranges
    <2>3. beta \in [N -> N] /\ \A x \in N : \E j \in N : beta[j] = x
        BY <2>1, Arranges
    <2>4. QED BY <2>2, <2>3 DEF N
<1>2. \A i \in 1..k : i \in 1..n /\ place(i) \in 1..n /\ beta[place(i)] = alpha[i]
    <2> SUFFICES ASSUME NEW i \in 1..k PROVE i \in 1..n /\ place(i) \in 1..n /\ beta[place(i)] = alpha[i]
        OBVIOUS
    <2>1. i \in 1..n
        OBVIOUS
    <2>2. \E j \in 1..n : beta[j] = alpha[i]
        BY <1>1, <2>1
    <2>3. QED BY <2>1, <2>2, Zenon
<1> HIDE DEF place
<1>3. \A i \in 1..k : << alpha[k], alpha[i] >> \notin B
    <2> SUFFICES ASSUME NEW i \in 1..k PROVE << alpha[k], alpha[i] >> \notin B
        OBVIOUS
    <2>1. CASE i = k
        BY <1>1, <2>1
    <2>2. CASE i < k
        BY <1>2, <2>2
    <2>3. QED BY <2>1, <2>2
<1>4. \A i \in 1..k : << alpha[i], beta[k] >> \in B
    BY <1>1, <1>2, <1>3
<1>5. \A j \in 1..n : j >= k => << beta[j], beta[k] >> \notin B
    <2> SUFFICES ASSUME NEW j \in 1..n, j >= k PROVE << beta[j], beta[k] >> \notin B
        OBVIOUS
    <2>1. CASE j = k
        BY <1>1, <2>1
    <2>2. CASE j > k
        BY <2>2
    <2>3. QED BY <2>1, <2>2
<1>6. f \in [1..k -> 1..(k - 1)]
    <2> SUFFICES ASSUME NEW i \in 1..k PROVE place(i) \in 1..(k - 1)
        OBVIOUS
    <2>1. place(i) \in 1..n /\ << beta[place(i)], beta[k] >> \in B
        BY <1>2, <1>4
    <2>2. ~ (place(i) >= k)
        BY <1>5, <2>1
    <2>3. QED BY <2>1, <2>2
<1>7. /\ IsFiniteSet(1..k) /\ IsFiniteSet(1..(k - 1))
      /\ Cardinality(1..k) = k /\ Cardinality(1..(k - 1)) = k - 1
    <2>1. 1 \in Int /\ k \in Int /\ k - 1 \in Int
        OBVIOUS
    <2>2. IsFiniteSet(1..k) /\ Cardinality(1..k) = k
        BY <2>1, FS_Interval
    <2>3. IsFiniteSet(1..(k - 1)) /\ Cardinality(1..(k - 1)) = IF 1 > k - 1 THEN 0 ELSE (k - 1) - 1 + 1
        BY <2>1, FS_Interval
    <2>4. QED BY <2>2, <2>3
<1>8. \E x, y \in 1..k : x # y /\ f[x] = f[y]
    <2>1. Cardinality(1..(k - 1)) < Cardinality(1..k)
        BY <1>7
    <2>2. IsFiniteSet(1..k) /\ IsFiniteSet(1..(k - 1))
        BY <1>7
    <2> HIDE DEF f
    <2> DEFINE S == 1..k
               T == 1..(k - 1)
    <2>3. IsFiniteSet(S) /\ IsFiniteSet(T) /\ Cardinality(T) < Cardinality(S) /\ f \in [S -> T]
        BY <1>6, <2>1, <2>2
    <2> HIDE DEF S, T
    <2>4. \E x, y \in S : x # y /\ f[x] = f[y]
        BY <2>3, FS_PigeonHole
    <2>5. QED BY <2>4 DEF S
<1>9. PICK x \in 1..k, y \in 1..k : x # y /\ place(x) = place(y)
    BY <1>8
<1>10. QED BY <1>1, <1>2, <1>9

\* What is taken of the hits does not depend on the order they come in: hits of
\* one score and one block are the same hit.
LEMMA HitsSortedAlike ==
    ASSUME NEW s, Len(s) \in Nat, DOMAIN s = 1..Len(s),
           \A i \in DOMAIN s : BlockRank(s[i].id) \in Nat /\ s[i].score \in Nat,
           \A i, j \in DOMAIN s : BlockRank(s[i].id) = BlockRank(s[j].id) /\ s[i].score = s[j].score => s[i] = s[j],
           NEW p \in Bijection(DOMAIN s, DOMAIN s)
    PROVE  Sorted([i \in DOMAIN s |-> s[p[i]]], HitBefore) = Sorted(s, HitBefore)
<1> DEFINE n == Len(s)
           t == [i \in DOMAIN s |-> s[p[i]]]
           B == { q \in (1..n) \X (1..n) : HitBefore(s[q[1]], s[q[2]]) }
<1>0. DOMAIN s = 1..n
    OBVIOUS
<1>1. /\ p \in [1..n -> 1..n]
      /\ \A i, j \in 1..n : p[i] = p[j] => i = j
      /\ \A k \in 1..n : \E i \in 1..n : p[i] = k
    BY Arranges, <1>0
<1>2. DOMAIN t = 1..n /\ Len(t) = n /\ \A i \in 1..n : t[i] = s[p[i]]
    <2>1. t \in [1..n -> Range(t)]
        BY DEF Range
    <2>2. Len(t) = n
        <3> HIDE DEF t
        <3> QED BY <2>1, FunctionIsSeq
    <2>3. \A i \in 1..n : t[i] = s[p[i]]
        OBVIOUS
    <2>4. DOMAIN t = 1..n
        OBVIOUS
    <2>5. QED BY <2>2, <2>3, <2>4
<1> HIDE DEF t, n
<1>3. \A i \in 1..n : BlockRank(t[i].id) \in Nat /\ t[i].score \in Nat
    <2> SUFFICES ASSUME NEW i \in 1..n PROVE BlockRank(t[i].id) \in Nat /\ t[i].score \in Nat
        OBVIOUS
    <2>1. t[i] = s[p[i]] /\ p[i] \in DOMAIN s
        BY <1>1, <1>2, <1>0
    <2>2. BlockRank(s[p[i]].id) \in Nat /\ s[p[i]].score \in Nat
        BY <2>1
    <2>3. QED BY <2>1, <2>2, Zenon
<1>4. PICK alpha \in Bijection(1..n, 1..n) :
         /\ Sorted(s, HitBefore) = [k \in 1..n |-> s[alpha[k]]]
         /\ \A a, b \in 1..n : a < b => ~ HitBefore(s[alpha[b]], s[alpha[a]])
    BY HitsSorted DEF n
<1>5. PICK gamma \in Bijection(1..n, 1..n) :
         /\ Sorted(t, HitBefore) = [k \in 1..n |-> t[gamma[k]]]
         /\ \A a, b \in 1..n : a < b => ~ HitBefore(t[gamma[b]], t[gamma[a]])
    <2>1. Len(t) \in Nat /\ DOMAIN t = 1..Len(t) /\ \A i \in DOMAIN t : BlockRank(t[i].id) \in Nat /\ t[i].score \in Nat
        BY <1>2, <1>3 DEF n
    <2>2. \E q \in Bijection(DOMAIN t, DOMAIN t) :
             /\ Sorted(t, HitBefore) = [k \in DOMAIN t |-> t[q[k]]]
             /\ \A a, b \in DOMAIN t : a < b => ~ HitBefore(t[q[b]], t[q[a]])
        BY <2>1, HitsSorted
    <2>3. QED BY <1>2, <2>2, Zenon
<1> DEFINE beta == [k \in 1..n |-> p[gamma[k]]]
<1>6. /\ gamma \in [1..n -> 1..n]
      /\ \A i, j \in 1..n : gamma[i] = gamma[j] => i = j
      /\ \A k \in 1..n : \E i \in 1..n : gamma[i] = k
    BY Arranges
<1>7. beta \in Bijection(1..n, 1..n)
    <2>1. beta \in [1..n -> 1..n]
        BY <1>1, <1>6
    <2>2. \A i, j \in 1..n : beta[i] = beta[j] => i = j
        <3> SUFFICES ASSUME NEW i \in 1..n, NEW j \in 1..n, beta[i] = beta[j] PROVE i = j
            OBVIOUS
        <3>1. gamma[i] \in 1..n /\ gamma[j] \in 1..n /\ p[gamma[i]] = p[gamma[j]]
            BY <1>6
        <3>2. gamma[i] = gamma[j]
            BY <1>1, <3>1
        <3>3. QED BY <1>6, <3>2
    <2>3. \A k \in 1..n : \E i \in 1..n : beta[i] = k
        <3> SUFFICES ASSUME NEW k \in 1..n PROVE \E i \in 1..n : beta[i] = k
            OBVIOUS
        <3>1. PICK j \in 1..n : p[j] = k
            BY <1>1
        <3>2. PICK i \in 1..n : gamma[i] = j
            BY <1>6
        <3>3. beta[i] = k
            BY <3>1, <3>2
        <3>4. QED BY <3>3
    <2> HIDE DEF beta
    <2>4. beta \in Injection(1..n, 1..n)
        BY <2>1, <2>2, Fun_IsInj
    <2>5. beta \in Surjection(1..n, 1..n)
        BY <2>1, <2>3, Fun_IsSurj
    <2>6. QED BY <2>4, <2>5 DEF Bijection
<1>8. /\ \A k \in 1..n : t[gamma[k]] = s[beta[k]]
      /\ \A a, b \in 1..n : a < b => ~ HitBefore(s[beta[b]], s[beta[a]])
    BY <1>2, <1>5, <1>6
<1> HIDE DEF beta
<1>9. /\ alpha \in [1..n -> 1..n] /\ beta \in [1..n -> 1..n]
    BY <1>7 DEF Bijection, Injection
<1>10. \A x, y \in 1..n : << x, y >> \in B <=> HitBefore(s[x], s[y])
    OBVIOUS
<1> HIDE DEF B
<1>11. /\ \A x, y, z \in 1..n : << x, y >> \in B => << x, z >> \in B \/ << z, y >> \in B
       /\ \A x \in 1..n : << x, x >> \notin B
    <2>1. \A x \in 1..n : BlockRank(s[x].id) \in Nat /\ s[x].score \in Nat
        BY DEF n
    <2>2. ASSUME NEW x \in 1..n, NEW y \in 1..n, NEW z \in 1..n, HitBefore(s[x], s[y])
          PROVE  HitBefore(s[x], s[z]) \/ HitBefore(s[z], s[y])
        BY <2>1, <2>2 DEF HitBefore
    <2>3. \A x \in 1..n : ~ HitBefore(s[x], s[x])
        BY <2>1 DEF HitBefore
    <2>4. QED BY <1>10, <2>2, <2>3
<1>12. /\ \A a, b \in 1..n : a < b => << alpha[b], alpha[a] >> \notin B
       /\ \A a, b \in 1..n : a < b => << beta[b], beta[a] >> \notin B
    BY <1>4, <1>8, <1>9, <1>10
<1>13. n \in Nat
    BY DEF n
<1>14. \A k \in 1..n : << alpha[k], beta[k] >> \notin B /\ << beta[k], alpha[k] >> \notin B
    BY <1>7, <1>11, <1>12, <1>13, TwoArrangements
<1>15. \A k \in 1..n : s[alpha[k]] = s[beta[k]]
    <2> SUFFICES ASSUME NEW k \in 1..n PROVE s[alpha[k]] = s[beta[k]]
        OBVIOUS
    <2>1. alpha[k] \in DOMAIN s /\ beta[k] \in DOMAIN s
        BY <1>9 DEF n
    <2>2. ~ HitBefore(s[alpha[k]], s[beta[k]]) /\ ~ HitBefore(s[beta[k]], s[alpha[k]])
        BY <1>9, <1>10, <1>14
    <2>3. BlockRank(s[alpha[k]].id) = BlockRank(s[beta[k]].id) /\ s[alpha[k]].score = s[beta[k]].score
        BY <2>1, <2>2 DEF HitBefore
    <2>4. QED BY <2>1, <2>3
<1>16. [k \in 1..n |-> t[gamma[k]]] = [k \in 1..n |-> s[alpha[k]]]
    BY <1>8, <1>15
<1>17. QED BY <1>4, <1>5, <1>16, Zenon DEF t

\* Among places there is a first one.
LEMMA FirstPlace ==
    ASSUME NEW D \in SUBSET Nat, D # {}
    PROVE  \E c \in D : \A d \in D : c <= d
<1> DEFINE Below == { p \in Nat \X Nat : p[1] < p[2] }
<1>1. IsWellFoundedOn(Below, Nat)
    BY NatLessThanWellFounded, SMT DEF OpToRel
<1>2. PICK c \in D : \A d \in D : ~ (<<d, c>> \in Below)
    <2> HIDE DEF Below
    <2>1. QED BY <1>1, WFMin, Zenon
<1>3. ASSUME NEW d \in D PROVE c <= d
    <2>1. c \in Nat /\ d \in Nat /\ << d, c >> \notin Below
        BY <1>2
    <2>2. ~ (d < c)
        BY <2>1
    <2>3. QED BY <2>1, <2>2
<1>4. QED BY <1>3

\* What an engine finds: hits, each of a block and with a score.
AreHits(s) ==
    /\ Len(s) \in Nat /\ DOMAIN s = 1..Len(s)
    /\ \A i \in DOMAIN s : s[i] = [id |-> s[i].id, score |-> s[i].score] /\ s[i].score \in Nat

\* The hits are taken if each of them is usable.
LEMMA NoIssue ==
    ASSUME NEW given, NEW s, AreHits(s)
    PROVE  FirstIssue(given, s) = {} <=> \A i \in DOMAIN s : HitIssue(given, s[i]) = {}
<1> DEFINE bad == { i \in DOMAIN s : HitIssue(given, s[i]) # {} }
<1>1. CASE bad = {}
    BY <1>1 DEF FirstIssue
<1>2. CASE bad # {}
    <2>1. bad \in SUBSET Nat
        BY DEF AreHits
    <2> HIDE DEF bad
    <2>2. \E i \in bad : \A j \in bad : i <= j
        BY <1>2, <2>1, FirstPlace
    <2> DEFINE first == CHOOSE i \in bad : \A j \in bad : i <= j
    <2>3. first \in bad
        BY <2>2, Zenon
    <2>4. FirstIssue(given, s) = HitIssue(given, s[first])
        BY <1>2, Zenon DEF FirstIssue, bad
    <2> HIDE DEF first
    <2>5. first \in DOMAIN s /\ HitIssue(given, s[first]) # {}
        BY <2>3 DEF bad
    <2>6. QED BY <2>4, <2>5, Zenon
<1>3. QED BY <1>1, <1>2

\* Hits in another order.
LEMMA ReorderedHits ==
    ASSUME NEW s, AreHits(s), NEW p \in Bijection(DOMAIN s, DOMAIN s)
    PROVE  LET t == [ i \in DOMAIN s |-> s[p[i]] ]
           IN  /\ AreHits(t) /\ DOMAIN t = DOMAIN s
               /\ \A i \in DOMAIN s : p[i] \in DOMAIN s /\ t[i] = s[p[i]]
               /\ \A k \in DOMAIN s : \E i \in DOMAIN s : t[i] = s[k]
<1> DEFINE D == DOMAIN s
           t == [ i \in DOMAIN s |-> s[p[i]] ]
<1>1. p \in [D -> D] /\ \A k \in D : \E i \in D : p[i] = k
    <2> HIDE DEF D
    <2>1. p \in Bijection(D, D)
        BY DEF D
    <2>2. QED BY <2>1, Arranges
<1>2. DOMAIN t = D /\ \A i \in D : p[i] \in D /\ t[i] = s[p[i]]
    BY <1>1
<1>3. Len(t) = Len(s) /\ Len(s) \in Nat /\ D = 1..Len(s)
    <2>1. Len(s) \in Nat /\ D = 1..Len(s)
        BY DEF AreHits
    <2>2. t \in [1..Len(s) -> Range(t)]
        BY <2>1 DEF Range
    <2> HIDE DEF t, D
    <2>3. QED BY <2>1, <2>2, FunctionIsSeq
<1> HIDE DEF t
<1>4. AreHits(t)
    <2> SUFFICES ASSUME NEW i \in D PROVE t[i] = [id |-> t[i].id, score |-> t[i].score] /\ t[i].score \in Nat
        BY <1>2, <1>3 DEF AreHits
    <2>1. t[i] = s[p[i]] /\ p[i] \in DOMAIN s
        BY <1>2
    <2>2. s[p[i]] = [id |-> s[p[i]].id, score |-> s[p[i]].score] /\ s[p[i]].score \in Nat
        BY <2>1 DEF AreHits
    <2>3. QED BY <2>1, <2>2, Zenon
<1>5. \A k \in D : \E i \in D : t[i] = s[k]
    <2> SUFFICES ASSUME NEW k \in D PROVE \E i \in D : t[i] = s[k]
        OBVIOUS
    <2>1. PICK i \in D : p[i] = k
        BY <1>1
    <2>2. QED BY <1>2, <2>1
<1>6. QED BY <1>2, <1>4, <1>5 DEF t

\* Hits without an issue are of known blocks: their identifiers have ranks, of
\* which no two blocks share one.
LEMMA UsableHits ==
    ASSUME NEW given, \A b \in Range(given) : b.id \in BlockIds,
           NEW s, AreHits(s), FirstIssue(given, s) = {}
    PROVE  /\ \A i \in DOMAIN s : /\ BlockRank(s[i].id) \in Nat /\ s[i].score \in Nat
                                  /\ \E j \in DOMAIN given : given[j].id = s[i].id
           /\ \A i, j \in DOMAIN s : BlockRank(s[i].id) = BlockRank(s[j].id) /\ s[i].score = s[j].score => s[i] = s[j]
<1>1. \A i \in DOMAIN s : HitIssue(given, s[i]) = {}
    BY NoIssue
<1>2. \A i \in DOMAIN s : \E j \in DOMAIN given : given[j].id = s[i].id
    BY <1>1 DEF HitIssue
<1>3. \A i \in DOMAIN s : s[i].id \in BlockIds
    BY <1>2 DEF Range
<1>4. \A i \in DOMAIN s : BlockRank(s[i].id) \in Nat /\ s[i].score \in Nat
    BY <1>3, DigestAssumption DEF AreHits
<1>5. ASSUME NEW i \in DOMAIN s, NEW j \in DOMAIN s, BlockRank(s[i].id) = BlockRank(s[j].id), s[i].score = s[j].score
      PROVE  s[i] = s[j]
    <2>1. s[i].id = s[j].id
        BY <1>3, <1>5, DigestAssumption
    <2>2. s[i] = [id |-> s[i].id, score |-> s[i].score] /\ s[j] = [id |-> s[j].id, score |-> s[j].score]
        BY DEF AreHits
    <2>3. QED BY <1>5, <2>1, <2>2
<1>6. QED BY <1>2, <1>4, <1>5

\* The same hits in another order are refused alike and give the same candidates.
LEMMA RetrievedAlike ==
    ASSUME NEW given, \A b \in Range(given) : b.id \in BlockIds, NEW query,
           NEW s, AreHits(s), NEW p \in Bijection(DOMAIN s, DOMAIN s)
    PROVE  LET made  == GetCandidates(given, query, Reply(s))
               again == GetCandidates(given, query, Reply([ i \in DOMAIN s |-> s[p[i]] ]))
           IN  again.ok = made.ok /\ (made.ok => again = made)
<1> DEFINE t == [ i \in DOMAIN s |-> s[p[i]] ]
<1>1. /\ AreHits(t) /\ DOMAIN t = DOMAIN s
      /\ \A i \in DOMAIN s : p[i] \in DOMAIN s /\ t[i] = s[p[i]]
      /\ \A k \in DOMAIN s : \E i \in DOMAIN s : t[i] = s[k]
    BY ReorderedHits
<1>2. FirstIssue(given, s) = {} => Sorted(t, HitBefore) = Sorted(s, HitBefore)
    <2> SUFFICES ASSUME FirstIssue(given, s) = {} PROVE Sorted(t, HitBefore) = Sorted(s, HitBefore)
        OBVIOUS
    <2>1. /\ \A i \in DOMAIN s : BlockRank(s[i].id) \in Nat /\ s[i].score \in Nat
          /\ \A i, j \in DOMAIN s : BlockRank(s[i].id) = BlockRank(s[j].id) /\ s[i].score = s[j].score => s[i] = s[j]
        BY UsableHits
    <2>2. Len(s) \in Nat /\ DOMAIN s = 1..Len(s)
        BY DEF AreHits
    <2>3. QED BY <2>1, <2>2, HitsSortedAlike
<1> HIDE DEF t
<1>3. FirstIssue(given, t) = {} <=> FirstIssue(given, s) = {}
    <2>1. (\A i \in DOMAIN t : HitIssue(given, t[i]) = {}) <=> (\A i \in DOMAIN s : HitIssue(given, s[i]) = {})
        BY <1>1, Zenon
    <2>2. QED BY <1>1, <2>1, NoIssue
<1>4. FirstIssue(given, s) = {} => Wrapped(given, t) = Wrapped(given, s)
    <2> SUFFICES ASSUME FirstIssue(given, s) = {} PROVE Wrapped(given, t) = Wrapped(given, s)
        OBVIOUS
    <2>1. Sorted(t, HitBefore) = Sorted(s, HitBefore)
        BY <1>2
    <2>2. QED BY <2>1, Zenon DEF Wrapped
<1>5. GetCandidates(given, query, Reply(t)).ok = GetCandidates(given, query, Reply(s)).ok
    BY <1>3 DEF GetCandidates, Reply, Failure
<1>6. GetCandidates(given, query, Reply(s)).ok => GetCandidates(given, query, Reply(t)) = GetCandidates(given, query, Reply(s))
    BY <1>3, <1>4 DEF GetCandidates, Reply, Failure
<1>7. QED BY <1>5, <1>6, Zenon DEF t

\* What a reply gives: blocks that were lent, the best first, and no more than the
\* limit; a hit that is not among them is no better than any that is.
LEMMA BestAreKept ==
    ASSUME NEW given, \A b \in Range(given) : b.id \in BlockIds, NEW query,
           NEW s, AreHits(s), GetCandidates(given, query, Reply(s)).ok
    PROVE  LET made == GetCandidates(given, query, Reply(s)).value
           IN  /\ Len(made) \in Nat /\ Len(made) <= MaxCandidates /\ DOMAIN made = 1..Len(made)
               /\ \A i \in DOMAIN made : made[i].block \in Range(given)
               /\ query = "words" /\ given # <<>> =>
                     \A h \in Range(s) :
                        \/ \E c \in Range(made) : c.block.id = h.id /\ c.score = h.score
                        \/ Len(made) = MaxCandidates /\ \A c \in Range(made) : c.score >= h.score
<1> DEFINE made == GetCandidates(given, query, Reply(s)).value
           best == Sorted(s, HitBefore)
           m == IF Len(best) < MaxCandidates THEN Len(best) ELSE MaxCandidates
<1>1. CASE given = <<>> \/ query = "blank"
    <2>1. made = <<>>
        BY <1>1 DEF GetCandidates, Reply
    <2>2. Len(made) = 0 /\ DOMAIN made = 1..0
        BY <2>1
    <2>3. \A i \in DOMAIN made : made[i].block \in Range(given)
        BY <2>2
    <2>4. query = "words" /\ given # <<>> => FALSE
        BY <1>1
    <2> HIDE DEF made
    <2>5. QED BY <2>2, <2>3, <2>4, RetrievalAssumption DEF made
<1>2. CASE ~ (given = <<>> \/ query = "blank")
    <2>1. FirstIssue(given, s) = {} /\ made = Wrapped(given, s)
        BY <1>2 DEF GetCandidates, Reply, Failure
    <2>2. /\ \A i \in DOMAIN s : /\ BlockRank(s[i].id) \in Nat /\ s[i].score \in Nat
                                 /\ \E j \in DOMAIN given : given[j].id = s[i].id
          /\ Len(s) \in Nat /\ DOMAIN s = 1..Len(s)
        <3>1. Len(s) \in Nat /\ DOMAIN s = 1..Len(s)
            BY DEF AreHits
        <3>2. \A i \in DOMAIN s : /\ BlockRank(s[i].id) \in Nat /\ s[i].score \in Nat
                                  /\ \E j \in DOMAIN given : given[j].id = s[i].id
            BY <2>1, UsableHits
        <3>3. QED BY <3>1, <3>2
    <2>3. PICK p \in Bijection(DOMAIN s, DOMAIN s) :
             /\ best = [k \in DOMAIN s |-> s[p[k]]]
             /\ \A a, b \in DOMAIN s : a < b => ~ HitBefore(s[p[b]], s[p[a]])
        BY <2>2, HitsSorted
    <2> DEFINE D == DOMAIN s
    <2>4. p \in [D -> D] /\ \A k \in D : \E i \in D : p[i] = k
        <3>1. p \in Bijection(D, D)
            OBVIOUS
        <3> HIDE DEF D
        <3>2. QED BY <3>1, Arranges
    <2>5. Len(best) = Len(s) /\ \A k \in D : best[k] = s[p[k]]
        <3>1. best = [k \in D |-> s[p[k]]]
            BY <2>3
        <3> HIDE DEF best
        <3>2. \A k \in D : best[k] = s[p[k]]
            BY <3>1
        <3>3. best \in [1..Len(s) -> Range(best)]
            BY <2>2, <3>1 DEF Range
        <3>4. QED BY <2>2, <3>2, <3>3, FunctionIsSeq
    <2> HIDE DEF best
    <2>6. m \in Nat /\ m <= MaxCandidates /\ m <= Len(s) /\ (m < Len(s) => m = MaxCandidates)
        <3>1. Len(best) \in Nat /\ Len(best) = Len(s) /\ MaxCandidates \in Nat
            BY <2>2, <2>5, RetrievalAssumption
        <3>2. QED BY <3>1
    <2>7. made = [ i \in 1..m |-> [block |-> BlockById(given, best[i].id), rank |-> i - 1, score |-> best[i].score] ]
        BY <2>1 DEF Wrapped, best
    <2> HIDE DEF made, m
    <2>8. DOMAIN made = 1..m /\ Len(made) = m
        <3>1. DOMAIN made = 1..m
            BY <2>7
        <3>2. made \in [1..m -> Range(made)]
            BY <2>7, <3>1 DEF Range
        <3>3. QED BY <2>6, <3>1, <3>2, FunctionIsSeq
    <2>9. \A i \in 1..m : i \in D /\ p[i] \in D
        <3>1. \A i \in 1..m : i \in D
            BY <2>2, <2>6
        <3>2. QED BY <2>4, <3>1
    <2>10. \A i \in 1..m : made[i].block = BlockById(given, s[p[i]].id) /\ made[i].score = s[p[i]].score
        BY <2>5, <2>7, <2>9
    <2>11. \A i \in D : BlockById(given, s[i].id) \in Range(given) /\ BlockById(given, s[i].id).id = s[i].id
        <3> SUFFICES ASSUME NEW i \in D
                     PROVE  BlockById(given, s[i].id) \in Range(given) /\ BlockById(given, s[i].id).id = s[i].id
            OBVIOUS
        <3> DEFINE at == CHOOSE j \in DOMAIN given : given[j].id = s[i].id
        <3>1. at \in DOMAIN given /\ given[at].id = s[i].id
            BY <2>2, Zenon
        <3>2. BlockById(given, s[i].id) = given[at]
            BY DEF BlockById
        <3> HIDE DEF at
        <3>3. QED BY <3>1, <3>2 DEF Range
    <2>12. \A i \in DOMAIN made : made[i].block \in Range(given)
        BY <2>8, <2>9, <2>10, <2>11
    <2>13. ASSUME NEW h \in Range(s)
           PROVE  \/ \E c \in Range(made) : c.block.id = h.id /\ c.score = h.score
                  \/ Len(made) = MaxCandidates /\ \A c \in Range(made) : c.score >= h.score
        <3>1. PICK k \in D : s[p[k]] = h
            <4>1. PICK i \in D : s[i] = h
                BY <2>13 DEF Range
            <4>2. PICK k \in D : p[k] = i
                BY <2>4
            <4>3. QED BY <4>1, <4>2
        <3>2. CASE k <= m
            <4>1. k \in 1..m
                BY <2>2, <3>2
            <4>2. made[k].block.id = h.id /\ made[k].score = h.score
                BY <2>9, <2>10, <2>11, <3>1, <4>1
            <4>3. made[k] \in Range(made)
                BY <2>8, <4>1 DEF Range
            <4>4. QED BY <4>2, <4>3
        <3>3. CASE ~ (k <= m)
            <4>1. m < Len(s)
                BY <2>2, <2>6, <3>3
            <4>2. \A i \in 1..m : made[i].score >= h.score
                <5> SUFFICES ASSUME NEW i \in 1..m PROVE made[i].score >= h.score
                    OBVIOUS
                <5>1. i < k /\ i \in D
                    BY <2>2, <2>6, <2>9, <3>3
                <5>2. ~ HitBefore(h, s[p[i]])
                    BY <2>3, <3>1, <5>1
                <5>3. s[p[i]].score \in Nat /\ h.score \in Nat
                    BY <2>2, <2>4, <3>1, <5>1
                <5>4. s[p[i]].score >= h.score
                    BY <5>2, <5>3 DEF HitBefore
                <5>5. QED BY <2>10, <5>4
            <4>3. Len(made) = MaxCandidates
                BY <2>6, <2>8, <4>1
            <4>4. \A c \in Range(made) : c.score >= h.score
                BY <2>8, <4>2 DEF Range
            <4>5. QED BY <4>3, <4>4
        <3>4. QED BY <3>2, <3>3
    <2>14. QED BY <2>6, <2>8, <2>12, <2>13 DEF made
<1>3. QED BY <1>1, <1>2

\* While the provider changes nothing it is lent copies of the blocks, and what it
\* resolves to after asking the engine are the blocks the hits are of.
EngineInv ==
    /\ meddles \in Nat
    /\ stage = "asking" /\ meddles = 0 =>
          DOMAIN lent = DOMAIN Blocks /\ \A i \in DOMAIN Blocks : heap[lent[i]] = Json(Blocks[i])
    /\ \A found \in engine :
          /\ found.ok => found = Reply(found.value) /\ AreHits(found.value)
          /\ stage \in {"answered", "candidate-provider", "compilation", "done"}
          /\ found.ok /\ meddles = 0 =>
                LET made == GetCandidates(Blocks, request.query, found)
                IN  /\ stage = "candidate-provider" => ~ made.ok
                    /\ stage = "answered" =>
                          /\ made.ok /\ DOMAIN answer = DOMAIN made.value
                          /\ \A i \in DOMAIN answer : heap[answer[i]] = Json(made.value[i].block)

RetrievalInv == OwnershipInv /\ EngineInv

\* The blocks are a sequence, identified by their ranks.
LEMMA BlocksAreIdentified ==
    ASSUME CorpusInv, Asked
    PROVE  /\ Len(Blocks) \in Nat /\ DOMAIN Blocks = 1..Len(Blocks)
           /\ Blocks = [ i \in DOMAIN Blocks |-> Blocks[i] ]
           /\ \A b \in Range(Blocks) : b.id \in BlockIds
<1>1. Blocks \in Seq(AllBlocks)
    BY PublishedIsRead DEF CorpusInv
<1>2. Len(Blocks) \in Nat /\ DOMAIN Blocks = 1..Len(Blocks) /\ Blocks \in [1..Len(Blocks) -> AllBlocks]
    BY <1>1, LenProperties
<1>3. \A b \in Range(Blocks) : b.id \in BlockIds
    <2> SUFFICES ASSUME NEW b \in AllBlocks PROVE b.id \in BlockIds
        BY <1>2 DEF Range
    <2>1. PICK r \in Registrations, c \in Content : b \in Range(BlocksCut(r, c))
        BY DEF AllBlocks
    <2>2. b.id \in { x.id : x \in Range(BlocksCut(r, c)) }
        BY <2>1
    <2> DEFINE ids(q, x) == { y.id : y \in Range(BlocksCut(q, x)) }
    <2>3. BlockIds = UNION { ids(q, x) : q \in Registrations, x \in Content }
        BY DEF BlockIds
    <2>4. ids(r, c) \in { ids(q, x) : q \in Registrations, x \in Content } /\ b.id \in ids(r, c)
        BY <2>2
    <2> HIDE DEF ids
    <2>5. QED BY <2>3, <2>4
<1>4. QED BY <1>2, <1>3

\* Nothing the engine or the provider is asked about changes.
LEMMA RestKeepsEngine ==
    ASSUME EngineInv, UNCHANGED << stage, request, blocks, heap, lent, engine, answer, meddles >>
    PROVE  EngineInv'
<1>1. Blocks' = Blocks
    BY DEF Blocks
<1>2. (meddles \in Nat)' /\ (stage = "asking" /\ meddles = 0 =>
          DOMAIN lent = DOMAIN Blocks /\ \A i \in DOMAIN Blocks : heap[lent[i]] = Json(Blocks[i]))'
    BY <1>1 DEF EngineInv
<1>3. (\A found \in engine :
          /\ found.ok => found = Reply(found.value) /\ AreHits(found.value)
          /\ stage \in {"answered", "candidate-provider", "compilation", "done"}
          /\ found.ok /\ meddles = 0 =>
                LET made == GetCandidates(Blocks, request.query, found)
                IN  /\ stage = "candidate-provider" => ~ made.ok
                    /\ stage = "answered" =>
                          /\ made.ok /\ DOMAIN answer = DOMAIN made.value
                          /\ \A i \in DOMAIN answer : heap[answer[i]] = Json(made.value[i].block))'
    BY <1>1 DEF EngineInv
<1>4. QED BY <1>2, <1>3 DEF EngineInv

\* The engine was not asked, and the provider is not asked.
LEMMA NoEngineYet ==
    ASSUME EngineInv, stage \in {"listing", "reading", "asking"}, UNCHANGED << engine, meddles >>,
           stage' # "asking"
    PROVE  EngineInv'
BY DEF EngineInv

\* What is lent are copies of the blocks.
LEMMA LendKeepsEngine ==
    ASSUME OwnershipInv, EngineInv, Lend
    PROVE  EngineInv'
<1> DEFINE n == Len(Blocks)
           copies == [ i \in 1 .. 2 * n |-> Json(Blocks[IF i > n THEN i - n ELSE i]) ]
<1>1. /\ stage = "reading" /\ stage' = "asking" /\ heap' = copies
      /\ lent' = [ i \in DOMAIN Blocks |-> n + i ]
      /\ UNCHANGED << blocks, engine, meddles >>
    BY DEF Lend, worldVars, corpusVars, providerVars, traceVars
<1>2. n \in Nat /\ DOMAIN Blocks = 1..n
    BY <1>1, BlocksFacts DEF OwnershipInv
<1>3. Blocks' = Blocks /\ engine' = {}
    BY <1>1 DEF Blocks, EngineInv
<1> HIDE DEF n
<1>4. \A i \in 1..n : copies[n + i] = Json(Blocks[i])
    BY <1>2
<1> HIDE DEF copies
<1>5. (DOMAIN lent = DOMAIN Blocks /\ \A i \in DOMAIN Blocks : heap[lent[i]] = Json(Blocks[i]))'
    BY <1>1, <1>2, <1>3, <1>4 DEF n
<1>6. QED BY <1>1, <1>3, <1>5 DEF EngineInv

\* What the engine finds are hits, and they are answered with the blocks they are of.
LEMMA SearchKeepsEngine ==
    ASSUME OwnershipInv, EngineInv, MiniSearchAnswers
    PROVE  EngineInv'
<1> USE DEF worldVars, corpusVars, providerVars, traceVars
<1> DEFINE given == [ i \in DOMAIN Lent |-> Lent[i].block ]
<1>1. PICK reply \in { Reply(hits) : hits \in BoundedSeq(Hits, MaxAnswer) } \cup { Failure("SEARCH_FAILED") } :
         LET found == IF reply.ok THEN Reply([ i \in DOMAIN reply.value |-> HitOn(reply.value[i]) ]) ELSE reply
             made  == GetCandidates(given, request.query, found)
         IN  /\ engine' = {found}
             /\ IF made.ok
                THEN Resolves([ i \in DOMAIN made.value |-> Json(made.value[i].block) ])
                ELSE Fail("candidate-provider") /\ UNCHANGED providerVars
    BY DEF MiniSearchAnswers
<1> DEFINE found == IF reply.ok THEN Reply([ i \in DOMAIN reply.value |-> HitOn(reply.value[i]) ]) ELSE reply
           made  == GetCandidates(given, request.query, found)
           values == [ i \in DOMAIN made.value |-> Json(made.value[i].block) ]
<1>2. /\ stage = "asking" /\ UNCHANGED << request, blocks, meddles >>
    BY DEF MiniSearchAnswers
<1>3. /\ engine' = {found}
      /\ made.ok => Resolves(values)
      /\ ~ made.ok => stage' = "candidate-provider"
    BY <1>1 DEF Fail
<1>4. found.ok => found = Reply(found.value) /\ AreHits(found.value)
    <2> SUFFICES ASSUME found.ok PROVE found = Reply(found.value) /\ AreHits(found.value)
        OBVIOUS
    <2>1. PICK hits \in BoundedSeq(Hits, MaxAnswer) : reply = Reply(hits)
        BY DEF Reply, Failure
    <2> DEFINE hitsOn == [ i \in DOMAIN hits |-> HitOn(hits[i]) ]
    <2>2. found = Reply(hitsOn)
        BY <2>1 DEF Reply
    <2>3. PICK k \in 0..MaxAnswer : hits \in [1..k -> Hits]
        BY DEF BoundedSeq, SeqOf
    <2>4. k \in Nat /\ DOMAIN hitsOn = 1..k /\ \A i \in 1..k : hitsOn[i] = HitOn(hits[i]) /\ hits[i] \in Hits
        BY <2>3, RetrievalAssumption
    <2> HIDE DEF hitsOn
    <2>5. Len(hitsOn) = k
        <3>1. hitsOn \in [1..k -> Range(hitsOn)]
            BY <2>4 DEF Range, hitsOn
        <3>2. QED BY <2>4, <3>1, FunctionIsSeq
    <2>6. \A i \in 1..k : hitsOn[i] = [id |-> hitsOn[i].id, score |-> hitsOn[i].score] /\ hitsOn[i].score \in Nat
        <3> SUFFICES ASSUME NEW i \in 1..k
                     PROVE  hitsOn[i] = [id |-> hitsOn[i].id, score |-> hitsOn[i].score] /\ hitsOn[i].score \in Nat
            OBVIOUS
        <3>1. hits[i].score \in Nat
            BY <2>4, RetrievalAssumption
        <3>2. QED BY <2>4, <3>1 DEF HitOn
    <2>7. AreHits(hitsOn)
        BY <2>4, <2>5, <2>6 DEF AreHits
    <2> HIDE DEF found
    <2>8. QED BY <2>2, <2>7 DEF Reply
<1> HIDE DEF found
<1>5. meddles = 0 => given = Blocks
    <2> SUFFICES ASSUME meddles = 0 PROVE given = Blocks
        OBVIOUS
    <2>1. DOMAIN lent = DOMAIN Blocks /\ \A i \in DOMAIN Blocks : heap[lent[i]] = Json(Blocks[i])
        BY <1>2 DEF EngineInv
    <2>2. given = [ i \in DOMAIN Blocks |-> heap[lent[i]].block ]
        BY <2>1 DEF Lent
    <2>3. \A i \in DOMAIN Blocks : heap[lent[i]].block = Blocks[i]
        <3> SUFFICES ASSUME NEW i \in DOMAIN Blocks PROVE heap[lent[i]].block = Blocks[i]
            OBVIOUS
        <3>1. heap[lent[i]] = Json(Blocks[i])
            BY <2>1
        <3>2. QED BY <3>1 DEF Json
    <2>4. Blocks = [ i \in DOMAIN Blocks |-> Blocks[i] ]
        BY <1>2, BlocksAreIdentified DEF OwnershipInv, Asked
    <2> HIDE DEF given
    <2>5. [ i \in DOMAIN Blocks |-> heap[lent[i]].block ] = [ i \in DOMAIN Blocks |-> Blocks[i] ]
        BY <2>3
    <2>6. QED BY <2>2, <2>4, <2>5, Zenon
<1> HIDE DEF given
<1>6. meddles = 0 => GetCandidates(Blocks', request'.query, found) = made
    <2>1. Blocks' = Blocks /\ request' = request
        BY <1>2 DEF Blocks
    <2>2. QED BY <1>5, <2>1, Zenon
<1>7. made.ok => /\ stage' = "answered" /\ DOMAIN answer' = DOMAIN made.value
                 /\ found.ok => \A i \in DOMAIN answer' : heap'[answer'[i]] = Json(made.value[i].block)
    <2> SUFFICES ASSUME made.ok
                 PROVE  /\ stage' = "answered" /\ DOMAIN answer' = DOMAIN made.value
                        /\ found.ok => \A i \in DOMAIN answer' : heap'[answer'[i]] = Json(made.value[i].block)
        OBVIOUS
    <2>1. /\ stage' = "answered" /\ heap' = heap \o values
          /\ answer' = [ i \in DOMAIN values |-> Len(heap) + i ]
        BY <1>3 DEF Resolves
    <2>2. found.ok => Len(found.value) \in Nat /\ DOMAIN found.value = 1..Len(found.value)
        BY <1>4 DEF AreHits
    <2>3. PICK k \in Nat : DOMAIN made.value = 1..k
        BY <2>2, CandidatesAreASequence
    <2> HIDE DEF made
    <2>4. DOMAIN values = DOMAIN made.value /\ \A i \in DOMAIN made.value : values[i] = Json(made.value[i].block)
        OBVIOUS
    <2>5. values \in [1..k -> Range(values)]
        BY <2>3 DEF Range
    <2> HIDE DEF values
    <2>6. Sequence(values) /\ Sequence(heap)
        BY <2>5, FunctionIsSequence DEF OwnershipInv, HeapInv
    <2>7. \A i \in DOMAIN values : (heap \o values)[Len(heap) + i] = values[i]
        <3> DEFINE j == heap \o values
        <3>1. DOMAIN values = 1..Len(values) /\ \A i \in DOMAIN values : j[Len(heap) + i] = values[i]
            BY <2>6, JoinFacts
        <3> HIDE DEF j
        <3>2. QED BY <3>1, Zenon DEF j
    <2>8. QED BY <2>1, <2>4, <2>7
<1> HIDE DEF made
<1>8. (meddles \in Nat)' /\ stage' # "asking"
    BY <1>2, <1>3, <1>7 DEF EngineInv
<1>9. found.ok /\ meddles' = 0 =>
         LET again == GetCandidates(Blocks', request'.query, found)
         IN  /\ stage' = "candidate-provider" => ~ again.ok
             /\ stage' = "answered" =>
                   /\ again.ok /\ DOMAIN answer' = DOMAIN again.value
                   /\ \A i \in DOMAIN answer' : heap'[answer'[i]] = Json(again.value[i].block)
    BY <1>2, <1>3, <1>6, <1>7
<1>10. stage' \in {"answered", "candidate-provider", "compilation", "done"}
    BY <1>3, <1>7
<1>11. QED BY <1>3, <1>4, <1>8, <1>9, <1>10 DEF EngineInv

\* Candidates that are blocks as they were lent are not refused as foreign.
LEMMA ReceivesKeepsEngine ==
    ASSUME OwnershipInv, EngineInv, Receives
    PROVE  EngineInv'
<1> DEFINE refs == Owned(answer).refs
<1>1. /\ stage = "answered" /\ stage' \in {"candidate-provider", "compilation", "done"}
      /\ MembershipIssues(heap', refs) = {} => stage' # "candidate-provider"
      /\ UNCHANGED << request, blocks, prepared, engine, lent, answer, meddles >>
    <2>1. /\ stage = "answered" /\ heap' = Owned(answer).heap
          /\ UNCHANGED << request, blocks, prepared, engine, lent, answer, meddles >>
        BY DEF Receives, corpusVars
    <2>2. IF MembershipIssues(heap', refs) # {}
          THEN stage' = "candidate-provider"
          ELSE stage' \in {"done", "compilation"}
        BY <2>1 DEF Receives, Fail
    <2>3. QED BY <2>1, <2>2
<1>2. Blocks' = Blocks
    BY <1>1 DEF Blocks
<1>3. ASSUME NEW found \in engine, found.ok, meddles = 0
      PROVE  stage' # "candidate-provider"
    <2> DEFINE made == GetCandidates(Blocks, request.query, found)
    <2>1. /\ made.ok /\ DOMAIN answer = DOMAIN made.value
          /\ \A i \in DOMAIN answer : heap[answer[i]] = Json(made.value[i].block)
          /\ found = Reply(found.value) /\ AreHits(found.value)
        BY <1>1, <1>3 DEF EngineInv
    <2>2. \A b \in Range(Blocks) : b.id \in BlockIds
        BY <1>1, BlocksAreIdentified DEF OwnershipInv, Asked
    <2>3. \A i \in DOMAIN made.value : made.value[i].block \in Range(Blocks)
        <3>1. made = GetCandidates(Blocks, request.query, Reply(found.value))
            BY <2>1, Zenon
        <3> DEFINE again == GetCandidates(Blocks, request.query, Reply(found.value))
        <3>2. again.ok
            BY <2>1, <3>1, Zenon
        <3>3. \A i \in DOMAIN again.value : again.value[i].block \in Range(Blocks)
            BY <2>1, <2>2, <3>2, BestAreKept
        <3>4. QED BY <3>1, <3>3, Zenon
    <2> HIDE DEF made
    <2>4. /\ \A i \in DOMAIN heap : i \in DOMAIN heap' /\ heap'[i] = heap[i]
          /\ \A i \in DOMAIN answer : heap'[Len(heap) + i] = heap[answer[i]]
        BY ReceivedAreCopied
    <2>5. /\ prepared = [ i \in DOMAIN Blocks |-> i ]
          /\ DOMAIN Blocks \subseteq DOMAIN heap
          /\ \A i \in DOMAIN Blocks : heap[i] = Json(Blocks[i])
        BY <1>1 DEF OwnershipInv, HeapInv, Asked
    <2>6. { heap'[p].block : p \in Range(prepared) } = Range(Blocks)
        <3>1. Range(prepared) = DOMAIN Blocks
            BY <2>5 DEF Range
        <3>2. \A i \in DOMAIN Blocks : heap'[i].block = Blocks[i]
            <4> SUFFICES ASSUME NEW i \in DOMAIN Blocks PROVE heap'[i].block = Blocks[i]
                OBVIOUS
            <4>1. heap'[i] = Json(Blocks[i])
                BY <2>4, <2>5
            <4>2. QED BY <4>1 DEF Json
        <3>3. QED BY <3>1, <3>2 DEF Range
    <2>7. DOMAIN refs = DOMAIN answer /\ \A i \in DOMAIN answer : heap'[refs[i]] = Json(made.value[i].block)
        <3> SUFFICES ASSUME NEW i \in DOMAIN answer PROVE heap'[refs[i]] = Json(made.value[i].block)
            BY DEF Owned
        <3>1. heap[answer[i]] = Json(made.value[i].block)
            BY <2>1
        <3>2. CanCopy(heap[answer[i]])
            <4>1. heap[answer[i]].field = "data"
                BY <3>1 DEF Json
            <4>2. QED BY <4>1 DEF CanCopy, FieldOK
        <3>3. refs[i] = Len(heap) + i
            BY <3>2 DEF Owned
        <3> HIDE DEF refs
        <3>4. QED BY <2>4, <3>1, <3>3
    <2> HIDE DEF refs
    <2>8. MembershipIssues(heap', refs) = {}
        <3> DEFINE corpus == { heap'[p].block : p \in Range(prepared) }
                   issue(v) == IF v.block.id = <<>> THEN {}
                               ELSE IF \A b \in corpus : b.id # v.block.id THEN {"candidate_outside_prepared_corpus"}
                               ELSE IF ~ FieldOK("canonical", ObjectOf(v), v.field) THEN {}
                               ELSE IF v.block \notin corpus THEN {"candidate_block_mismatch"}
                               ELSE {}
        <3>1. MembershipIssues(heap', refs) = UNION { issue(heap'[refs[i]]) : i \in DOMAIN refs }
            BY DEF MembershipIssues
        <3>2. \A i \in DOMAIN refs : heap'[refs[i]].block \in corpus /\ heap'[refs[i]].field = "data"
            <4> SUFFICES ASSUME NEW i \in DOMAIN refs
                         PROVE  heap'[refs[i]].block \in corpus /\ heap'[refs[i]].field = "data"
                OBVIOUS
            <4>1. heap'[refs[i]] = Json(made.value[i].block) /\ made.value[i].block \in Range(Blocks)
                BY <2>1, <2>3, <2>7
            <4>2. heap'[refs[i]].block = made.value[i].block /\ heap'[refs[i]].field = "data"
                BY <4>1 DEF Json
            <4>3. QED BY <2>6, <4>1, <4>2, Zenon
        <3> HIDE DEF corpus
        <3>3. \A v : v.block \in corpus /\ v.field = "data" => issue(v) = {}
            BY DEF FieldOK
        <3> HIDE DEF issue
        <3>4. \A i \in DOMAIN refs : issue(heap'[refs[i]]) = {}
            BY <3>2, <3>3
        <3>5. QED BY <3>1, <3>4
    <2>9. QED BY <1>1, <2>8
<1>4. (meddles \in Nat)' /\ stage' # "asking" /\ stage' # "answered"
    BY <1>1 DEF EngineInv
<1>5. \A found \in engine' : found.ok => found = Reply(found.value) /\ AreHits(found.value)
    BY <1>1 DEF EngineInv
<1>6. QED BY <1>1, <1>3, <1>4, <1>5 DEF EngineInv

\* At first no engine was asked.
LEMMA RetrievalInit ==
    ASSUME Init
    PROVE  RetrievalInv
<1>1. EngineInv
    BY DEF Init, EngineInv
<1>2. QED BY <1>1, OwnershipInit DEF RetrievalInv

\* Every step keeps what the engine found and what was answered in agreement.
LEMMA RetrievalStep ==
    ASSUME RetrievalInv, [Next]_vars
    PROVE  RetrievalInv'
<1> USE DEF worldVars, corpusVars, providerVars, traceVars
<1> SUFFICES EngineInv'
    BY OwnershipStep DEF RetrievalInv
<1> OwnershipInv /\ EngineInv
    BY DEF RetrievalInv
<1>1. CASE Lend
    BY <1>1, LendKeepsEngine
<1>2. CASE MiniSearchAnswers
    BY <1>2, SearchKeepsEngine
<1>3. CASE Receives
    BY <1>3, ReceivesKeepsEngine
<1>4. CASE Lists \/ Reads
    <2>1. stage \in {"listing", "reading"} /\ UNCHANGED << engine, meddles >>
        BY <1>4 DEF Lists, Reads
    <2>2. stage' # "asking"
        BY <1>4, <2>1 DEF Lists, Reads, Fail, CanonicalRegistrations, PrepareSource, Reply, Failure
    <2>3. QED BY <2>1, <2>2, NoEngineYet
<1>5. CASE ProviderAnswers \/ ProviderFails
    <2>1. stage = "asking" /\ stage' # "asking" /\ UNCHANGED << engine, meddles >>
        BY <1>5 DEF ProviderAnswers, ProviderFails, Resolves, Fail
    <2>2. QED BY <2>1, NoEngineYet
<1>6. CASE \E ref \in Known : Meddle(ref)
    <2>1. meddles' = meddles + 1 /\ UNCHANGED << stage, engine >>
        BY <1>6 DEF Meddle
    <2>2. meddles \in Nat /\ meddles' # 0 /\ meddles' \in Nat
        BY <2>1 DEF EngineInv
    <2>3. \A found \in engine' : /\ found.ok => found = Reply(found.value) /\ AreHits(found.value)
                                 /\ stage' \in {"answered", "candidate-provider", "compilation", "done"}
        BY <2>1 DEF EngineInv
    <2>4. QED BY <2>2, <2>3 DEF EngineInv
<1>7. ASSUME \/ \E operation \in {"register", "update", "remove"}, r \in Entries \cup registry : Administers(operation, r)
             \/ \E l \in DOMAIN files, c \in Content : WritesFile(l, c)
             \/ StoresTrace \/ ReadsTrace \/ Ends \/ UNCHANGED vars
      PROVE  EngineInv'
    <2>1. UNCHANGED << stage, request, blocks, heap, lent, engine, answer, meddles >>
        BY <1>7 DEF Administers, WritesFile, StoresTrace, ReadsTrace, Ends, vars
    <2>2. QED BY <2>1, RestKeepsEngine
<1>8. QED BY <1>1, <1>2, <1>3, <1>4, <1>5, <1>6, <1>7 DEF Next

\* The engine decides which blocks are found and how well, and nothing else: the
\* order of its answer is of no account, and what it found is never refused as
\* foreign to a corpus nobody changed.
THEOREM RetrievalIsCanonicalHolds == Spec => []RetrievalIsCanonical
<1>1. RetrievalInv => RetrievalIsCanonical
    <2> SUFFICES ASSUME RetrievalInv, NEW found \in engine, found.ok, meddles = 0
                 PROVE  LET given  == [ i \in DOMAIN prepared |-> heap[prepared[i]].block ]
                            made   == GetCandidates(given, request.query, found)
                            orders == { [ i \in DOMAIN found.value |-> found.value[p[i]] ] :
                                          p \in Bijection(DOMAIN found.value, DOMAIN found.value) }
                        IN  /\ \A hits \in orders : GetCandidates(given, request.query, Reply(hits)).ok = made.ok
                            /\ made.ok =>
                                  /\ \A hits \in orders : GetCandidates(given, request.query, Reply(hits)) = made
                                  /\ Len(made.value) <= MaxCandidates
                                  /\ \A h \in Range(found.value) : request.query = "words" /\ given # <<>> =>
                                        \/ \E c \in Range(made.value) : c.block.id = h.id /\ c.score = h.score
                                        \/ Len(made.value) = MaxCandidates /\ \A c \in Range(made.value) : c.score >= h.score
                            /\ stage = "candidate-provider" => ~ made.ok
        BY DEF RetrievalIsCanonical
    <2> DEFINE given  == [ i \in DOMAIN prepared |-> heap[prepared[i]].block ]
               s      == found.value
               made   == GetCandidates(given, request.query, found)
               orders == { [ i \in DOMAIN s |-> s[p[i]] ] : p \in Bijection(DOMAIN s, DOMAIN s) }
    <2>1. /\ found = Reply(s) /\ AreHits(s) /\ Asked
          /\ stage = "candidate-provider" => ~ GetCandidates(Blocks, request.query, found).ok
        BY DEF RetrievalInv, EngineInv, Asked
    <2>2. /\ prepared = [ i \in DOMAIN Blocks |-> i ]
          /\ \A i \in DOMAIN Blocks : heap[i] = Json(Blocks[i])
          /\ Blocks = [ i \in DOMAIN Blocks |-> Blocks[i] ]
          /\ \A b \in Range(Blocks) : b.id \in BlockIds
        BY <2>1, BlocksAreIdentified DEF RetrievalInv, OwnershipInv, HeapInv
    <2>3. given = Blocks
        <3>1. \A i \in DOMAIN Blocks : heap[i].block = Blocks[i]
            <4> SUFFICES ASSUME NEW i \in DOMAIN Blocks PROVE heap[i].block = Blocks[i]
                OBVIOUS
            <4>1. heap[i] = Json(Blocks[i])
                BY <2>2
            <4>2. QED BY <4>1 DEF Json
        <3>2. given = [ i \in DOMAIN Blocks |-> heap[i].block ]
            BY <2>2
        <3> HIDE DEF given
        <3>3. [ i \in DOMAIN Blocks |-> heap[i].block ] = [ i \in DOMAIN Blocks |-> Blocks[i] ]
            BY <3>1
        <3>4. QED BY <2>2, <3>2, <3>3, Zenon
    <2> HIDE DEF given
    <2>4. \A b \in Range(given) : b.id \in BlockIds
        BY <2>2, <2>3, Zenon
    <2>5. made = GetCandidates(given, request.query, Reply(s))
        BY <2>1, Zenon
    <2> HIDE DEF made, s
    <2>6. \A hits \in orders : /\ GetCandidates(given, request.query, Reply(hits)).ok = made.ok
                               /\ made.ok => GetCandidates(given, request.query, Reply(hits)) = made
        <3> SUFFICES ASSUME NEW p \in Bijection(DOMAIN s, DOMAIN s)
                     PROVE  LET again == GetCandidates(given, request.query, Reply([ i \in DOMAIN s |-> s[p[i]] ]))
                            IN  again.ok = made.ok /\ (made.ok => again = made)
            BY Zenon
        <3> DEFINE q     == request.query
                   one   == GetCandidates(given, q, Reply(s))
                   again == GetCandidates(given, q, Reply([ i \in DOMAIN s |-> s[p[i]] ]))
        <3> HIDE DEF q
        <3>1. again.ok = one.ok /\ (one.ok => again = one)
            BY <2>1, <2>4, RetrievedAlike
        <3>2. QED BY <2>5, <3>1, Zenon DEF q
    <2>7. made.ok =>
             /\ Len(made.value) <= MaxCandidates
             /\ \A h \in Range(s) : request.query = "words" /\ given # <<>> =>
                   \/ \E c \in Range(made.value) : c.block.id = h.id /\ c.score = h.score
                   \/ Len(made.value) = MaxCandidates /\ \A c \in Range(made.value) : c.score >= h.score
        <3> SUFFICES ASSUME made.ok
                     PROVE  /\ Len(made.value) <= MaxCandidates
                            /\ \A h \in Range(s) : request.query = "words" /\ given # <<>> =>
                                  \/ \E c \in Range(made.value) : c.block.id = h.id /\ c.score = h.score
                                  \/ Len(made.value) = MaxCandidates /\ \A c \in Range(made.value) : c.score >= h.score
            OBVIOUS
        <3> DEFINE q   == request.query
                   one == GetCandidates(given, q, Reply(s))
        <3>1. one.ok
            BY <2>5, Zenon
        <3> HIDE DEF q
        <3>2. /\ Len(one.value) <= MaxCandidates
              /\ q = "words" /\ given # <<>> =>
                    \A h \in Range(s) :
                       \/ \E c \in Range(one.value) : c.block.id = h.id /\ c.score = h.score
                       \/ Len(one.value) = MaxCandidates /\ \A c \in Range(one.value) : c.score >= h.score
            BY <2>1, <2>4, <3>1, BestAreKept
        <3>3. made = one
            BY <2>5, Zenon DEF q
        <3> HIDE DEF one
        <3>4. QED BY <3>2, <3>3, Zenon DEF q
    <2>8. stage = "candidate-provider" => ~ made.ok
        BY <2>1, <2>3, Zenon DEF made
    <2>9. QED BY <2>6, <2>7, <2>8, Zenon DEF given, made, s
<1>2. Init => RetrievalInv
    BY RetrievalInit
<1>3. RetrievalInv /\ [Next]_vars => RetrievalInv'
    BY RetrievalStep
<1>4. QED BY <1>1, <1>2, <1>3, PTL DEF Spec

=============================================================================
