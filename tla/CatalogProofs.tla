--------------------------- MODULE CatalogProofs ----------------------------
(***************************************************************************)
(* Proofs about the operators of Catalog, Schema and Views, for any        *)
(* document, and about the numbers and positions they choose.              *)
(***************************************************************************)
EXTENDS Catalog, Views, FunctionTheorems, FiniteSetTheorems, TLAPS

\* A set of naturals that is not empty has a least element: of the intervals from
\* 0 to one of them, one is minimal by inclusion.
LEMMA MinIsThere ==
  ASSUME NEW S \in SUBSET Nat, S # {}
  PROVE  Min(S) \in S /\ \A y \in S : Min(S) =< y
<1>1. PICK n \in S : TRUE
  OBVIOUS
<1>. DEFINE low == {x \in S : x =< n}
            T == {0 .. x : x \in low}
            I == 0 .. n
<1>2. IsFiniteSet(I)
  BY FS_Interval
<1>3. T \subseteq FiniteSubsetsOf(I)
  BY <1>2, FS_FiniteSubsetsOfFinite
<1>4. IsWellFoundedOn(StrictSubsetOrdering(I), FiniteSubsetsOf(I))
  BY FS_StrictSubsetOrderingWellFounded
<1>5. T # {}
  BY <1>1
<1>. HIDE DEF T
<1>6. PICK X \in T : \A Y \in T : ~(<<Y, X>> \in StrictSubsetOrdering(I))
  BY <1>3, <1>4, <1>5, WFMin
<1>. USE DEF T
<1>7. PICK x \in low : X = 0 .. x
  OBVIOUS
<1>8. ASSUME NEW y \in S PROVE x =< y
  <2>1. SUFFICES ASSUME y < x PROVE FALSE
    OBVIOUS
  <2>2. y \in low /\ 0 .. y \subseteq 0 .. x /\ 0 .. y # 0 .. x /\ 0 .. x \subseteq I
    BY <2>1
  <2>3. <<0 .. y, X>> \in StrictSubsetOrdering(I)
    BY <2>2, <1>7 DEF StrictSubsetOrdering
  <2>. QED  BY <2>2, <2>3, <1>6
<1>. QED  BY <1>8 DEF Min

\* And one that has a bound has a greatest element.
LEMMA MaxIsThere ==
  ASSUME NEW n \in Nat, NEW S \in SUBSET (0 .. n), S # {}
  PROVE  Max(S) \in S /\ \A y \in S : Max(S) >= y
<1>. DEFINE down == {n - x : x \in S}
<1>1. down \in SUBSET Nat /\ down # {}
  <2>1. ASSUME NEW x \in S PROVE n - x \in Nat
    <3>1. x \in 0 .. n
      OBVIOUS
    <3>. QED  BY <3>1
  <2>. QED  BY <2>1
<1>. HIDE DEF down
<1>2. PICK m \in down : \A y \in down : m =< y
  BY <1>1, MinIsThere
<1>. USE DEF down
<1>3. PICK x \in S : m = n - x
  OBVIOUS
<1>4. ASSUME NEW y \in S PROVE x >= y
  <2>1. n - x =< n - y
    BY <1>2, <1>3
  <2>. QED  BY <2>1
<1>. QED  BY <1>4 DEF Max

\* Induction up to a number, on a set.
LEMMA Stepwise ==
  ASSUME NEW N \in Nat, NEW S, 0 \in S, \A n \in 0 .. N - 1 : n \in S => n + 1 \in S
  PROVE  0 .. N \subseteq S
<1>. DEFINE missing == {n \in 0 .. N : n \notin S}
<1>. SUFFICES ASSUME missing # {} PROVE FALSE
  OBVIOUS
<1>1. missing \in SUBSET Nat
  OBVIOUS
<1>. HIDE DEF missing
<1>2. PICK m \in missing : \A y \in missing : m =< y
  BY <1>1, MinIsThere
<1>. USE DEF missing
<1>3. m \in 1 .. N
  OBVIOUS
<1>4. m - 1 \notin missing /\ m - 1 \in 0 .. N - 1
  BY <1>2, <1>3
<1>5. m - 1 \in S
  BY <1>4
<1>6. (m - 1) + 1 \in S
  BY <1>4, <1>5
<1>. QED  BY <1>3, <1>6

\* What two sequences are, one after the other.
LEMMA Joined ==
  ASSUME NEW S, NEW s \in Seq(S), NEW t \in Seq(S)
  PROVE  /\ DOMAIN (s \o t) = 1 .. Len(s) + Len(t) /\ Len(s \o t) = Len(s) + Len(t)
         /\ \A i \in 1 .. Len(s) : (s \o t)[i] = s[i]
         /\ \A i \in 1 .. Len(t) : (s \o t)[Len(s) + i] = t[i]
<1>. QED  OBVIOUS

\* The n-th number of a finite set is one of it, and each of them is the n-th for
\* some n: how many are below tells the numbers apart, and there are just enough
\* counts.
LEMMA AscendingIsThere ==
  ASSUME NEW S \in SUBSET Nat, IsFiniteSet(S)
  PROVE  /\ Cardinality(S) \in Nat /\ DOMAIN Ascending[S] = 1 .. Cardinality(S)
         /\ \A n \in 1 .. Cardinality(S) : Ascending[S][n] \in S
         /\ \A i \in S : \E n \in 1 .. Cardinality(S) : Ascending[S][n] = i
<1>. DEFINE below(x) == {j \in S : j < x}
            rank == [x \in S |-> Cardinality(below(x))]
            T == 0 .. Cardinality(S) - 1
<1>1. Cardinality(S) \in Nat
  BY FS_CardinalityType
<1>2. IsFiniteSet(T) /\ Cardinality(T) = Cardinality(S)
  <2>1. 0 \in Int /\ Cardinality(S) - 1 \in Int
    BY <1>1
  <2>2. /\ IsFiniteSet(T)
        /\ Cardinality(T) = IF 0 > Cardinality(S) - 1 THEN 0 ELSE (Cardinality(S) - 1) - 0 + 1
    BY <2>1, FS_Interval
  <2>. QED  BY <1>1, <2>2
<1>3. ASSUME NEW x \in S
      PROVE  IsFiniteSet(below(x)) /\ Cardinality(below(x)) \in T
  <2>1. below(x) \in SUBSET (S \ {x})
    OBVIOUS
  <2>2. IsFiniteSet(S \ {x}) /\ Cardinality(S \ {x}) = Cardinality(S) - 1
    BY FS_RemoveElement
  <2>3. IsFiniteSet(below(x)) /\ Cardinality(below(x)) <= Cardinality(S) - 1
    BY <2>1, <2>2, FS_Subset
  <2>4. Cardinality(below(x)) \in Nat
    BY <2>3, FS_CardinalityType
  <2>. QED  BY <1>1, <2>3, <2>4
<1>4. ASSUME NEW x \in S, NEW y \in S, x < y
      PROVE  Cardinality(below(x)) # Cardinality(below(y))
  <2>1. x \in below(y) /\ below(x) \in SUBSET (below(y) \ {x})
    <3>1. x \in Nat /\ y \in Nat
      OBVIOUS
    <3>2. ASSUME NEW j \in below(x) PROVE j \in below(y) \ {x}
      <4>1. j \in Nat
        OBVIOUS
      <4>. QED  BY <1>4, <3>1, <4>1
    <3>. QED  BY <1>4, <3>2
  <2>2. /\ IsFiniteSet(below(y) \ {x})
        /\ Cardinality(below(y) \ {x}) = Cardinality(below(y)) - 1
    BY <1>3, <2>1, FS_RemoveElement
  <2>3. Cardinality(below(x)) <= Cardinality(below(y)) - 1
    BY <2>1, <2>2, FS_Subset
  <2>4. Cardinality(below(x)) \in Int /\ Cardinality(below(y)) \in Int
    BY <1>3
  <2>. QED  BY <2>3, <2>4
<1>. HIDE DEF below
<1>5. rank \in Injection(S, T)
  <2>1. rank \in [S -> T]
    BY <1>3
  <2>2. ASSUME NEW x \in S, NEW y \in S, rank[x] = rank[y]
        PROVE  x = y
    <3>1. x \in Int /\ y \in Int
      OBVIOUS
    <3>. QED  BY <1>4, <2>2, <3>1
  <2>. QED  BY <2>1, <2>2 DEF Injection, IsInjective
<1>6. rank \in Surjection(S, T)
  BY <1>2, <1>5, FS_Injection
<1>7. Ascending[S] = [n \in 1 .. Cardinality(S) |->
                        CHOOSE i \in S : Cardinality({j \in S : j < i}) = n - 1]
  BY DEF Ascending
<1>8. ASSUME NEW n \in 1 .. Cardinality(S)
      PROVE  Ascending[S][n] \in S
  <2>1. n - 1 \in T
    BY <1>1
  <2>2. PICK x \in S : rank[x] = n - 1
    BY <1>6, <2>1 DEF Surjection
  <2>3. Cardinality({j \in S : j < x}) = n - 1
    BY <2>2 DEF below
  <2>. QED  BY <1>7, <2>3
<1>9. ASSUME NEW i \in S
      PROVE  \E n \in 1 .. Cardinality(S) : Ascending[S][n] = i
  <2>. DEFINE n == Cardinality(below(i)) + 1
  <2>1. n \in 1 .. Cardinality(S) /\ n - 1 = rank[i]
    BY <1>1, <1>3
  <2>2. \A x \in S : rank[x] = Cardinality({j \in S : j < x})
    BY DEF below
  <2>. HIDE DEF n, rank
  <2>3. \A x \in S : rank[x] = n - 1 => x = i
    BY <1>5, <2>1 DEF Injection, IsInjective
  <2>4. Ascending[S][n] = CHOOSE x \in S : Cardinality({j \in S : j < x}) = n - 1
    BY <1>7, <2>1
  <2>5. Ascending[S][n] = i
    BY <2>1, <2>2, <2>3, <2>4
  <2>. QED  BY <2>1, <2>5
<1>. QED  BY <1>1, <1>7, <1>8, <1>9
-----------------------------------------------------------------------------
\* A position is of the sequence, or just behind it.
LEMMA PositionIsThere ==
  ASSUME NEW seq, NEW x, NEW n \in Nat, Len(seq) = n, DOMAIN seq = 1 .. n
  PROVE  PositionIn(seq, x) \in 1 .. n + 1
<1>. DEFINE places == {k \in DOMAIN seq : seq[k] = x} \cup {Len(seq) + 1}
<1>1. places \in SUBSET Nat /\ places \in SUBSET (1 .. n + 1) /\ places # {}
  OBVIOUS
<1>. HIDE DEF places
<1>2. Min(places) \in 1 .. n + 1
  BY <1>1, MinIsThere
<1>. USE DEF places
<1>. QED  BY <1>2 DEF PositionIn

\* What the catalog is sorted by are numbers, and finitely many.
LEMMA KeysAreNumbers ==
  ASSUME NEW doc, IsDocument(doc)
  PROVE  LET keys == {SortKey(doc, o) : o \in Operations(doc)} IN
         keys \in SUBSET Nat /\ IsFiniteSet(keys)
<1>. DEFINE L == Len(doc.paths)
            bound == (5 * (L + 1) + L) * 8 + 8
<1>1. L \in Nat /\ DOMAIN doc.paths = 1 .. L
  BY DEF IsDocument
<1>2. Len(TagOrder) = 4 /\ DOMAIN TagOrder = 1 .. 4
  BY DEF TagOrder
<1>3. Len(MethodOrder) = 7 /\ DOMAIN MethodOrder = 1 .. 7
  BY DEF MethodOrder
<1>4. ASSUME NEW o \in Operations(doc)
      PROVE  SortKey(doc, o) \in Nat /\ SortKey(doc, o) <= bound
  <2>. DEFINE tag == PositionIn(TagOrder, FirstTag(doc.paths[o[1]].ops[o[2]]))
              method == PositionIn(MethodOrder, o[2])
  <2>1. tag \in 1 .. 4 + 1
    BY <1>2, PositionIsThere
  <2>2. method \in 1 .. 7 + 1
    BY <1>3, PositionIsThere
  <2>3. o[1] \in 1 .. L
    BY <1>1 DEF Operations
  <2>4. SortKey(doc, o) = (tag * (L + 1) + o[1]) * 8 + method
    BY <1>3 DEF SortKey
  <2>. HIDE DEF tag, method, L
  <2>5. tag = 1 \/ tag = 2 \/ tag = 3 \/ tag = 4 \/ tag = 5
    BY <2>1
  <2>6. tag * (L + 1) \in Nat /\ tag * (L + 1) <= 5 * (L + 1)
    BY <1>1, <2>5
  <2>7. PICK q \in Nat : q = tag * (L + 1)
    BY <2>6
  <2>. QED  BY <1>1, <2>2, <2>3, <2>4, <2>6, <2>7
<1>5. bound \in Nat
  BY <1>1
<1>. QED  BY <1>4, <1>5, FS_BoundedSetOfNaturals

\* What is in the catalog is an operation of the document.
LEMMA CatalogIsOfDocument ==
  ASSUME NEW doc, IsDocument(doc)
  PROVE  /\ Len(CatalogOf(doc)) \in Nat
         /\ DOMAIN CatalogOf(doc) = 1 .. Len(CatalogOf(doc))
         /\ \A n \in DOMAIN CatalogOf(doc) :
              \E o \in Operations(doc) : CatalogOf(doc)[n] = Endpoint(doc, o)
<1>. DEFINE numbers == {SortKey(doc, o) : o \in Operations(doc)}
            keys == Ascending[numbers]
            with == [key \in Nat |-> [o \in Operations(doc) |-> Endpoint(doc, o)]
                                      [CHOOSE o \in Operations(doc) : SortKey(doc, o) = key]]
<1>1. numbers \in SUBSET Nat /\ IsFiniteSet(numbers)
  BY KeysAreNumbers
<1>2. CatalogOf(doc) = [n \in DOMAIN keys |-> with[keys[n]]]
  BY DEF CatalogOf
<1>3. /\ Cardinality(numbers) \in Nat /\ DOMAIN keys = 1 .. Cardinality(numbers)
      /\ \A n \in 1 .. Cardinality(numbers) : keys[n] \in numbers
  BY <1>1, AscendingIsThere
<1>4. DOMAIN CatalogOf(doc) = 1 .. Cardinality(numbers)
  BY <1>2, <1>3
<1>5. Len(CatalogOf(doc)) = Cardinality(numbers)
  BY <1>3, <1>4
<1>6. ASSUME NEW n \in DOMAIN CatalogOf(doc)
      PROVE  \E o \in Operations(doc) : CatalogOf(doc)[n] = Endpoint(doc, o)
  <2>1. keys[n] \in numbers /\ keys[n] \in Nat /\ n \in DOMAIN keys
    BY <1>1, <1>3, <1>4
  <2>2. PICK o \in Operations(doc) :
          o = CHOOSE p \in Operations(doc) : SortKey(doc, p) = keys[n]
    BY <2>1
  <2>3. with[keys[n]] = Endpoint(doc, o)
    BY <2>1, <2>2
  <2>. QED  BY <1>2, <2>1, <2>3
<1>. QED  BY <1>3, <1>4, <1>5, <1>6

\* What the catalog says of an operation, and that the document is well formed
\* there.
LEMMA EndpointIsOfDocument ==
  ASSUME NEW doc, IsDocument(doc), NEW o \in Operations(doc)
  PROVE  LET item == doc.paths[o[1]]
             op == item.ops[o[2]]
             ep == Endpoint(doc, o)
         IN  /\ item \in IdsIn(doc.paths) /\ o[2] \in DOMAIN item.ops /\ o[2] \in Methods
             /\ item.path \in Seq(Segments) /\ item.params \in Seq(IdsIn(item.params))
             /\ op.params \in Seq(IdsIn(op.params))
             /\ ep.method = o[2] /\ ep.path = item.path /\ ep.auth = RequiresAuth(doc, op)
             /\ ep.params = CollectParams(doc, item.params \o op.params)
             /\ ep.body = RequestBody(doc, op.body)
<1>. DEFINE item == doc.paths[o[1]]
            op == item.ops[o[2]]
<1>1. o[1] \in DOMAIN doc.paths /\ o[2] \in DOMAIN item.ops
  BY DEF Operations
<1>2. item \in IdsIn(doc.paths)
  BY <1>1 DEF IdsIn
<1>. HIDE DEF item
<1>3. /\ item.path \in Seq(Segments) /\ item.params \in Seq(IdsIn(item.params))
      /\ DOMAIN item.ops \subseteq Methods
      /\ \A method \in DOMAIN item.ops :
           /\ item.ops[method].params \in Seq(IdsIn(item.ops[method].params))
  BY <1>2 DEF IsDocument
<1>. QED  BY <1>1, <1>2, <1>3 DEF Endpoint, item

\* No two operations have the same number.
LEMMA KeysTellApart ==
  ASSUME NEW doc, IsDocument(doc), NEW o \in Operations(doc), NEW p \in Operations(doc),
         SortKey(doc, o) = SortKey(doc, p)
  PROVE  o = p
<1>. DEFINE L == Len(doc.paths)
            tag(x) == PositionIn(TagOrder, FirstTag(doc.paths[x[1]].ops[x[2]]))
            method(x) == PositionIn(MethodOrder, x[2])
<1>1. L \in Nat /\ DOMAIN doc.paths = 1 .. L
  BY DEF IsDocument
<1>2. Len(TagOrder) = 4 /\ DOMAIN TagOrder = 1 .. 4
  BY DEF TagOrder
<1>3. Len(MethodOrder) = 7 /\ DOMAIN MethodOrder = 1 .. 7
  BY DEF MethodOrder
<1>4. ASSUME NEW x \in Operations(doc)
      PROVE  /\ x = <<x[1], x[2]>> /\ x[1] \in 1 .. L /\ x[2] \in Methods
             /\ tag(x) \in 1 .. 5 /\ method(x) \in 1 .. 7 /\ x[2] = MethodOrder[method(x)]
             /\ SortKey(doc, x) = (tag(x) * (L + 1) + x[1]) * 8 + method(x)
  <2>1. x = <<x[1], x[2]>> /\ x[1] \in 1 .. L
    BY <1>1 DEF Operations
  <2>2. x[2] \in Methods
    BY EndpointIsOfDocument
  <2>3. tag(x) \in 1 .. 4 + 1
    BY <1>2, PositionIsThere
  <2>. DEFINE places == {k \in DOMAIN MethodOrder : MethodOrder[k] = x[2]}
              all == places \cup {Len(MethodOrder) + 1}
  <2>4. PICK k \in places : TRUE
    BY <2>2 DEF Methods, IdsIn
  <2>5. k \in 1 .. 7 /\ k \in all /\ all \in SUBSET Nat
    BY <1>3, <2>4
  <2>6. Min(all) \in all /\ Min(all) <= k
    <3>. HIDE DEF all
    <3>. QED  BY <2>5, MinIsThere
  <2>7. Min(all) \in places
    BY <1>3, <2>5, <2>6
  <2>8. method(x) \in places
    BY <2>7 DEF PositionIn
  <2>9. SortKey(doc, x) = (tag(x) * (L + 1) + x[1]) * 8 + method(x)
    BY <1>3 DEF SortKey
  <2>10. method(x) \in 1 .. 7 /\ MethodOrder[method(x)] = x[2]
    BY <1>3, <2>8
  <2>. QED  BY <2>1, <2>2, <2>3, <2>9, <2>10
<1>. HIDE DEF L, tag, method
<1>5. /\ (tag(o) * (L + 1) + o[1]) * 8 + method(o) = (tag(p) * (L + 1) + p[1]) * 8 + method(p)
      /\ tag(o) \in 1 .. 5 /\ tag(p) \in 1 .. 5 /\ o[1] \in 1 .. L /\ p[1] \in 1 .. L
      /\ method(o) \in 1 .. 7 /\ method(p) \in 1 .. 7
  BY <1>4
<1>6. o[1] = p[1] /\ method(o) = method(p)
  <2>1. PICK s \in 1 .. 5, t \in 1 .. 5, a \in 1 .. L, b \in 1 .. L, m \in 1 .. 7, k \in 1 .. 7 :
               /\ s = tag(o) /\ a = o[1] /\ m = method(o)
               /\ t = tag(p) /\ b = p[1] /\ k = method(p)
               /\ (s * (L + 1) + a) * 8 + m = (t * (L + 1) + b) * 8 + k
    BY <1>5
  <2>2. s * (L + 1) \in Nat /\ t * (L + 1) \in Nat
    BY <1>1
  <2>3. PICK q \in Nat, r \in Nat : q = s * (L + 1) /\ r = t * (L + 1)
    BY <2>2
  <2>4. (q + a) * 8 + m = (r + b) * 8 + k
    BY <2>1, <2>3
  <2>5. q + a = r + b /\ m = k
    BY <1>1, <2>4
  <2>6. q = r \/ q >= r + (L + 1) \/ r >= q + (L + 1)
    <3>1. s = 1 \/ s = 2 \/ s = 3 \/ s = 4 \/ s = 5
      OBVIOUS
    <3>2. t = 1 \/ t = 2 \/ t = 3 \/ t = 4 \/ t = 5
      OBVIOUS
    <3>. QED  BY <1>1, <2>3, <3>1, <3>2
  <2>7. a = b
    BY <1>1, <2>5, <2>6
  <2>. QED  BY <2>1, <2>5, <2>7
<1>. QED  BY <1>4, <1>6

\* catalogFromDoc loses nothing and makes nothing up: every operation of the document
\* is in the catalog, which has as many entries as the document has operations.
THEOREM CatalogIsComplete ==
  ASSUME NEW doc, IsDocument(doc)
  PROVE  /\ \A o \in Operations(doc) :
              \E n \in DOMAIN CatalogOf(doc) : CatalogOf(doc)[n] = Endpoint(doc, o)
         /\ Len(CatalogOf(doc)) = Cardinality(Operations(doc))
<1>. DEFINE ops == Operations(doc)
            numbers == {SortKey(doc, o) : o \in ops}
            keys == Ascending[numbers]
            with == [key \in Nat |-> [o \in ops |-> Endpoint(doc, o)]
                                      [CHOOSE o \in ops : SortKey(doc, o) = key]]
            number == [o \in ops |-> SortKey(doc, o)]
<1>1. numbers \in SUBSET Nat /\ IsFiniteSet(numbers)
  BY KeysAreNumbers
<1>2. CatalogOf(doc) = [n \in DOMAIN keys |-> with[keys[n]]]
  BY DEF CatalogOf
<1>3. /\ Cardinality(numbers) \in Nat /\ DOMAIN keys = 1 .. Cardinality(numbers)
      /\ \A i \in numbers : \E n \in 1 .. Cardinality(numbers) : keys[n] = i
  BY <1>1, AscendingIsThere
<1>4. ASSUME NEW o \in ops
      PROVE  \E n \in DOMAIN CatalogOf(doc) : CatalogOf(doc)[n] = Endpoint(doc, o)
  <2>1. PICK n \in DOMAIN keys : keys[n] = SortKey(doc, o)
    BY <1>3
  <2>2. (CHOOSE x \in ops : SortKey(doc, x) = keys[n]) = o
    BY <2>1, KeysTellApart
  <2>3. keys[n] \in Nat
    BY <1>1, <2>1
  <2>4. with[keys[n]] = Endpoint(doc, o)
    BY <2>2, <2>3
  <2>. QED  BY <1>2, <2>1, <2>4
<1>5. number \in Bijection(ops, numbers)
  <2>1. number \in Injection(ops, numbers)
    BY KeysTellApart DEF Injection, IsInjective
  <2>2. number \in Surjection(ops, numbers)
    BY DEF Surjection
  <2>. QED  BY <2>1, <2>2 DEF Bijection
<1>6. Cardinality(ops) = Cardinality(numbers)
  <2>1. ExistsBijection(numbers, ops)
    BY <1>5, Fun_ExistsBijSymmetric DEF ExistsBijection
  <2>. QED  BY <1>1, <2>1, FS_Bijection
<1>7. Len(CatalogOf(doc)) = Cardinality(numbers)
  BY <1>2, <1>3
<1>. QED  BY <1>4, <1>6, <1>7

\* What passes the filter is of the catalog.
LEMMA ListedIsOfDocument ==
  ASSUME NEW doc, IsDocument(doc), NEW tag, NEW search,
         NEW n \in DOMAIN Filter(CatalogOf(doc), tag, search)
  PROVE  \E o \in Operations(doc) :
            Filter(CatalogOf(doc), tag, search)[n] = Endpoint(doc, o)
<1>. DEFINE ops == CatalogOf(doc)
            passing == {i \in DOMAIN ops : Matches(ops[i], tag, search)}
            kept == Ascending[passing]
<1>1. /\ Len(ops) \in Nat /\ DOMAIN ops = 1 .. Len(ops)
      /\ \A i \in DOMAIN ops : \E o \in Operations(doc) : ops[i] = Endpoint(doc, o)
  BY CatalogIsOfDocument
<1>. HIDE DEF ops
<1>2. IsFiniteSet(1 .. Len(ops))
  <2>1. 1 \in Int /\ Len(ops) \in Int
    BY <1>1
  <2>. QED  BY <2>1, FS_Interval
<1>3. passing \in SUBSET (1 .. Len(ops)) /\ passing \in SUBSET Nat
  BY <1>1
<1>4. IsFiniteSet(passing)
  BY <1>2, <1>3, FS_Subset
<1>5. /\ DOMAIN kept = 1 .. Cardinality(passing)
      /\ \A k \in 1 .. Cardinality(passing) : kept[k] \in passing
  BY <1>3, <1>4, AscendingIsThere
<1>6. Filter(ops, tag, search) = [k \in DOMAIN kept |-> ops[kept[k]]]
  BY DEF Filter
<1>7. n \in DOMAIN kept
  BY <1>6 DEF ops
<1>8. kept[n] \in DOMAIN ops /\ Filter(ops, tag, search)[n] = ops[kept[n]]
  BY <1>5, <1>6, <1>7
<1>9. \E o \in Operations(doc) : Filter(ops, tag, search)[n] = Endpoint(doc, o)
  BY <1>1, <1>8
<1>. QED  BY <1>9 DEF ops

\* The operation a reference means is of the catalog; a reference METHOD PATH
\* means one of this method, with this path or a template that it matches.
LEMMA FoundIsOfCatalog ==
  ASSUME NEW ops, NEW N \in Nat, DOMAIN ops = 1 .. N, NEW ref, Lookup(ops, ref).ok
  PROVE  /\ \E i \in DOMAIN ops : Lookup(ops, ref).op = ops[i]
         /\ ref.by = "path" =>
              LET found == Lookup(ops, ref) IN
              /\ found.op.method = ref.method
              /\ \/ found.op.path = ref.path /\ found.params = NoParams
                 \/ /\ MatchesTemplate(found.op.path, ref.path)
                    /\ found.params = Extracted(found.op.path, ref.path)
<1>1. CASE ref.by = "path"
  <2>. DEFINE same == {i \in DOMAIN ops : ops[i].method = ref.method}
              exact == {i \in same : ops[i].path = ref.path}
              templated == {i \in same : MatchesTemplate(ops[i].path, ref.path)}
              those == IF exact # {} THEN exact ELSE templated
              op == ops[Min(those)]
  <2>1. Lookup(ops, ref) =
          IF ref.method \notin Methods \/ (exact = {} /\ Cardinality(templated) # 1)
            THEN NotFound
            ELSE Found(op, IF exact # {} THEN NoParams ELSE Extracted(op.path, ref.path))
    BY <1>1 DEF Lookup, LookupMethodPath
  <2>. HIDE DEF exact, templated
  <2>2. /\ exact # {} \/ Cardinality(templated) = 1
        /\ Lookup(ops, ref) =
             Found(op, IF exact # {} THEN NoParams ELSE Extracted(op.path, ref.path))
    BY <2>1 DEF NotFound
  <2>3. those # {}
    <3>1. Cardinality({}) = 0
      BY FS_EmptySet
    <3>2. templated = {} => Cardinality(templated) # 1
      BY <3>1
    <3>. QED  BY <2>2, <3>2
  <2>4. those \in SUBSET Nat /\ those \in SUBSET DOMAIN ops
    BY DEF exact, templated
  <2>. HIDE DEF those
  <2>5. Min(those) \in those
    BY <2>3, <2>4, MinIsThere
  <2>. HIDE DEF op
  <2>6. /\ Lookup(ops, ref).op = op
        /\ Lookup(ops, ref).params =
             IF exact # {} THEN NoParams ELSE Extracted(op.path, ref.path)
    BY <2>2 DEF Found
  <2>7. CASE exact # {}
    <3>1. op = ops[Min(those)] /\ Min(those) \in exact
      BY <2>5, <2>7 DEF op, those
    <3>. QED  BY <2>6, <2>7, <3>1 DEF exact
  <2>8. CASE exact = {}
    <3>1. op = ops[Min(those)] /\ Min(those) \in templated
      BY <2>5, <2>8 DEF op, those
    <3>. QED  BY <2>6, <2>8, <3>1 DEF templated
  <2>. QED  BY <2>7, <2>8
<1>2. CASE ref.by # "path"
  <2>. DEFINE those == {i \in DOMAIN ops : ops[i].opID = ref.id}
  <2>1. Lookup(ops, ref) =
          IF Cardinality(those) = 1 THEN Found(ops[Min(those)], NoParams) ELSE NotFound
    BY <1>2 DEF Lookup, LookupOperationID
  <2>2. those \in SUBSET Nat /\ those \in SUBSET DOMAIN ops
    OBVIOUS
  <2>. HIDE DEF those
  <2>3. Cardinality(those) = 1 /\ Lookup(ops, ref) = Found(ops[Min(those)], NoParams)
    BY <2>1 DEF NotFound
  <2>4. those # {}
    BY <2>3, FS_EmptySet
  <2>5. Min(those) \in DOMAIN ops
    BY <2>2, <2>4, MinIsThere
  <2>. QED  BY <1>2, <2>3, <2>5 DEF Found
<1>. QED  BY <1>1, <1>2

\* What a list of parameters has of those the path (A) and the operation (B) declare.
CollectedOnce(listing, A, B) ==
  LET params == IdsIn(listing)
      declared == IdsIn(A)
      own == IdsIn(B)
      places(ps) == {<<p.in, p.name>> : p \in ps}
  IN  /\ places(params) = places(declared \cup own)
      /\ Len(listing) = Cardinality(places(params))
      /\ \A p \in params :
           \E d \in declared \cup own :
             /\ <<d.in, d.name>> = <<p.in, p.name>>
             /\ d \in declared \/ <<d.in, d.name>> \notin places(declared)
             /\ p.required = (d.required \/ d.in = "path")

\* Of parameters that are declared twice the first counts, and each place is taken
\* once.
LEMMA ParametersCollected ==
  ASSUME NEW doc, NEW A, NEW B, A \in Seq(IdsIn(A)), B \in Seq(IdsIn(B))
  PROVE  CollectedOnce(CollectParams(doc, A \o B), A, B)
<1>. DEFINE all == A \o B
            n == Len(A) + Len(B)
            kept == Ascending[Seen(all)]
            params == IdsIn(CollectParams(doc, all))
            places(ps) == {<<p.in, p.name>> : p \in ps}
            place(p) == <<p.in, p.name>>
            param(i) == [in |-> all[i].in, name |-> all[i].name,
                         required |-> all[i].required \/ all[i].in = "path",
                         schema |-> ViewOf(doc.schemas, all[i].schema),
                         example |-> First(<<all[i].example, ExampleFromMap(all[i].examples),
                                             SchemaExample(doc, all[i].schema)>>)]
<1>1. /\ Len(A) \in Nat /\ DOMAIN A = 1 .. Len(A) /\ Len(B) \in Nat /\ DOMAIN B = 1 .. Len(B)
      /\ DOMAIN all = 1 .. n /\ n \in Nat
      /\ \A i \in 1 .. n : all[i] = IF i <= Len(A) THEN A[i] ELSE B[i - Len(A)]
  OBVIOUS
<1>2. \A d \in IdsIn(A) \cup IdsIn(B) : \E i \in 1 .. n : all[i] = d
  <2>1. ASSUME NEW i \in DOMAIN A PROVE i \in 1 .. n /\ all[i] = A[i]
    BY <1>1
  <2>2. ASSUME NEW i \in DOMAIN B PROVE Len(A) + i \in 1 .. n /\ all[Len(A) + i] = B[i]
    BY <1>1
  <2>. QED  BY <2>1, <2>2 DEF IdsIn
<1>3. ASSUME NEW i \in 1 .. n
      PROVE  /\ all[i] \in IdsIn(A) \cup IdsIn(B)
             /\ i <= Len(A) => all[i] \in IdsIn(A)
  BY <1>1 DEF IdsIn
<1>5. Seen(all) = {i \in 1 .. n : \A k \in 1 .. i - 1 : place(all[k]) # place(all[i])}
  BY <1>1 DEF Seen
<1>10. Seen(all) \in SUBSET Nat /\ IsFiniteSet(Seen(all))
  <2>1. 1 \in Int /\ n \in Int
    BY <1>1
  <2>2. Seen(all) \in SUBSET (1 .. n)
    BY <1>5
  <2>3. IsFiniteSet(1 .. n)
    BY <2>1, FS_Interval
  <2>4. Seen(all) \in SUBSET Nat
    BY <1>1, <2>2
  <2>. HIDE DEF place
  <2>. QED  BY <2>2, <2>3, <2>4, FS_Subset
<1>11. /\ Cardinality(Seen(all)) \in Nat /\ DOMAIN kept = 1 .. Cardinality(Seen(all))
       /\ \A k \in 1 .. Cardinality(Seen(all)) : kept[k] \in Seen(all)
       /\ \A i \in Seen(all) : \E k \in 1 .. Cardinality(Seen(all)) : kept[k] = i
  BY <1>10, AscendingIsThere
<1>12. CollectParams(doc, all) = [k \in DOMAIN kept |-> param(kept[k])]
  BY DEF CollectParams
<1>4. params = {param(i) : i \in Seen(all)}
  <2>. DEFINE C == CollectParams(doc, all)
  <2>1. params = {C[k] : k \in DOMAIN C}
    BY DEF IdsIn
  <2>2. DOMAIN C = DOMAIN kept /\ \A k \in DOMAIN kept : C[k] = param(kept[k])
    BY <1>12
  <2>. HIDE DEF kept, param, all, C, params
  <2>3. ASSUME NEW i \in Seen(all) PROVE param(i) \in params
    <3>1. PICK k \in DOMAIN kept : kept[k] = i
      BY <1>11
    <3>2. C[k] = param(i) /\ k \in DOMAIN C
      BY <2>2, <3>1
    <3>. QED  BY <2>1, <3>2
  <2>4. ASSUME NEW p \in params PROVE \E i \in Seen(all) : p = param(i)
    <3>1. PICK k \in DOMAIN kept : p = param(kept[k])
      BY <2>1, <2>2
    <3>. QED  BY <1>11, <3>1
  <2>. QED  BY <2>3, <2>4
<1>13. Len(CollectParams(doc, all)) = Cardinality(Seen(all))
  <2>. HIDE DEF kept, param, all
  <2>. QED  BY <1>11, <1>12
<1>6. \A d \in IdsIn(A) : \E k \in 1 .. Len(A) : all[k] = d
  BY <1>1 DEF IdsIn
<1>. HIDE DEF all, n
<1>7. places(params) = places(IdsIn(A) \cup IdsIn(B))
  <2>1. ASSUME NEW i \in Seen(all) PROVE place(param(i)) \in places(IdsIn(A) \cup IdsIn(B))
    <3>1. place(param(i)) = place(all[i]) /\ all[i] \in IdsIn(A) \cup IdsIn(B)
      BY <1>3, <1>5
    <3>. QED  BY <3>1
  <2>2. ASSUME NEW d \in IdsIn(A) \cup IdsIn(B) PROVE place(d) \in places(params)
    <3>. DEFINE same == {i \in 1 .. n : place(all[i]) = place(d)}
    <3>1. same # {} /\ same \in SUBSET Nat
      BY <1>2
    <3>. HIDE DEF same
    <3>2. PICK i \in same : \A k \in same : i <= k
      BY <3>1, MinIsThere
    <3>. USE DEF same
    <3>3. i \in Seen(all)
      <4>1. ASSUME NEW k \in 1 .. i - 1, place(all[k]) = place(all[i]) PROVE FALSE
        <5>1. k \in 1 .. n /\ k < i
          BY <1>1
        <5>2. k \in same
          BY <4>1, <5>1
        <5>. QED  BY <3>2, <5>1, <5>2
      <4>. QED  BY <1>5, <4>1
    <3>4. param(i) \in params /\ place(param(i)) = place(d)
      BY <1>4, <3>3
    <3>. QED  BY <3>4
  <2>3. places(params) = {place(param(i)) : i \in Seen(all)}
    BY <1>4
  <2>. QED  BY <2>1, <2>2, <2>3
<1>8. Cardinality(Seen(all)) = Cardinality(places(params))
  <2>. DEFINE where == [i \in Seen(all) |-> place(all[i])]
  <2>1. places(params) = {place(all[i]) : i \in Seen(all)}
    <3>1. \A i : place(param(i)) = place(all[i])
      OBVIOUS
    <3>2. places(params) = {place(param(i)) : i \in Seen(all)}
      BY <1>4
    <3>. HIDE DEF param, params, place
    <3>. QED  BY <3>1, <3>2
  <2>2. ASSUME NEW i \in Seen(all), NEW j \in Seen(all), place(all[i]) = place(all[j])
        PROVE  i = j
    <3>1. i \in 1 .. n /\ j \in 1 .. n
      BY <1>5
    <3>2. ASSUME i < j PROVE FALSE
      <4>1. i \in 1 .. j - 1
        BY <1>1, <3>1, <3>2
      <4>. QED  BY <1>5, <2>2, <4>1
    <3>3. ASSUME j < i PROVE FALSE
      <4>1. j \in 1 .. i - 1
        BY <1>1, <3>1, <3>3
      <4>. QED  BY <1>5, <2>2, <4>1
    <3>. QED  BY <1>1, <3>1, <3>2, <3>3
  <2>. HIDE DEF params
  <2>3. where \in Bijection(Seen(all), places(params))
    <3>1. where \in Injection(Seen(all), places(params))
      BY <2>1, <2>2 DEF Injection, IsInjective
    <3>2. where \in Surjection(Seen(all), places(params))
      BY <2>1 DEF Surjection
    <3>. QED  BY <3>1, <3>2 DEF Bijection
  <2>4. ExistsBijection(Seen(all), places(params))
    BY <2>3 DEF ExistsBijection
  <2>. QED  BY <1>10, <2>4, FS_Bijection
<1>9. ASSUME NEW p \in params
      PROVE  \E d \in IdsIn(A) \cup IdsIn(B) :
               /\ <<d.in, d.name>> = <<p.in, p.name>>
               /\ d \in IdsIn(A) \/ <<d.in, d.name>> \notin places(IdsIn(A))
               /\ p.required = (d.required \/ d.in = "path")
  <2>1. PICK i \in Seen(all) : p = param(i)
    BY <1>4
  <2>2. i \in 1 .. n /\ all[i] \in IdsIn(A) \cup IdsIn(B)
    BY <1>3, <1>5
  <2>3. /\ <<all[i].in, all[i].name>> = <<p.in, p.name>>
        /\ p.required = (all[i].required \/ all[i].in = "path")
    BY <2>1
  <2>4. ASSUME all[i] \notin IdsIn(A), place(all[i]) \in places(IdsIn(A)) PROVE FALSE
    <3>1. PICK d \in IdsIn(A) : place(d) = place(all[i])
      BY <2>4
    <3>2. PICK k \in 1 .. Len(A) : all[k] = d
      BY <1>6
    <3>3. k \in 1 .. i - 1
      BY <1>1, <1>3, <2>2, <2>4
    <3>. QED  BY <1>5, <3>1, <3>2, <3>3
  <2>. QED  BY <2>2, <2>3, <2>4
<1>. QED  BY <1>7, <1>8, <1>9, <1>13 DEF all, CollectedOnce
-----------------------------------------------------------------------------
\* The schema that is shown: the merged one, where there are parts.
Shown(schemas, id) ==
  IF schemas[id].allOf = <<>> THEN schemas[id] ELSE MergeAllOf(schemas, schemas[id])

\* A merged property is the schema's own or one of a part.
LEMMA MergedFrom ==
  ASSUME NEW schemas, NEW s, s.allOf \in Seq(DOMAIN schemas), NEW n \in DOMAIN MergedProps(schemas, s)
  PROVE  \/ n \in DOMAIN s.props /\ MergedProps(schemas, s)[n] = s.props[n]
         \/ \E p \in IdsIn(s.allOf) : /\ n \in DOMAIN schemas[p].props
                                      /\ MergedProps(schemas, s)[n] = schemas[p].props[n]
<1>. DEFINE having == {i \in DOMAIN s.allOf : n \in DOMAIN schemas[s.allOf[i]].props}
            names == DOMAIN s.props \cup UNION {DOMAIN schemas[p].props : p \in IdsIn(s.allOf)}
<1>1. /\ n \in names
      /\ MergedProps(schemas, s)[n] =
           IF having = {} THEN s.props[n] ELSE schemas[s.allOf[Max(having)]].props[n]
  BY DEF MergedProps
<1>2. Len(s.allOf) \in Nat /\ DOMAIN s.allOf = 1 .. Len(s.allOf)
  OBVIOUS
<1>3. having \in SUBSET (0 .. Len(s.allOf))
  BY <1>2
<1>4. CASE having = {}
  <2>1. \A p \in IdsIn(s.allOf) : n \notin DOMAIN schemas[p].props
    BY <1>4 DEF IdsIn
  <2>. QED  BY <1>1, <1>4, <2>1
<1>5. CASE having # {}
  <2>. HIDE DEF having
  <2>1. Max(having) \in having
    BY <1>2, <1>3, <1>5, MaxIsThere
  <2>. USE DEF having
  <2>2. s.allOf[Max(having)] \in IdsIn(s.allOf)
    BY <2>1 DEF IdsIn
  <2>. QED  BY <1>1, <1>5, <2>1, <2>2
<1>. QED  BY <1>4, <1>5

\* What is shown refers to schemas of the document.
LEMMA ShownRefers ==
  ASSUME NEW schemas, IsSchemas(schemas), NEW id \in DOMAIN schemas
  PROVE  LET s == Shown(schemas, id) IN
         /\ \A n \in DOMAIN s.props : s.props[n] \in DOMAIN schemas
         /\ \A i \in DOMAIN s.items : s.items[i] \in DOMAIN schemas
<1>. DEFINE s == schemas[id]
<1>1. \A j \in DOMAIN schemas :
        /\ schemas[j].items = Missing \/ \E i \in DOMAIN schemas : schemas[j].items = <<i>>
        /\ schemas[j].allOf \in Seq(DOMAIN schemas)
        /\ \A p \in DOMAIN schemas[j].props : schemas[j].props[p] \in DOMAIN schemas
  BY DEF IsSchemas
<1>2. CASE s.allOf = <<>>
  BY <1>1, <1>2 DEF Shown, Missing
<1>3. CASE s.allOf # <<>>
  <2>1. /\ Shown(schemas, id).props = MergedProps(schemas, s)
        /\ Shown(schemas, id).items = <<>>
    BY <1>3 DEF Shown, MergeAllOf, Missing
  <2>2. IdsIn(s.allOf) \subseteq DOMAIN schemas
    BY <1>1 DEF IdsIn
  <2>3. ASSUME NEW n \in DOMAIN MergedProps(schemas, s)
        PROVE  MergedProps(schemas, s)[n] \in DOMAIN schemas
    BY <1>1, <2>2, MergedFrom
  <2>. QED  BY <2>1, <2>3
<1>. QED  BY <1>2, <1>3

\* A view depends on the views one schema further inside, and on no others.
LEMMA ViewDepends ==
  ASSUME NEW schemas, IsSchemas(schemas), NEW id \in DOMAIN schemas, NEW w, NEW f, NEW g,
         \A c \in DOMAIN schemas : f[<<c, w \cup {id}>>] = g[<<c, w \cup {id}>>]
  PROVE  ViewAt(schemas, f, id, w) = ViewAt(schemas, g, id, w)
<1>. DEFINE s == schemas[id]
            shown == Shown(schemas, id)
            inside == w \cup {id}
            props(v) == [n \in DOMAIN shown.props |-> v[<<shown.props[n], inside>>]]
            items(v) == [i \in DOMAIN shown.items |-> v[<<shown.items[i], inside>>]]
            view(v) == IF id \in w THEN Recursive
                       ELSE IF s.allOf = <<>> /\ s.oneOf # <<>> THEN v[<<s.oneOf[1], inside>>]
                       ELSE [type |-> TypeOf(shown), recursive |-> FALSE,
                             required |-> shown.required, enum |-> shown.enum,
                             props |-> props(v), items |-> items(v),
                             sample |-> Sample(shown, props(v), items(v))]
<1>1. ViewAt(schemas, f, id, w) = view(f) /\ ViewAt(schemas, g, id, w) = view(g)
  BY DEF ViewAt, Shown, Inside
<1>2. s.oneOf # <<>> => s.oneOf[1] \in DOMAIN schemas
  <2>1. s.oneOf \in Seq(DOMAIN schemas)
    BY DEF IsSchemas
  <2>. QED  BY <2>1
<1>3. /\ \A n \in DOMAIN shown.props : shown.props[n] \in DOMAIN schemas
      /\ \A i \in DOMAIN shown.items : shown.items[i] \in DOMAIN schemas
  BY ShownRefers
<1>. HIDE DEF s, shown
<1>4. props(f) = props(g) /\ items(f) = items(g)
  BY <1>3
<1>. HIDE DEF props, items
<1>5. view(f) = view(g)
  BY <1>2, <1>4
<1>. QED  BY <1>1, <1>5

\* viewFromSchema comes to an end, and views of all places are there, however the
\* schemas refer to one another: those where everything is being visited come first,
\* and one more schema that is not needs only these.
THEOREM ViewsExist ==
  ASSUME NEW schemas, IsSchemas(schemas),
         NEW id \in DOMAIN schemas, NEW w \in SUBSET DOMAIN schemas
  PROVE  ViewIn(schemas)[<<id, w>>] = ViewAt(schemas, ViewIn(schemas), id, w)
<1>. DEFINE ids == DOMAIN schemas
            P == ids \X (SUBSET ids)
            N == Cardinality(ids)
            left(p) == Cardinality(ids \ p[2])
            At(v, p) == ViewAt(schemas, v, p[1], p[2])
            good(v, n) == \A p \in P : left(p) <= n => v[p] = At(v, p)
            next(v) == [p \in P |-> At(v, p)]
            reached == {n \in 0 .. N : \E v : v = [p \in P |-> v[p]] /\ good(v, n)}
<1>1. IsFiniteSet(ids) /\ N \in Nat
  BY FS_CardinalityType DEF IsSchemas
<1>2. ASSUME NEW p \in P
      PROVE  p[1] \in ids /\ p[2] \in SUBSET ids /\ left(p) \in 0 .. N
  <2>1. p[1] \in ids /\ p[2] \in SUBSET ids
    OBVIOUS
  <2>2. (ids \ p[2]) \in SUBSET ids
    OBVIOUS
  <2>3. IsFiniteSet(ids \ p[2]) /\ left(p) <= N
    BY <1>1, <2>2, FS_Subset
  <2>4. left(p) \in Nat
    BY <2>3, FS_CardinalityType
  <2>. QED  BY <1>1, <2>1, <2>3, <2>4
<1>3. ASSUME NEW p \in P, p[1] \notin p[2], NEW c \in ids
      PROVE  <<c, p[2] \cup {p[1]}>> \in P /\ left(<<c, p[2] \cup {p[1]}>>) = left(p) - 1
  <2>1. IsFiniteSet(ids \ p[2]) /\ p[1] \in ids \ p[2]
    <3>1. (ids \ p[2]) \in SUBSET ids
      OBVIOUS
    <3>. QED  BY <1>1, <1>2, <1>3, <3>1, FS_Subset
  <2>2. ids \ (p[2] \cup {p[1]}) = (ids \ p[2]) \ {p[1]}
    OBVIOUS
  <2>3. Cardinality((ids \ p[2]) \ {p[1]}) = Cardinality(ids \ p[2]) - 1
    BY <2>1, FS_RemoveElement
  <2>4. <<c, p[2] \cup {p[1]}>> \in P
    BY <1>2
  <2>. QED  BY <2>2, <2>3, <2>4
<1>4. ASSUME NEW p \in P, p[1] \in p[2], NEW f, NEW g
      PROVE  At(f, p) = At(g, p)
  BY <1>4 DEF ViewAt
<1>5. ASSUME NEW p \in P, NEW f, NEW g,
             \A c \in ids : f[<<c, p[2] \cup {p[1]}>>] = g[<<c, p[2] \cup {p[1]}>>]
      PROVE  At(f, p) = At(g, p)
  BY <1>2, <1>5, ViewDepends
<1>. HIDE DEF P, left, At
<1>6. 0 \in reached
  <2>. DEFINE v == next([p \in P |-> p])
  <2>1. v = [p \in P |-> v[p]]
    OBVIOUS
  <2>2. ASSUME NEW p \in P, left(p) <= 0 PROVE v[p] = At(v, p)
    <3>1. p[1] \in p[2]
      <4>1. ASSUME p[1] \notin p[2] PROVE FALSE
        <5>1. /\ <<p[1], p[2] \cup {p[1]}>> \in P
              /\ left(<<p[1], p[2] \cup {p[1]}>>) = left(p) - 1
          BY <1>2, <1>3, <4>1
        <5>2. left(p) - 1 \in Nat /\ left(p) \in Nat
          BY <1>1, <1>2, <5>1
        <5>. QED  BY <2>2, <5>2
      <4>. QED  BY <4>1
    <3>. QED  BY <1>4, <3>1
  <2>. HIDE DEF v
  <2>. QED  BY <1>1, <2>1, <2>2
<1>7. ASSUME NEW n \in 0 .. N - 1, n \in reached PROVE n + 1 \in reached
  <2>1. PICK v : v = [p \in P |-> v[p]] /\ good(v, n)
    BY <1>7
  <2>. DEFINE u == next(v)
  <2>2. u = [p \in P |-> u[p]]
    OBVIOUS
  <2>3. \A p \in P : u[p] = At(v, p)
    OBVIOUS
  <2>. HIDE DEF u
  <2>4. ASSUME NEW p \in P, left(p) <= n + 1 PROVE u[p] = At(u, p)
    <3>1. CASE p[1] \in p[2]
      BY <1>4, <2>3, <3>1
    <3>2. CASE p[1] \notin p[2]
      <4>1. ASSUME NEW c \in ids
            PROVE  v[<<c, p[2] \cup {p[1]}>>] = u[<<c, p[2] \cup {p[1]}>>]
        <5>. DEFINE q == <<c, p[2] \cup {p[1]}>>
        <5>1. q \in P /\ left(q) = left(p) - 1
          BY <1>3, <3>2
        <5>2. left(p) \in Nat /\ left(q) <= n
          BY <1>1, <1>2, <1>7, <2>4, <5>1
        <5>. HIDE DEF q
        <5>3. v[q] = At(v, q)
          BY <2>1, <5>1, <5>2
        <5>. QED  BY <2>3, <5>1, <5>3 DEF q
      <4>2. At(v, p) = At(u, p)
        BY <1>5, <4>1
      <4>. QED  BY <2>3, <4>2
    <3>. QED  BY <3>1, <3>2
  <2>5. n + 1 \in 0 .. N
    BY <1>1
  <2>. QED  BY <2>2, <2>4, <2>5
<1>8. N \in reached
  <2>1. 0 .. N \subseteq reached
    <3>. HIDE DEF reached
    <3>. QED  BY <1>1, <1>6, <1>7, Stepwise
  <2>. QED  BY <1>1, <2>1
<1>9. PICK v : v = [p \in P |-> v[p]] /\ good(v, N)
  BY <1>8
<1>10. \A p \in P : v[p] = At(v, p)
  BY <1>1, <1>2, <1>9
<1>11. v = [p \in P |-> At(v, p)]
  BY <1>9, <1>10
<1>12. ViewIn(schemas) = [p \in P |-> At(ViewIn(schemas), p)]
  <2>1. ViewIn(schemas) = CHOOSE view : view = [p \in P |-> At(view, p)]
    BY DEF ViewIn, P, At
  <2>. QED  BY <1>11, <2>1
<1>13. <<id, w>> \in P
  BY DEF P
<1>. QED  BY <1>12, <1>13 DEF At
-----------------------------------------------------------------------------
\* A schema refers to schemas of the document.
LEMMA ReferencesAreThere ==
  ASSUME NEW schemas, IsSchemas(schemas), NEW id \in DOMAIN schemas
  PROVE  References(schemas[id]) \subseteq DOMAIN schemas
<1>. DEFINE s == schemas[id]
<1>1. /\ s.items = Missing \/ \E i \in DOMAIN schemas : s.items = <<i>>
      /\ s.allOf \in Seq(DOMAIN schemas) /\ s.oneOf \in Seq(DOMAIN schemas)
      /\ \A p \in DOMAIN s.props : s.props[p] \in DOMAIN schemas
  BY DEF IsSchemas
<1>2. IdsIn(s.items) \subseteq DOMAIN schemas
  BY <1>1 DEF IdsIn, Missing
<1>3. IdsIn(s.allOf) \subseteq DOMAIN schemas /\ IdsIn(s.oneOf) \subseteq DOMAIN schemas
  BY <1>1 DEF IdsIn
<1>. QED  BY <1>1, <1>2, <1>3 DEF References

\* What is reached is closed under references, and the least such set.
LEMMA ReachedIsClosed ==
  ASSUME NEW schemas, IsSchemas(schemas), NEW A \in SUBSET DOMAIN schemas
  PROVE  /\ A \subseteq Reached(schemas, A) /\ Reached(schemas, A) \subseteq DOMAIN schemas
         /\ \A i \in Reached(schemas, A) : References(schemas[i]) \subseteq Reached(schemas, A)
         /\ \A B \in SUBSET Reached(schemas, A) : Reached(schemas, B) \subseteq Reached(schemas, A)
<1>. DEFINE R == Reached(schemas, A)
            closed(S) == \A j \in S : References(schemas[j]) \subseteq S
<1>1. R = {i \in DOMAIN schemas : \A S \in SUBSET DOMAIN schemas :
             A \subseteq S /\ closed(S) => i \in S}
  BY DEF Reached
<1>2. A \subseteq R /\ R \subseteq DOMAIN schemas
  BY <1>1
<1>3. ASSUME NEW i \in R, NEW c \in References(schemas[i]) PROVE c \in R
  <2>1. c \in DOMAIN schemas
    BY <1>2, <1>3, ReferencesAreThere
  <2>2. ASSUME NEW S \in SUBSET DOMAIN schemas, A \subseteq S, closed(S) PROVE c \in S
    <3>1. i \in S
      BY <1>1, <2>2
    <3>. QED  BY <1>3, <2>2, <3>1
  <2>. QED  BY <1>1, <2>1, <2>2
<1>4. ASSUME NEW B \in SUBSET R, NEW i \in Reached(schemas, B) PROVE i \in R
  <2>1. R \in SUBSET DOMAIN schemas /\ B \subseteq R /\ closed(R)
    BY <1>2, <1>3
  <2>. HIDE DEF R
  <2>. QED  BY <2>1 DEF Reached
<1>. QED  BY <1>2, <1>3, <1>4

\* A place is ahead of root if what is being visited there is not met again.
Ahead(schemas, root, id, w) ==
  /\ id \in Reached(schemas, {root}) /\ w \in SUBSET DOMAIN schemas
  /\ w \cap Reached(schemas, {id}) = {}

\* If root does not come back to itself, a step inside is ahead again.
LEMMA StillAhead ==
  ASSUME NEW schemas, IsSchemas(schemas), NEW root \in DOMAIN schemas, ~Cyclic(schemas, root),
         NEW id, NEW w, Ahead(schemas, root, id, w),
         NEW c \in Reached(schemas, References(schemas[id]))
  PROVE  Ahead(schemas, root, c, w \cup {id})
<1>. DEFINE all == Reached(schemas, {root})
            mine == Reached(schemas, {id})
            next == Reached(schemas, References(schemas[id]))
<1>1. /\ all \subseteq DOMAIN schemas /\ id \in all /\ id \in DOMAIN schemas
      /\ References(schemas[id]) \in SUBSET all
      /\ References(schemas[id]) \in SUBSET DOMAIN schemas
  <2>1. {root} \in SUBSET DOMAIN schemas
    OBVIOUS
  <2>. QED  BY <2>1, ReachedIsClosed DEF Ahead
<1>2. /\ id \in mine /\ References(schemas[id]) \in SUBSET mine
      /\ mine \subseteq all
  <2>1. {id} \in SUBSET DOMAIN schemas /\ {id} \in SUBSET all /\ {root} \in SUBSET DOMAIN schemas
    BY <1>1
  <2>2. {id} \subseteq mine /\ \A i \in mine : References(schemas[i]) \subseteq mine
    BY <2>1, ReachedIsClosed
  <2>3. mine \subseteq all
    BY <2>1, ReachedIsClosed
  <2>. QED  BY <2>2, <2>3
<1>3. next \subseteq mine /\ next \subseteq DOMAIN schemas
  <2>1. {id} \in SUBSET DOMAIN schemas
    BY <1>1
  <2>. QED  BY <1>1, <1>2, <2>1, ReachedIsClosed
<1>4. Reached(schemas, {c}) \subseteq next
  <2>1. {c} \in SUBSET next
    OBVIOUS
  <2>. QED  BY <1>1, <2>1, ReachedIsClosed
<1>5. id \notin next
  BY <1>1 DEF Cyclic
<1>6. c \in all /\ (w \cup {id}) \in SUBSET DOMAIN schemas
  BY <1>1, <1>2, <1>3 DEF Ahead
<1>7. w \cap mine = {}
  BY DEF Ahead
<1>8. (w \cup {id}) \cap Reached(schemas, {c}) = {}
  BY <1>3, <1>4, <1>5, <1>7
<1>. QED  BY <1>6, <1>8 DEF Ahead

\* Where a schema is composed or refers to, its own references and its parts' are
\* one step inside.
LEMMA InsideIsReached ==
  ASSUME NEW schemas, IsSchemas(schemas), NEW id \in DOMAIN schemas
  PROVE  LET next == Reached(schemas, References(schemas[id])) IN
         /\ References(schemas[id]) \subseteq next
         /\ \A p \in IdsIn(schemas[id].allOf) : References(schemas[p]) \subseteq next
         /\ \A n \in DOMAIN Shown(schemas, id).props : Shown(schemas, id).props[n] \in next
         /\ \A i \in DOMAIN Shown(schemas, id).items : Shown(schemas, id).items[i] \in next
<1>. DEFINE s == schemas[id]
            next == Reached(schemas, References(s))
<1>1. References(s) \in SUBSET DOMAIN schemas
  BY ReferencesAreThere
<1>2. References(s) \subseteq next /\ \A i \in next : References(schemas[i]) \subseteq next
  BY <1>1, ReachedIsClosed
<1>. HIDE DEF next
<1>3. IdsIn(s.allOf) \subseteq next
  BY <1>2 DEF References
<1>4. \A p \in DOMAIN schemas : \A n \in DOMAIN schemas[p].props :
        schemas[p].props[n] \in References(schemas[p])
  BY DEF References
<1>5. CASE s.allOf = <<>>
  <2>1. Shown(schemas, id) = s
    BY <1>5 DEF Shown
  <2>2. \A i \in DOMAIN s.items : s.items[i] \in References(s)
    BY DEF References, IdsIn
  <2>. QED  BY <1>2, <1>3, <1>4, <2>1, <2>2 DEF next
<1>6. CASE s.allOf # <<>>
  <2>1. Shown(schemas, id).props = MergedProps(schemas, s) /\ Shown(schemas, id).items = <<>>
    BY <1>6 DEF Shown, MergeAllOf, Missing
  <2>2. s.allOf \in Seq(DOMAIN schemas) /\ IdsIn(s.allOf) \subseteq DOMAIN schemas
    BY <1>1 DEF IsSchemas, References
  <2>3. ASSUME NEW n \in DOMAIN MergedProps(schemas, s)
        PROVE  MergedProps(schemas, s)[n] \in next
    BY <1>2, <1>3, <1>4, <2>2, MergedFrom
  <2>. QED  BY <1>2, <1>3, <2>1, <2>3 DEF next
<1>. QED  BY <1>5, <1>6
\* What is merged is of the document, and what is shown within a schema is one step
\* inside.
LEMMA ShowsAreInside ==
  ASSUME NEW schemas, IsSchemas(schemas), NEW id \in DOMAIN schemas
  PROVE  /\ Shows(schemas, id) \subseteq Reached(schemas, References(schemas[id]))
         /\ Shows(schemas, id) \subseteq DOMAIN schemas
<1>. DEFINE s == schemas[id]
            next == Reached(schemas, References(s))
<1>1. References(s) \in SUBSET DOMAIN schemas
  BY ReferencesAreThere
<1>2. next \subseteq DOMAIN schemas
  BY <1>1, ReachedIsClosed
<1>3. \A j \in Merged(schemas, id) : References(schemas[j]) \subseteq next
  BY InsideIsReached DEF Merged
<1>4. IdsIn(s.items) \subseteq next /\ IdsIn(s.oneOf) \subseteq next
  BY <1>3 DEF Merged, References
<1>5. ASSUME NEW j \in Merged(schemas, id), NEW p \in PropsOf(schemas, j)
      PROVE  schemas[j].props[p] \in next
  <2>1. schemas[j].props[p] \in References(schemas[j])
    BY DEF PropsOf, References
  <2>. HIDE DEF next
  <2>. QED  BY <1>3, <2>1
<1>. HIDE DEF next, s
<1>6. Shows(schemas, id) \subseteq next
  BY <1>4, <1>5 DEF Shows, s
<1>. QED  BY <1>2, <1>6 DEF next, s

\* What a view is made of is closed under what is shown.
LEMMA MadeIsClosed ==
  ASSUME NEW schemas, IsSchemas(schemas), NEW root \in DOMAIN schemas
  PROVE  /\ root \in Made(schemas, root)
         /\ \A i \in Made(schemas, root) : Shows(schemas, i) \subseteq Made(schemas, root)
<1>. DEFINE M == Made(schemas, root)
            closed(S) == \A j \in S : Shows(schemas, j) \subseteq S
<1>1. M = {i \in DOMAIN schemas : \A S \in SUBSET DOMAIN schemas :
             root \in S /\ closed(S) => i \in S}
  BY DEF Made
<1>2. ASSUME NEW i \in M, NEW c \in Shows(schemas, i) PROVE c \in M
  <2>1. c \in DOMAIN schemas
    BY <1>1, <1>2, ShowsAreInside
  <2>2. ASSUME NEW S \in SUBSET DOMAIN schemas, root \in S, closed(S) PROVE c \in S
    <3>1. i \in S
      BY <1>1, <2>2
    <3>. QED  BY <1>2, <2>2, <3>1
  <2>. QED  BY <1>1, <2>1, <2>2
<1>. QED  BY <1>1, <1>2
-----------------------------------------------------------------------------
\* The views of a place's properties and items.
PropViews(schemas, id, w) ==
  LET s == Shown(schemas, id) IN
  [n \in DOMAIN s.props |-> ViewIn(schemas)[<<s.props[n], w \cup {id}>>]]
ItemViews(schemas, id, w) ==
  LET s == Shown(schemas, id) IN
  [i \in DOMAIN s.items |-> ViewIn(schemas)[<<s.items[i], w \cup {id}>>]]

\* A oneOf is seen as its first, one schema further inside.
LEMMA ViewOfOneOf ==
  ASSUME NEW schemas, IsSchemas(schemas),
         NEW id \in DOMAIN schemas, NEW w \in SUBSET DOMAIN schemas, id \notin w,
         schemas[id].allOf = <<>>, schemas[id].oneOf # <<>>
  PROVE  ViewIn(schemas)[<<id, w>>] = ViewIn(schemas)[<<schemas[id].oneOf[1], w \cup {id}>>]
<1>1. ViewIn(schemas)[<<id, w>>] = ViewAt(schemas, ViewIn(schemas), id, w)
  BY ViewsExist
<1>. QED  BY <1>1 DEF ViewAt, Inside

\* What is seen of any other schema, where it is not met again.
LEMMA ViewOfPlace ==
  ASSUME NEW schemas, IsSchemas(schemas),
         NEW id \in DOMAIN schemas, NEW w \in SUBSET DOMAIN schemas, id \notin w,
         schemas[id].allOf # <<>> \/ schemas[id].oneOf = <<>>
  PROVE  LET shown == Shown(schemas, id)
             props == PropViews(schemas, id, w)
             items == ItemViews(schemas, id, w)
         IN  ViewIn(schemas)[<<id, w>>] =
               [type |-> TypeOf(shown), recursive |-> FALSE,
                required |-> shown.required, enum |-> shown.enum,
                props |-> props, items |-> items,
                sample |-> Sample(shown, props, items)]
<1>1. ViewIn(schemas)[<<id, w>>] = ViewAt(schemas, ViewIn(schemas), id, w)
  BY ViewsExist
<1>2. Inside(schemas, w, id) = w \cup {id}
  BY DEF Inside
<1>. QED  BY <1>1, <1>2 DEF ViewAt, Shown, PropViews, ItemViews

\* The places and the views ahead of a schema.
PlacesAhead(schemas, root) ==
  {p \in (DOMAIN schemas) \X (SUBSET DOMAIN schemas) : Ahead(schemas, root, p[1], p[2])}
ViewsAhead(schemas, root) ==
  {ViewIn(schemas)[p] : p \in PlacesAhead(schemas, root)}

\* Ahead of a schema that does not come back to itself nothing is recursive, down
\* any chain of oneOf.
LEMMA NothingIsRecursive ==
  ASSUME NEW schemas, IsSchemas(schemas), NEW root \in DOMAIN schemas, ~Cyclic(schemas, root),
         NEW id, NEW w, Ahead(schemas, root, id, w)
  PROVE  LET view == ViewIn(schemas) IN
         /\ ~view[<<id, w>>].recursive
         /\ Parts(view[<<id, w>>]) \subseteq ViewsAhead(schemas, root)
<1>. DEFINE view == ViewIn(schemas)
            ids == DOMAIN schemas
            N == Cardinality(ids)
            left(x) == Cardinality(ids \ x)
            good(v) == /\ ~v.recursive
                       /\ \A u \in Parts(v) :
                            \E c, x : Ahead(schemas, root, c, x) /\ u = view[<<c, x>>]
            reached == {n \in 0 .. N : \A k, x :
                          Ahead(schemas, root, k, x) /\ left(x) <= n => good(view[<<k, x>>])}
<1>1. IsFiniteSet(ids) /\ N \in Nat
  BY FS_CardinalityType DEF IsSchemas
<1>2. ASSUME NEW x \in SUBSET ids
      PROVE  IsFiniteSet(ids \ x) /\ left(x) \in 0 .. N
  <2>1. (ids \ x) \in SUBSET ids
    OBVIOUS
  <2>2. IsFiniteSet(ids \ x) /\ left(x) <= N
    BY <1>1, <2>1, FS_Subset
  <2>3. left(x) \in Nat
    BY <2>2, FS_CardinalityType
  <2>. QED  BY <1>1, <2>2, <2>3
<1>3. ASSUME NEW k, NEW x, Ahead(schemas, root, k, x)
      PROVE  k \in ids /\ x \in SUBSET ids /\ k \notin x
  <2>1. k \in ids /\ x \in SUBSET ids
    BY <1>3 DEF Ahead, Reached
  <2>2. {k} \in SUBSET ids
    BY <2>1
  <2>3. k \in Reached(schemas, {k})
    BY <2>2, ReachedIsClosed
  <2>. QED  BY <1>3, <2>1, <2>3 DEF Ahead
<1>4. ASSUME NEW k, NEW x, Ahead(schemas, root, k, x)
      PROVE  left(x \cup {k}) = left(x) - 1 /\ left(x) \in Nat \ {0}
  <2>1. k \in ids \ x /\ IsFiniteSet(ids \ x) /\ ids \ (x \cup {k}) = (ids \ x) \ {k}
    BY <1>2, <1>3, <1>4
  <2>2. left(x \cup {k}) = left(x) - 1
    BY <2>1, FS_RemoveElement
  <2>3. (x \cup {k}) \in SUBSET ids
    BY <1>3, <1>4
  <2>4. left(x \cup {k}) \in 0 .. N
    BY <1>2, <2>3
  <2>5. left(x) \in 0 .. N
    <3>1. x \in SUBSET ids
      BY <1>3, <1>4
    <3>. QED  BY <1>2, <3>1
  <2>. HIDE DEF left
  <2>. QED  BY <1>1, <2>2, <2>4, <2>5
<1>5. ASSUME NEW k, NEW x, Ahead(schemas, root, k, x),
             schemas[k].allOf # <<>> \/ schemas[k].oneOf = <<>>
      PROVE  good(view[<<k, x>>])
  <2>. DEFINE props == PropViews(schemas, k, x)
              items == ItemViews(schemas, k, x)
              shown == Shown(schemas, k)
              v == view[<<k, x>>]
  <2>0. k \in ids /\ x \in SUBSET ids /\ k \notin x
    BY <1>3, <1>5
  <2>1. v = [type |-> TypeOf(shown), recursive |-> FALSE,
             required |-> shown.required, enum |-> shown.enum,
             props |-> props, items |-> items, sample |-> Sample(shown, props, items)]
    BY <1>5, <2>0, ViewOfPlace
  <2>7. ~v.recursive /\ v.props = props /\ v.items = items
    <3>. HIDE DEF v, props, items, shown
    <3>. QED  BY <2>1
  <2>2. ASSUME NEW c \in Reached(schemas, References(schemas[k]))
        PROVE  Ahead(schemas, root, c, x \cup {k})
    BY <1>5, StillAhead
  <2>3. \A n \in DOMAIN props : \E c : /\ Ahead(schemas, root, c, x \cup {k})
                                      /\ props[n] = view[<<c, x \cup {k}>>]
    BY <2>0, <2>2, InsideIsReached DEF PropViews
  <2>4. \A i \in DOMAIN items : \E c : /\ Ahead(schemas, root, c, x \cup {k})
                                      /\ items[i] = view[<<c, x \cup {k}>>]
    BY <2>0, <2>2, InsideIsReached DEF ItemViews
  <2>. HIDE DEF props, items, v, view
  <2>5. Parts(v) = {props[n] : n \in DOMAIN props} \cup {items[i] : i \in DOMAIN items}
    BY <2>7 DEF Parts, IdsIn
  <2>6. ASSUME NEW u \in Parts(v)
        PROVE  \E c, y : Ahead(schemas, root, c, y) /\ u = view[<<c, y>>]
    <3>1. \E c : Ahead(schemas, root, c, x \cup {k}) /\ u = view[<<c, x \cup {k}>>]
      <4>1. CASE \E n \in DOMAIN props : u = props[n]
        BY <2>3, <4>1
      <4>2. CASE \E i \in DOMAIN items : u = items[i]
        BY <2>4, <4>2
      <4>. QED  BY <2>5, <4>1, <4>2
    <3>. QED  BY <3>1
  <2>8. good(v)
    BY <2>6, <2>7
  <2>. QED  BY <2>8 DEF v
<1>6. ASSUME NEW k, NEW x, Ahead(schemas, root, k, x),
             schemas[k].allOf = <<>>, schemas[k].oneOf # <<>>
      PROVE  \E c : /\ Ahead(schemas, root, c, x \cup {k})
                    /\ view[<<k, x>>] = view[<<c, x \cup {k}>>]
  <2>. DEFINE c == schemas[k].oneOf[1]
  <2>1. c \in IdsIn(schemas[k].oneOf)
    <3>1. schemas[k].oneOf \in Seq(ids)
      BY <1>3, <1>6 DEF IsSchemas
    <3>. QED  BY <1>6, <3>1 DEF IdsIn
  <2>2. c \in Reached(schemas, References(schemas[k]))
    BY <1>3, <1>6, <2>1, InsideIsReached DEF References
  <2>3. Ahead(schemas, root, c, x \cup {k})
    BY <1>6, <2>2, StillAhead
  <2>4. view[<<k, x>>] = view[<<c, x \cup {k}>>]
    <3>1. k \in DOMAIN schemas /\ x \in SUBSET DOMAIN schemas /\ k \notin x
      BY <1>3, <1>6
    <3>2. ViewIn(schemas)[<<k, x>>] = ViewIn(schemas)[<<schemas[k].oneOf[1], x \cup {k}>>]
      BY <1>6, <3>1, ViewOfOneOf
    <3>. QED  BY <3>2
  <2>. QED  BY <2>3, <2>4
<1>. HIDE DEF left, good, view
<1>7. 0 \in reached
  <2>1. ASSUME NEW k, NEW x, Ahead(schemas, root, k, x), left(x) <= 0
        PROVE  good(view[<<k, x>>])
    <3>1. left(x) \in Nat \ {0}
      BY <1>4, <2>1
    <3>. QED  BY <2>1, <3>1
  <2>. QED  BY <1>1, <2>1
<1>8. ASSUME NEW n \in 0 .. N - 1, n \in reached PROVE n + 1 \in reached
  <2>1. ASSUME NEW k, NEW x, Ahead(schemas, root, k, x), left(x) <= n + 1
        PROVE  good(view[<<k, x>>])
    <3>1. CASE schemas[k].allOf # <<>> \/ schemas[k].oneOf = <<>>
      BY <1>5, <2>1, <3>1
    <3>2. CASE schemas[k].allOf = <<>> /\ schemas[k].oneOf # <<>>
      <4>1. PICK c : /\ Ahead(schemas, root, c, x \cup {k})
                     /\ view[<<k, x>>] = view[<<c, x \cup {k}>>]
        BY <1>6, <2>1, <3>2
      <4>2. left(x \cup {k}) = left(x) - 1 /\ left(x) \in Nat
        BY <1>4, <2>1
      <4>3. left(x \cup {k}) <= n
        BY <2>1, <4>2
      <4>. QED  BY <1>8, <4>1, <4>3
    <3>. QED  BY <3>1, <3>2
  <2>2. n + 1 \in 0 .. N
    BY <1>1
  <2>. QED  BY <2>1, <2>2
<1>9. N \in reached
  <2>1. 0 .. N \subseteq reached
    <3>. HIDE DEF reached
    <3>. QED  BY <1>1, <1>7, <1>8, Stepwise
  <2>. QED  BY <1>1, <2>1
<1>10. left(w) <= N
  <2>1. w \in SUBSET ids
    BY <1>3
  <2>2. left(w) \in 0 .. N
    BY <1>2, <2>1
  <2>. HIDE DEF left
  <2>. QED  BY <1>1, <2>2
<1>11. good(view[<<id, w>>])
  BY <1>9, <1>10
<1>12. ASSUME NEW c, NEW x, Ahead(schemas, root, c, x)
       PROVE  view[<<c, x>>] \in ViewsAhead(schemas, root)
  <2>1. <<c, x>> \in ids \X (SUBSET ids)
    BY <1>3, <1>12
  <2>. QED  BY <1>12, <2>1 DEF ViewsAhead, PlacesAhead, view
<1>13. /\ ~view[<<id, w>>].recursive
       /\ \A u \in Parts(view[<<id, w>>]) :
            \E c, x : Ahead(schemas, root, c, x) /\ u = view[<<c, x>>]
  BY <1>11 DEF good
<1>14. Parts(view[<<id, w>>]) \subseteq ViewsAhead(schemas, root)
  <2>1. ASSUME NEW u \in Parts(view[<<id, w>>]) PROVE u \in ViewsAhead(schemas, root)
    <3>1. PICK c, x : Ahead(schemas, root, c, x) /\ u = view[<<c, x>>]
      BY <1>13
    <3>. QED  BY <1>12, <3>1
  <2>. QED  BY <2>1
<1>. QED  BY <1>13, <1>14 DEF view
-----------------------------------------------------------------------------
\* A step that stays within X can be taken any number of times.
Chain(g, X, a, step, depth) ==
  /\ g \in [0 .. depth -> SUBSET X]
  /\ g[0] = a
  /\ \A n \in 1 .. depth : g[n] = step[g[n - 1]]

\* There is such a chain.
LEMMA Iterated ==
  ASSUME NEW X, NEW a \in SUBSET X, NEW step \in [SUBSET X -> SUBSET X], NEW depth \in Nat
  PROVE  \E g : Chain(g, X, a, step, depth)
<1>. DEFINE is(g, m) == g = [n \in 0 .. m |-> IF n = 0 THEN a ELSE step[g[n - 1]]]
            done == {m \in 0 .. depth : \E g \in [0 .. m -> SUBSET X] : is(g, m)}
<1>1. 0 \in done
  <2>. DEFINE g == [n \in 0 .. 0 |-> a]
  <2>1. g \in [0 .. 0 -> SUBSET X] /\ is(g, 0)
    OBVIOUS
  <2>. HIDE DEF g, is
  <2>. QED  BY <2>1
<1>2. ASSUME NEW m \in 0 .. depth - 1, m \in done PROVE m + 1 \in done
  <2>1. PICK g \in [0 .. m -> SUBSET X] : is(g, m)
    BY <1>2
  <2>. DEFINE h == [n \in 0 .. m + 1 |-> IF n = m + 1 THEN step[g[m]] ELSE g[n]]
  <2>2. h \in [0 .. m + 1 -> SUBSET X]
    <3>1. g[m] \in SUBSET X
      OBVIOUS
    <3>. QED  BY <3>1
  <2>3. ASSUME NEW n \in 0 .. m + 1
        PROVE  h[n] = IF n = 0 THEN a ELSE step[h[n - 1]]
    <3>1. CASE n = m + 1
      <4>1. n - 1 = m /\ n # 0 /\ m \in 0 .. m + 1 /\ m # m + 1
        BY <3>1
      <4>. QED  BY <3>1, <4>1
    <3>2. CASE n # m + 1
      <4>1. n \in 0 .. m /\ n - 1 # m + 1
        BY <3>2
      <4>2. h[n] = g[n] /\ g[n] = IF n = 0 THEN a ELSE step[g[n - 1]]
        BY <2>1, <3>2, <4>1
      <4>3. n # 0 => n - 1 \in 0 .. m + 1 /\ h[n - 1] = g[n - 1]
        BY <4>1
      <4>. QED  BY <4>2, <4>3
    <3>. QED  BY <3>1, <3>2
  <2>4. is(h, m + 1)
    BY <2>3
  <2>5. m + 1 \in 0 .. depth
    OBVIOUS
  <2>. HIDE DEF h, is
  <2>. QED  BY <2>2, <2>4, <2>5
<1>3. 0 .. depth \subseteq done
  <2>. HIDE DEF done
  <2>. QED  BY <1>1, <1>2, Stepwise
<1>4. PICK g \in [0 .. depth -> SUBSET X] : is(g, depth)
  BY <1>3
<1>5. \A n \in 0 .. depth : g[n] = IF n = 0 THEN a ELSE step[g[n - 1]]
  BY <1>4
<1>. QED  BY <1>5 DEF Chain

\* What is within a view stays within any set of views that holds their parts.
LEMMA WithinStays ==
  ASSUME NEW X, NEW a \in X, \A v \in X : Parts(v) \subseteq X, NEW depth \in Nat
  PROVE  Within(a, depth) \subseteq X
<1>. DEFINE next(B) == B \cup UNION {Parts(v) : v \in B}
            step == [B \in SUBSET X |-> next(B)]
            is(g) == g = [n \in 0 .. depth |-> IF n = 0 THEN {a} ELSE next(g[n - 1])]
            f == CHOOSE g : is(g)
<1>1. ASSUME NEW B \in SUBSET X PROVE next(B) \in SUBSET X
  OBVIOUS
<1>2. step \in [SUBSET X -> SUBSET X] /\ {a} \in SUBSET X
  BY <1>1
<1>. HIDE DEF next
<1>3. \E g : is(g)
  <2>1. PICK g : Chain(g, X, {a}, step, depth)
    <3>. HIDE DEF step
    <3>. QED  BY <1>2, Iterated
  <2>2. ASSUME NEW n \in 0 .. depth, n # 0 PROVE step[g[n - 1]] = next(g[n - 1])
    <3>1. n - 1 \in 0 .. depth
      BY <2>2
    <3>2. g[n - 1] \in SUBSET X
      BY <2>1, <3>1 DEF Chain
    <3>. QED  BY <3>2
  <2>. HIDE DEF step
  <2>3. ASSUME NEW n \in 0 .. depth
        PROVE  g[n] = IF n = 0 THEN {a} ELSE next(g[n - 1])
    BY <2>1, <2>2 DEF Chain
  <2>4. is(g)
    BY <2>1, <2>3 DEF Chain
  <2>. QED  BY <2>4
<1>4. is(f)
  <2>. HIDE DEF is
  <2>. QED  BY <1>3
<1>. DEFINE in == {n \in 0 .. depth : f[n] \in SUBSET X}
<1>. HIDE DEF f
<1>5. 0 \in in
  BY <1>4
<1>6. ASSUME NEW n \in 0 .. depth - 1, n \in in PROVE n + 1 \in in
  <2>1. n + 1 \in 0 .. depth /\ n + 1 # 0 /\ (n + 1) - 1 = n
    OBVIOUS
  <2>2. f[n + 1] = next(f[n])
    BY <1>4, <2>1
  <2>. QED  BY <1>1, <1>6, <2>1, <2>2
<1>7. 0 .. depth \subseteq in
  <2>. HIDE DEF in
  <2>. QED  BY <1>5, <1>6, Stepwise
<1>8. Within(a, depth) = f[depth]
  BY DEF Within, f, next
<1>. QED  BY <1>7, <1>8


\* The views ahead are closed under parts, and none of them is recursive.
LEMMA PartsAreAhead ==
  ASSUME NEW schemas, IsSchemas(schemas), NEW root \in DOMAIN schemas, ~Cyclic(schemas, root)
  PROVE  /\ View(schemas, root) \in ViewsAhead(schemas, root)
         /\ \A v \in ViewsAhead(schemas, root) :
              ~v.recursive /\ Parts(v) \subseteq ViewsAhead(schemas, root)
<1>1. ASSUME NEW c, NEW x, Ahead(schemas, root, c, x)
      PROVE  ViewIn(schemas)[<<c, x>>] \in ViewsAhead(schemas, root)
  <2>1. <<c, x>> \in (DOMAIN schemas) \X (SUBSET DOMAIN schemas)
    BY <1>1 DEF Ahead, Reached
  <2>. QED  BY <1>1, <2>1 DEF ViewsAhead, PlacesAhead
<1>2. Ahead(schemas, root, root, {})
  <2>1. {root} \in SUBSET DOMAIN schemas
    OBVIOUS
  <2>. QED  BY <2>1, ReachedIsClosed DEF Ahead
<1>3. View(schemas, root) \in ViewsAhead(schemas, root)
  BY <1>1, <1>2 DEF View
<1>4. ASSUME NEW v \in ViewsAhead(schemas, root)
      PROVE  ~v.recursive /\ Parts(v) \subseteq ViewsAhead(schemas, root)
  <2>1. PICK p \in (DOMAIN schemas) \X (SUBSET DOMAIN schemas) :
               Ahead(schemas, root, p[1], p[2]) /\ v = ViewIn(schemas)[p]
    BY DEF ViewsAhead, PlacesAhead
  <2>. DEFINE id == p[1]
              w == p[2]
  <2>2. v = ViewIn(schemas)[<<id, w>>] /\ Ahead(schemas, root, id, w)
    BY <2>1
  <2>. HIDE DEF id, w
  <2>3. ~v.recursive
    BY <2>2, NothingIsRecursive
  <2>4. Parts(v) \subseteq ViewsAhead(schemas, root)
    BY <2>2, NothingIsRecursive
  <2>. QED  BY <2>3, <2>4
<1>. QED  BY <1>3, <1>4

\* What a schema is composed of holds itself and its parts, and no more if they
\* are not composed.
LEMMA ComposedOf ==
  ASSUME NEW schemas, IsSchemas(schemas), NEW id \in DOMAIN schemas
  PROVE  LET all == {id} \cup IdsIn(schemas[id].allOf) IN
         /\ all \subseteq Composed(schemas, id)
         /\ (\A i \in IdsIn(schemas[id].allOf) : schemas[i].allOf = <<>>) =>
              Composed(schemas, id) = all
<1>. DEFINE all == {id} \cup IdsIn(schemas[id].allOf)
            closed(S) == \A j \in S : IdsIn(schemas[j].allOf) \subseteq S
<1>1. Composed(schemas, id) =
        {i \in DOMAIN schemas : \A S \in SUBSET DOMAIN schemas : id \in S /\ closed(S) => i \in S}
  BY DEF Composed
<1>2. all \in SUBSET DOMAIN schemas
  BY ReferencesAreThere DEF References
<1>3. all \subseteq Composed(schemas, id)
  BY <1>1, <1>2
<1>4. ASSUME \A i \in IdsIn(schemas[id].allOf) : schemas[i].allOf = <<>>
      PROVE  Composed(schemas, id) \subseteq all
  <2>1. closed(all)
    BY <1>4 DEF IdsIn
  <2>. HIDE DEF all, closed
  <2>2. id \in all
    BY DEF all
  <2>. QED  BY <1>1, <1>2, <2>1, <2>2
<1>. QED  BY <1>3, <1>4

\* A view shows what the document says.
LEMMA ViewIsFaithful ==
  ASSUME NEW schemas, IsSchemas(schemas), NEW id \in DOMAIN schemas
  PROVE  Faithful(schemas, id, View(schemas, id))
<1>. DEFINE s == schemas[id]
            view == View(schemas, id)
            declared == UNION {DOMAIN schemas[i].props : i \in Composed(schemas, id)}
<1>1. ASSUME ~Cyclic(schemas, id), NEW v \in Within(view, Cardinality(DOMAIN schemas) + 1)
      PROVE  ~v.recursive
  <2>1. Cardinality(DOMAIN schemas) + 1 \in Nat
    BY FS_CardinalityType DEF IsSchemas
  <2>2. Within(view, Cardinality(DOMAIN schemas) + 1) \subseteq ViewsAhead(schemas, id)
    <3>. HIDE DEF view
    <3>1. view \in ViewsAhead(schemas, id)
      BY <1>1, PartsAreAhead DEF view
    <3>. QED  BY <1>1, <2>1, <3>1, PartsAreAhead, WithinStays
  <2>. QED  BY <1>1, <2>2, PartsAreAhead
<1>2. ASSUME s.allOf # <<>> \/ s.oneOf = <<>>
      PROVE  /\ ~view.recursive
             /\ DOMAIN view.props \subseteq declared
             /\ (\A i \in IdsIn(s.allOf) : schemas[i].allOf = <<>>) => DOMAIN view.props = declared
  <2>. DEFINE shown == Shown(schemas, id)
              props == PropViews(schemas, id, {})
              items == ItemViews(schemas, id, {})
              all == {id} \cup IdsIn(s.allOf)
  <2>1. view = [type |-> TypeOf(shown), recursive |-> FALSE,
                required |-> shown.required, enum |-> shown.enum,
                props |-> props, items |-> items, sample |-> Sample(shown, props, items)]
    <3>1. {} \in SUBSET DOMAIN schemas /\ id \notin {}
      OBVIOUS
    <3>. QED  BY <1>2, <3>1, ViewOfPlace DEF View
  <2>2. ~view.recursive /\ view.props = props
    <3>. HIDE DEF view, shown, props, items
    <3>. QED  BY <2>1
  <2>3. DOMAIN props = DOMAIN shown.props
    BY DEF PropViews
  <2>4. DOMAIN shown.props = UNION {DOMAIN schemas[i].props : i \in all}
    <3>1. CASE s.allOf = <<>>
      <4>1. all = {id}
        BY <3>1 DEF IdsIn
      <4>. QED  BY <3>1, <4>1 DEF Shown
    <3>2. CASE s.allOf # <<>>
      BY <3>2 DEF Shown, MergeAllOf, MergedProps
    <3>. QED  BY <3>1, <3>2
  <2>5. /\ all \subseteq Composed(schemas, id)
        /\ (\A i \in IdsIn(s.allOf) : schemas[i].allOf = <<>>) => Composed(schemas, id) = all
    BY ComposedOf
  <2>6. DOMAIN view.props = UNION {DOMAIN schemas[i].props : i \in all}
    BY <2>2, <2>3, <2>4
  <2>. HIDE DEF view, all
  <2>. QED  BY <2>2, <2>5, <2>6
<1>. QED  BY <1>1, <1>2 DEF Faithful
-----------------------------------------------------------------------------
\* The first of an option and those of a sequence is one of them, and missing only
\* if all are.
IsFirst(first, a, f, n) ==
  IF first = Missing THEN a = Missing /\ \A i \in 1 .. n : f[i] = Missing
  ELSE first = a \/ \E i \in 1 .. n : first = f[i]

\* First takes it.
LEMMA FirstOfParts ==
  ASSUME NEW a, NEW n \in Nat, NEW S, NEW f \in [1 .. n -> S]
  PROVE  IsFirst(First(<<a>> \o f), a, f, n)
<1>. DEFINE all == <<a>> \o f
            there == {i \in DOMAIN all : all[i] # Missing}
<1>1. /\ DOMAIN all = 1 .. n + 1 /\ all[1] = a
      /\ \A i \in 1 .. n : all[1 + i] = f[i]
  <2>. DEFINE T == S \cup {a}
  <2>1. <<a>> \in Seq(T) /\ Len(<<a>>) = 1 /\ <<a>>[1] = a
    OBVIOUS
  <2>2. f \in Seq(T) /\ Len(f) = n
    OBVIOUS
  <2>. HIDE DEF T
  <2>. QED  BY <2>1, <2>2, Joined
<1>. HIDE DEF all
<1>2. \A i \in 1 .. n + 1 : i = 1 \/ \E j \in 1 .. n : i = 1 + j
  <2>1. ASSUME NEW i \in 1 .. n + 1, i # 1 PROVE i - 1 \in 1 .. n /\ i = 1 + (i - 1)
    BY <2>1
  <2>. QED  BY <2>1
<1>3. \A i \in 1 .. n + 1 : all[i] = a \/ \E j \in 1 .. n : all[i] = f[j]
  BY <1>1, <1>2
<1>4. CASE there = {}
  <2>1. First(all) = Missing
    BY <1>4 DEF First
  <2>2. a = Missing
    BY <1>1, <1>4
  <2>3. \A i \in 1 .. n : f[i] = Missing
    BY <1>1, <1>4
  <2>. QED  BY <2>1, <2>2, <2>3 DEF IsFirst, all
<1>5. CASE there # {}
  <2>1. there \in SUBSET Nat
    BY <1>1
  <2>2. Min(there) \in there
    <3>. HIDE DEF there
    <3>. QED  BY <1>5, <2>1, MinIsThere
  <2>3. First(all) = all[Min(there)]
    BY <1>5 DEF First
  <2>4. Min(there) \in 1 .. n + 1 /\ all[Min(there)] # Missing
    BY <1>1, <2>2
  <2>. HIDE DEF there
  <2>5. First(all) # Missing
    BY <2>3, <2>4
  <2>6. First(all) = a \/ \E j \in 1 .. n : First(all) = f[j]
    BY <1>3, <2>3, <2>4
  <2>. QED  BY <2>5, <2>6 DEF IsFirst, all
<1>. QED  BY <1>4, <1>5

\* A part's property is merged as it is, where no other part has it.
LEMMA MergedIsOfPart ==
  ASSUME NEW schemas, NEW id \in DOMAIN schemas, schemas[id].allOf \in Seq(DOMAIN schemas),
         NEW j \in {id} \cup IdsIn(schemas[id].allOf), NEW p \in DOMAIN schemas[j].props,
         \A k \in ({id} \cup IdsIn(schemas[id].allOf)) \ {j} : p \notin DOMAIN schemas[k].props,
         id \notin IdsIn(schemas[id].allOf)
  PROVE  /\ p \in DOMAIN MergedProps(schemas, schemas[id])
         /\ MergedProps(schemas, schemas[id])[p] = schemas[j].props[p]
<1>. DEFINE s == schemas[id]
            having == {i \in DOMAIN s.allOf : p \in DOMAIN schemas[s.allOf[i]].props}
<1>1. /\ p \in DOMAIN MergedProps(schemas, s)
      /\ MergedProps(schemas, s)[p] =
           IF having = {} THEN s.props[p] ELSE schemas[s.allOf[Max(having)]].props[p]
  BY DEF MergedProps
<1>2. Len(s.allOf) \in Nat /\ DOMAIN s.allOf = 1 .. Len(s.allOf)
  OBVIOUS
<1>3. \A i \in DOMAIN s.allOf : s.allOf[i] \in IdsIn(s.allOf)
  BY DEF IdsIn
<1>4. CASE j = id
  <2>1. having = {}
    BY <1>3, <1>4
  <2>. QED  BY <1>1, <1>4, <2>1
<1>5. CASE j # id
  <2>1. having # {}
    BY <1>5 DEF IdsIn
  <2>2. having \in SUBSET (0 .. Len(s.allOf))
    BY <1>2
  <2>3. Max(having) \in having
    <3>. HIDE DEF having
    <3>. QED  BY <1>2, <2>1, <2>2, MaxIsThere
  <2>4. s.allOf[Max(having)] = j
    BY <1>3, <2>3
  <2>. HIDE DEF having
  <2>. QED  BY <1>1, <2>1, <2>4
<1>. QED  BY <1>4, <1>5

\* What value is proposed for a schema, by its type.
IsProposed(v, s, props, items) ==
  LET type == TypeOf(s) IN
  /\ s.example # Missing => v = s.example[1]
  /\ s.example = Missing =>
       /\ type \in {"object", ""} =>
            \/ v = Null /\ type = "" /\ DOMAIN props = {}
            \/ v = Object([n \in DOMAIN props |-> SampleOr(props[n])])
       /\ type = "array" => v = Array(IF items = Missing THEN Null ELSE SampleOr(items[1]))
       /\ type \in {"string", "integer", "number"} =>
            v = IF s.enum = <<>> \/ s.enum[1] = Null THEN Default(type) ELSE s.enum[1]
       /\ type = "boolean" => v = Default(type)
       /\ type = "null" => v = Null

\* exampleFromSchemaView proposes no other value.
LEMMA SampleIs ==
  ASSUME NEW s, NEW props, NEW items, NEW view,
         view.sample = Sample(s, props, items), view.type = TypeOf(s)
  PROVE  IsProposed(SampleOr(view), s, props, items)
<1>. DEFINE v == SampleOr(view)
            type == TypeOf(s)
            object == Object([n \in DOMAIN props |-> SampleOr(props[n])])
            array == Array(IF items = Missing THEN Null ELSE SampleOr(items[1]))
            scalar == IF s.enum = <<>> \/ s.enum[1] = Null THEN Default(type) ELSE s.enum[1]
<1>1. view.sample =
        CASE s.example # Missing -> s.example
          [] s.example = Missing /\ type \in {"object", ""} ->
               IF type = "" /\ DOMAIN props = {} THEN Missing ELSE <<object>>
          [] s.example = Missing /\ type = "array" -> <<array>>
          [] s.example = Missing /\ type \in {"string", "integer", "number"} ->
               IF s.enum = <<>> THEN <<Default(type)>> ELSE Enumerated(s)
          [] s.example = Missing /\ type = "boolean" -> <<Default(type)>>
          [] OTHER -> Missing
  BY DEF Sample
<1>2. v = IF view.sample # Missing THEN view.sample[1]
          ELSE IF type \in {"string", "integer", "number"} THEN Default(type)
          ELSE Null
  BY DEF SampleOr
<1>3. \A x : <<x>> # Missing /\ <<x>>[1] = x
  BY DEF Missing
<1>. HIDE DEF v, type, object, array, scalar
<1>4. ASSUME s.example # Missing PROVE v = s.example[1]
  BY <1>1, <1>2, <1>4
<1>5. ASSUME s.example = Missing
      PROVE  /\ type \in {"object", ""} => (v = Null /\ type = "" /\ DOMAIN props = {}) \/ v = object
             /\ type = "array" => v = array
             /\ type \in {"string", "integer", "number"} => v = scalar
             /\ type = "boolean" => v = Default(type)
             /\ type = "null" => v = Null
  <2>1. CASE type \in {"object", ""}
    <3>1. view.sample = IF type = "" /\ DOMAIN props = {} THEN Missing ELSE <<object>>
      BY <1>1, <1>5, <2>1
    <3>. QED  BY <1>2, <1>3, <2>1, <3>1
  <2>2. CASE type = "array"
    <3>1. view.sample = <<array>>
      BY <1>1, <1>5, <2>2
    <3>. QED  BY <1>2, <1>3, <2>2, <3>1
  <2>3. CASE type \in {"string", "integer", "number"}
    <3>1. view.sample = IF s.enum = <<>> THEN <<Default(type)>> ELSE Enumerated(s)
      BY <1>1, <1>5, <2>3
    <3>. QED  BY <1>2, <1>3, <2>3, <3>1 DEF scalar, Enumerated
  <2>4. CASE type = "boolean"
    <3>1. view.sample = <<Default(type)>>
      BY <1>1, <1>5, <2>4
    <3>. QED  BY <1>2, <1>3, <2>4, <3>1
  <2>5. CASE type = "null"
    <3>1. view.sample = Missing
      BY <1>1, <1>5, <2>5
    <3>. QED  BY <1>2, <1>3, <2>5, <3>1
  <2>. QED  BY <2>1, <2>2, <2>3, <2>4, <2>5
<1>. QED  BY <1>4, <1>5 DEF IsProposed, v, type, object, array, scalar

\* The claims the examples ahead of a schema make: that each fits its schema, and
\* the parts the schema is composed of.
PlacesMade(schemas, root) == {p \in PlacesAhead(schemas, root) : p[1] \in Made(schemas, root)}
ClaimsAhead(schemas, root) ==
  UNION {{[value |-> SampleOr(ViewIn(schemas)[p]), id |-> i] :
            i \in {p[1]} \cup IdsIn(schemas[p[1]].allOf)} : p \in PlacesMade(schemas, root)}

\* An example ahead is claimed to fit its schema and the schema's parts.
LEMMA ClaimIsAhead ==
  ASSUME NEW schemas, NEW root, NEW id \in Made(schemas, root), NEW w,
         Ahead(schemas, root, id, w), NEW i \in {id} \cup IdsIn(schemas[id].allOf)
  PROVE  [value |-> SampleOr(ViewIn(schemas)[<<id, w>>]), id |-> i] \in ClaimsAhead(schemas, root)
<1>. DEFINE p == <<id, w>>
<1>2. p[1] = id
  OBVIOUS
<1>1. p \in PlacesMade(schemas, root)
  BY DEF PlacesMade, PlacesAhead, Ahead, Reached
<1>. HIDE DEF p
<1>3. [value |-> SampleOr(ViewIn(schemas)[p]), id |-> i] \in ClaimsAhead(schemas, root)
  <2>. DEFINE claims(q) == {[value |-> SampleOr(ViewIn(schemas)[q]), id |-> j] :
                              j \in {q[1]} \cup IdsIn(schemas[q[1]].allOf)}
  <2>1. [value |-> SampleOr(ViewIn(schemas)[p]), id |-> i] \in claims(p)
    BY <1>2
  <2>2. ClaimsAhead(schemas, root) = UNION {claims(q) : q \in PlacesMade(schemas, root)}
    BY DEF ClaimsAhead
  <2>. HIDE DEF claims
  <2>. QED  BY <1>1, <2>1, <2>2
<1>. QED  BY <1>3 DEF p

\* So is the example of what is one step inside.
LEMMA ClaimInsideIsAhead ==
  ASSUME NEW schemas, IsSchemas(schemas), NEW root \in DOMAIN schemas, ~Cyclic(schemas, root),
         NEW id \in Made(schemas, root), NEW w, Ahead(schemas, root, id, w),
         NEW c \in Shows(schemas, id)
  PROVE  [value |-> SampleOr(ViewIn(schemas)[<<c, w \cup {id}>>]), id |-> c]
           \in ClaimsAhead(schemas, root)
<1>1. id \in DOMAIN schemas
  BY DEF Made
<1>2. c \in Reached(schemas, References(schemas[id])) /\ c \in Made(schemas, root)
  BY <1>1, ShowsAreInside, MadeIsClosed
<1>3. Ahead(schemas, root, c, w \cup {id})
  BY <1>2, StillAhead
<1>. QED  BY <1>2, <1>3, ClaimIsAhead

\* What is required of a schema the view of another is made of is declared.
LEMMA RequiredIsDeclared ==
  ASSUME NEW schemas, NEW root, Followed(schemas, root), NEW id \in Made(schemas, root)
  PROVE  \A j \in Merged(schemas, id) : \A p \in schemas[j].required :
           \E k \in Merged(schemas, id) : p \in DOMAIN schemas[k].props
<1>1. UNION {schemas[j].required : j \in Merged(schemas, id)}
        \subseteq UNION {PropsOf(schemas, j) : j \in Merged(schemas, id)}
  BY DEF Followed
<1>. QED  BY <1>1 DEF PropsOf

\* A claim fits if its value conforms, and all that this takes is claimed.
Fits(schemas, root, v, id) ==
  /\ Conforms(v, schemas[id])
  /\ Claims(schemas, [value |-> v, id |-> id]) \subseteq ClaimsAhead(schemas, root)

\* What a claim takes is there if these are.
LEMMA ClaimsOf ==
  ASSUME NEW schemas, NEW v, NEW id, NEW C,
         \A i \in IdsIn(schemas[id].allOf) : [value |-> v, id |-> i] \in C,
         1 \in DOMAIN schemas[id].oneOf => [value |-> v, id |-> schemas[id].oneOf[1]] \in C,
         v.kind = "object" => \A p \in DOMAIN v.fields \cap DOMAIN schemas[id].props :
                                [value |-> v.fields[p], id |-> schemas[id].props[p]] \in C,
         v.kind = "array" => \A i \in IdsIn(schemas[id].items) : [value |-> v.item, id |-> i] \in C
  PROVE  Claims(schemas, [value |-> v, id |-> id]) \subseteq C
<1>. DEFINE s == schemas[id]
            c == [value |-> v, id |-> id]
            composed == {[value |-> v, id |-> i] :
                           i \in IdsIn(s.allOf) \cup {s.oneOf[k] : k \in DOMAIN s.oneOf \cap {1}}}
            fields == IF v.kind # "object" THEN {}
                      ELSE {[value |-> v.fields[p], id |-> s.props[p]] :
                              p \in DOMAIN v.fields \cap DOMAIN s.props}
            item == IF v.kind # "array" THEN {}
                    ELSE {[value |-> v.item, id |-> i] : i \in IdsIn(s.items)}
<1>1. c.value = v /\ c.id = id
  OBVIOUS
<1>2. Claims(schemas, c) = composed \cup fields \cup item
  <2>. HIDE DEF c
  <2>. QED  BY <1>1 DEF Claims
<1>3. composed \subseteq C
  OBVIOUS
<1>4. fields \subseteq C
  OBVIOUS
<1>5. item \subseteq C
  OBVIOUS
<1>. HIDE DEF composed, fields, item
<1>. QED  BY <1>2, <1>3, <1>4, <1>5

\* The example of a oneOf is that of its first.
LEMMA AlternativeFits ==
  ASSUME NEW schemas, IsSchemas(schemas), NEW root \in DOMAIN schemas, Followed(schemas, root),
         NEW id \in Made(schemas, root), NEW w, Ahead(schemas, root, id, w),
         schemas[id].allOf = <<>>, schemas[id].oneOf # <<>>
  PROVE  Fits(schemas, root, SampleOr(ViewIn(schemas)[<<id, w>>]), id)
<1>. DEFINE s == schemas[id]
            first == s.oneOf[1]
            v == SampleOr(ViewIn(schemas)[<<id, w>>])
<1>1. /\ id \in DOMAIN schemas /\ w \in SUBSET DOMAIN schemas /\ id \notin w
      /\ ~Cyclic(schemas, root) /\ Ordinary(s)
  <2>1. id \in DOMAIN schemas /\ {id} \in SUBSET DOMAIN schemas
    BY DEF Ahead, Reached
  <2>2. id \in Reached(schemas, {id})
    BY <2>1, ReachedIsClosed
  <2>. QED  BY <2>1, <2>2 DEF Ahead, Followed
<1>2. s.type = Missing /\ DOMAIN s.props = {} /\ s.items = Missing /\ s.enum = <<>>
  BY <1>1 DEF Ordinary
<1>3. first \in Shows(schemas, id)
  <2>1. s.oneOf \in Seq(DOMAIN schemas)
    BY <1>1 DEF IsSchemas
  <2>. QED  BY <2>1 DEF Shows, IdsIn
<1>4. v = SampleOr(ViewIn(schemas)[<<first, w \cup {id}>>])
  BY <1>1, ViewOfOneOf
<1>5. [value |-> v, id |-> first] \in ClaimsAhead(schemas, root)
  BY <1>1, <1>3, <1>4, ClaimInsideIsAhead
<1>. HIDE DEF v
<1>9. s.required = {}
  <2>1. Merged(schemas, id) = {id}
    BY DEF Merged, IdsIn
  <2>2. \A p \in s.required : p \in DOMAIN s.props
    BY <2>1, RequiredIsDeclared
  <2>. QED  BY <1>2, <2>2
<1>6. Conforms(v, s)
  BY <1>2, <1>9 DEF Conforms
<1>7. IdsIn(s.allOf) = {} /\ IdsIn(s.items) = {}
  BY <1>2 DEF IdsIn, Missing
<1>8. Claims(schemas, [value |-> v, id |-> id]) \subseteq ClaimsAhead(schemas, root)
  BY <1>2, <1>5, <1>7, ClaimsOf
<1>. QED  BY <1>6, <1>8 DEF Fits, v

\* A schema that is not composed: its own example, or one made of its type, its
\* enumeration, its properties or its item.
LEMMA PlainFits ==
  ASSUME NEW schemas, IsSchemas(schemas), NEW root \in DOMAIN schemas, Followed(schemas, root),
         NEW id \in Made(schemas, root), NEW w, Ahead(schemas, root, id, w), Plain(schemas[id])
  PROVE  Fits(schemas, root, SampleOr(ViewIn(schemas)[<<id, w>>]), id)
<1>. DEFINE s == schemas[id]
            view == ViewIn(schemas)[<<id, w>>]
            v == SampleOr(view)
            props == PropViews(schemas, id, w)
            items == ItemViews(schemas, id, w)
            object == Object([n \in DOMAIN props |-> SampleOr(props[n])])
            array == Array(IF items = Missing THEN Null ELSE SampleOr(items[1]))
            C == ClaimsAhead(schemas, root)
<1>1. /\ id \in DOMAIN schemas /\ w \in SUBSET DOMAIN schemas /\ id \notin w
      /\ ~Cyclic(schemas, root) /\ Ordinary(s)
  <2>1. id \in DOMAIN schemas /\ {id} \in SUBSET DOMAIN schemas
    BY DEF Ahead, Reached
  <2>2. id \in Reached(schemas, {id})
    BY <2>1, ReachedIsClosed
  <2>. QED  BY <2>1, <2>2 DEF Ahead, Followed
<1>2. s.allOf = <<>> /\ s.oneOf = <<>> /\ Shown(schemas, id) = s
  BY DEF Plain, Shown
<1>3. s.items = Missing \/ \E i \in DOMAIN schemas : s.items = <<i>>
  BY <1>1 DEF IsSchemas
<1>4. s.enum \in Seq(IdsIn(s.enum))
  BY <1>1 DEF IsSchemas
<1>5. view.sample = Sample(s, props, items) /\ view.type = TypeOf(s)
  <2>1. view = [type |-> TypeOf(s), recursive |-> FALSE,
                required |-> s.required, enum |-> s.enum,
                props |-> props, items |-> items, sample |-> Sample(s, props, items)]
    BY <1>1, <1>2, ViewOfPlace
  <2>. HIDE DEF view, props, items
  <2>. QED  BY <2>1
<1>6. /\ DOMAIN props = DOMAIN s.props /\ DOMAIN items = DOMAIN s.items
      /\ \A n \in DOMAIN s.props : props[n] = ViewIn(schemas)[<<s.props[n], w \cup {id}>>]
      /\ \A i \in DOMAIN s.items : items[i] = ViewIn(schemas)[<<s.items[i], w \cup {id}>>]
  BY <1>2 DEF PropViews, ItemViews
<1>7. /\ \A n \in DOMAIN s.props : [value |-> SampleOr(props[n]), id |-> s.props[n]] \in C
      /\ \A i \in DOMAIN s.items : [value |-> SampleOr(items[i]), id |-> s.items[i]] \in C
  <2>1. /\ \A n \in DOMAIN s.props : s.props[n] \in Shows(schemas, id)
        /\ \A i \in DOMAIN s.items : s.items[i] \in Shows(schemas, id)
    BY DEF Shows, Merged, PropsOf, IdsIn
  <2>. QED  BY <1>1, <1>6, <2>1, ClaimInsideIsAhead
<1>. HIDE DEF view, props, items, C
<1>8. IsProposed(v, s, props, items)
  BY <1>5, SampleIs
<1>9. IdsIn(s.allOf) = {} /\ DOMAIN s.oneOf = {}
  BY <1>2 DEF IdsIn
<1>10. CASE s.example # Missing
  <2>1. v = s.example[1]
    BY <1>10, <1>8 DEF IsProposed
  <2>2. v.kind \notin {"object", "array"} /\ Conforms(v, s)
    BY <1>1, <1>10, <2>1 DEF Ordinary
  <2>3. Claims(schemas, [value |-> v, id |-> id]) \subseteq C
    <3>. HIDE DEF v
    <3>. QED  BY <1>9, <2>2, ClaimsOf
  <2>. QED  BY <2>2, <2>3 DEF Fits, view, C
<1>11. ASSUME s.example = Missing, v.kind \notin {"object", "array"}, Conforms(v, s)
       PROVE  Fits(schemas, root, v, id)
  <2>. HIDE DEF v
  <2>1. Claims(schemas, [value |-> v, id |-> id]) \subseteq C
    BY <1>9, <1>11, ClaimsOf
  <2>. QED  BY <1>11, <2>1 DEF Fits, C
<1>12. CASE s.example = Missing /\ TypeOf(s) \in {"object", ""}
  <2>1. \/ v = Null /\ TypeOf(s) = "" /\ DOMAIN props = {}
        \/ v = object
    BY <1>12, <1>8 DEF IsProposed
  <2>2. s.type = Missing \/ s.type[1] = "object"
    BY <1>1, <1>12 DEF TypeOf, Ordinary, JSONTypes
  <2>3. s.enum = <<>>
    BY <1>1, <2>2 DEF Ordinary
  <2>4. CASE v = Null /\ TypeOf(s) = ""
    <3>1. v.kind = "null"
      <4>. HIDE DEF v
      <4>. QED  BY <2>4 DEF Null
    <3>2. s.type = Missing
      BY <2>2, <2>4 DEF TypeOf
    <3>3. Conforms(v, s)
      BY <2>3, <3>1, <3>2 DEF Conforms
    <3>. QED  BY <1>11, <1>12, <3>1, <3>3 DEF view
  <2>5. CASE v = object
    <3>1. /\ v.kind = "object" /\ DOMAIN v.fields = DOMAIN props
          /\ \A n \in DOMAIN props : v.fields[n] = SampleOr(props[n])
      <4>. DEFINE fields == [n \in DOMAIN props |-> SampleOr(props[n])]
      <4>1. v.kind = "object" /\ v.fields = fields
        BY <2>5 DEF Object
      <4>. QED  BY <4>1
    <3>. HIDE DEF v
    <3>5. s.required \subseteq DOMAIN v.fields
      <4>1. Merged(schemas, id) = {id}
        BY <1>2 DEF Merged, IdsIn
      <4>2. \A p \in s.required : p \in DOMAIN s.props
        BY <4>1, RequiredIsDeclared
      <4>. QED  BY <1>6, <3>1, <4>2
    <3>2. Conforms(v, s)
      BY <2>2, <2>3, <3>1, <3>5 DEF Conforms
    <3>3. \A n \in DOMAIN v.fields \cap DOMAIN s.props :
            [value |-> v.fields[n], id |-> s.props[n]] \in C
      BY <1>7, <3>1
    <3>4. Claims(schemas, [value |-> v, id |-> id]) \subseteq C
      BY <1>9, <3>1, <3>3, ClaimsOf
    <3>. QED  BY <3>2, <3>4 DEF Fits, v, view, C
  <2>. QED  BY <2>1, <2>4, <2>5
<1>13. CASE s.example = Missing /\ TypeOf(s) = "array"
  <2>1. v = array
    BY <1>13, <1>8 DEF IsProposed
  <2>2. s.type # Missing /\ s.type[1] = "array"
    BY <1>13 DEF TypeOf
  <2>3. s.enum = <<>>
    BY <1>1, <2>2 DEF Ordinary
  <2>4. /\ v.kind = "array"
        /\ v.item = IF items = Missing THEN Null ELSE SampleOr(items[1])
    BY <2>1 DEF Array
  <2>. HIDE DEF v
  <2>5. Conforms(v, s)
    BY <2>2, <2>3, <2>4 DEF Conforms
  <2>6. ASSUME NEW i \in IdsIn(s.items) PROVE [value |-> v.item, id |-> i] \in C
    <3>1. 1 \in DOMAIN s.items /\ i = s.items[1]
      BY <1>3 DEF IdsIn, Missing
    <3>2. items # Missing
      BY <1>6, <3>1 DEF Missing
    <3>. QED  BY <1>7, <2>4, <3>1, <3>2
  <2>7. Claims(schemas, [value |-> v, id |-> id]) \subseteq C
    BY <1>9, <2>4, <2>6, ClaimsOf
  <2>. QED  BY <2>5, <2>7 DEF Fits, v, view, C
<1>14. CASE s.example = Missing /\ TypeOf(s) \in {"string", "integer", "number", "boolean", "null"}
  <2>1. s.type # Missing /\ s.type[1] = TypeOf(s)
    BY <1>14 DEF TypeOf
  <2>2. /\ TypeOf(s) \in {"string", "integer", "number"} =>
             v = IF s.enum = <<>> \/ s.enum[1] = Null THEN Default(TypeOf(s)) ELSE s.enum[1]
        /\ TypeOf(s) = "boolean" => v = Default(TypeOf(s))
        /\ TypeOf(s) = "null" => v = Null
    BY <1>14, <1>8 DEF IsProposed
  <2>3. Default(TypeOf(s)).kind = TypeOf(s) /\ Null.kind = "null"
    BY DEF Default, Scalar, Null
  <2>. HIDE DEF v
  <2>4. CASE s.enum = <<>>
    <3>1. v.kind = TypeOf(s)
      BY <1>14, <2>2, <2>3, <2>4
    <3>2. Conforms(v, s)
      BY <1>14, <2>1, <2>4, <3>1 DEF Conforms
    <3>. QED  BY <1>11, <1>14, <3>1, <3>2 DEF v, view
  <2>5. CASE s.enum # <<>>
    <3>1. /\ TypeOf(s) \in {"string", "integer", "number"}
          /\ \A x \in IdsIn(s.enum) : x.kind = TypeOf(s)
      BY <1>1, <2>1, <2>5 DEF Ordinary
    <3>2. s.enum[1] \in IdsIn(s.enum)
      BY <1>4, <2>5 DEF IdsIn
    <3>5. s.enum[1] # Null
      BY <2>3, <3>1, <3>2
    <3>3. v.kind = TypeOf(s) /\ v \in IdsIn(s.enum)
      BY <2>2, <2>5, <3>1, <3>2, <3>5
    <3>4. Conforms(v, s)
      BY <1>14, <2>1, <3>3 DEF Conforms
    <3>. QED  BY <1>11, <1>14, <3>3, <3>4 DEF v, view
  <2>. QED  BY <2>4, <2>5
<1>15. TypeOf(s) \in JSONTypes \cup {""}
  BY <1>1 DEF TypeOf, Ordinary, JSONTypes
<1>. QED  BY <1>10, <1>12, <1>13, <1>14, <1>15 DEF JSONTypes

\* What a schema composed of plain objects has got of them.
LEMMA MergedOfObjects ==
  ASSUME NEW schemas, NEW id \in DOMAIN schemas,
         schemas[id].allOf \in Seq(DOMAIN schemas), schemas[id].allOf # <<>>,
         \A j \in {id} \cup IdsIn(schemas[id].allOf) :
           schemas[j].type \in {Missing, <<"object">>} /\ schemas[j].example = Missing
  PROVE  LET shown == Shown(schemas, id) IN
         /\ shown.example = Missing /\ shown.type \in {Missing, <<"object">>}
         /\ shown.type = Missing =>
              \A j \in {id} \cup IdsIn(schemas[id].allOf) : schemas[j].type = Missing
         /\ shown.props = MergedProps(schemas, schemas[id]) /\ shown.items = Missing
<1>. DEFINE s == schemas[id]
            n == Len(s.allOf)
            parts == [i \in DOMAIN s.allOf |-> schemas[s.allOf[i]]]
            types == [i \in DOMAIN parts |-> parts[i].type]
            examples == [i \in DOMAIN parts |-> parts[i].example]
            S == {Missing, <<"object">>}
<1>1. n \in Nat /\ DOMAIN s.allOf = 1 .. n /\ \A i \in 1 .. n : s.allOf[i] \in IdsIn(s.allOf)
  BY DEF IdsIn
<1>2. /\ \A i \in 1 .. n : types[i] = schemas[s.allOf[i]].type /\ examples[i] = Missing
      /\ types \in [1 .. n -> S] /\ examples \in [1 .. n -> S]
  BY <1>1
<1>3. Shown(schemas, id) = MergeAllOf(schemas, s)
  BY DEF Shown
<1>4. /\ Shown(schemas, id).type = First(<<s.type>> \o types)
      /\ Shown(schemas, id).example = First(<<s.example>> \o examples)
      /\ Shown(schemas, id).props = MergedProps(schemas, s)
      /\ Shown(schemas, id).items = Missing
  BY <1>3 DEF MergeAllOf
<1>. HIDE DEF types, examples, n
<1>5. Shown(schemas, id).example = Missing
  <2>1. IsFirst(First(<<s.example>> \o examples), s.example, examples, n)
    <3>. HIDE DEF S
    <3>. QED  BY <1>1, <1>2, FirstOfParts
  <2>. QED  BY <1>2, <1>4, <2>1 DEF IsFirst
<1>6. IsFirst(First(<<s.type>> \o types), s.type, types, n)
  <2>. HIDE DEF S
  <2>. QED  BY <1>1, <1>2, FirstOfParts
<1>7. Shown(schemas, id).type \in S
  BY <1>2, <1>4, <1>6 DEF IsFirst
<1>8. ASSUME Shown(schemas, id).type = Missing, NEW j \in {id} \cup IdsIn(s.allOf)
      PROVE  schemas[j].type = Missing
  <2>1. s.type = Missing /\ \A i \in 1 .. n : types[i] = Missing
    BY <1>4, <1>6, <1>8 DEF IsFirst
  <2>2. j = id \/ \E i \in 1 .. n : j = s.allOf[i]
    BY <1>1, <1>8 DEF IdsIn
  <2>. QED  BY <1>2, <2>1, <2>2
<1>. QED  BY <1>4, <1>5, <1>7, <1>8

\* The example of a composed schema fits the schema and each of its parts.
LEMMA ComposedFits ==
  ASSUME NEW schemas, IsSchemas(schemas), NEW root \in DOMAIN schemas, Followed(schemas, root),
         NEW id \in Made(schemas, root), NEW w, Ahead(schemas, root, id, w),
         schemas[id].allOf # <<>>,
         NEW i \in {id} \cup IdsIn(schemas[id].allOf)
  PROVE  Fits(schemas, root, SampleOr(ViewIn(schemas)[<<id, w>>]), i)
<1>. DEFINE s == schemas[id]
            part == schemas[i]
            all == {id} \cup IdsIn(s.allOf)
            shown == Shown(schemas, id)
            view == ViewIn(schemas)[<<id, w>>]
            v == SampleOr(view)
            props == PropViews(schemas, id, w)
            items == ItemViews(schemas, id, w)
            C == ClaimsAhead(schemas, root)
<1>1. /\ id \in DOMAIN schemas /\ w \in SUBSET DOMAIN schemas /\ id \notin w
      /\ id \in Reached(schemas, {root}) /\ ~Cyclic(schemas, root)
  <2>1. id \in DOMAIN schemas /\ {id} \in SUBSET DOMAIN schemas
    BY DEF Ahead, Reached
  <2>2. id \in Reached(schemas, {id})
    BY <2>1, ReachedIsClosed
  <2>. QED  BY <2>1, <2>2 DEF Ahead, Followed
<1>2. \A j \in all :
        /\ j = id \/ Plain(schemas[j])
        /\ schemas[j].oneOf = <<>> /\ schemas[j].items = Missing /\ schemas[j].enum = <<>>
        /\ schemas[j].type \in {Missing, <<"object">>} /\ schemas[j].example = Missing
        /\ \A k \in all \ {j} : DOMAIN schemas[j].props \cap DOMAIN schemas[k].props = {}
  BY <1>1 DEF Followed
<1>3. s.allOf \in Seq(DOMAIN schemas)
  BY <1>1 DEF IsSchemas
<1>4. id \notin IdsIn(s.allOf)
  <2>1. IdsIn(s.allOf) \subseteq Reached(schemas, References(s))
    BY <1>1, InsideIsReached DEF References
  <2>. QED  BY <1>1, <2>1 DEF Cyclic
<1>5. /\ shown.example = Missing /\ shown.type \in {Missing, <<"object">>}
      /\ shown.type = Missing => \A j \in all : schemas[j].type = Missing
      /\ shown.props = MergedProps(schemas, s)
  BY <1>1, <1>2, <1>3, MergedOfObjects
<1>17. \A j \in all : \A p \in DOMAIN schemas[j].props :
         p \in DOMAIN shown.props /\ shown.props[p] = schemas[j].props[p]
  <2>1. ASSUME NEW j \in all, NEW p \in DOMAIN schemas[j].props
        PROVE  /\ p \in DOMAIN MergedProps(schemas, s)
               /\ MergedProps(schemas, s)[p] = schemas[j].props[p]
    <3>1. \A k \in all \ {j} : p \notin DOMAIN schemas[k].props
      BY <1>2
    <3>. QED  BY <1>1, <1>3, <1>4, <3>1, MergedIsOfPart
  <2>. QED  BY <1>5, <2>1
<1>6. \A p \in DOMAIN part.props : p \in DOMAIN shown.props /\ shown.props[p] = part.props[p]
  BY <1>17
<1>18. part.required \subseteq DOMAIN shown.props
  <2>1. Merged(schemas, id) = all
    BY DEF Merged
  <2>. HIDE DEF all, shown
  <2>2. \A p \in part.required : \E k \in all : p \in DOMAIN schemas[k].props
    BY <2>1, RequiredIsDeclared DEF all
  <2>. QED  BY <1>17, <2>2
<1>7. view.sample = Sample(shown, props, items) /\ view.type = TypeOf(shown)
  <2>1. view = [type |-> TypeOf(shown), recursive |-> FALSE,
                required |-> shown.required, enum |-> shown.enum,
                props |-> props, items |-> items, sample |-> Sample(shown, props, items)]
    BY <1>1, ViewOfPlace
  <2>. HIDE DEF view, props, items, shown
  <2>. QED  BY <2>1
<1>8. /\ DOMAIN props = DOMAIN shown.props
      /\ \A p \in DOMAIN shown.props : props[p] = ViewIn(schemas)[<<shown.props[p], w \cup {id}>>]
  BY DEF PropViews
<1>9. \A p \in DOMAIN shown.props : [value |-> SampleOr(props[p]), id |-> shown.props[p]] \in C
  <2>1. ASSUME NEW p \in DOMAIN shown.props PROVE shown.props[p] \in Shows(schemas, id)
    <3>1. \E j \in all : p \in DOMAIN schemas[j].props /\ shown.props[p] = schemas[j].props[p]
      BY <1>3, <1>5, MergedFrom
    <3>. QED  BY <3>1 DEF Shows, Merged, PropsOf
  <2>. QED  BY <1>1, <1>8, <2>1, ClaimInsideIsAhead DEF Followed
<1>10. \A j \in IdsIn(part.allOf) : [value |-> v, id |-> j] \in C
  <2>1. CASE i = id
    BY <2>1, ClaimIsAhead
  <2>2. CASE i # id
    BY <1>2, <2>2 DEF Plain, IdsIn
  <2>. QED  BY <2>1, <2>2
<1>11. /\ DOMAIN part.oneOf = {} /\ IdsIn(part.items) = {} /\ part.enum = <<>>
       /\ part.type \in {Missing, <<"object">>}
  BY <1>2 DEF IdsIn, Missing
<1>12. (TypeOf(shown) = "object" \/ TypeOf(shown) = "") /\ (TypeOf(shown) = "" => part.type = Missing)
  <2>1. CASE shown.type = Missing
    BY <1>5, <2>1 DEF TypeOf
  <2>2. CASE shown.type = <<"object">>
    <3>1. shown.type # Missing /\ shown.type[1] = "object"
      BY <2>2 DEF Missing
    <3>. QED  BY <3>1 DEF TypeOf
  <2>. QED  BY <1>5, <2>1, <2>2
<1>. HIDE DEF view, props, items, C, shown, all
<1>13. IsProposed(v, shown, props, items)
  BY <1>7, SampleIs
<1>14. \/ v = Null /\ TypeOf(shown) = ""
       \/ v = Object([n \in DOMAIN props |-> SampleOr(props[n])])
  BY <1>5, <1>12, <1>13 DEF IsProposed
<1>15. CASE v = Null /\ TypeOf(shown) = ""
  <2>. HIDE DEF v
  <2>1. v.kind = "null"
    BY <1>15 DEF Null
  <2>2. Conforms(v, part)
    BY <1>11, <1>12, <1>15, <2>1 DEF Conforms
  <2>3. Claims(schemas, [value |-> v, id |-> i]) \subseteq C
    BY <1>10, <1>11, <2>1, ClaimsOf
  <2>. QED  BY <2>2, <2>3 DEF Fits, v, view, C
<1>16. CASE v = Object([n \in DOMAIN props |-> SampleOr(props[n])])
  <2>. HIDE DEF v
  <2>1. /\ v.kind = "object" /\ DOMAIN v.fields = DOMAIN props
        /\ \A n \in DOMAIN props : v.fields[n] = SampleOr(props[n])
    <3>. DEFINE fields == [n \in DOMAIN props |-> SampleOr(props[n])]
    <3>1. v.kind = "object" /\ v.fields = fields
      BY <1>16 DEF Object
    <3>. QED  BY <3>1
  <2>2. Conforms(v, part)
    <3>1. part.type # Missing => part.type[1] = "object"
      BY <1>11
    <3>2. part.required \subseteq DOMAIN v.fields
      BY <1>18, <1>8, <2>1
    <3>. QED  BY <1>11, <2>1, <3>1, <3>2 DEF Conforms
  <2>3. \A p \in DOMAIN v.fields \cap DOMAIN part.props :
          [value |-> v.fields[p], id |-> part.props[p]] \in C
    BY <1>6, <1>8, <1>9, <2>1
  <2>4. Claims(schemas, [value |-> v, id |-> i]) \subseteq C
    BY <1>10, <1>11, <2>1, <2>3, ClaimsOf
  <2>. QED  BY <2>2, <2>4 DEF Fits, v, view, C
<1>. QED  BY <1>14, <1>15, <1>16 DEF v, view

\* Every claim ahead fits.
LEMMA ClaimsFit ==
  ASSUME NEW schemas, IsSchemas(schemas), NEW root \in DOMAIN schemas, Followed(schemas, root),
         NEW c \in ClaimsAhead(schemas, root)
  PROVE  /\ Conforms(c.value, schemas[c.id])
         /\ Claims(schemas, c) \subseteq ClaimsAhead(schemas, root)
<1>. DEFINE claims(q) == {[value |-> SampleOr(ViewIn(schemas)[q]), id |-> j] :
                            j \in {q[1]} \cup IdsIn(schemas[q[1]].allOf)}
<1>1. ClaimsAhead(schemas, root) = UNION {claims(q) : q \in PlacesMade(schemas, root)}
  BY DEF ClaimsAhead
<1>2. PICK p \in PlacesMade(schemas, root) : c \in claims(p)
  <2>. HIDE DEF claims
  <2>. QED  BY <1>1
<1>. DEFINE id == p[1]
            w == p[2]
<1>3. p = <<id, w>> /\ Ahead(schemas, root, id, w) /\ id \in Made(schemas, root)
  BY DEF PlacesMade, PlacesAhead
<1>4. PICK i \in {id} \cup IdsIn(schemas[id].allOf) :
             c = [value |-> SampleOr(ViewIn(schemas)[p]), id |-> i]
  BY <1>2
<1>. HIDE DEF id, w
<1>5. Fits(schemas, root, SampleOr(ViewIn(schemas)[<<id, w>>]), i)
  <2>1. CASE schemas[id].allOf # <<>>
    BY <1>3, <1>4, <2>1, ComposedFits
  <2>2. CASE schemas[id].allOf = <<>> /\ schemas[id].oneOf # <<>>
    <3>1. i = id
      BY <1>4, <2>2 DEF IdsIn
    <3>. QED  BY <1>3, <2>2, <3>1, AlternativeFits
  <2>3. CASE schemas[id].allOf = <<>> /\ schemas[id].oneOf = <<>>
    <3>1. i = id
      BY <1>4, <2>3 DEF IdsIn
    <3>. QED  BY <1>3, <2>3, <3>1, PlainFits DEF Plain
  <2>. QED  BY <2>1, <2>2, <2>3
<1>6. /\ c.value = SampleOr(ViewIn(schemas)[<<id, w>>]) /\ c.id = i
      /\ c = [value |-> SampleOr(ViewIn(schemas)[<<id, w>>]), id |-> i]
  BY <1>3, <1>4
<1>. QED  BY <1>5, <1>6 DEF Fits

\* What a claim consists of stays within any set of claims that holds all they take.
LEMMA ClaimsStay ==
  ASSUME NEW schemas, NEW X, NEW a \in X, \A c \in X : Claims(schemas, c) \subseteq X,
         NEW depth \in Nat
  PROVE  AllClaims(schemas, a, depth) \subseteq X
<1>. DEFINE next(B) == B \cup UNION {Claims(schemas, c) : c \in B}
            step == [B \in SUBSET X |-> next(B)]
            is(g) == g = [n \in 0 .. depth |-> IF n = 0 THEN {a} ELSE next(g[n - 1])]
            f == CHOOSE g : is(g)
<1>1. ASSUME NEW B \in SUBSET X PROVE next(B) \in SUBSET X
  OBVIOUS
<1>2. step \in [SUBSET X -> SUBSET X] /\ {a} \in SUBSET X
  BY <1>1
<1>. HIDE DEF next
<1>3. \E g : is(g)
  <2>1. PICK g : Chain(g, X, {a}, step, depth)
    <3>. HIDE DEF step
    <3>. QED  BY <1>2, Iterated
  <2>2. ASSUME NEW n \in 0 .. depth, n # 0 PROVE step[g[n - 1]] = next(g[n - 1])
    <3>1. n - 1 \in 0 .. depth
      BY <2>2
    <3>2. g[n - 1] \in SUBSET X
      BY <2>1, <3>1 DEF Chain
    <3>. QED  BY <3>2
  <2>. HIDE DEF step
  <2>3. ASSUME NEW n \in 0 .. depth
        PROVE  g[n] = IF n = 0 THEN {a} ELSE next(g[n - 1])
    BY <2>1, <2>2 DEF Chain
  <2>4. is(g)
    BY <2>1, <2>3 DEF Chain
  <2>. QED  BY <2>4
<1>4. is(f)
  <2>. HIDE DEF is
  <2>. QED  BY <1>3
<1>. DEFINE in == {n \in 0 .. depth : f[n] \in SUBSET X}
<1>. HIDE DEF f
<1>5. 0 \in in
  BY <1>4
<1>6. ASSUME NEW n \in 0 .. depth - 1, n \in in PROVE n + 1 \in in
  <2>1. n + 1 \in 0 .. depth /\ n + 1 # 0 /\ (n + 1) - 1 = n
    OBVIOUS
  <2>2. f[n + 1] = next(f[n])
    BY <1>4, <2>1
  <2>. QED  BY <1>1, <1>6, <2>1, <2>2
<1>7. 0 .. depth \subseteq in
  <2>. HIDE DEF in
  <2>. QED  BY <1>5, <1>6, Stepwise
<1>8. AllClaims(schemas, a, depth) = f[depth]
  BY DEF AllClaims, f, next
<1>. QED  BY <1>7, <1>8

\* An example that is proposed fits, to the last part.
LEMMA ExampleIsProposable ==
  ASSUME NEW schemas, IsSchemas(schemas), NEW id \in DOMAIN schemas
  PROVE  Proposable(schemas, id, View(schemas, id).sample)
<1>. DEFINE view == View(schemas, id)
            first == [value |-> view.sample[1], id |-> id]
            C == ClaimsAhead(schemas, id)
<1>. SUFFICES ASSUME Followed(schemas, id), view.sample # Missing,
                     NEW c \in AllClaims(schemas, first, 2 * Cardinality(DOMAIN schemas))
              PROVE  Conforms(c.value, schemas[c.id])
  BY DEF Proposable
<1>1. first \in C
  <2>1. Ahead(schemas, id, id, {})
    <3>1. {id} \in SUBSET DOMAIN schemas
      OBVIOUS
    <3>. QED  BY <3>1, ReachedIsClosed DEF Ahead
  <2>2. SampleOr(view) = view.sample[1]
    BY DEF SampleOr
  <2>3. id \in Made(schemas, id)
    BY MadeIsClosed
  <2>. QED  BY <2>1, <2>2, <2>3, ClaimIsAhead DEF View
<1>2. 2 * Cardinality(DOMAIN schemas) \in Nat
  BY FS_CardinalityType DEF IsSchemas
<1>3. \A d \in C : Conforms(d.value, schemas[d.id]) /\ Claims(schemas, d) \subseteq C
  BY ClaimsFit
<1>. HIDE DEF first, C, view
<1>4. AllClaims(schemas, first, 2 * Cardinality(DOMAIN schemas)) \subseteq C
  BY <1>1, <1>2, <1>3, ClaimsStay
<1>. QED  BY <1>3, <1>4
=============================================================================
