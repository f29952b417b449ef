-------------------------- MODULE ProductListProofs --------------------------
(***************************************************************************)
(* Proofs about ProductList, for every finite set of ids, every int and    *)
(* every page size, next to any requests, faults and crashes of            *)
(* ProductCache.                                                           *)
(***************************************************************************)
EXTENDS ProductList, ProductCacheProofs, FiniteSetTheorems

-----------------------------------------------------------------------------
(* The order of the rows: of any finite set of naturals *)

LEMMA SubsetCard ==
  ASSUME NEW S, NEW T, IsFiniteSet(S), T \subseteq S
  PROVE  IsFiniteSet(T) /\ Cardinality(T) \in Nat /\ Cardinality(S) \in Nat
         /\ Cardinality(T) <= Cardinality(S)
  BY FS_Subset, FS_CardinalityType

\* One element more is at most one more.
LEMMA OneMore ==
  ASSUME NEW S, NEW T, NEW x, IsFiniteSet(S), T \subseteq S \union {x}
  PROVE  IsFiniteSet(T) /\ Cardinality(T) \in Nat /\ Cardinality(T) <= Cardinality(S) + 1
  <1>1. Cardinality(S) \in Nat
    BY FS_CardinalityType
  <1>2. /\ IsFiniteSet(S \union {x})
        /\ Cardinality(S \union {x}) = IF x \in S THEN Cardinality(S) ELSE Cardinality(S) + 1
    BY FS_AddElement
  <1>3. /\ IsFiniteSet(T) /\ Cardinality(T) \in Nat
        /\ Cardinality(T) <= Cardinality(S \union {x})
    BY <1>2, SubsetCard
  <1>4. QED
    BY <1>1, <1>2, <1>3

LEMMA RankType ==
  ASSUME NEW S, IsFiniteSet(S), NEW k
  PROVE  Rank(S, k) \in Nat
  BY SubsetCard DEF Rank

\* A greater id stands further in front.
LEMMA RankOrder ==
  ASSUME NEW S, IsFiniteSet(S), S \subseteq Nat, NEW j \in S, NEW k \in S, j > k
  PROVE  Rank(S, j) < Rank(S, k)
  <1> DEFINE J == {i \in S : i > j}
             K == {i \in S : i > k}
  <1>1. J \union {j} \subseteq K /\ j \notin J
    <2>1. j \in Nat /\ k \in Nat
      OBVIOUS
    <2>2. \A i \in J : i \in Nat /\ i \in S /\ i > j
      OBVIOUS
    <2>3. \A i \in J : i > k
      BY <2>1, <2>2
    <2>4. ~(j > j)
      BY <2>1
    <2>5. j \notin J
      BY <2>4
    <2>6. J \subseteq K
      BY <2>2, <2>3
    <2>7. QED
      BY <2>5, <2>6
  <1>2. IsFiniteSet(J) /\ IsFiniteSet(K)
    BY SubsetCard
  <1>3. Cardinality(J \union {j}) = Cardinality(J) + 1
    BY <1>1, <1>2, FS_AddElement
  <1>4. Cardinality(J \union {j}) <= Cardinality(K) /\ Cardinality(J) \in Nat /\ Cardinality(K) \in Nat
    BY <1>1, <1>2, SubsetCard
  <1>5. QED
    BY <1>3, <1>4 DEF Rank

\* Every row stands at one of as many places as there are rows.
LEMMA RankBound ==
  ASSUME NEW S, IsFiniteSet(S), S \subseteq Nat, NEW k \in S
  PROVE  Rank(S, k) < Cardinality(S)
  <1> DEFINE K == {i \in S : i > k}
  <1>1. K \union {k} \subseteq S /\ k \notin K
    OBVIOUS
  <1>2. IsFiniteSet(K)
    BY SubsetCard
  <1>3. Cardinality(K \union {k}) = Cardinality(K) + 1
    BY <1>1, <1>2, FS_AddElement
  <1>4. Cardinality(K \union {k}) <= Cardinality(S) /\ Cardinality(K) \in Nat /\ Cardinality(S) \in Nat
    BY <1>1, <1>2, SubsetCard
  <1>5. QED
    BY <1>3, <1>4 DEF Rank

LEMMA RankInjective ==
  ASSUME NEW S, IsFiniteSet(S), S \subseteq Nat, NEW j \in S, NEW k \in S, j # k
  PROVE  Rank(S, j) # Rank(S, k)
  <1>1. j \in Nat /\ k \in Nat
    OBVIOUS
  <1>2. Rank(S, j) \in Nat /\ Rank(S, k) \in Nat
    BY RankType
  <1>3. CASE j > k
    <2>1. Rank(S, j) < Rank(S, k)
      BY <1>3, RankOrder
    <2>2. QED
      BY <1>2, <2>1
  <1>4. CASE k > j
    <2>1. Rank(S, k) < Rank(S, j)
      BY <1>4, RankOrder
    <2>2. QED
      BY <1>2, <2>1
  <1>5. QED
    BY <1>1, <1>3, <1>4

\* The ranks are 0 .. Cardinality(S) - 1, each once.
LEMMA RankSurjective ==
  ASSUME NEW S, IsFiniteSet(S), S \subseteq Nat, NEW n \in Nat, n < Cardinality(S)
  PROVE  \E k \in S : Rank(S, k) = n
  <1> DEFINE f == [k \in S |-> Rank(S, k)]
             T == 0 .. Cardinality(S) - 1
  <1>1. Cardinality(S) \in Nat
    BY FS_CardinalityType
  <1>2. IsFiniteSet(T) /\ Cardinality(T) = Cardinality(S)
    <2> DEFINE c == Cardinality(S) - 1
    <2>1. c \in Int /\ 0 \in Int /\ (IF 0 > c THEN 0 ELSE c - 0 + 1) = Cardinality(S)
      BY <1>1
    <2> HIDE DEF c
    <2>2. IsFiniteSet(0..c) /\ Cardinality(0..c) = IF 0 > c THEN 0 ELSE c - 0 + 1
      BY <2>1, FS_Interval
    <2>3. QED
      BY <2>1, <2>2 DEF c
  <1>3. f \in Injection(S, T)
    <2>1. \A k \in S : Rank(S, k) \in T
      <3> SUFFICES ASSUME NEW k \in S PROVE Rank(S, k) \in T
        OBVIOUS
      <3>1. Rank(S, k) \in Nat /\ Rank(S, k) < Cardinality(S)
        BY RankType, RankBound
      <3>2. QED
        BY <1>1, <3>1
    <2>2. f \in [S -> T]
      BY <2>1
    <2>3. \A j, k \in S : f[j] = f[k] => j = k
      BY RankInjective
    <2>4. QED
      BY <2>2, <2>3 DEF Injection, IsInjective
  <1>4. f \in Surjection(S, T)
    BY <1>2, <1>3, FS_Injection
  <1>5. n \in T
    BY <1>1
  <1>6. PICK k \in S : f[k] = n
    BY <1>4, <1>5 DEF Surjection
  <1>7. QED
    BY <1>6

\* A page cannot have more rows than its limit, nor fewer than there are.
LEMMA FirstRowsCard ==
  ASSUME NEW S, IsFiniteSet(S), S \subseteq Nat, NEW n \in Nat
  PROVE  /\ IsFiniteSet(FirstRows(S, n)) /\ FirstRows(S, n) \subseteq S
         /\ Cardinality(FirstRows(S, n)) = Min2(n, Cardinality(S))
         /\ Cardinality(S) <= n => FirstRows(S, n) = S
  <1> DEFINE F == FirstRows(S, n)
  <1>1. F \subseteq S /\ IsFiniteSet(F) /\ Cardinality(S) \in Nat
    BY SubsetCard, FS_CardinalityType DEF FirstRows
  <1>2. Cardinality(S) <= n => F = S
    <2>1. ASSUME Cardinality(S) <= n, NEW k \in S PROVE k \in F
      <3>1. Rank(S, k) \in Nat /\ Rank(S, k) < Cardinality(S)
        BY RankType, RankBound
      <3>2. QED
        BY <1>1, <2>1, <3>1 DEF FirstRows
    <2>2. QED
      BY <1>1, <2>1
  <1>3. CASE n < Cardinality(S)
    <2> DEFINE f == [k \in F |-> Rank(S, k)]
               T == 0 .. n - 1
    <2>1. IsFiniteSet(T) /\ Cardinality(T) = n
      BY FS_Interval
    <2>2. \A k \in F : Rank(S, k) \in T
      BY RankType DEF FirstRows
    <2>3. f \in [F -> T]
      BY <2>2
    <2>4. \A j, k \in F : f[j] = f[k] => j = k
      BY <1>1, RankInjective
    <2>5. \A i \in T : \E k \in F : f[k] = i
      <3> SUFFICES ASSUME NEW i \in T PROVE \E k \in F : f[k] = i
        OBVIOUS
      <3>1. i \in Nat /\ i < Cardinality(S) /\ i < n
        BY <1>1, <1>3
      <3>2. PICK k \in S : Rank(S, k) = i
        BY <3>1, RankSurjective
      <3>3. QED
        BY <3>1, <3>2 DEF FirstRows
    <2>6. f \in Bijection(F, T)
      BY <2>3, <2>4, <2>5 DEF Bijection, Injection, Surjection, IsInjective
    <2>7. Cardinality(T) = Cardinality(F)
      BY <1>1, <2>6, FS_Bijection DEF ExistsBijection
    <2>8. QED
      BY <1>1, <1>2, <1>3, <2>1, <2>7 DEF Min2
  <1>4. CASE ~(n < Cardinality(S))
    BY <1>1, <1>2, <1>4 DEF Min2
  <1>5. QED
    BY <1>3, <1>4

\* Fewer rows asked for are among more rows asked for.
LEMMA FirstRowsGrow ==
  ASSUME NEW S, IsFiniteSet(S), NEW m \in Nat, NEW n \in Nat, m <= n
  PROVE  FirstRows(S, m) \subseteq FirstRows(S, n)
  BY RankType DEF FirstRows

\* A row that is deleted lets at most one other into the first n, and only if it was
\* one of them; read backwards, a row that is inserted pushes at most one out.
LEMMA FirstRowsWithout ==
  ASSUME NEW S, IsFiniteSet(S), S \subseteq Nat, NEW x \in S, NEW n \in Nat
  PROVE  /\ FirstRows(S, n) \ {x} \subseteq FirstRows(S \ {x}, n)
         /\ x \notin FirstRows(S, n) => FirstRows(S \ {x}, n) = FirstRows(S, n)
         /\ \E y : FirstRows(S \ {x}, n) \subseteq FirstRows(S, n) \union {y}
  <1> DEFINE T == S \ {x}
  <1>1. IsFiniteSet(T) /\ T \subseteq Nat
    BY SubsetCard
  <1>2. \A k \in T : Rank(T, k) = IF x > k THEN Rank(S, k) - 1 ELSE Rank(S, k)
    <2> SUFFICES ASSUME NEW k \in T
                 PROVE  Rank(T, k) = IF x > k THEN Rank(S, k) - 1 ELSE Rank(S, k)
      OBVIOUS
    <2> DEFINE K == {i \in S : i > k}
    <2>1. {i \in T : i > k} = K \ {x}
      OBVIOUS
    <2>2. IsFiniteSet(K) /\ Cardinality(K) \in Nat
      BY SubsetCard
    <2>3. Cardinality(K \ {x}) = IF x \in K THEN Cardinality(K) - 1 ELSE Cardinality(K)
      BY <2>2, FS_RemoveElement
    <2>4. x \in K <=> x > k
      OBVIOUS
    <2>5. QED
      BY <2>1, <2>3, <2>4 DEF Rank
  <1>3. \A k \in S : Rank(S, k) \in Nat /\ Rank(T, k) \in Nat
    BY <1>1, RankType
  <1>4. FirstRows(S, n) \ {x} \subseteq FirstRows(T, n)
    <2> SUFFICES ASSUME NEW k \in FirstRows(S, n), k # x PROVE k \in FirstRows(T, n)
      OBVIOUS
    <2>1. k \in S /\ k \in T /\ Rank(S, k) < n
      BY DEF FirstRows
    <2>2. Rank(T, k) <= Rank(S, k) /\ Rank(S, k) \in Nat /\ Rank(T, k) \in Nat
      BY <1>2, <1>3, <2>1
    <2>3. QED
      BY <2>1, <2>2 DEF FirstRows
  <1>5. ASSUME x \notin FirstRows(S, n) PROVE FirstRows(T, n) = FirstRows(S, n)
    <2>1. Rank(S, x) >= n
      BY <1>3, <1>5 DEF FirstRows
    <2>2. ASSUME NEW k \in FirstRows(T, n) PROVE k \in FirstRows(S, n)
      <3>1. k \in T /\ Rank(T, k) < n
        BY <2>2 DEF FirstRows
      <3>2. x > k => Rank(S, x) < Rank(S, k)
        BY <3>1, RankOrder
      <3>3. ~(x > k)
        BY <1>2, <1>3, <2>1, <3>1, <3>2
      <3>4. QED
        BY <1>2, <3>1, <3>3 DEF FirstRows
    <2>3. QED
      BY <1>4, <1>5, <2>2
  <1>6. \E y : FirstRows(T, n) \subseteq FirstRows(S, n) \union {y}
    <2>1. \A k \in FirstRows(T, n) \ FirstRows(S, n) : k \in S /\ Rank(S, k) = n
      BY <1>2, <1>3 DEF FirstRows
    <2>2. CASE FirstRows(T, n) \subseteq FirstRows(S, n)
      BY <2>2
    <2>3. CASE ~(FirstRows(T, n) \subseteq FirstRows(S, n))
      <3>1. PICK y \in FirstRows(T, n) : y \notin FirstRows(S, n)
        BY <2>3
      <3>2. \A k \in FirstRows(T, n) \ FirstRows(S, n) : k = y
        BY <2>1, <3>1, RankInjective
      <3>3. QED
        BY <3>1, <3>2
    <2>4. QED
      BY <2>2, <2>3
  <1>7. QED
    BY <1>4, <1>5, <1>6

-----------------------------------------------------------------------------
(* The live rows, and a page of them *)

LEMMA IdSets ==
  ASSUME NEW S, S \subseteq Id
  PROVE  /\ S \subseteq Nat /\ IsFiniteSet(S) /\ Cardinality(S) \in Nat
         /\ Cardinality(S) <= Cardinality(Id) /\ Cardinality(S) <= MaxInt
  <1>1. IsFiniteSet(S) /\ Cardinality(S) \in Nat /\ Cardinality(Id) \in Nat
        /\ Cardinality(S) <= Cardinality(Id)
    BY IdAssumption, SubsetCard
  <1>2. QED
    BY <1>1, IdAssumption, SizeAssumption

\* A step writes at most one row.
LEMMA OneRowWritten ==
  ASSUME TypeOK, [Next]_vars
  PROVE  db' = db \/ \E x \in Id : \A k \in Id \ {x} : db'[k] = db[k]
  <1> USE DEF Key
  <1>1. CASE UNCHANGED vars
    BY <1>1 DEF vars
  <1>2. ASSUME NEW r \in Req, Start(r) \/ Disconnect(r) \/ Resend(r) PROVE db' = db
    BY <1>2 DEF Start, Submit, Disconnect, Resend
  <1>3. ASSUME NEW r \in Req, CacheGet(r) \/ Join(r) \/ Recheck(r) \/ Load(r) \/ Fill(r)
                              \/ Finish(r) \/ AfterRead(r) \/ Bind(r) \/ Invalidate(r)
        PROVE  db' = db
    BY <1>3 DEF CacheGet, Join, Recheck, Lookup, Load, Query, Fill, Finish, AfterRead, Bind,
                Invalidate
  <1>4. ASSUME NEW r \in Req, Insert(r) \/ Save(r) \/ SoftDelete(r)
        PROVE  db' = db \/ \E x \in Id : \A k \in Id \ {x} : db'[k] = db[k]
    <2>1. job[r].id \in Id /\ db \in [Id -> Row]
      BY DEF TypeOK, Job
    <2>2. ASSUME NEW row, NEW ans, Write(r, row, ans)
          PROVE  db' = db \/ db' = [db EXCEPT ![job[r].id] = row]
      BY <2>2 DEF Write
    <2>3. db' = db \/ \E row : db' = [db EXCEPT ![job[r].id] = row]
      BY <1>4, <2>2 DEF Insert, Save, SoftDelete
    <2>4. CASE db' = db
      BY <2>4
    <2>5. CASE \E row : db' = [db EXCEPT ![job[r].id] = row]
      <3>1. PICK row : db' = [db EXCEPT ![job[r].id] = row]
        BY <2>5
      <3>2. \A k \in Id \ {job[r].id} : db'[k] = db[k]
        BY <2>1, <3>1
      <3>3. QED
        BY <2>1, <3>2
    <2>6. QED
      BY <2>3, <2>4, <2>5
  <1>5. ASSUME NEW k \in Id, Expire(k) PROVE db' = db
    BY <1>5 DEF Expire
  <1>6. ASSUME Arrive \/ \E s \in Server : Crash(s) PROVE db' = db
    BY <1>6 DEF Arrive, Crash
  <1>7. QED
    BY <1>1, <1>2, <1>3, <1>4, <1>5, <1>6 DEF Next, Serve

\* So a step lets at most one row appear or vanish.
LEMMA OneRow ==
  ASSUME TypeOK, [Next]_vars
  PROVE  \/ Live' = Live
         \/ \E x \in Id : x \notin Live /\ Live' = Live \union {x}
         \/ \E x \in Id : x \in Live /\ Live' = Live \ {x}
  <1>1. CASE db' = db
    BY <1>1 DEF Live, View
  <1>2. CASE \E x \in Id : \A k \in Id \ {x} : db'[k] = db[k]
    <2>1. PICK x \in Id : \A k \in Id \ {x} : db'[k] = db[k]
      BY <1>2
    <2>2. \A k \in Id \ {x} : k \in Live' <=> k \in Live
      BY <2>1 DEF Live, View
    <2>3. Live \subseteq Id /\ Live' \subseteq Id
      BY DEF Live
    <2>4. Live' = Live \/ (x \notin Live /\ Live' = Live \union {x})
                       \/ (x \in Live /\ Live' = Live \ {x})
      BY <2>2, <2>3
    <2>5. QED
      BY <2>4
  <1>3. QED
    BY <1>1, <1>2, OneRowWritten

\* The rows after the first skip ones, as many as size.
Page(S, skip, size) == FirstRows(S, skip + size) \ FirstRows(S, skip)

LEMMA PageCard ==
  ASSUME NEW S, S \subseteq Id, NEW skip \in Nat, NEW size \in Nat
  PROVE  /\ Page(S, skip, size) \subseteq S /\ IsFiniteSet(Page(S, skip, size))
         /\ Cardinality(Page(S, skip, size)) \in Nat
         /\ Cardinality(Page(S, skip, size))
              = Min2(skip + size, Cardinality(S)) - Min2(skip, Cardinality(S))
         /\ FirstRows(S, skip + size) = FirstRows(S, skip) \union Page(S, skip, size)
  <1> DEFINE A == FirstRows(S, skip)
             B == FirstRows(S, skip + size)
  <1>1. IsFiniteSet(S) /\ S \subseteq Nat /\ skip + size \in Nat /\ skip <= skip + size
    BY IdSets
  <1>2. A \subseteq B
    BY <1>1, FirstRowsGrow
  <1>3. /\ IsFiniteSet(A) /\ Cardinality(A) = Min2(skip, Cardinality(S))
        /\ IsFiniteSet(B) /\ Cardinality(B) = Min2(skip + size, Cardinality(S)) /\ B \subseteq S
    BY <1>1, FirstRowsCard
  <1>4. IsFiniteSet(B \ A) /\ Cardinality(B \ A) = Cardinality(B) - Cardinality(B \intersect A)
    BY <1>3, FS_Difference
  <1>5. B \intersect A = A
    BY <1>2
  <1>6. Cardinality(B \ A) \in Nat
    BY <1>4, FS_CardinalityType
  <1>7. QED
    BY <1>2, <1>3, <1>4, <1>5, <1>6 DEF Page

LEMMA WrappedType == ASSUME NEW n \in Int PROVE Wrapped(n) \in Int
  BY SizeAssumption DEF Wrapped

\* An offset that fits an int is the offset.
LEMMA WrappedFits == ASSUME NEW n \in 0..MaxInt PROVE Wrapped(n) = n
  <1> DEFINE m == 2 * (MaxInt + 1)
             a == n + MaxInt + 1
  <1>1. MaxInt \in Nat /\ m \in Nat /\ a \in Nat /\ 0 <= a /\ a < m
    BY SizeAssumption
  <1>2. \A b \in Nat, c \in Nat : b < c => b % c = b
    OBVIOUS
  <1>3. a % m = a
    BY <1>1, <1>2
  <1>4. QED
    BY <1>1, <1>3 DEF Wrapped

\* Every page is a page of the live rows, and one whose offset fits an int is the one
\* the query means.
LEMMA PageRowsArePage ==
  ASSUME NEW q \in [page : 1..MaxInt, size : 1..MaxSize]
  PROVE  /\ \E skip \in Nat : PageRows(q) = Page(Live, skip, q.size)
         /\ (q.page - 1) * q.size \in Nat
         /\ (q.page - 1) * q.size <= MaxInt => PageRows(q) = Page(Live, (q.page - 1) * q.size, q.size)
  <1>1. MaxInt \in Nat /\ MaxSize \in Nat /\ q.page \in Nat /\ q.page >= 1 /\ q.size \in Nat
    BY SizeAssumption
  <1>2. q.page - 1 \in Nat
    BY <1>1
  <1>3. (q.page - 1) * q.size \in Nat
    BY <1>1, <1>2
  <1> DEFINE n == (q.page - 1) * q.size
             skip == IF Wrapped(n) > 0 THEN Wrapped(n) ELSE 0
  <1>4. PageRows(q) = Page(Live, skip, q.size)
    BY DEF PageRows, Page, Offset
  <1>5. n \in Nat
    BY <1>3
  <1> HIDE DEF n
  <1>6. Wrapped(n) \in Int
    BY <1>5, WrappedType
  <1>7. skip \in Nat
    BY <1>6
  <1>8. ASSUME n <= MaxInt PROVE skip = n
    <2>1. n \in 0..MaxInt
      BY <1>1, <1>5, <1>8
    <2>2. Wrapped(n) = n
      BY <2>1, WrappedFits
    <2>3. QED
      BY <1>5, <2>2
  <1> HIDE DEF skip
  <1>9. n <= MaxInt => PageRows(q) = Page(Live, n, q.size)
    BY <1>4, <1>8
  <1>10. QED
    BY <1>3, <1>4, <1>7, <1>9 DEF n
-----------------------------------------------------------------------------
(* Types *)

ListTyping == Typing /\ ListTypeOK

\* The history of a walk.
Walks == [next : Nat, size : Nat, shown : Nat, seen : SUBSET Id, stay : SUBSET Id,
          removed : Nat, added : Nat]

\* A list request changes nothing of ProductCache.
LEMMA ListStep ==
  ASSUME [ListNext]_<<vars, listVars>>
  PROVE  /\ [Next]_vars
         /\ \/ UNCHANGED <<vars, listVars>>
            \/ \E page \in RawPage, size \in RawSize : Ask(page, size)
            \/ Count \/ Find \/ ListFails \/ Others
  BY DEF ListNext, Ask, Count, Find, ListFails, Others

\* The list changes nothing of ProductCache, whose theorems hold with it as well.
THEOREM ListChangesNothing == ListSpec => Spec
  <1>1. ListInit => Init
    BY DEF ListInit
  <1>2. [ListNext]_<<vars, listVars>> => [Next]_vars
    BY ListStep
  <1>3. QED
    BY <1>1, <1>2, PTL DEF ListSpec, Spec

LEMMA QueryType ==
  ASSUME NEW page \in RawPage, NEW size \in RawSize
  PROVE  PageOf(page) \in 1..MaxInt /\ SizeOf(size) \in 1..MaxSize
  <1>1. page \in Int /\ size \in Int /\ MaxInt \in Nat /\ MaxInt >= 1
    BY RawAssumption, SizeAssumption
  <1>2. Atoi(page) \in Int /\ Atoi(page) <= MaxInt
    BY <1>1 DEF Atoi
  <1>3. PageOf(page) \in 1..MaxInt
    BY <1>1, <1>2 DEF PageOf
  <1>4. SizeOf(size) \in 1..MaxSize
    BY SizeAssumption DEF SizeOf
  <1>5. QED
    BY <1>3, <1>4

LEMMA SendType ==
  ASSUME walk \in Walks, NEW ids, ids \subseteq Id, Send(ids)
  PROVE  /\ walk' \in Walks
         /\ ~Walking => walk' = walk
         /\ Walking => /\ walk'.next = walk.next + 1 /\ walk'.size = walk.size
                       /\ walk'.shown = walk.shown + Cardinality(ids)
                       /\ walk'.seen = walk.seen \union ids
                       /\ walk'.stay = walk.stay
                       /\ walk'.removed = walk.removed /\ walk'.added = walk.added
  <1>1. Cardinality(ids) \in Nat
    BY IdSets
  <1>2. CASE Walking
    <2>1. walk' = [walk EXCEPT !.next = @ + 1, !.shown = @ + Cardinality(ids), !.seen = @ \union ids]
      BY <1>2 DEF Send
    <2>2. walk.next + 1 \in Nat /\ walk.shown + Cardinality(ids) \in Nat
          /\ walk.seen \union ids \in SUBSET Id
      BY <1>1 DEF Walks
    <2>3. walk' \in Walks
      BY <2>1, <2>2 DEF Walks
    <2>4. QED
      BY <1>2, <2>1, <2>3 DEF Walks
  <1>3. CASE ~Walking
    BY <1>3 DEF Send
  <1>4. QED
    BY <1>2, <1>3

\* What the others do to a walk that goes on, and to any other.
LEMMA OthersType ==
  ASSUME walk \in Walks, moved \in Nat, Others
  PROVE  /\ walk' \in Walks /\ moved' \in Nat
         /\ (~Walking \/ WalkOver) => walk' = walk
         /\ (Walking /\ ~WalkOver) =>
              /\ walk'.next = walk.next /\ walk'.size = walk.size
              /\ walk'.shown = walk.shown /\ walk'.seen = walk.seen
              /\ walk'.stay = walk.stay \ (Live \ Live')
              /\ walk'.removed = walk.removed + Cardinality(Live \ Live')
              /\ walk'.added = walk.added + Cardinality(Live' \ Live)
  <1> DEFINE gained == Live' \ Live
             lost   == Live \ Live'
  <1>1. Live \subseteq Id /\ Live' \subseteq Id
    BY DEF Live
  <1>2. /\ Cardinality(gained) \in Nat /\ Cardinality(lost) \in Nat
        /\ Cardinality(gained \union lost) \in Nat
    BY <1>1, IdSets
  <1>3. moved' \in Nat
    BY <1>2 DEF Others
  <1>4. CASE ~Walking \/ WalkOver
    BY <1>3, <1>4 DEF Others, WalkOver
  <1>5. CASE Walking /\ ~WalkOver
    <2>1. walk' = [walk EXCEPT !.stay = @ \ lost,
                               !.removed = @ + Cardinality(lost),
                               !.added = @ + Cardinality(gained)]
      BY <1>5 DEF Others
    <2>2. walk.removed + Cardinality(lost) \in Nat /\ walk.added + Cardinality(gained) \in Nat
          /\ walk.stay \ lost \in SUBSET Id
      BY <1>2 DEF Walks
    <2>3. walk' \in Walks
      BY <2>1, <2>2 DEF Walks
    <2>4. QED
      BY <1>3, <1>5, <2>1, <2>3 DEF Walks
  <1>6. QED
    BY <1>4, <1>5

LEMMA ListKeeps ==
  ASSUME ListTypeOK, query' = query, rows' = rows,
         at' \in {"idle", "count", "find", "done", "failed"},
         total' \in 0..Cardinality(Id), moved' \in Nat, walk' \in Walks
  PROVE  ListTypeOK'
  <1>1. query' \in [page : 1..MaxInt, size : 1..MaxSize]
    BY DEF ListTypeOK
  <1>2. Cardinality(rows') <= query'.size
    BY DEF ListTypeOK
  <1>3. rows' \subseteq Id
    BY DEF ListTypeOK
  <1>4. QED
    BY <1>1, <1>2, <1>3 DEF ListTypeOK, Walks

LEMMA SendKeeps ==
  ASSUME ListTypeOK, NEW ids, ids \subseteq Id, Cardinality(ids) <= query.size, Send(ids),
         total' \in 0..Cardinality(Id), query' = query, moved' = moved
  PROVE  ListTypeOK'
  <1>1. query' \in [page : 1..MaxInt, size : 1..MaxSize] /\ moved' \in Nat
    BY DEF ListTypeOK
  <1>2. Cardinality(rows') <= query'.size
    BY DEF Send
  <1>3. walk' \in Walks
    BY SendType DEF ListTypeOK, Walks
  <1>4. rows' \subseteq Id /\ at' = "done"
    BY DEF Send
  <1>5. QED
    BY <1>1, <1>2, <1>3, <1>4 DEF ListTypeOK, Walks

LEMMA ListTypingInit == ListInit => ListTyping
  <1> SUFFICES ASSUME ListInit PROVE ListTyping
    OBVIOUS
  <1>1. Typing
    BY TypingInit DEF ListInit
  <1>2. Cardinality({}) = 0 /\ Cardinality(Id) \in Nat
    BY FS_EmptySet, IdSets
  <1>3. query \in [page : 1..MaxInt, size : 1..MaxSize] /\ query.size = DefaultSize
    BY SizeAssumption DEF ListInit
  <1>4. NoWalk \in Walks
    BY DEF NoWalk, Walks
  <1>5. Cardinality(rows) <= query.size
    BY <1>2, <1>3, SizeAssumption DEF ListInit
  <1>6. QED
    BY <1>1, <1>2, <1>3, <1>4, <1>5 DEF ListInit, ListTyping, ListTypeOK, Walks

LEMMA ListTypingNext ==
  ListTyping /\ [ListNext]_<<vars, listVars>> => ListTyping'
  <1> SUFFICES ASSUME ListTyping, [ListNext]_<<vars, listVars>> PROVE ListTyping'
    OBVIOUS
  <1>1. Typing'
    BY ListStep, TypingNext DEF ListTyping
  <1> SUFFICES ListTypeOK'
    BY <1>1 DEF ListTyping
  <1>0. ListTypeOK
    BY DEF ListTyping
  <1>2. /\ at \in {"idle", "count", "find", "done", "failed"}
        /\ query \in [page : 1..MaxInt, size : 1..MaxSize]
        /\ total \in 0..Cardinality(Id) /\ rows \subseteq Id
        /\ Cardinality(rows) <= query.size /\ moved \in Nat /\ walk \in Walks
    BY DEF ListTyping, ListTypeOK, Walks
  <1>3. Live \subseteq Id /\ Cardinality(Live) \in 0..Cardinality(Id)
    BY IdSets DEF Live
  <1>4. Cardinality({}) = 0 /\ Cardinality(Id) \in Nat
    BY FS_EmptySet, IdSets
  <1>5. CASE UNCHANGED <<vars, listVars>>
    <2>8. /\ query' = query /\ rows' = rows /\ at' \in {"idle", "count", "find", "done", "failed"}
          /\ total' \in 0..Cardinality(Id) /\ moved' \in Nat /\ walk' \in Walks
      BY <1>2, <1>5 DEF listVars
    <2>9. QED
      BY <1>0, <2>8, ListKeeps
  <1>6. ASSUME NEW page \in RawPage, NEW size \in RawSize, Ask(page, size) PROVE ListTypeOK'
    <2>1. query' \in [page : 1..MaxInt, size : 1..MaxSize]
      BY <1>6, QueryType DEF Ask
    <2>2. SizeOf(size) \in Nat
      BY QueryType, SizeAssumption
    <2>3. WalkOn(PageOf(page), SizeOf(size)) \in Walks
      BY <1>2, <1>3, <2>2 DEF WalkOn, NoWalk, Walks
    <2>4. Cardinality(rows') <= query'.size
      BY <1>4, <2>2, <1>6, QueryType, SizeAssumption DEF Ask
    <2>5. QED
      BY <1>4, <1>6, <2>1, <2>3, <2>4 DEF Ask, ListTypeOK, Walks
  <1>7. CASE Count
    <2>1. total' \in 0..Cardinality(Id)
      BY <1>3, <1>7 DEF Count, CountRows
    <2>2. CASE Send({})
      <3>1. Cardinality({}) <= query.size
        BY <1>2, <1>4, SizeAssumption
      <3>2. query' = query /\ moved' = moved
        BY <1>7 DEF Count
      <3>3. QED
        BY <1>0, <2>1, <2>2, <3>1, <3>2, SendKeeps
    <2>3. CASE at' = "find" /\ UNCHANGED <<rows, walk>>
      <3>8. /\ query' = query /\ rows' = rows /\ at' \in {"idle", "count", "find", "done", "failed"}
            /\ total' \in 0..Cardinality(Id) /\ moved' \in Nat /\ walk' \in Walks
        BY <1>2, <1>7, <2>1, <2>3 DEF Count
      <3>9. QED
        BY <1>0, <3>8, ListKeeps
    <2>4. QED
      BY <1>7, <2>2, <2>3 DEF Count
  <1>8. CASE Find
    <2>1. PICK skip \in Nat : PageRows(query) = Page(Live, skip, query.size)
      BY <1>2, PageRowsArePage
    <2>2. query.size \in Nat
      BY <1>2, SizeAssumption
    <2> DEFINE P == Page(Live, skip, query.size)
    <2>3. /\ P \subseteq Live /\ Cardinality(P) \in Nat
          /\ Cardinality(P) = Min2(skip + query.size, Cardinality(Live)) - Min2(skip, Cardinality(Live))
      BY <1>3, <2>2, PageCard
    <2> HIDE DEF P
    <2>4. Cardinality(P) <= query.size
      BY <1>3, <1>4, <2>2, <2>3 DEF Min2
    <2>5. Send(P) /\ query' = query /\ moved' = moved /\ total' = total
      BY <1>8, <2>1 DEF Find, P
    <2>6. P \subseteq Id /\ total' \in 0..Cardinality(Id)
      BY <1>2, <1>3, <2>3, <2>5
    <2>7. QED
      BY <1>0, <2>4, <2>5, <2>6, SendKeeps
  <1>9. CASE ListFails
    <2>8. /\ query' = query /\ rows' = rows /\ at' \in {"idle", "count", "find", "done", "failed"}
          /\ total' \in 0..Cardinality(Id) /\ moved' \in Nat /\ walk' \in Walks
      BY <1>2, <1>4, <1>9 DEF ListFails
    <2>9. QED
      BY <1>0, <2>8, ListKeeps
  <1>10. CASE Others
    <2>1. walk' \in Walks /\ moved' \in Nat
      BY <1>2, <1>10, OthersType
    <2>8. /\ query' = query /\ rows' = rows /\ at' \in {"idle", "count", "find", "done", "failed"}
          /\ total' \in 0..Cardinality(Id) /\ moved' \in Nat /\ walk' \in Walks
      BY <1>2, <1>10, <2>1 DEF Others
    <2>9. QED
      BY <1>0, <2>8, ListKeeps
  <1>11. \/ UNCHANGED <<vars, listVars>>
         \/ \E page \in RawPage, size \in RawSize : Ask(page, size)
         \/ Count \/ Find \/ ListFails \/ Others
    BY ListStep
  <1>12. QED
    BY <1>5, <1>6, <1>7, <1>8, <1>9, <1>10, <1>11

\* The state of the list request is always of its type: a page is never longer than its
\* size, whatever page is asked for and whatever the offset overflows to.
THEOREM ListTypeCorrect == ListSpec => []ListTypeOK
  <1>1. ListTyping => ListTypeOK
    BY DEF ListTyping
  <1>2. QED
    BY ListTypingInit, ListTypingNext, <1>1, PTL DEF ListSpec
-----------------------------------------------------------------------------
(* A walk through the pages *)

\* How many rows a walk has gone past, and the rows that stand there now.
Due    == (walk.next - 1) * walk.size
Behind == FirstRows(Live, Due)

\* The request in progress is the page that is due.
WalkPage ==
  Walking =>
    /\ walk.next \in Nat \ {0} /\ walk.size \in 1..MaxSize
    /\ at \in {"count", "find"} => query.page = walk.next /\ query.size = walk.size
    /\ at = "done" => query.size = walk.size

\* While the walk goes on: a row that was always there and is behind the walk unseen was
\* let there by a deletion, and a row seen that is still to come was pushed there by an
\* insertion, as was every repetition so far.
WalkGoesOn ==
  Walking /\ ~WalkOver =>
    /\ walk.stay \subseteq Live
    /\ Due <= MaxInt
    /\ Cardinality((walk.stay \ walk.seen) \intersect Behind) <= walk.removed
    /\ walk.shown - Cardinality(walk.seen) + Cardinality((walk.seen \intersect Live) \ Behind)
         <= walk.added

WalkInv == WalkPage /\ WalkGoesOn /\ WalkShowsTheList

LEMMA LiveIds == Live \subseteq Id /\ Live' \subseteq Id
  BY DEF Live

LEMMA NoRowsFirst == ASSUME NEW S, S \subseteq Id PROVE FirstRows(S, 0) = {}
  <1>1. \A k \in S : Rank(S, k) \in Nat
    BY IdSets, RankType
  <1>2. QED
    BY <1>1 DEF FirstRows

LEMMA WalkInit == ListInit => WalkInv
  <1>1. Cardinality({}) = 0
    BY FS_EmptySet
  <1>2. QED
    BY <1>1 DEF ListInit, NoWalk, WalkInv, WalkPage, WalkGoesOn, WalkShowsTheList, WalkOver, Walking

\* The request goes on to its second statement, or fails.
LEMMA WalkWaits ==
  ASSUME WalkInv, at \in {"count", "find"}, at' \in {"find", "failed"},
         db' = db, query' = query, walk' = walk
  PROVE  WalkInv'
  <1>1. Live' = Live
    BY DEF Live, View
  <1>2. Walking' = Walking /\ ~WalkOver /\ ~WalkOver'
    BY DEF Walking, WalkOver
  <1>3. WalkPage'
    BY <1>2 DEF WalkInv, WalkPage
  <1>4. WalkGoesOn'
    BY <1>1, <1>2 DEF WalkInv, WalkGoesOn, Behind, Due
  <1>5. WalkShowsTheList'
    BY <1>2 DEF WalkInv, WalkShowsTheList
  <1>6. QED
    BY <1>3, <1>4, <1>5 DEF WalkInv

LEMMA WalkAsk ==
  ASSUME ListTyping, WalkInv, NEW page \in RawPage, NEW size \in RawSize, Ask(page, size)
  PROVE  WalkInv'
  <1> DEFINE p == PageOf(page)
             z == SizeOf(size)
  <1>1. p \in Nat /\ p >= 1 /\ z \in 1..MaxSize /\ MaxInt \in Nat
    BY QueryType, SizeAssumption
  <1>2. /\ at' = "count" /\ query' = [page |-> p, size |-> z] /\ walk' = WalkOn(p, z)
        /\ Live' = Live
    BY DEF Ask, vars, Live, View
  <1> HIDE DEF p, z
  <1>3. query'.page = p /\ query'.size = z /\ ~WalkOver'
    BY <1>2 DEF WalkOver
  <1>4. Cardinality({}) = 0
    BY FS_EmptySet
  <1>5. CASE p = 1
    <2>1. walk' = [next |-> 1, size |-> z, shown |-> 0, seen |-> {}, stay |-> Live,
                   removed |-> 0, added |-> 0]
      BY <1>2, <1>5 DEF WalkOn, NoWalk
    <2>2. /\ walk'.next = 1 /\ walk'.size = z /\ walk'.shown = 0 /\ walk'.seen = {}
          /\ walk'.stay = Live /\ walk'.removed = 0 /\ walk'.added = 0
      BY <2>1
    <2>3. WalkPage'
      BY <1>1, <1>2, <1>3, <1>5, <2>2 DEF WalkPage, Walking
    <2>4. Due' = 0
      BY <1>1, <2>2 DEF Due
    <2>5. Behind' = {}
      BY <1>2, <2>4, NoRowsFirst, LiveIds DEF Behind
    <2>6. /\ (walk'.stay \ walk'.seen) \intersect Behind' = {}
          /\ (walk'.seen \intersect Live') \ Behind' = {}
      BY <2>2, <2>5
    <2>7. WalkGoesOn'
      BY <1>1, <1>2, <1>4, <2>2, <2>4, <2>6 DEF WalkGoesOn
    <2>8. WalkShowsTheList'
      BY <1>3, <1>4, <2>2 DEF WalkShowsTheList
    <2>9. QED
      BY <2>3, <2>7, <2>8 DEF WalkInv
  <1>6. CASE p # 1 /\ walk.next = p /\ walk.size = z /\ ~WalkOver
    <2>1. walk' = walk
      BY <1>2, <1>6 DEF WalkOn
    <2>2. Walking /\ Walking'
      BY <1>1, <1>6, <2>1 DEF Walking
    <2>3. WalkPage'
      BY <1>2, <1>3, <1>6, <2>1, <2>2 DEF WalkInv, WalkPage
    <2>4. WalkGoesOn'
      BY <1>2, <1>6, <2>1, <2>2 DEF WalkInv, WalkGoesOn, Behind, Due
    <2>5. WalkShowsTheList'
      BY <1>3, <2>1 DEF WalkInv, WalkShowsTheList
    <2>6. QED
      BY <2>3, <2>4, <2>5 DEF WalkInv
  <1>7. CASE p # 1 /\ ~(walk.next = p /\ walk.size = z /\ ~WalkOver)
    <2>1. walk' = NoWalk
      BY <1>2, <1>7 DEF WalkOn
    <2>2. walk'.next = 0 /\ walk'.shown = 0 /\ walk'.seen = {} /\ walk'.added = 0
      BY <2>1 DEF NoWalk
    <2>3. ~Walking'
      BY <2>2 DEF Walking
    <2>4. WalkShowsTheList'
      BY <1>3, <1>4, <2>2 DEF WalkShowsTheList
    <2>5. QED
      BY <2>3, <2>4 DEF WalkInv, WalkPage, WalkGoesOn
  <1>8. QED
    BY <1>5, <1>6, <1>7
\* The page that is due is sent, by either statement.
LEMMA WalkSend ==
  ASSUME ListTyping, WalkInv, Walking, at \in {"count", "find"}, Send(PageRows(query)),
         db' = db, query' = query
  PROVE  WalkInv'
  <1> DEFINE L == Live
             B == Behind
             z == walk.size
             P == Page(L, Due, z)
             A == (walk.stay \ walk.seen) \intersect B
             D == (walk.seen \intersect L) \ B
  <1>1. /\ walk \in Walks /\ query \in [page : 1..MaxInt, size : 1..MaxSize]
        /\ walk.next \in Nat \ {0} /\ z \in 1..MaxSize /\ query.page = walk.next /\ query.size = z
    BY DEF ListTyping, ListTypeOK, Walks, WalkInv, WalkPage
  <1>2. ~WalkOver
    BY DEF WalkOver
  <1>3. /\ walk.stay \subseteq L /\ Due <= MaxInt
        /\ Cardinality(A) <= walk.removed
        /\ walk.shown - Cardinality(walk.seen) + Cardinality(D) <= walk.added
    BY <1>2 DEF WalkInv, WalkGoesOn
  <1>4. Due \in Nat /\ z \in Nat /\ PageRows(query) = P
    BY <1>1, <1>3, PageRowsArePage, SizeAssumption DEF Due
  <1>5. /\ walk.shown \in Nat /\ walk.seen \subseteq Id /\ walk.stay \subseteq Id
        /\ walk.removed \in Nat /\ walk.added \in Nat
    BY <1>1 DEF Walks
  <1>6. /\ L \subseteq Id /\ IsFiniteSet(L) /\ Cardinality(L) \in Nat /\ Cardinality(L) <= MaxInt
    BY LiveIds, IdSets
  <1>7. /\ P \subseteq L /\ Cardinality(P) \in Nat
        /\ Cardinality(P) = Min2(Due + z, Cardinality(L)) - Min2(Due, Cardinality(L))
        /\ FirstRows(L, Due + z) = B \union P
    BY <1>4, <1>6, PageCard DEF Behind
  <1>8. P \intersect B = {} /\ B \subseteq L
    BY <1>4 DEF Page, Behind, FirstRows
  <1>9. PICK Q : Q = P
    OBVIOUS
  <1>10. Send(Q) /\ Q \subseteq Id
    BY <1>4, <1>6, <1>7, <1>9
  <1>11. /\ walk'.next = walk.next + 1 /\ walk'.size = z
         /\ walk'.shown = walk.shown + Cardinality(Q) /\ walk'.seen = walk.seen \union Q
         /\ walk'.stay = walk.stay /\ walk'.removed = walk.removed /\ walk'.added = walk.added
    BY <1>1, <1>10, SendType
  <1>12. at' = "done" /\ rows' = Q /\ query' = query /\ Live' = L
    BY <1>10 DEF Send, Live, View
  <1>13. Walking' /\ (WalkOver' <=> Cardinality(Q) < z)
    BY <1>1, <1>11, <1>12 DEF Walking, WalkOver
  <1>14. Due' = Due + z
    BY <1>1, <1>4, <1>11 DEF Due
  <1>15. Behind' = B \union Q
    BY <1>7, <1>9, <1>12, <1>14 DEF Behind
  <1>16. Cardinality(Q) \in Nat /\ Cardinality(Q) = Min2(Due + z, Cardinality(L)) - Min2(Due, Cardinality(L))
         /\ Q \subseteq L /\ Q \intersect B = {} /\ FirstRows(L, Due + z) = B \union Q
    BY <1>7, <1>8, <1>9
  <1> HIDE DEF P, z, L, B
  <1>17. Cardinality((walk'.stay \ walk'.seen) \intersect (B \union Q)) <= walk.removed
    <2>1. (walk'.stay \ walk'.seen) \intersect (B \union Q) \subseteq A /\ A \subseteq Id
      BY <1>5, <1>11
    <2>2. IsFiniteSet(A) /\ Cardinality(A) \in Nat
      BY <2>1, IdSets
    <2>3. /\ Cardinality((walk'.stay \ walk'.seen) \intersect (B \union Q)) \in Nat
          /\ Cardinality((walk'.stay \ walk'.seen) \intersect (B \union Q)) <= Cardinality(A)
      BY <2>1, <2>2, SubsetCard
    <2>4. QED
      BY <1>3, <1>5, <2>2, <2>3
  <1>18. /\ walk'.shown - Cardinality(walk'.seen) + Cardinality((walk'.seen \intersect L) \ (B \union Q))
              <= walk'.added
         /\ Cardinality((walk'.seen \intersect L) \ (B \union Q)) \in Nat
         /\ Cardinality(walk'.seen) \in Nat /\ walk'.shown \in Nat
    \* The count of repetitions, with those to come, is the same before the page and after.
    <2>1. PICK S, T, E, F : /\ S = walk.seen /\ T = S \union Q /\ F = (S \intersect L) \ B
                            /\ E = (T \intersect L) \ (B \union Q)
      OBVIOUS
    <2>2. /\ Cardinality(S) \in Nat /\ Cardinality(F) \in Nat /\ Cardinality(Q) \in Nat
          /\ Cardinality(T) \in Nat /\ Cardinality(E) \in Nat
          /\ Cardinality(T) - Cardinality(E) = Cardinality(S) + Cardinality(Q) - Cardinality(F)
      <3>1. S \subseteq Id /\ L \subseteq Id /\ Q \subseteq L /\ Q \intersect B = {}
        BY <1>5, <1>6, <1>16, <2>1
      <3>2. /\ Q \subseteq Id /\ F \subseteq Id /\ T \subseteq Id /\ E \subseteq Id
            /\ S \intersect Q \subseteq Id
        BY <2>1, <3>1
      <3>3. /\ IsFiniteSet(S) /\ Cardinality(S) \in Nat /\ IsFiniteSet(Q) /\ Cardinality(Q) \in Nat
            /\ IsFiniteSet(F) /\ Cardinality(F) \in Nat /\ Cardinality(S \intersect Q) \in Nat
            /\ Cardinality(T) \in Nat /\ Cardinality(E) \in Nat
        BY <3>1, <3>2, IdSets
      <3>4. Cardinality(S \union Q) = Cardinality(S) + Cardinality(Q) - Cardinality(S \intersect Q)
        BY <3>3, FS_Union
      <3>5. E = F \ Q /\ F \intersect Q = S \intersect Q /\ T = S \union Q
        BY <2>1, <3>1
      <3>6. Cardinality(E) = Cardinality(F) - Cardinality(S \intersect Q)
        BY <3>3, <3>5, FS_Difference
      <3>7. QED
        BY <3>3, <3>4, <3>5, <3>6
    <2>3. walk.shown - Cardinality(S) + Cardinality(F) <= walk.added
      BY <1>3, <2>1
    <2>4. /\ walk'.seen = T /\ (walk'.seen \intersect L) \ (B \union Q) = E
          /\ walk'.shown = walk.shown + Cardinality(Q) /\ walk'.added = walk.added
          /\ walk'.shown \in Nat /\ walk.shown \in Nat /\ walk.added \in Nat
      BY <1>5, <1>11, <1>16, <2>1
    <2>5. walk'.shown - Cardinality(T) + Cardinality(E) <= walk'.added
      BY <2>2, <2>3, <2>4
    <2>6. QED
      BY <2>2, <2>4, <2>5
  <1>19. WalkPage'
    <2>1. walk'.next \in Nat \ {0} /\ walk'.size \in 1..MaxSize /\ query'.size = walk'.size
      BY <1>1, <1>11, <1>12
    <2>2. QED
      BY <1>12, <2>1 DEF WalkPage
  <1>20. WalkGoesOn'
    <2> SUFFICES ASSUME ~WalkOver' PROVE WalkGoesOn'
      BY DEF WalkGoesOn
    <2>1. Cardinality(Q) >= z
      BY <1>1, <1>4, <1>13, <1>16
    <2>2. Due + z <= MaxInt
      BY <1>1, <1>4, <1>6, <1>16, <2>1, SizeAssumption DEF Min2
    <2>3. walk'.stay \subseteq Live' /\ Due' <= MaxInt
      BY <1>3, <1>11, <1>12, <1>14, <2>2
    <2>4. Cardinality((walk'.stay \ walk'.seen) \intersect Behind') <= walk'.removed
      BY <1>11, <1>15, <1>17
    <2>5. walk'.shown - Cardinality(walk'.seen) + Cardinality((walk'.seen \intersect Live') \ Behind')
            <= walk'.added
      BY <1>12, <1>15, <1>18
    <2>6. QED
      BY <2>3, <2>4, <2>5 DEF WalkGoesOn
  <1>21. WalkShowsTheList'
    <2>1. walk'.shown - Cardinality(walk'.seen) <= walk'.added
      BY <1>5, <1>11, <1>18
    <2>2. ASSUME WalkOver' PROVE Cardinality(walk'.stay \ walk'.seen) <= walk'.removed
      <3>1. Cardinality(L) <= Due + z
        BY <1>4, <1>6, <1>13, <1>16, <2>2 DEF Min2
      <3>2. L = B \union Q
        <4>1. L \subseteq Nat /\ Due + z \in Nat
          BY <1>4, <1>6, IdSets
        <4>2. FirstRows(L, Due + z) = L
          BY <1>6, <3>1, <4>1, FirstRowsCard
        <4>3. QED
          BY <1>16, <4>2
      <3>3. (walk'.stay \ walk'.seen) \intersect (B \union Q) = walk'.stay \ walk'.seen
        BY <1>3, <1>11, <3>2
      <3>4. QED
        BY <1>11, <1>17, <3>3
    <2>3. QED
      BY <2>1, <2>2 DEF WalkShowsTheList
  <1>22. QED
    BY <1>19, <1>20, <1>21 DEF WalkInv
\* Rows that appear and vanish between the requests, or between two statements of one.
LEMMA WalkOthers ==
  ASSUME ListTyping, WalkInv, Others
  PROVE  WalkInv'
  <1>1. walk \in Walks /\ moved \in Nat
    BY DEF ListTyping, ListTypeOK, Walks
  <1>2. UNCHANGED <<at, query, rows>>
    BY DEF Others
  <1>3. CASE ~Walking \/ WalkOver
    <2>1. walk' = walk
      BY <1>1, <1>3, OthersType
    <2>2. Walking' = Walking /\ WalkOver' = WalkOver
      BY <1>2, <2>1 DEF Walking, WalkOver
    <2>3. WalkPage'
      BY <1>2, <2>1, <2>2 DEF WalkInv, WalkPage
    <2>4. WalkShowsTheList'
      BY <2>1, <2>2 DEF WalkInv, WalkShowsTheList
    <2>5. QED
      BY <1>3, <2>2, <2>3, <2>4 DEF WalkInv, WalkGoesOn
  <1>4. CASE Walking /\ ~WalkOver
    <2> DEFINE lost   == Live \ Live'
               gained == Live' \ Live
    <2>1. /\ walk'.next = walk.next /\ walk'.size = walk.size
          /\ walk'.shown = walk.shown /\ walk'.seen = walk.seen
          /\ walk'.stay = walk.stay \ lost
          /\ walk'.removed = walk.removed + Cardinality(lost)
          /\ walk'.added = walk.added + Cardinality(gained)
      BY <1>1, <1>4, OthersType
    <2>2. Walking' /\ ~WalkOver' /\ Due' = Due
      BY <1>2, <1>4, <2>1 DEF Walking, WalkOver, Due
    <2>3. WalkPage'
      BY <1>2, <1>4, <2>1, <2>2 DEF WalkInv, WalkPage
    <2>4. /\ walk.stay \subseteq Live /\ Due <= MaxInt
          /\ Cardinality((walk.stay \ walk.seen) \intersect Behind) <= walk.removed
          /\ walk.shown - Cardinality(walk.seen) + Cardinality((walk.seen \intersect Live) \ Behind)
               <= walk.added
      BY <1>4 DEF WalkInv, WalkGoesOn
    <2>5. PICK L, M, S, Y, B, C : /\ L = Live /\ M = Live' /\ S = walk.seen /\ Y = walk.stay
                                  /\ B = Behind /\ C = Behind'
      OBVIOUS
    <2>6. B = FirstRows(L, Due) /\ C = FirstRows(M, Due)
      BY <2>2, <2>5 DEF Behind
    <2>7. L \subseteq Id /\ M \subseteq Id /\ S \subseteq Id /\ Y \subseteq L /\ Y \subseteq Id
      BY <1>1, <2>4, <2>5, LiveIds DEF Walks
    <2>8. Due \in Nat
      BY <1>4 DEF WalkInv, WalkPage, Due
    <2>9. /\ Cardinality((Y \ S) \intersect B) \in Nat /\ Cardinality((S \intersect L) \ B) \in Nat
          /\ IsFiniteSet((Y \ S) \intersect B) /\ IsFiniteSet((S \intersect L) \ B)
          /\ Cardinality(S) \in Nat /\ walk.shown \in Nat /\ walk.removed \in Nat /\ walk.added \in Nat
          /\ IsFiniteSet(L) /\ L \subseteq Nat /\ IsFiniteSet(M) /\ M \subseteq Nat
      BY <1>1, <2>5, <2>7, IdSets DEF Walks
    <2>10. /\ Cardinality(((Y \ lost) \ S) \intersect C) \in Nat
           /\ Cardinality(((Y \ lost) \ S) \intersect C)
                <= Cardinality((Y \ S) \intersect B) + Cardinality(lost)
           /\ Cardinality((S \intersect M) \ C) \in Nat
           /\ Cardinality((S \intersect M) \ C)
                <= Cardinality((S \intersect L) \ B) + Cardinality(gained)
           /\ Cardinality(lost) \in Nat /\ Cardinality(gained) \in Nat
      <3>1. lost = L \ M /\ gained = M \ L
        BY <2>5
      <3> HIDE DEF lost, gained
      <3>2. Cardinality({}) = 0 /\ \A x : Cardinality({x}) = 1
        BY FS_EmptySet, FS_Singleton
      <3>3. CASE M = L
        <4>1. lost = {} /\ gained = {} /\ C = B
          BY <2>6, <3>1, <3>3
        <4>2. ((Y \ lost) \ S) \intersect C = (Y \ S) \intersect B
              /\ (S \intersect M) \ C = (S \intersect L) \ B
          BY <3>3, <4>1
        <4>3. /\ Cardinality(lost) = 0 /\ Cardinality(gained) = 0
              /\ Cardinality(((Y \ lost) \ S) \intersect C) = Cardinality((Y \ S) \intersect B)
              /\ Cardinality((S \intersect M) \ C) = Cardinality((S \intersect L) \ B)
          BY <3>2, <4>1, <4>2
        <4>4. QED
          BY <2>9, <4>3
      <3>4. ASSUME NEW x \in Id, x \in L, M = L \ {x} PROVE <2>10!:
        <4>1. lost = {x} /\ gained = {}
          BY <3>1, <3>4
        <4>2. B \ {x} \subseteq C /\ \E y : C \subseteq B \union {y}
          BY <2>6, <2>8, <2>9, <3>4, FirstRowsWithout
        <4>3. PICK y : C \subseteq B \union {y}
          BY <4>2
        <4>4. ((Y \ lost) \ S) \intersect C \subseteq ((Y \ S) \intersect B) \union {y}
          BY <4>3
        <4>5. (S \intersect M) \ C \subseteq (S \intersect L) \ B
          BY <3>4, <4>2
        <4>6. /\ Cardinality(((Y \ lost) \ S) \intersect C) \in Nat
              /\ Cardinality(((Y \ lost) \ S) \intersect C) <= Cardinality((Y \ S) \intersect B) + 1
          BY <2>9, <4>4, OneMore
        <4>7. /\ Cardinality((S \intersect M) \ C) \in Nat
              /\ Cardinality((S \intersect M) \ C) <= Cardinality((S \intersect L) \ B)
          BY <2>9, <4>5, SubsetCard
        <4>8. Cardinality(lost) = 1 /\ Cardinality(gained) = 0
          BY <3>2, <4>1
        <4>9. QED
          BY <2>9, <4>6, <4>7, <4>8
      <3>5. ASSUME NEW x \in Id, x \notin L, M = L \union {x} PROVE <2>10!:
        <4>1. lost = {} /\ gained = {x} /\ x \in M /\ L = M \ {x}
          BY <3>1, <3>5
        <4>2. /\ C \ {x} \subseteq B
              /\ x \notin C => B = C
              /\ \E y : B \subseteq C \union {y}
          BY <2>6, <2>8, <2>9, <4>1, FirstRowsWithout
        <4>3. PICK y : B \subseteq C \union {y}
          BY <4>2
        <4>4. ((Y \ lost) \ S) \intersect C \subseteq (Y \ S) \intersect B
          <5>1. C \ {x} \subseteq B /\ x \notin Y
            BY <2>7, <3>5, <4>2
          <5>2. QED
            BY <5>1
        <4>5. \E u : (S \intersect M) \ C \subseteq ((S \intersect L) \ B) \union {u}
          <5>1. CASE x \in C
            <6>1. (S \intersect M) \ C \subseteq ((S \intersect L) \ B) \union {y}
              BY <3>5, <4>3, <5>1
            <6>2. QED
              BY <6>1
          <5>2. CASE x \notin C
            <6>1. (S \intersect M) \ C \subseteq ((S \intersect L) \ B) \union {x}
              <7>1. B = C /\ M = L \union {x}
                BY <3>5, <4>2, <5>2
              <7>2. QED
                BY <7>1
            <6>2. QED
              BY <6>1
          <5>3. QED
            BY <5>1, <5>2
        <4>6. PICK u : (S \intersect M) \ C \subseteq ((S \intersect L) \ B) \union {u}
          BY <4>5
        <4>7. /\ Cardinality(((Y \ lost) \ S) \intersect C) \in Nat
              /\ Cardinality(((Y \ lost) \ S) \intersect C) <= Cardinality((Y \ S) \intersect B)
          BY <2>9, <4>4, SubsetCard
        <4>8. /\ Cardinality((S \intersect M) \ C) \in Nat
              /\ Cardinality((S \intersect M) \ C) <= Cardinality((S \intersect L) \ B) + 1
          BY <2>9, <4>6, OneMore
        <4>9. Cardinality(lost) = 0 /\ Cardinality(gained) = 1
          BY <3>2, <4>1
        <4>10. QED
          BY <2>9, <4>7, <4>8, <4>9
      <3>6. TypeOK /\ [Next]_vars
        BY DEF ListTyping, Typing, Others
      <3>7. QED
        BY <2>5, <3>3, <3>4, <3>5, <3>6, OneRow
    <2>11. /\ Cardinality((Y \ S) \intersect B) <= walk.removed
           /\ walk.shown - Cardinality(S) + Cardinality((S \intersect L) \ B) <= walk.added
      BY <2>4, <2>5
    <2> HIDE DEF lost, gained
    <2>12. /\ (walk'.stay \ walk'.seen) \intersect Behind' = ((Y \ lost) \ S) \intersect C
           /\ (walk'.seen \intersect Live') \ Behind' = (S \intersect M) \ C
           /\ walk'.seen = S
      BY <2>1, <2>5
    <2>13. Cardinality(((Y \ lost) \ S) \intersect C) <= walk'.removed
      BY <2>1, <2>9, <2>10, <2>11
    <2>14. walk'.shown - Cardinality(S) + Cardinality((S \intersect M) \ C) <= walk'.added
      BY <2>1, <2>9, <2>10, <2>11
    <2>15. walk'.stay \subseteq Live'
      BY <2>1, <2>4 DEF lost
    <2>16. WalkGoesOn'
      BY <2>2, <2>4, <2>12, <2>13, <2>14, <2>15 DEF WalkGoesOn
    <2>17. walk'.shown - Cardinality(walk'.seen) <= walk'.added
      BY <2>1, <2>9, <2>10, <2>12, <2>14
    <2>18. WalkShowsTheList'
      BY <2>2, <2>17 DEF WalkShowsTheList
    <2>19. QED
      BY <2>3, <2>16, <2>18 DEF WalkInv
  <1>5. QED
    BY <1>3, <1>4
LEMMA WalkNext ==
  ListTyping /\ WalkInv /\ [ListNext]_<<vars, listVars>> => WalkInv'
  <1> SUFFICES ASSUME ListTyping, WalkInv, [ListNext]_<<vars, listVars>> PROVE WalkInv'
    OBVIOUS
  <1>1. CASE UNCHANGED <<vars, listVars>>
    <2>1. Live' = Live /\ UNCHANGED listVars
      BY <1>1 DEF vars, Live, View
    <2>2. Walking' = Walking /\ WalkOver' = WalkOver /\ Behind' = Behind /\ Due' = Due
      BY <2>1 DEF listVars, Walking, WalkOver, Behind, Due
    <2>3. WalkPage'
      BY <2>1, <2>2 DEF listVars, WalkInv, WalkPage
    <2>4. WalkGoesOn'
      BY <2>1, <2>2 DEF listVars, WalkInv, WalkGoesOn
    <2>5. WalkShowsTheList'
      BY <2>1, <2>2 DEF listVars, WalkInv, WalkShowsTheList
    <2>6. QED
      BY <2>3, <2>4, <2>5 DEF WalkInv
  <1>2. ASSUME NEW ids, Send(ids), ids = PageRows(query), at \in {"count", "find"},
               db' = db, query' = query
        PROVE  WalkInv'
    <2>1. CASE Walking
      BY <1>2, <2>1, WalkSend
    <2>2. CASE ~Walking
      <3>1. walk' = walk
        BY <1>2, <2>2 DEF Send
      <3>2. ~Walking' /\ ~WalkOver'
        BY <2>2, <3>1 DEF Walking, WalkOver
      <3>3. WalkShowsTheList'
        BY <3>1, <3>2 DEF WalkInv, WalkShowsTheList
      <3>4. QED
        BY <3>2, <3>3 DEF WalkInv, WalkPage, WalkGoesOn
    <2>3. QED
      BY <2>1, <2>2
  <1>3. CASE Count
    <2>1. total' = Cardinality(Live) /\ at = "count" /\ db' = db /\ query' = query
      BY <1>3 DEF Count, CountRows, vars
    <2>2. CASE total' # 0
      BY <1>3, <2>1, <2>2, WalkWaits DEF Count
    <2>3. CASE total' = 0
      <3>1. Live = {}
        BY <2>1, <2>3, LiveIds, IdSets, FS_EmptySet
      <3>2. PageRows(query) = {}
        BY <3>1 DEF PageRows, FirstRows
      <3>3. Send({})
        BY <1>3, <2>3 DEF Count
      <3>4. QED
        BY <1>2, <2>1, <3>2, <3>3
    <2>4. QED
      BY <2>2, <2>3
  <1>4. CASE Find
    BY <1>2, <1>4 DEF Find, vars
  <1>5. CASE ListFails
    BY <1>5, WalkWaits DEF ListFails, vars
  <1>6. ASSUME NEW page \in RawPage, NEW size \in RawSize, Ask(page, size) PROVE WalkInv'
    BY <1>6, WalkAsk
  <1>7. CASE Others
    BY <1>7, WalkOthers
  <1>8. QED
    BY <1>1, <1>3, <1>4, <1>5, <1>6, <1>7, ListStep

\* A walk through all the pages shows no more rows again than were inserted on the way,
\* and misses no more of those that were always there than were deleted, for every number
\* of rows and every page size, whatever fails and whoever else walks off in between.
THEOREM WalkTellsTheTruth == ListSpec => []WalkShowsTheList
  <1>1. WalkInv => WalkShowsTheList
    BY DEF WalkInv
  <1>2. QED
    BY ListTypingInit, ListTypingNext, WalkInit, WalkNext, <1>1, PTL DEF ListSpec

-----------------------------------------------------------------------------
(* One page and its total *)

\* Between the two statements the count is off by no more than what moved.
CountHolds ==
  at = "find" => /\ Cardinality(Live) <= total + moved
                 /\ total <= Cardinality(Live) + moved

PageInv == CountHolds /\ PageFitsTotal

LEMMA PageInit == ListInit => PageInv
  BY DEF ListInit, PageInv, CountHolds, PageFitsTotal

LEMMA PageNext ==
  ListTyping /\ PageInv /\ [ListNext]_<<vars, listVars>> => PageInv'
  <1> SUFFICES ASSUME ListTyping, PageInv, [ListNext]_<<vars, listVars>> PROVE PageInv'
    OBVIOUS
  <1>1. /\ query \in [page : 1..MaxInt, size : 1..MaxSize]
        /\ query.page \in Nat /\ query.page >= 1 /\ query.size \in Nat
        /\ total \in Nat /\ moved \in Nat
    <2>1. Cardinality(Id) \in Nat
      BY IdSets
    <2>2. QED
      BY <2>1, SizeAssumption DEF ListTyping, ListTypeOK
  <1>2. Cardinality(Live) \in Nat /\ Cardinality(Live') \in Nat
    BY LiveIds, IdSets
  <1>3. Cardinality({}) = 0
    BY FS_EmptySet
  <1>4. ASSUME at' \notin {"find", "done"} PROVE PageInv'
    BY <1>4 DEF PageInv, CountHolds, PageFitsTotal
  <1>5. CASE UNCHANGED <<vars, listVars>>
    <2>1. Live' = Live /\ UNCHANGED listVars
      BY <1>5 DEF vars, Live, View
    <2>2. CountHolds'
      BY <2>1 DEF listVars, PageInv, CountHolds
    <2>3. PageFitsTotal'
      BY <2>1 DEF listVars, PageInv, PageFitsTotal
    <2>4. QED
      BY <2>2, <2>3 DEF PageInv
  <1>6. CASE Count
    <2>1. /\ total' = Cardinality(Live) /\ query' = query /\ moved' = moved /\ Live' = Live
          /\ total' # 0 => at' = "find"
          /\ total' = 0 => at' = "done" /\ rows' = {}
      BY <1>6 DEF Count, CountRows, Send, vars, Live, View
    <2>2. CountHolds'
      BY <1>1, <1>2, <2>1 DEF CountHolds
    <2>3. CASE total' = 0
      <3>1. Cardinality(rows') = 0
        BY <1>3, <2>1, <2>3
      <3>2. QED
        BY <1>1, <2>1, <2>2, <2>3, <3>1 DEF PageInv, PageFitsTotal, Min2
    <2>4. CASE total' # 0
      BY <2>1, <2>2, <2>4 DEF PageInv, PageFitsTotal
    <2>5. QED
      BY <2>3, <2>4
  <1>7. CASE Find
    <2>1. /\ at = "find" /\ at' = "done" /\ rows' = PageRows(query)
          /\ query' = query /\ total' = total /\ moved' = moved
      BY <1>7 DEF Find, Send
    <2>2. Cardinality(Live) <= total + moved /\ total <= Cardinality(Live) + moved
      BY <2>1 DEF PageInv, CountHolds
    <2> DEFINE offset == (query.page - 1) * query.size
    <2>3. offset \in Nat /\ (offset <= MaxInt => PageRows(query) = Page(Live, offset, query.size))
      BY <1>1, PageRowsArePage
    <2>4. ASSUME offset <= MaxInt
          PROVE  Cardinality(rows') = Min2(offset + query.size, Cardinality(Live))
                                        - Min2(offset, Cardinality(Live))
      <3>1. rows' = Page(Live, offset, query.size)
        BY <2>1, <2>3, <2>4
      <3> HIDE DEF offset
      <3>2. QED
        BY <1>1, <2>3, <3>1, LiveIds, PageCard
    <2>5. (query'.page - 1) * query'.size = offset /\ query'.size = query.size
      BY <2>1
    <2> HIDE DEF offset
    <2> DEFINE rest == IF total > offset THEN total - offset ELSE 0
    <2>6. ASSUME offset <= MaxInt
          PROVE  /\ Cardinality(rows') <= Min2(rest, query.size) + moved
                 /\ Min2(rest, query.size) <= Cardinality(rows') + moved
      BY <1>1, <1>2, <2>2, <2>3, <2>4, <2>6 DEF Min2
    <2>7. PageFitsTotal'
      BY <2>1, <2>5, <2>6 DEF PageFitsTotal
    <2>8. QED
      BY <2>1, <2>7 DEF PageInv, CountHolds
  <1>8. CASE ListFails
    BY <1>4, <1>8 DEF ListFails
  <1>9. ASSUME NEW page \in RawPage, NEW size \in RawSize, Ask(page, size) PROVE PageInv'
    BY <1>4, <1>9 DEF Ask
  <1>10. CASE Others
    <2>1. UNCHANGED <<at, query, total, rows>>
      BY <1>10 DEF Others
    <2>2. moved' = IF at = "find" THEN moved + Cardinality((Live' \ Live) \union (Live \ Live')) ELSE moved
      BY <1>10 DEF Others
    <2>3. PageFitsTotal'
      <3>1. CASE at = "done"
        BY <2>1, <2>2, <3>1 DEF PageInv, PageFitsTotal
      <3>2. CASE at # "done"
        BY <2>1, <3>2 DEF PageFitsTotal
      <3>3. QED
        BY <3>1, <3>2
    <2>4. CountHolds'
      <3> SUFFICES ASSUME at = "find"
                   PROVE  Cardinality(Live') <= total + moved' /\ total <= Cardinality(Live') + moved'
        BY <2>1 DEF CountHolds
      <3>1. Cardinality(Live) <= total + moved /\ total <= Cardinality(Live) + moved
        BY DEF PageInv, CountHolds
      <3> DEFINE diff == (Live' \ Live) \union (Live \ Live')
      <3>2. IsFiniteSet(diff) /\ Cardinality(diff) \in Nat /\ IsFiniteSet(Live) /\ IsFiniteSet(Live')
        BY LiveIds, IdSets
      <3>3. /\ Cardinality(Live') <= Cardinality(Live) + Cardinality(diff)
            /\ Cardinality(Live) <= Cardinality(Live') + Cardinality(diff)
        <4>1. Live' \subseteq Live \union diff /\ Live \subseteq Live' \union diff
          OBVIOUS
        <4> HIDE DEF diff
        <4>2. /\ IsFiniteSet(Live \union diff)
              /\ Cardinality(Live \union diff)
                   = Cardinality(Live) + Cardinality(diff) - Cardinality(Live \intersect diff)
              /\ IsFiniteSet(Live' \union diff)
              /\ Cardinality(Live' \union diff)
                   = Cardinality(Live') + Cardinality(diff) - Cardinality(Live' \intersect diff)
          BY <3>2, FS_Union
        <4>3. Cardinality(Live \intersect diff) \in Nat /\ Cardinality(Live' \intersect diff) \in Nat
          BY LiveIds, IdSets
        <4>4. /\ Cardinality(Live') <= Cardinality(Live \union diff)
              /\ Cardinality(Live) <= Cardinality(Live' \union diff)
          BY <4>1, <4>2, SubsetCard
        <4>5. QED
          BY <1>2, <3>2, <4>2, <4>3, <4>4
      <3>4. moved' = moved + Cardinality(diff)
        BY <2>2
      <3> HIDE DEF diff
      <3>5. QED
        BY <1>1, <1>2, <3>1, <3>2, <3>3, <3>4
    <2>5. QED
      BY <2>3, <2>4 DEF PageInv
  <1>11. QED
    BY <1>5, <1>6, <1>7, <1>8, <1>9, <1>10, ListStep

\* A page and the total next to it disagree by no more than what changed between the two
\* statements, for every page whose offset fits an int.
THEOREM PagesAgreeWithTotals == ListSpec => []PageFitsTotal
  <1>1. PageInv => PageFitsTotal
    BY DEF PageInv
  <1>2. QED
    BY ListTypingInit, ListTypingNext, PageInit, PageNext, <1>1, PTL DEF ListSpec
=============================================================================
