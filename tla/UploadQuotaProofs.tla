------------------------- MODULE UploadQuotaProofs --------------------------
(***************************************************************************)
(* Proofs about UploadQuota, for every quota, every limit on sizes, chunks *)
(* and batches, and every number of rows and of requests in flight.        *)
(***************************************************************************)
EXTENDS UploadQuota, FiniteSetTheorems, TLAPS

-----------------------------------------------------------------------------
(* Sums *)

\* The sets that a sum is counted with.
LEMMA CountOne ==
  ASSUME NEW x
  PROVE  IsFiniteSet({x}) /\ Cardinality({x}) = 1
  BY FS_Singleton

LEMMA CountUpTo ==
  ASSUME NEW n \in Nat
  PROVE  IsFiniteSet(1..n) /\ Cardinality(1..n) = n
<1>1. 1 \in Int /\ n \in Int /\ (IF 1 > n THEN 0 ELSE n - 1 + 1) = n
  OBVIOUS
<1>2. IsFiniteSet(1..n) /\ Cardinality(1..n) = IF 1 > n THEN 0 ELSE n - 1 + 1
  BY <1>1, FS_Interval
<1> QED
  BY <1>1, <1>2

\* What a sum counts.
LEMMA UnitsOf ==
  ASSUME NEW f
  PROVE  \A u : u \in Units(f) <=> \E x \in DOMAIN f : \E j \in 1..f[x] : u = <<x, j>>
  BY DEF Units

\* The sum of natural numbers over a finite set is a natural number.
LEMMA SumType ==
  ASSUME NEW S, IsFiniteSet(S), NEW f \in [S -> Nat]
  PROVE  IsFiniteSet(Units(f)) /\ Sum(f) \in Nat
<1> DEFINE column == [x \in S |-> {x} \X (1..f[x])]
           C == {column[x] : x \in S}
<1>1. column \in Surjection(S, C)
  BY DEF Surjection
<1>2. IsFiniteSet(C)
  BY <1>1, FS_Surjection
<1>3. ASSUME NEW x \in S PROVE IsFiniteSet(column[x])
  <2>1. IsFiniteSet({x}) /\ IsFiniteSet(1..f[x])
    BY CountOne, CountUpTo
  <2> QED
    BY <2>1, FS_Product
<1>4. IsFiniteSet(UNION C)
  BY <1>2, <1>3, FS_UNION
<1>5. Units(f) = UNION C
  BY DEF Units
<1> QED
  BY <1>4, <1>5, FS_CardinalityType DEF Sum

\* A sum of fewer and smaller numbers is not larger.
LEMMA SumMonotone ==
  ASSUME NEW S, IsFiniteSet(S), NEW f \in [S -> Nat],
         NEW T \in SUBSET S, NEW g \in [T -> Nat], \A x \in T : g[x] <= f[x]
  PROVE  Sum(g) <= Sum(f)
<1>1. Units(g) \subseteq Units(f)
  <2> SUFFICES ASSUME NEW x \in T, NEW j \in 1..g[x] PROVE <<x, j>> \in Units(f)
    BY UnitsOf
  <2>1. x \in DOMAIN f /\ j \in 1..f[x]
    OBVIOUS
  <2> QED
    BY <2>1, UnitsOf
<1> QED
  BY <1>1, SumType, FS_Subset DEF Sum

\* A sum is at most the number of its terms times the largest.
LEMMA SumBound ==
  ASSUME NEW S, IsFiniteSet(S), NEW f \in [S -> Nat], NEW q \in Nat, \A x \in S : f[x] <= q
  PROVE  Sum(f) <= Cardinality(S) * q
<1>1. IsFiniteSet(1..q) /\ Cardinality(1..q) = q
  BY CountUpTo
<1>2. IsFiniteSet(S \X (1..q)) /\ Cardinality(S \X (1..q)) = Cardinality(S) * q
  BY <1>1, FS_Product
<1>3. Units(f) \subseteq S \X (1..q)
  <2> SUFFICES ASSUME NEW x \in S, NEW j \in 1..f[x] PROVE <<x, j>> \in S \X (1..q)
    BY UnitsOf
  <2>1. j \in 1..q
    OBVIOUS
  <2> QED
    BY <2>1
<1> QED
  BY <1>2, <1>3, FS_Subset DEF Sum

\* a has the numbers that f has on A.
IsPart(A, a, f) == a \in [A -> Nat] /\ \A x \in A : a[x] = f[x]

\* A sum is the sum over some of the places and the sum over the others.
LEMMA SumOfParts ==
  ASSUME NEW S, IsFiniteSet(S), NEW f \in [S -> Nat],
         NEW A \in SUBSET S, NEW a, IsPart(A, a, f), NEW b, IsPart(S \ A, b, f)
  PROVE  Sum(f) = Sum(a) + Sum(b)
<1> DEFINE B == S \ A
<1>1. /\ IsFiniteSet(A) /\ a \in [A -> Nat] /\ \A x \in A : a[x] = f[x]
      /\ IsFiniteSet(B) /\ b \in [B -> Nat] /\ \A x \in B : b[x] = f[x]
  BY FS_Subset DEF IsPart
<1>2. IsFiniteSet(Units(a)) /\ IsFiniteSet(Units(b)) /\ Sum(a) \in Nat /\ Sum(b) \in Nat
  BY <1>1, SumType
<1>3. Units(f) = Units(a) \cup Units(b)
  <2>1. ASSUME NEW u PROVE u \in Units(f) <=> u \in Units(a) \/ u \in Units(b)
    <3>1. u \in Units(f) <=> \E x \in S : \E j \in 1..f[x] : u = <<x, j>>
      BY UnitsOf
    <3>2. u \in Units(a) <=> \E x \in A : \E j \in 1..f[x] : u = <<x, j>>
      BY <1>1, UnitsOf
    <3>3. u \in Units(b) <=> \E x \in B : \E j \in 1..f[x] : u = <<x, j>>
      BY <1>1, UnitsOf
    <3> QED
      BY <3>1, <3>2, <3>3
  <2> QED
    BY <2>1
<1>4. Units(a) \cap Units(b) = {}
  <2> SUFFICES ASSUME NEW u, u \in Units(a), u \in Units(b) PROVE FALSE
    OBVIOUS
  <2>1. PICK x \in A : \E j \in 1..f[x] : u = <<x, j>>
    BY <1>1, UnitsOf
  <2>2. PICK y \in B : \E j \in 1..f[y] : u = <<y, j>>
    BY <1>1, UnitsOf
  <2>3. x = y
    BY <2>1, <2>2
  <2> QED
    BY <2>3
<1>5. Cardinality(Units(f)) = Cardinality(Units(a)) + Cardinality(Units(b))
  <2> DEFINE P == Units(a)
             Q == Units(b)
  <2>1. IsFiniteSet(P) /\ IsFiniteSet(Q) /\ P \cap Q = {}
    BY <1>2, <1>4
  <2> HIDE DEF P, Q
  <2>2. Cardinality(P \cup Q) = Cardinality(P) + Cardinality(Q) - Cardinality(P \cap Q)
    BY <2>1, FS_Union
  <2>3. Cardinality(P \cap Q) = 0 /\ Cardinality(P) \in Nat /\ Cardinality(Q) \in Nat
    BY <2>1, FS_EmptySet, FS_CardinalityType
  <2> QED
    BY <1>3, <2>2, <2>3 DEF P, Q
<1> QED
  BY <1>5 DEF Sum

\* The sum of one number.
LEMMA SumOfOne ==
  ASSUME NEW x, NEW n \in Nat
  PROVE  Sum([y \in {x} |-> n]) = n
<1>1. Units([y \in {x} |-> n]) = {x} \X (1..n)
  <2>1. ASSUME NEW u PROVE u \in Units([y \in {x} |-> n]) <=> u \in {x} \X (1..n)
    BY UnitsOf
  <2> QED
    BY <2>1
<1>2. IsFiniteSet({x}) /\ Cardinality({x}) = 1 /\ IsFiniteSet(1..n) /\ Cardinality(1..n) = n
  BY CountOne, CountUpTo
<1>3. Cardinality({x} \X (1..n)) = 1 * n
  BY <1>2, FS_Product
<1>4. Cardinality({x} \X (1..n)) = n
  BY <1>3
<1> QED
  BY <1>1, <1>4, Zenon DEF Sum

\* A sum is one of its terms and the sum of the others.
LEMMA SumSplit ==
  ASSUME NEW S, IsFiniteSet(S), NEW f \in [S -> Nat], NEW x \in S
  PROVE  Sum(f) = f[x] + Sum([y \in S \ {x} |-> f[y]])
<1>1. Sum(f) = Sum([y \in {x} |-> f[y]]) + Sum([y \in S \ {x} |-> f[y]])
  <2> DEFINE a == [y \in {x} |-> f[y]]
             b == [y \in S \ {x} |-> f[y]]
  <2>1. {x} \in SUBSET S
    OBVIOUS
  <2>2. IsPart({x}, a, f) /\ IsPart(S \ {x}, b, f)
    BY DEF IsPart
  <2> HIDE DEF a, b
  <2>3. Sum(f) = Sum(a) + Sum(b)
    BY <2>1, <2>2, SumOfParts
  <2> QED
    BY <2>3 DEF a, b
<1>2. [y \in {x} |-> f[y]] = [y \in {x} |-> f[x]]
  OBVIOUS
<1>3. Sum([y \in {x} |-> f[x]]) = f[x]
  BY SumOfOne
<1> QED
  BY <1>1, <1>2, <1>3

\* The same numbers at other places have no larger sum.
LEMMA SumMoved ==
  ASSUME NEW S, IsFiniteSet(S), NEW f \in [S -> Nat], NEW T, NEW g \in [T -> Nat],
         NEW p \in Surjection(S, T), \A x \in S : g[p[x]] = f[x]
  PROVE  Sum(g) <= Sum(f)
<1> DEFINE m == [u \in Units(f) |-> <<p[u[1]], u[2]>>]
<1>0. p \in [S -> T] /\ \A y \in T : \E x \in S : p[x] = y
  BY DEF Surjection
<1>1. ASSUME NEW u \in Units(f) PROVE m[u] \in Units(g)
  <2>1. PICK x \in S : \E j \in 1..f[x] : u = <<x, j>>
    BY UnitsOf
  <2>2. PICK j \in 1..f[x] : u = <<x, j>>
    BY <2>1
  <2>3. m[u] = <<p[x], j>> /\ p[x] \in T /\ j \in 1..g[p[x]]
    BY <1>0, <2>2
  <2> QED
    BY <2>3, UnitsOf
<1>2. ASSUME NEW v \in Units(g) PROVE \E u \in Units(f) : m[u] = v
  <2>1. PICK y \in T : \E j \in 1..g[y] : v = <<y, j>>
    BY UnitsOf
  <2>2. PICK j \in 1..g[y] : v = <<y, j>>
    BY <2>1
  <2>3. PICK x \in S : p[x] = y
    BY <1>0
  <2>4. <<x, j>> \in Units(f)
    <3>1. j \in 1..f[x]
      BY <2>2, <2>3
    <3> QED
      BY <3>1, UnitsOf
  <2> QED
    BY <2>2, <2>3, <2>4
<1>3. m \in Surjection(Units(f), Units(g))
  <2>1. m \in [Units(f) -> Units(g)]
    BY <1>1
  <2> HIDE DEF m
  <2> QED
    BY <1>2, <2>1 DEF Surjection
<1> HIDE DEF m
<1> QED
  BY <1>3, SumType, FS_Surjection DEF Sum

-----------------------------------------------------------------------------
(* Validation *)

\* A sum that wraps is too large by whole turns.
LEMMA WrapTurns ==
  ASSUME NEW n \in Nat
  PROVE  \E turns \in Int : n = Wrap(n) + turns * (2 * Top)
<1> DEFINE W == 2 * Top
           q == (n + Top) \div W
<1>1. W \in Nat /\ W > 0 /\ Top \in Nat
  BY QuotaAssumption
<1>2. n + Top \in Nat
  BY <1>1
<1> HIDE DEF W
<1>3. q \in Int /\ n + Top = W * q + ((n + Top) % W)
  BY <1>1, <1>2
<1> HIDE DEF q
<1>4. W * q = q * W
  BY <1>1, <1>3
<1>5. (n + Top) % W \in Int
  BY <1>1, <1>2
<1>6. n = (((n + Top) % W) - Top) + q * W
  <2> DEFINE a == (n + Top) % W
             b == q * W
  <2>1. a \in Int /\ b \in Int /\ n + Top = b + a
    BY <1>1, <1>3, <1>4, <1>5
  <2> HIDE DEF a, b
  <2>2. n = (a - Top) + b
    BY <1>1, <2>1
  <2> QED
    BY <2>2 DEF a, b
<1> QED
  BY <1>3, <1>6 DEF Wrap, W

\* The declared chunks: n of them, each at least one byte.
LEMMA ChunksType ==
  ASSUME NEW chunks \in ChunkSizes
  PROVE  /\ Len(chunks) \in 1..MaxChunks /\ chunks \in [1..Len(chunks) -> 1..(Top - 1)]
         /\ IsFiniteSet(1..Len(chunks)) /\ Cardinality(1..Len(chunks)) = Len(chunks)
         /\ chunks \in [1..Len(chunks) -> Nat]
<1>1. PICK n \in 1..MaxChunks : chunks \in [1..n -> 1..(Top - 1)]
  BY DEF ChunkSizes
<1>2. MaxChunks \in Nat /\ Top \in Nat
  BY QuotaAssumption
<1>3. Len(chunks) = n
  <2>1. chunks \in Seq(1..(Top - 1)) /\ DOMAIN chunks = 1..n /\ n \in Nat
    BY <1>1, <1>2
  <2> QED
    BY <2>1
<1>4. n \in Nat
  BY <1>1, <1>2
<1>5. \A i \in 1..(Top - 1) : i \in Nat
  BY <1>2
<1> QED
  BY <1>1, <1>3, <1>4, <1>5, CountUpTo

\* What passes the validation of create_file and bulk_init_uploads adds up.
LEMMA ValidAddUp ==
  ASSUME NEW total \in Declared, NEW chunks \in ChunkSizes, Validate(total, chunks)
  PROVE  AddUp(total, chunks)
<1> DEFINE n == Len(chunks)
           E == Expected(total, chunks)
           S == Sum(chunks)
<1>1. /\ n \in Nat /\ n >= 1 /\ Top \in Nat /\ Top > 0 /\ Overhead \in Nat /\ total \in Nat
      /\ MaxChunks \in Nat /\ n <= MaxChunks
  BY ChunksType, QuotaAssumption DEF Declared
<1>2. S \in Nat /\ S <= n * (Top - 1)
  <2>1. S \in Nat
    BY ChunksType, SumType
  <2>2. Top - 1 \in Nat /\ \A i \in 1..n : chunks[i] <= Top - 1
    BY <1>1, ChunksType
  <2>3. Sum(chunks) <= Cardinality(1..n) * (Top - 1)
    BY <2>2, ChunksType, SumBound
  <2> QED
    BY <2>1, <2>3, ChunksType
<1>3. E \in Nat /\ E < Top
  <2>1. Overhead * n \in Nat /\ Overhead * n <= Overhead * MaxChunks /\ Overhead * MaxChunks \in Nat
    BY <1>1
  <2>2. total <= MaxFileSize /\ MaxFileSize + Overhead * MaxChunks < Top /\ MaxFileSize \in Nat
    BY QuotaAssumption DEF Declared
  <2> DEFINE x == Overhead * n
             y == Overhead * MaxChunks
  <2> HIDE DEF x, y
  <2>3. total + x \in Nat /\ total + x < Top
    BY <1>1, <2>1, <2>2 DEF x, y
  <2> QED
    BY <2>3 DEF x, Expected
<1>4. PICK turns \in Int : S = E + turns * (2 * Top)
  BY <1>2, WrapTurns DEF Validate, WrappedSum
<1> HIDE DEF n, E, S
<1>5. turns >= 0
  <2> SUFFICES ASSUME turns < 0 PROVE FALSE
    OBVIOUS
  <2>1. turns * (2 * Top) <= 0 - 2 * Top
    BY <1>1
  <2> DEFINE z == turns * (2 * Top)
  <2>2. z \in Int
    BY <1>1
  <2> HIDE DEF z
  <2> QED
    BY <1>1, <1>2, <1>3, <1>4, <2>1, <2>2 DEF z
<1>6. 2 * turns < n
  <2> SUFFICES ASSUME n <= 2 * turns PROVE FALSE
    BY <1>1
  <2>1. n * Top <= (2 * turns) * Top
    BY <1>1, <1>5
  <2>2. (2 * turns) * Top = turns * (2 * Top)
    BY <1>1
  <2>3. n * (Top - 1) = n * Top - n
    BY <1>1
  <2> DEFINE z == turns * (2 * Top)
             w == n * Top
  <2>4. z \in Int /\ w \in Int
    BY <1>1
  <2> HIDE DEF z, w
  <2> QED
    BY <1>1, <1>2, <1>3, <1>4, <2>1, <2>2, <2>3, <2>4 DEF z, w
<1>7. turns \in 0..n
  BY <1>1, <1>5, <1>6
<1> QED
  BY <1>4, <1>6, <1>7 DEF AddUp, n, E, S

\* Every upload that a request accepts has a declared size and adds up.
LEMMA AcceptableAddUp ==
  ASSUME NEW u \in Acceptable
  PROVE  u.size \in Declared /\ u.addsUp
<1>1. PICK v \in Declared \X ChunkSizes : Validate(v[1], v[2]) /\ u = Upload(v[1], v[2])
  BY DEF Acceptable
<1>2. v[1] \in Declared /\ v[2] \in ChunkSizes
  OBVIOUS
<1>3. AddUp(v[1], v[2])
  BY <1>1, <1>2, ValidAddUp
<1>4. u.size = v[1] /\ u.addsUp = AddUp(v[1], v[2])
  BY <1>1 DEF Upload
<1> QED
  BY <1>2, <1>3, <1>4

-----------------------------------------------------------------------------
(* Requests and rows *)

\* What a request may hold between its checks and its transaction.
Batches == UNION {[1..n -> Acceptable] : n \in 0..MaxBatch}

\* What each request holds, and what all but one hold together.
Grants(q) == [r \in Req |-> Sum(Sizes(q[r]))]
Others(q, r) == Sum([y \in Req \ {r} |-> Grants(q)[y]])

\* The sizes in a batch are natural numbers, and so is their sum.
LEMMA BatchType ==
  ASSUME NEW b \in Batches
  PROVE  /\ Len(b) \in Nat /\ Len(b) <= MaxBatch
         /\ b \in [1..Len(b) -> Acceptable]
         /\ IsFiniteSet(1..Len(b)) /\ Cardinality(1..Len(b)) = Len(b)
         /\ Sizes(b) \in [1..Len(b) -> Nat]
         /\ \A i \in 1..Len(b) : Sizes(b)[i] = b[i].size /\ Sizes(b)[i] <= MaxFileSize
         /\ Sum(Sizes(b)) \in Nat
<1>1. PICK n \in 0..MaxBatch : b \in [1..n -> Acceptable]
  BY DEF Batches
<1>2. n \in Nat /\ n <= MaxBatch /\ MaxFileSize \in Nat
  BY QuotaAssumption
<1>3. Len(b) = n
  BY <1>1, <1>2
<1>4. IsFiniteSet(1..n) /\ Cardinality(1..n) = n
  BY <1>2, CountUpTo
<1>5. \A i \in 1..n : Sizes(b)[i] = b[i].size
  BY <1>1 DEF Sizes
<1>6. \A i \in 1..n : b[i].size \in Nat /\ b[i].size <= MaxFileSize
  <2> SUFFICES ASSUME NEW i \in 1..n PROVE b[i].size \in Nat /\ b[i].size <= MaxFileSize
    OBVIOUS
  <2>1. b[i] \in Acceptable
    BY <1>1
  <2>2. b[i].size \in Declared
    BY <2>1, AcceptableAddUp
  <2> QED
    BY <1>2, <2>2 DEF Declared
<1>7. Sizes(b) \in [1..n -> Nat]
  BY <1>1, <1>6 DEF Sizes
<1>8. Sum(Sizes(b)) \in Nat
  BY <1>4, <1>7, SumType
<1> QED
  BY <1>1, <1>2, <1>3, <1>4, <1>5, <1>6, <1>7, <1>8

\* The sizes in a batch add up without wrapping.
LEMMA NoWrap ==
  ASSUME NEW b \in Batches
  PROVE  WrappedSum(Sizes(b)) = Sum(Sizes(b))
<1> DEFINE n == Sum(Sizes(b))
           most == MaxBatch * MaxFileSize
<1>1. n <= Len(b) * MaxFileSize
  <2>1. MaxFileSize \in Nat
    BY QuotaAssumption
  <2> QED
    BY <2>1, BatchType, SumBound
<1>2. Len(b) * MaxFileSize <= most /\ Len(b) * MaxFileSize \in Nat /\ most \in Nat
  BY BatchType, QuotaAssumption
<1>3. n \in Nat /\ Top \in Nat /\ most < Top
  BY BatchType, QuotaAssumption
<1>4. n < Top
  <2> DEFINE x == Len(b) * MaxFileSize
  <2> HIDE DEF x, n, most
  <2> QED
    BY <1>1, <1>2, <1>3 DEF x
<1> HIDE DEF n
<1>5. Wrap(n) = n
  <2> DEFINE W == 2 * Top
             m == n + Top
  <2>1. m \in Nat /\ W \in Nat /\ m < W /\ m - Top = n
    BY <1>3, <1>4
  <2> HIDE DEF W, m
  <2>2. m % W = m
    BY <2>1
  <2> QED
    BY <2>1, <2>2 DEF Wrap, W, m
<1> QED
  BY <1>5 DEF n, WrappedSum

\* A request that holds nothing was granted nothing.
LEMMA NothingGranted == <<>> \in Batches /\ Sum(Sizes(<<>>)) = 0
<1>1. <<>> \in Batches
  <2>1. <<>> \in [1..0 -> Acceptable] /\ 0 \in 0..MaxBatch
    BY QuotaAssumption
  <2> QED
    BY <2>1 DEF Batches
<1>2. Units(Sizes(<<>>)) = {}
  <2>1. DOMAIN Sizes(<<>>) = {}
    BY DEF Sizes
  <2> QED
    BY <2>1, UnitsOf
<1> QED
  BY <1>1, <1>2, FS_EmptySet DEF Sum

\* The sizes of some of the rows.
LEMMA RowsType ==
  ASSUME NEW F \in SUBSET File, NEW s \in [File -> Declared]
  PROVE  /\ IsFiniteSet(F) /\ [f \in F |-> s[f]] \in [F -> Nat]
         /\ Sum([f \in F |-> s[f]]) \in Nat
<1>1. IsFiniteSet(F)
  BY QuotaAssumption, FS_Subset
<1>2. \A f \in F : s[f] \in Nat
  BY QuotaAssumption DEF Declared
<1>3. [f \in F |-> s[f]] \in [F -> Nat]
  BY <1>2
<1> QED
  BY <1>1, <1>3, SumType

\* What is granted to all is what is granted to one and what is granted to the others.
LEMMA GrantsSplit ==
  ASSUME NEW q \in [Req -> Batches], NEW r \in Req
  PROVE  /\ Sum(Grants(q)) = Sum(Sizes(q[r])) + Others(q, r)
         /\ Sum(Grants(q)) \in Nat /\ Others(q, r) \in Nat /\ Sum(Sizes(q[r])) \in Nat
<1>1. IsFiniteSet(Req) /\ IsFiniteSet(Req \ {r})
  BY QuotaAssumption, FS_Subset
<1>2. \A y \in Req : Grants(q)[y] = Sum(Sizes(q[y])) /\ Grants(q)[y] \in Nat
  BY BatchType DEF Grants
<1>3. Grants(q) \in [Req -> Nat]
  BY <1>2 DEF Grants
<1>4. [y \in Req \ {r} |-> Grants(q)[y]] \in [Req \ {r} -> Nat]
  BY <1>2
<1>5. Sum(Grants(q)) \in Nat /\ Others(q, r) \in Nat
  BY <1>1, <1>3, <1>4, SumType DEF Others
<1>6. Sum(Grants(q)) = Grants(q)[r] + Others(q, r)
  <2> DEFINE g == Grants(q)
  <2>1. g \in [Req -> Nat]
    BY <1>3
  <2> HIDE DEF g
  <2>2. Sum(g) = g[r] + Sum([y \in Req \ {r} |-> g[y]])
    BY <1>1, <2>1, SumSplit
  <2> QED
    BY <2>2 DEF Others, g
<1> QED
  BY <1>2, <1>5, <1>6

\* When a request accepts or gives up a batch, the others hold what they held.
LEMMA OthersKeep ==
  ASSUME NEW q \in [Req -> Batches], NEW r \in Req, NEW b \in Batches
  PROVE  Others([q EXCEPT ![r] = b], r) = Others(q, r)
<1> DEFINE p == [q EXCEPT ![r] = b]
<1>1. \A y \in Req \ {r} : p[y] = q[y]
  OBVIOUS
<1> HIDE DEF p
<1>2. \A y \in Req \ {r} : Grants(p)[y] = Grants(q)[y]
  BY <1>1 DEF Grants
<1>3. [y \in Req \ {r} |-> Grants(p)[y]] = [y \in Req \ {r} |-> Grants(q)[y]]
  BY <1>2
<1> QED
  BY <1>3 DEF Others, p

\* If each was granted at most a quota, all but one hold at most that many quotas less one.
LEMMA OthersBound ==
  ASSUME NEW q \in [Req -> Batches], NEW r \in Req, \A y \in Req : Sum(Sizes(q[y])) <= Quota
  PROVE  Others(q, r) + Quota <= Quota * Cardinality(Req)
<1> DEFINE c == Cardinality(Req)
           d == Cardinality(Req \ {r})
<1>1. IsFiniteSet(Req \ {r}) /\ d = c - 1 /\ c \in Nat /\ d \in Nat /\ Quota \in Nat
  BY QuotaAssumption, FS_RemoveElement, FS_CardinalityType
<1>2. \A y \in Req \ {r} : Grants(q)[y] \in Nat /\ Grants(q)[y] <= Quota
  BY BatchType DEF Grants
<1>3. [y \in Req \ {r} |-> Grants(q)[y]] \in [Req \ {r} -> Nat]
  BY <1>2
<1>4. Others(q, r) <= d * Quota
  BY <1>1, <1>2, <1>3, SumBound DEF Others
<1>5. Others(q, r) \in Nat
  BY GrantsSplit
<1> HIDE DEF c, d
<1>6. Quota * c = d * Quota + Quota
  BY <1>1
<1>7. d * Quota \in Nat
  BY <1>1
<1> DEFINE x == d * Quota
<1> HIDE DEF x
<1> QED
  BY <1>1, <1>4, <1>5, <1>6, <1>7 DEF x, c

-----------------------------------------------------------------------------
(* The type invariant *)

\* It holds at the start: no file has a row and no request has accepted anything.
LEMMA TypeInit == Init => TypeOK
<1> SUFFICES ASSUME Init PROVE TypeOK
  OBVIOUS
<1>1. 0 \in Declared
  BY QuotaAssumption DEF Declared
<1>2. req \in [Req -> Batches]
  BY NothingGranted DEF Init
<1> QED
  BY <1>1, <1>2 DEF Init, TypeOK, Batches

\* A request holds a batch of uploads that were accepted, before and after every step.
LEMMA RequestsStep ==
  ASSUME req \in [Req -> Batches], [Next]_vars
  PROVE  req' \in [Req -> Batches]
<1>1. ASSUME NEW r \in Req, NEW n \in 1..MaxBatch, NEW uploads \in [1..n -> Acceptable],
             Check(r, uploads)
      PROVE  req' \in [Req -> Batches]
  <2>1. n \in 0..MaxBatch
    BY QuotaAssumption
  <2>2. uploads \in Batches
    BY <2>1 DEF Batches
  <2> QED
    BY <1>1, <2>2 DEF Check
<1>2. ASSUME NEW r \in Req, NEW place, Insert(r, place) PROVE req' \in [Req -> Batches]
  BY <1>2, NothingGranted DEF Insert
<1>3. ASSUME NEW r \in Req, Abandon(r) PROVE req' \in [Req -> Batches]
  BY <1>3, NothingGranted DEF Abandon
<1>4. ASSUME NEW f \in File, TrashFile(f) \/ RestoreFile(f) \/ RemoveFile(f)
      PROVE  req' = req
  BY <1>4 DEF TrashFile, RestoreFile, RemoveFile
<1>5. ASSUME UNCHANGED vars PROVE req' = req
  BY <1>5 DEF vars
<1> QED
  BY <1>1, <1>2, <1>3, <1>4, <1>5 DEF Next

\* The place of each upload of a batch is a row of its own, and gets the size of that upload.
LEMMA PlacedSizes ==
  ASSUME NEW b \in Batches, NEW place \in Places(Len(b))
  PROVE  /\ place \in Surjection(1..Len(b), Range(place)) /\ Range(place) \subseteq File
         /\ \A i \in 1..Len(b) : (CHOOSE j \in DOMAIN place : place[j] = place[i]) = i
<1>1. place \in [1..Len(b) -> File] /\ IsInjective(place)
  BY DEF Places
<1>2. DOMAIN place = 1..Len(b)
  BY <1>1
<1>3. place \in Surjection(1..Len(b), Range(place)) /\ Range(place) \subseteq File
  BY <1>1, <1>2 DEF Range, Surjection
<1>4. ASSUME NEW i \in 1..Len(b)
      PROVE  (CHOOSE j \in DOMAIN place : place[j] = place[i]) = i
  <2>1. \A j \in DOMAIN place : place[j] = place[i] <=> j = i
    BY <1>1, <1>2 DEF IsInjective
  <2> QED
    BY <1>2, <2>1
<1> QED
  BY <1>3, <1>4

\* An insertion leaves the size of the other rows alone.
LEMMA InsertSizes ==
  ASSUME req \in [Req -> Batches], size \in [File -> Declared],
         NEW r \in Req, NEW place \in Places(Len(req[r])), Insert(r, place)
  PROVE  /\ size' \in [File -> Declared]
         /\ \A f \in File \ Range(place) : size'[f] = size[f]
         /\ \A i \in 1..Len(req[r]) : size'[place[i]] = Sizes(req[r])[i]
<1> DEFINE b == req[r]
<1>1. b \in Batches
  OBVIOUS
<1>2. place \in Places(Len(b))
  OBVIOUS
<1>3. size' = [f \in File |-> IF f \in Range(place)
                              THEN b[CHOOSE i \in DOMAIN place : place[i] = f].size
                              ELSE size[f]]
  BY DEF Insert
<1> HIDE DEF b
<1>4. /\ b \in [1..Len(b) -> Acceptable]
      /\ \A i \in 1..Len(b) : Sizes(b)[i] = b[i].size
  BY <1>1, BatchType
<1>5. place \in Surjection(1..Len(b), Range(place)) /\ Range(place) \subseteq File
  BY <1>1, <1>2, PlacedSizes
<1>6. \A i \in 1..Len(b) : place[i] \in Range(place)
  BY <1>5 DEF Surjection
<1>7. \A i \in 1..Len(b) : (CHOOSE j \in DOMAIN place : place[j] = place[i]) = i
  BY <1>1, <1>2, PlacedSizes
<1>8. ASSUME NEW i \in 1..Len(b) PROVE size'[place[i]] = b[i].size
  BY <1>3, <1>5, <1>6, <1>7
<1>9. ASSUME NEW f \in File PROVE size'[f] \in Declared
  <2>1. CASE f \notin Range(place)
    BY <1>3, <2>1
  <2>2. CASE f \in Range(place)
    <3>1. PICK i \in 1..Len(b) : place[i] = f
      BY <1>5, <2>2 DEF Surjection
    <3>2. b[i].size \in Declared
      BY <1>4, AcceptableAddUp
    <3> QED
      BY <1>8, <3>1, <3>2
  <2> QED
    BY <2>1, <2>2
<1>10. size' \in [File -> Declared]
  <2>1. size' = [f \in File |-> size'[f]]
    BY <1>3
  <2> QED
    BY <1>9, <2>1
<1>11. \A f \in File \ Range(place) : size'[f] = size[f]
  BY <1>3
<1> QED
  BY <1>4, <1>8, <1>10, <1>11 DEF b

\* Every step keeps rows and requests well formed.
LEMMA TypeStep == TypeOK /\ [Next]_vars => TypeOK'
<1> SUFFICES ASSUME TypeOK, [Next]_vars PROVE TypeOK'
  OBVIOUS
<1> DEFINE Rows == /\ fileSt \in [File -> {"none", "live", "trashed"}]
                   /\ size \in [File -> Declared]
                   /\ restored \subseteq {f \in File : fileSt[f] # "none"}
<1>0. Rows /\ req \in [Req -> Batches]
  BY DEF TypeOK, Batches
<1>1. req' \in [Req -> Batches]
  BY <1>0, RequestsStep
<1>2. Rows'
  <2>1. ASSUME NEW r \in Req, NEW uploads, Check(r, uploads) PROVE Rows'
    BY <1>0, <2>1 DEF Check
  <2>2. ASSUME NEW r \in Req, NEW place \in Places(Len(req[r])), Insert(r, place) PROVE Rows'
    <3>1. size' \in [File -> Declared]
      BY <1>0, <2>2, InsertSizes
    <3>2. fileSt' = [f \in File |-> IF f \in Range(place) THEN "live" ELSE fileSt[f]]
      BY <2>2 DEF Insert
    <3> QED
      BY <1>0, <2>2, <3>1, <3>2 DEF Insert
  <2>3. ASSUME NEW r \in Req, Abandon(r) PROVE Rows'
    BY <1>0, <2>3 DEF Abandon
  <2>4. ASSUME NEW f \in File, TrashFile(f) PROVE Rows'
    BY <1>0, <2>4 DEF TrashFile
  <2>5. ASSUME NEW f \in File, RestoreFile(f) PROVE Rows'
    BY <1>0, <2>5 DEF RestoreFile
  <2>6. ASSUME NEW f \in File, RemoveFile(f) PROVE Rows'
    <3>1. 0 \in Declared
      BY QuotaAssumption DEF Declared
    <3> QED
      BY <1>0, <2>6, <3>1 DEF RemoveFile
  <2>7. ASSUME UNCHANGED vars PROVE Rows'
    BY <1>0, <2>7 DEF vars
  <2> QED
    BY <2>1, <2>2, <2>3, <2>4, <2>5, <2>6, <2>7 DEF Next
<1> QED
  BY <1>1, <1>2 DEF TypeOK, Batches

-----------------------------------------------------------------------------
(* The quota *)

\* The bytes of the files that were not brought back from the trash.
Kept == Sum(SizesOf(Live \ restored))

\* QuotaInv in the terms of this module.
LEMMA QuotaInvParts ==
  QuotaInv <=> /\ TypeOK
               /\ \A r \in Req : Sum(Sizes(req[r])) <= Quota
               /\ Kept + Sum(Grants(req)) <= Quota * Cardinality(Req)
  BY DEF QuotaInv, OvershootBounded, Granted, Grants, Kept

\* Both sums are natural numbers, and what is kept is part of the usage.
LEMMA KeptType ==
  ASSUME TypeOK
  PROVE  /\ Kept \in Nat /\ Usage \in Nat /\ Kept <= Usage
         /\ req \in [Req -> Batches] /\ Sum(Grants(req)) \in Nat
<1>1. size \in [File -> Declared] /\ req \in [Req -> Batches]
  BY DEF TypeOK, Batches
<1>2. Live \in SUBSET File /\ Live \ restored \in SUBSET Live /\ Live \ restored \in SUBSET File
  BY DEF Live
<1>3. IsFiniteSet(Live) /\ SizesOf(Live) \in [Live -> Nat] /\ Usage \in Nat
  BY <1>1, <1>2, RowsType DEF SizesOf, Usage
<1>4. SizesOf(Live \ restored) \in [Live \ restored -> Nat] /\ Kept \in Nat
  BY <1>1, <1>2, RowsType DEF SizesOf, Kept
<1>5. \A f \in Live \ restored : SizesOf(Live \ restored)[f] <= SizesOf(Live)[f]
  <2>1. \A f \in File : size[f] \in Nat
    BY <1>1, QuotaAssumption DEF Declared
  <2> QED
    BY <1>2, <2>1 DEF SizesOf
<1>6. Kept <= Usage
  BY <1>2, <1>3, <1>4, <1>5, SumMonotone DEF Kept, Usage
<1>7. Sum(Grants(req)) \in Nat
  <2>1. \A r \in Req : Sum(Sizes(req[r])) \in Nat
    BY <1>1, BatchType
  <2>2. Grants(req) \in [Req -> Nat]
    BY <2>1 DEF Grants
  <2> QED
    BY <2>2, QuotaAssumption, SumType
<1> QED
  BY <1>1, <1>3, <1>4, <1>6, <1>7

\* Nothing is kept and nothing granted at the start.
LEMMA QuotaInit == Init => QuotaInv
<1> SUFFICES ASSUME Init PROVE QuotaInv
  OBVIOUS
<1>1. TypeOK
  BY TypeInit
<1>2. \A r \in Req : Sum(Sizes(req[r])) = 0
  BY NothingGranted DEF Init
<1>3. Kept = 0
  <2>1. DOMAIN SizesOf(Live \ restored) = {}
    BY DEF SizesOf, Live, Init
  <2>2. Units(SizesOf(Live \ restored)) = {}
    BY <2>1, UnitsOf
  <2> QED
    BY <2>2, FS_EmptySet DEF Kept, Sum
<1>4. Sum(Grants(req)) <= Cardinality(Req) * 0
  <2>1. Grants(req) \in [Req -> Nat] /\ \A r \in Req : Grants(req)[r] <= 0
    BY <1>2 DEF Grants
  <2> QED
    BY <2>1, QuotaAssumption, SumBound
<1>5. Cardinality(Req) \in Nat /\ Quota \in Nat
  BY QuotaAssumption, FS_CardinalityType
<1>6. Quota * Cardinality(Req) \in Nat /\ Cardinality(Req) * 0 = 0
  BY <1>5
<1>7. Kept + Sum(Grants(req)) <= Quota * Cardinality(Req)
  <2> DEFINE x == Quota * Cardinality(Req)
             y == Sum(Grants(req))
  <2>1. x \in Nat /\ y \in Nat /\ y <= 0
    BY <1>1, <1>4, <1>6, KeptType
  <2> HIDE DEF x, y
  <2> QED
    BY <1>3, <2>1 DEF x, y
<1> QED
  BY <1>1, <1>2, <1>5, <1>7, QuotaInvParts

\* A request that passes the check fits in the quota with all that is kept; the others were
\* granted at most a quota each.
LEMMA CheckKeepsQuota ==
  ASSUME QuotaInv, NEW r \in Req, NEW uploads \in Batches, Check(r, uploads)
  PROVE  /\ \A y \in Req : Sum(Sizes(req'[y])) <= Quota
         /\ Kept' + Sum(Grants(req')) <= Quota * Cardinality(Req)
<1>1. TypeOK /\ \A y \in Req : Sum(Sizes(req[y])) <= Quota
  BY QuotaInvParts
<1>2. Kept \in Nat /\ Usage \in Nat /\ Kept <= Usage /\ req \in [Req -> Batches]
  BY <1>1, KeptType
<1>3. Kept' = Kept
  BY DEF Check, Kept, SizesOf, Live
<1>4. req' = [req EXCEPT ![r] = uploads] /\ req' \in [Req -> Batches] /\ req'[r] = uploads
  BY <1>2 DEF Check
<1>5. Sum(Sizes(uploads)) \in Nat /\ Usage + Sum(Sizes(uploads)) <= Quota
  BY NoWrap, BatchType DEF Check, WithinQuota
<1>6. \A y \in Req : Sum(Sizes(req'[y])) <= Quota
  <2>1. Quota \in Nat
    BY QuotaAssumption
  <2>2. Sum(Sizes(uploads)) <= Quota
    BY <1>2, <1>5, <2>1
  <2> QED
    BY <1>1, <1>2, <1>4, <2>2
<1>7. Others(req', r) = Others(req, r)
  BY <1>2, <1>4, OthersKeep
<1>8. Sum(Grants(req')) = Sum(Sizes(uploads)) + Others(req', r) /\ Others(req', r) \in Nat
  BY <1>4, GrantsSplit
<1>9. Others(req, r) + Quota <= Quota * Cardinality(Req)
  BY <1>1, <1>2, OthersBound
<1>10. Kept' + Sum(Grants(req')) <= Quota * Cardinality(Req)
  <2> DEFINE all == Quota * Cardinality(Req)
             bytes == Sum(Sizes(uploads))
             rest == Others(req, r)
  <2>1. Quota \in Nat /\ all \in Nat
    BY QuotaAssumption, FS_CardinalityType
  <2>2. bytes \in Nat /\ rest \in Nat /\ Usage + bytes <= Quota /\ rest + Quota <= all
    BY <1>5, <1>7, <1>8, <1>9
  <2>3. Sum(Grants(req')) = bytes + rest
    BY <1>7, <1>8
  <2> HIDE DEF all, bytes, rest
  <2>4. Kept + (bytes + rest) <= all
    BY <1>2, <2>1, <2>2
  <2> QED
    BY <1>3, <2>3, <2>4 DEF all
<1> QED
  BY <1>6, <1>10

\* A request that ends holds nothing more: that much less is granted.
LEMMA EndOfRequest ==
  ASSUME QuotaInv, NEW r \in Req, req' = [req EXCEPT ![r] = <<>>]
  PROVE  /\ \A y \in Req : Sum(Sizes(req'[y])) <= Quota
         /\ Sum(Grants(req')) + Sum(Sizes(req[r])) = Sum(Grants(req))
         /\ Sum(Grants(req')) \in Nat /\ Sum(Sizes(req[r])) \in Nat
<1>1. TypeOK /\ \A y \in Req : Sum(Sizes(req[y])) <= Quota
  BY QuotaInvParts
<1>2. req \in [Req -> Batches] /\ Quota \in Nat
  BY <1>1, KeptType, QuotaAssumption
<1>3. req' \in [Req -> Batches] /\ req'[r] = <<>>
  BY <1>2, NothingGranted
<1>4. \A y \in Req : Sum(Sizes(req'[y])) <= Quota
  <2>1. \A y \in Req : req'[y] = req[y] \/ req'[y] = <<>>
    BY <1>2
  <2> QED
    BY <1>1, <1>2, <2>1, NothingGranted
<1>5. Others(req', r) = Others(req, r)
  BY <1>2, NothingGranted, OthersKeep
<1>6. Sum(Grants(req')) = Sum(Sizes(req'[r])) + Others(req', r) /\ Others(req', r) \in Nat
  BY <1>3, GrantsSplit
<1>7. Sum(Sizes(req'[r])) = 0
  BY <1>3, NothingGranted
<1>8. Sum(Grants(req)) = Sum(Sizes(req[r])) + Others(req, r) /\ Sum(Sizes(req[r])) \in Nat
  BY <1>2, GrantsSplit
<1>9. Sum(Grants(req')) = Others(req, r) /\ Others(req, r) \in Nat
  BY <1>5, <1>6, <1>7
<1> QED
  BY <1>4, <1>8, <1>9

\* An insertion keeps no more than the request was granted.
LEMMA InsertKeeps ==
  ASSUME TypeOK, NEW r \in Req, NEW place \in Places(Len(req[r])), Insert(r, place)
  PROVE  Kept' \in Nat /\ Kept' <= Kept + Sum(Sizes(req[r]))
<1> DEFINE b == req[r]
           N == Range(place)
           A == Live \ restored
           s == size'
<1>1. /\ size \in [File -> Declared] /\ req \in [Req -> Batches] /\ b \in Batches
      /\ restored \subseteq {f \in File : fileSt[f] # "none"}
      /\ fileSt \in [File -> {"none", "live", "trashed"}]
  BY DEF TypeOK, Batches
<1>2. place \in Surjection(1..Len(b), N) /\ N \subseteq File
  BY <1>1, PlacedSizes
<1>3. /\ s \in [File -> Declared] /\ \A f \in File \ N : s[f] = size[f]
      /\ \A i \in 1..Len(b) : s[place[i]] = Sizes(b)[i]
  BY <1>1, InsertSizes
<1>4. \A f \in N : fileSt[f] = "none"
  <2>1. DOMAIN b = 1..Len(b)
    BY <1>1, BatchType
  <2>2. \A i \in 1..Len(b) : fileSt[place[i]] = "none"
    BY <2>1 DEF Insert
  <2>3. \A f \in N : \E i \in 1..Len(b) : place[i] = f
    BY <1>2 DEF Surjection
  <2> QED
    BY <2>2, <2>3
<1>5. A \cap N = {} /\ A \subseteq File
  BY <1>4 DEF Live
<1>6. Live' \ restored' = A \cup N
  <2>1. /\ fileSt' = [f \in File |-> IF f \in N THEN "live" ELSE fileSt[f]]
        /\ restored' = restored
    BY DEF Insert
  <2> HIDE DEF N
  <2> QED
    BY <1>1, <1>2, <1>4, <2>1 DEF Live
<1>7. Kept' = Sum([f \in A \cup N |-> s[f]])
  BY <1>6 DEF Kept, SizesOf
<1> HIDE DEF A, N, s, b
<1> DEFINE U == A \cup N
           g == [f \in U |-> s[f]]
           old == [f \in A |-> size[f]]
           new == [f \in N |-> s[f]]
<1>8. U \in SUBSET File /\ A \in SUBSET U /\ N = U \ A
  BY <1>2, <1>5
<1>9. IsFiniteSet(U) /\ g \in [U -> Nat] /\ Sum(g) \in Nat
  BY <1>3, <1>8, RowsType
<1>10. new \in [N -> Nat] /\ Sum(new) \in Nat
  BY <1>2, <1>3, RowsType
<1>11. old \in [A -> Nat]
  BY <1>1, <1>5, RowsType
<1>12. /\ \A f \in A : old[f] = g[f]
       /\ \A f \in N : new[f] = g[f]
  BY <1>3, <1>5
<1>13. Sum(g) = Sum(old) + Sum(new)
  <2> HIDE DEF U, g, old, new
  <2>1. IsPart(A, old, g) /\ IsPart(N, new, g)
    BY <1>10, <1>11, <1>12 DEF IsPart
  <2>2. IsPart(U \ A, new, g)
    BY <1>8, <2>1, Zenon
  <2> QED
    BY <1>8, <1>9, <2>1, <2>2, SumOfParts
<1>14. Sum(old) = Kept
  BY DEF A, Kept, SizesOf
<1>15. Sum(new) <= Sum(Sizes(b))
  <2>1. \A i \in 1..Len(b) : new[place[i]] = Sizes(b)[i]
    <3>1. \A i \in 1..Len(b) : place[i] \in N
      BY <1>2 DEF Surjection
    <3> QED
      BY <1>3, <3>1
  <2>2. IsFiniteSet(1..Len(b)) /\ Sizes(b) \in [1..Len(b) -> Nat]
    BY <1>1, BatchType
  <2> HIDE DEF new
  <2> QED
    BY <1>2, <1>10, <2>1, <2>2, SumMoved
<1>16. Sum(Sizes(b)) \in Nat /\ Kept \in Nat
  BY <1>1, BatchType, KeptType
<1> HIDE DEF g, old, new
<1>17. Sum(g) <= Kept + Sum(Sizes(b))
  BY <1>9, <1>10, <1>13, <1>14, <1>15, <1>16
<1> QED
  BY <1>7, <1>9, <1>17 DEF b, g

\* Of the files that no step brings back from the trash, one step on a row keeps no more.
LEMMA RowKeeps ==
  ASSUME TypeOK, TypeOK', NEW f \in File, TrashFile(f) \/ RestoreFile(f) \/ RemoveFile(f)
  PROVE  Kept' \in Nat /\ Kept' <= Kept
<1> DEFINE A == Live \ restored
           B == Live' \ restored'
           s == size'
<1>1. /\ fileSt \in [File -> {"none", "live", "trashed"}] /\ size \in [File -> Declared]
      /\ s \in [File -> Declared]
  BY DEF TypeOK
<1>2. B \subseteq A /\ A \subseteq File
  BY <1>1 DEF Live, TrashFile, RestoreFile, RemoveFile
<1>3. \A g \in B : s[g] = size[g]
  BY <1>1 DEF Live, TrashFile, RestoreFile, RemoveFile
<1>4. Kept = Sum([g \in A |-> size[g]]) /\ Kept' = Sum([g \in B |-> s[g]])
  BY DEF Kept, SizesOf
<1> HIDE DEF A, B, s
<1> DEFINE old == [g \in A |-> size[g]]
           new == [g \in B |-> s[g]]
<1>5. IsFiniteSet(A) /\ old \in [A -> Nat]
  BY <1>1, <1>2, RowsType
<1>6. new \in [B -> Nat] /\ Sum(new) \in Nat
  BY <1>1, <1>2, RowsType
<1>7. \A g \in B : new[g] <= old[g]
  <2>1. \A g \in B : new[g] \in Nat /\ new[g] = old[g]
    BY <1>2, <1>3, <1>6
  <2> QED
    BY <2>1
<1> HIDE DEF old, new
<1>8. Sum(new) <= Sum(old)
  BY <1>2, <1>5, <1>6, <1>7, SumMonotone
<1> QED
  BY <1>4, <1>6, <1>8 DEF old, new

\* Every step preserves QuotaInv: a check moves free quota to a request, an insertion moves what
\* the request was granted to the rows, and every other step only gives back.
LEMMA QuotaStep == QuotaInv /\ [Next]_vars => QuotaInv'
<1> SUFFICES ASSUME QuotaInv, [Next]_vars PROVE QuotaInv'
  OBVIOUS
<1> DEFINE all == Quota * Cardinality(Req)
           Bounded == /\ \A r \in Req : Sum(Sizes(req'[r])) <= Quota
                      /\ Kept' + Sum(Grants(req')) <= all
<1>1. /\ TypeOK /\ \A r \in Req : Sum(Sizes(req[r])) <= Quota
      /\ Kept + Sum(Grants(req)) <= all
  BY QuotaInvParts
<1>2. TypeOK'
  BY <1>1, TypeStep
<1>3. Kept \in Nat /\ Sum(Grants(req)) \in Nat /\ req \in [Req -> Batches]
  BY <1>1, KeptType
<1>4. all \in Nat
  BY QuotaAssumption, FS_CardinalityType
<1> HIDE DEF all
<1>5. ASSUME NEW r \in Req, NEW n \in 1..MaxBatch, NEW uploads \in [1..n -> Acceptable],
             Check(r, uploads)
      PROVE  Bounded
  <2>1. n \in 0..MaxBatch
    BY QuotaAssumption
  <2>2. uploads \in Batches
    BY <2>1 DEF Batches
  <2> QED
    BY <1>5, <2>2, CheckKeepsQuota DEF all
<1>6. ASSUME NEW r \in Req, NEW place \in Places(Len(req[r])), Insert(r, place)
      PROVE  Bounded
  <2>1. req' = [req EXCEPT ![r] = <<>>]
    BY <1>6 DEF Insert
  <2>2. Kept' \in Nat /\ Kept' <= Kept + Sum(Sizes(req[r]))
    BY <1>1, <1>6, InsertKeeps
  <2>3. /\ \A y \in Req : Sum(Sizes(req'[y])) <= Quota
        /\ Sum(Grants(req')) + Sum(Sizes(req[r])) = Sum(Grants(req))
        /\ Sum(Grants(req')) \in Nat /\ Sum(Sizes(req[r])) \in Nat
    BY <2>1, EndOfRequest
  <2>4. Kept' + Sum(Grants(req')) <= all
    BY <1>1, <1>3, <1>4, <2>2, <2>3
  <2> QED
    BY <2>3, <2>4
<1>7. ASSUME NEW r \in Req, Abandon(r) PROVE Bounded
  <2>1. req' = [req EXCEPT ![r] = <<>>]
    BY <1>7 DEF Abandon
  <2>2. Kept' = Kept
    BY <1>7 DEF Abandon, Kept, SizesOf, Live
  <2>3. /\ \A y \in Req : Sum(Sizes(req'[y])) <= Quota
        /\ Sum(Grants(req')) + Sum(Sizes(req[r])) = Sum(Grants(req))
        /\ Sum(Grants(req')) \in Nat /\ Sum(Sizes(req[r])) \in Nat
    BY <2>1, EndOfRequest
  <2>4. Kept' + Sum(Grants(req')) <= all
    BY <1>1, <1>3, <1>4, <2>2, <2>3
  <2> QED
    BY <2>3, <2>4
<1>8. ASSUME NEW f \in File, TrashFile(f) \/ RestoreFile(f) \/ RemoveFile(f) PROVE Bounded
  <2>1. req' = req
    BY <1>8 DEF TrashFile, RestoreFile, RemoveFile
  <2>2. Kept' \in Nat /\ Kept' <= Kept
    BY <1>1, <1>2, <1>8, RowKeeps
  <2>3. Kept' + Sum(Grants(req)) <= all
    BY <1>1, <1>3, <1>4, <2>2
  <2> QED
    BY <1>1, <2>1, <2>3
<1>9. ASSUME UNCHANGED vars PROVE Bounded
  <2>1. req' = req /\ Kept' = Kept
    BY <1>9 DEF vars, Kept, SizesOf, Live
  <2> QED
    BY <1>1, <2>1
<1>10. Bounded
  BY <1>5, <1>6, <1>7, <1>8, <1>9 DEF Next
<1> QED
  BY <1>2, <1>10 DEF all, QuotaInv, OvershootBounded, Granted, Grants, Kept

-----------------------------------------------------------------------------
(* Theorems *)

\* The inductive invariant holds of create_file and bulk_init_uploads, however their checks and
\* their transactions interleave with each other and with the steps that remove or restore files.
THEOREM QuotaInvCorrect == Spec => []QuotaInv
  BY QuotaInit, QuotaStep, PTL DEF Spec

\* Reading the usage before the transaction costs at most one quota per request in flight: with
\* n requests a user fills at most n quotas, not counting what restore_file brings back.
THEOREM OvershootIsBounded == Spec => []OvershootBounded
<1>1. QuotaInv => OvershootBounded
  BY DEF QuotaInv
<1> QED
  BY <1>1, QuotaInvCorrect, PTL

\* What validate_create_request and validate_bulk_init_request let pass adds up, although the
\* chunk sizes are added in an i64 that wraps: it is exact, or too large by whole turns.
THEOREM UploadsAddUp == Spec => []ChunksAddUp
<1>1. TypeOK => ChunksAddUp
  <2> SUFFICES ASSUME TypeOK, NEW r \in Req, NEW i \in DOMAIN req[r] PROVE req[r][i].addsUp
    BY DEF ChunksAddUp
  <2>1. req[r] \in Batches
    BY DEF TypeOK, Batches
  <2>2. req[r] \in [1..Len(req[r]) -> Acceptable]
    BY <2>1, BatchType
  <2>3. req[r][i] \in Acceptable
    BY <2>2
  <2> QED
    BY <2>3, AcceptableAddUp
<1>2. QuotaInv => TypeOK
  BY DEF QuotaInv
<1> QED
  BY <1>1, <1>2, QuotaInvCorrect, PTL
=============================================================================
