--------------------------- MODULE AppendReadsProofs ---------------------------
(***************************************************************************)
(* The reads of an APPEND_ONLY entry, for texts, chunk sizes, call caps,     *)
(* runners and faults of any number: the rows, claims and runners are well   *)
(* typed, and an offset vouches for its text.                               *)
(***************************************************************************)
EXTENDS AppendReads, SequenceTheorems, FiniteSetTheorems, WellFoundedInduction, TLAPS

--------------------------------------------------------------------------------
(* Bounded sets of naturals *)

\* Of any naturals one is the least.
LEMMA LeastNat ==
    ASSUME NEW S \in SUBSET Nat, S # {}
    PROVE  \E m \in S : \A k \in S : m <= k
<1> DEFINE Less == {x \in Nat \X Nat : x[1] < x[2]}
<1>1. IsWellFoundedOn(Less, Nat)
    BY NatLessThanWellFounded, Zenon DEF OpToRel
<1> HIDE DEF Less
<1>2. PICK m \in S : \A k \in S : ~(<<k, m>> \in Less)
    BY <1>1, WFMin
<1>3. ASSUME NEW k \in S PROVE m <= k
  <2>1. k \in Nat /\ m \in Nat
    OBVIOUS
  <2>2. ~(k < m)
    BY <1>2, <2>1, Zenon DEF Less
  <2> QED
    BY <2>1, <2>2
<1> QED
    BY <1>3

\* Of naturals with a bound one is the last.
LEMMA LastOf ==
    ASSUME NEW n \in Nat, NEW S \in SUBSET (0..n), S # {}
    PROVE  Last(S) \in S /\ \A k \in S : k <= Last(S)
<1> DEFINE D == {n - s : s \in S}
<1>1. D \in SUBSET Nat /\ D # {}
  <2>1. \A s \in S : n - s \in Nat
    OBVIOUS
  <2>2. PICK s \in S : TRUE
    OBVIOUS
  <2>3. n - s \in D
    BY <2>2
  <2> QED
    BY <2>1, <2>3
<1>2. PICK d \in D : \A k \in D : d <= k
    BY <1>1, LeastNat
<1>3. PICK m \in S : d = n - m
    OBVIOUS
<1>4. \A k \in S : k <= m
  <2> SUFFICES ASSUME NEW k \in S PROVE k <= m
    OBVIOUS
  <2>1. n - m <= n - k /\ k \in Int /\ m \in Int
    BY <1>2, <1>3
  <2> QED
    BY <2>1
<1> QED
    BY <1>4 DEF Last

--------------------------------------------------------------------------------
(* The chunks of a read *)

Unit == Nat \X Nat
Chunk == [text : Seq(Unit), ctx : Seq(Unit)]
PlanType == [delta : BOOLEAN, from : Nat]

\* The chunk size of a plan.
Size(plan) == IF plan.delta THEN DeltaChunk ELSE WholeChunk

\* How many chunks cover m units: enough, and none of them empty.
LEMMA DivBounds ==
    ASSUME NEW m \in Nat, NEW size \in Nat \ {0}
    PROVE  LET n == (m + size - 1) \div size IN
           n \in Nat /\ m <= n * size /\ n * size <= m + size - 1
BY Z3

\* Steps of one size only grow.
LEMMA StepsGrow ==
    ASSUME NEW size \in Nat, NEW j \in Nat, NEW k \in Nat, j <= k
    PROVE  j * size <= k * size /\ j * size \in Nat
BY Z3

\* Every unit within the first K chunks is in one of them.
LEMMA ChunkOf ==
    ASSUME NEW size \in Nat \ {0}, NEW from \in Nat, NEW K \in Nat,
           NEW p \in Nat, from < p, p <= from + K * size
    PROVE  \E k \in 1..K : from + (k - 1) * size < p /\ p <= from + (k - 1) * size + size
<1> DEFINE S == {k \in Nat : p <= from + k * size}
<1>1. K \in S /\ S \in SUBSET Nat
    OBVIOUS
<1>2. PICK k \in S : \A j \in S : k <= j
    BY <1>1, LeastNat
<1>3. k \in Nat /\ p <= from + k * size /\ k <= K
    BY <1>1, <1>2
<1>4. k # 0
    BY <1>3
<1>5. k - 1 \in Nat /\ k - 1 \notin S
    BY <1>2, <1>3, <1>4
<1>6. (k - 1) * size \in Nat
    BY <1>5, StepsGrow
<1>7. from + (k - 1) * size < p
    BY <1>5, <1>6
<1>8. k * size = (k - 1) * size + size
    BY <1>3, Z3
<1>9. k \in 1..K
    BY <1>3, <1>4
<1>10. p <= from + (k - 1) * size + size
    BY <1>3, <1>6, <1>8
<1> QED
    BY <1>7, <1>9, <1>10

\* The smaller of two numbers.
LEMMA SmallerOf ==
    ASSUME NEW a \in Nat, NEW b \in Nat
    PROVE  /\ Smaller(a, b) \in Nat /\ Smaller(a, b) <= a /\ Smaller(a, b) <= b
           /\ Smaller(a, b) \in {a, b}
BY DEF Smaller

\* The cut of a text: each chunk starts inside the text, holds the units from there
\* to the next one, and together they reach the end.
LEMMA CutFacts ==
    ASSUME NEW content \in Seq(Unit), NEW from \in 0..Len(content),
           NEW size \in Nat \ {0}, NEW context \in Nat
    PROVE  LET all == Cut(content, from, size, context) IN
           /\ all \in Seq(Chunk) /\ Len(content) <= from + Len(all) * size
           /\ \A k \in 1..Len(all) :
                 /\ from + (k - 1) * size \in Nat /\ from + (k - 1) * size < Len(content)
                 /\ all[k].text = SubSeq(content, from + (k - 1) * size + 1,
                                         Smaller(from + (k - 1) * size + size, Len(content)))
<1> DEFINE L == Len(content)
           m == L - from
           n == (m + size - 1) \div size
           At(k) == from + (k - 1) * size
           Nth(k) == [text |-> SubSeq(content, At(k) + 1, Smaller(At(k) + size, L)),
                      ctx  |-> IF context = 0 THEN <<>>
                               ELSE SubSeq(content, At(k) + 1 - Smaller(context, At(k)), At(k))]
           all == Cut(content, from, size, context)
<1>1. L \in Nat /\ m \in Nat /\ from \in Nat /\ from + m = L
    OBVIOUS
<1>2. n \in Nat /\ m <= n * size /\ n * size <= m + size - 1
    BY <1>1, DivBounds
<1>3. all = [k \in 1..n |-> Nth(k)]
    BY DEF Cut
<1>4. ASSUME NEW k \in 1..n PROVE At(k) \in Nat /\ At(k) < L
  <2>1. k - 1 \in Nat /\ n - 1 \in Nat /\ k - 1 <= n - 1
    BY <1>2
  <2>2. (k - 1) * size \in Nat /\ (k - 1) * size <= (n - 1) * size
    BY <2>1, StepsGrow
  <2>3. (n - 1) * size = n * size - size
    BY <1>2, Z3
  <2>4. n * size \in Nat
    BY <1>2, StepsGrow
  <2> QED
    BY <1>1, <1>2, <2>2, <2>3, <2>4
<1>5. ASSUME NEW k \in 1..n PROVE Nth(k) \in Chunk
  <2>1. At(k) \in Nat /\ At(k) < L
    BY <1>4
  <2> HIDE DEF At, L
  <2>2. Smaller(At(k) + size, L) \in Nat /\ Smaller(At(k) + size, L) <= L
    <3>1. At(k) + size \in Nat /\ L \in Nat
      BY <1>1, <2>1
    <3> QED
      BY <3>1, SmallerOf
  <2>3. \A i \in (At(k) + 1)..Smaller(At(k) + size, L) : content[i] \in Unit
    BY <2>1, <2>2 DEF L
  <2>4. SubSeq(content, At(k) + 1, Smaller(At(k) + size, L)) \in Seq(Unit)
    BY <2>1, <2>2, <2>3, SubSeqProperties
  <2>5. Smaller(context, At(k)) \in Nat /\ Smaller(context, At(k)) <= At(k)
    BY <2>1, SmallerOf
  <2>6. \A i \in (At(k) + 1 - Smaller(context, At(k)))..At(k) : content[i] \in Unit
    BY <1>1, <2>1, <2>5 DEF L
  <2>7. SubSeq(content, At(k) + 1 - Smaller(context, At(k)), At(k)) \in Seq(Unit)
    BY <2>1, <2>5, <2>6, SubSeqProperties
  <2> QED
    BY <2>4, <2>7 DEF Chunk
<1> HIDE DEF Nth, n
<1>6. all \in Seq(Chunk) /\ Len(all) = n
    BY <1>2, <1>3, <1>5
<1>7. \A k \in 1..n : all[k] = Nth(k)
    BY <1>3
<1> HIDE DEF all, At
<1>8. \A k \in 1..n : all[k].text = SubSeq(content, At(k) + 1, Smaller(At(k) + size, L))
  <2> TAKE k \in 1..n
  <2>1. Nth(k).text = SubSeq(content, At(k) + 1, Smaller(At(k) + size, L))
    BY Zenon DEF Nth
  <2>2. all[k] = Nth(k)
    BY <1>7
  <2> QED
    BY <2>1, <2>2, Zenon
<1>9. n * size \in Nat
    BY <1>2, StepsGrow
<1>10. L <= from + n * size
    BY <1>1, <1>2, <1>9
<1> QED
    BY <1>4, <1>6, <1>8, <1>10 DEF all, At

\* The units of a chunk's text.
UnitsIn(chunk) == {chunk.text[k] : k \in DOMAIN chunk.text}

\* A plan reads from a place inside the text, a whole read from its start.
Fits(plan, content) == plan.from <= Len(content) /\ (~plan.delta => plan.from = 0)

\* Where the chunks of a plan start.
LEMMA StartsAt ==
    ASSUME NEW plan \in PlanType, NEW k \in Nat \ {0}
    PROVE  /\ Size(plan) \in Nat \ {0} /\ Starts(plan, k) \in Nat
           /\ Starts(plan, k) = plan.from + (k - 1) * Size(plan)
           /\ Starts(plan, k + 1) = Starts(plan, k) + Size(plan)
<1>1. Size(plan) \in Nat \ {0} /\ plan.from \in Nat
    BY AppendReadsAssumption DEF Size, PlanType
<1>2. \A j : Starts(plan, j) = plan.from + (j - 1) * Size(plan)
    BY DEF Starts, Size
<1>3. k - 1 \in Nat
    OBVIOUS
<1>4. (k - 1) * Size(plan) \in Nat
    BY <1>1, <1>3, StepsGrow
<1>5. (k + 1) - 1 = k /\ k * Size(plan) = (k - 1) * Size(plan) + Size(plan)
    BY <1>1, Z3
<1> QED
    BY <1>1, <1>2, <1>4, <1>5

\* The chunks a read is made of: each starts inside the text and has all its units up
\* to the next one; only a text that is read already has none.
LEMMA ChunksFacts ==
    ASSUME NEW content \in Seq(Unit), NEW plan \in PlanType, Fits(plan, content)
    PROVE  LET cs == Chunks(content, plan) IN
           /\ cs \in Seq(Chunk)
           /\ \A k \in 1..Len(cs) :
                 /\ Starts(plan, k) \in Nat /\ Starts(plan, k) < Len(content)
                 /\ \A p \in 1..Len(content) :
                       Starts(plan, k) < p /\ p <= Starts(plan, k + 1) => content[p] \in UnitsIn(cs[k])
           /\ plan.from < Len(content) => Len(cs) # 0
<1> DEFINE L == Len(content)
           size == Size(plan)
           context == IF plan.delta THEN Context ELSE 0
           all == Cut(content, plan.from, size, context)
           cs == Chunks(content, plan)
           At(k) == plan.from + (k - 1) * size
<1>1. plan.from \in 0..L /\ size \in Nat \ {0} /\ context \in Nat /\ L \in Nat /\ Calls \in Nat \ {0}
    BY AppendReadsAssumption DEF Fits, PlanType, Size
<1>2. cs = SubSeq(all, 1, Smaller(Len(all), Calls))
  <2>1. CASE plan.delta
    BY <2>1 DEF Chunks, Size
  <2>2. CASE ~plan.delta
    BY <2>2 DEF Chunks, Size, Fits
  <2> QED
    BY <2>1, <2>2
<1> HIDE DEF context, size
<1>3. /\ all \in Seq(Chunk) /\ L <= plan.from + Len(all) * size
      /\ \A k \in 1..Len(all) :
            /\ At(k) \in Nat /\ At(k) < L
            /\ all[k].text = SubSeq(content, At(k) + 1, Smaller(At(k) + size, L))
    BY <1>1, CutFacts
<1> HIDE DEF all, cs
<1>4. Len(all) \in Nat
    BY <1>3
<1> DEFINE n == Smaller(Len(all), Calls)
<1>5. n \in Nat /\ n <= Len(all) /\ (Len(all) # 0 => n # 0)
    BY <1>1, <1>4, SmallerOf
<1> HIDE DEF n
<1>6. cs \in Seq(Chunk) /\ Len(cs) = n /\ \A k \in 1..n : cs[k] = all[k]
  <2>1. \A k \in 1..n : all[k] \in Chunk
    BY <1>3, <1>4, <1>5
  <2> QED
    BY <1>2, <1>5, <2>1, SubSeqProperties DEF n
<1>7. ASSUME NEW k \in 1..n
      PROVE  /\ Starts(plan, k) = At(k) /\ Starts(plan, k + 1) = At(k) + size
             /\ At(k) \in Nat /\ At(k) < L /\ k \in 1..Len(all)
  <2>1. k \in Nat \ {0} /\ k \in 1..Len(all)
    BY <1>4, <1>5
  <2>2. Starts(plan, k) = At(k) /\ Starts(plan, k + 1) = At(k) + size
    BY <2>1, StartsAt DEF size
  <2> HIDE DEF At
  <2> QED
    BY <1>3, <2>1, <2>2
<1>8. ASSUME NEW k \in 1..n, NEW p \in 1..L, Starts(plan, k) < p, p <= Starts(plan, k + 1)
      PROVE  content[p] \in UnitsIn(cs[k])
  <2> DEFINE a == At(k)
             b == Smaller(At(k) + size, L)
  <2>1. a \in Nat /\ a < p /\ p <= a + size /\ a + size \in Nat /\ p <= L
    BY <1>1, <1>7, <1>8
  <2>2. b \in Nat /\ b <= L /\ p <= b
    BY <1>1, <2>1 DEF Smaller
  <2>3. cs[k].text = SubSeq(content, a + 1, b)
    BY <1>3, <1>6, <1>7
  <2> HIDE DEF a, b, At
  <2>4. \A i \in (a + 1)..b : content[i] \in Unit
    BY <1>1, <2>1, <2>2
  <2>5. /\ Len(cs[k].text) = b - a /\ cs[k].text \in Seq(Unit)
        /\ \A i \in 1..(b - a) : cs[k].text[i] = content[a + i]
    BY <2>1, <2>2, <2>3, <2>4, SubSeqProperties
  <2>6. p - a \in 1..(b - a) /\ a + (p - a) = p
    BY <2>1, <2>2
  <2>7. p - a \in DOMAIN cs[k].text /\ cs[k].text[p - a] = content[p]
    BY <2>5, <2>6
  <2> QED
    BY <2>7 DEF UnitsIn
<1>9. plan.from < L => n # 0
  <2> SUFFICES ASSUME plan.from < L, Len(all) = 0 PROVE FALSE
    BY <1>5
  <2>1. Len(all) * size = 0
    BY <1>1
  <2> QED
    BY <1>1, <1>3, <2>1
<1> QED
    BY <1>6, <1>7, <1>8, <1>9 DEF cs

\* Every unit the first K chunks reach, from where the plan starts, is in one of them.
LEMMA ChunksCover ==
    ASSUME NEW content \in Seq(Unit), NEW plan \in PlanType, Fits(plan, content),
           NEW K \in 0..Len(Chunks(content, plan)),
           NEW p \in 1..Len(content), plan.from < p, p <= Starts(plan, K + 1)
    PROVE  \E k \in 1..K : content[p] \in UnitsIn(Chunks(content, plan)[k])
<1>1. Size(plan) \in Nat \ {0} /\ plan.from \in Nat /\ Chunks(content, plan) \in Seq(Chunk) /\ K \in Nat
    BY StartsAt, ChunksFacts DEF PlanType
<1>2. p <= plan.from + K * Size(plan)
  <2>1. Starts(plan, K + 1) = plan.from + ((K + 1) - 1) * Size(plan) /\ (K + 1) - 1 = K
    BY <1>1, StartsAt
  <2> QED
    BY <2>1
<1>3. PICK k \in 1..K : /\ plan.from + (k - 1) * Size(plan) < p
                        /\ p <= plan.from + (k - 1) * Size(plan) + Size(plan)
  <2>1. p \in Nat
    OBVIOUS
  <2> QED
    BY <1>1, <1>2, <2>1, ChunkOf
<1>4. Starts(plan, k) < p /\ p <= Starts(plan, k + 1)
  <2>1. k \in Nat \ {0}
    BY <1>1
  <2>2. /\ Starts(plan, k) = plan.from + (k - 1) * Size(plan)
        /\ Starts(plan, k + 1) = Starts(plan, k) + Size(plan)
    BY <2>1, StartsAt
  <2> QED
    BY <1>3, <2>2
<1>5. k \in 1..Len(Chunks(content, plan))
    BY <1>1
<1> QED
    BY <1>4, <1>5, ChunksFacts

--------------------------------------------------------------------------------
(* The members of a set in order *)

\* The place of k among the members of S.
Rank(S, k) == Cardinality({j \in S : j <= k})

\* Members of a finite set of naturals are in places of their own, and every place is
\* some member's.
LEMMA Ranks ==
    ASSUME NEW S \in SUBSET Nat, IsFiniteSet(S)
    PROVE  /\ Cardinality(S) \in Nat
           /\ \A k \in S : Rank(S, k) \in 1..Cardinality(S)
           /\ \A j, k \in S : Rank(S, j) = Rank(S, k) => j = k
           /\ \A n \in 1..Cardinality(S) : \E k \in S : Rank(S, k) = n
<1> DEFINE Upto(k) == {j \in S : j <= k}
<1>1. Cardinality(S) \in Nat
    BY FS_CardinalityType
<1>2. ASSUME NEW k \in S
      PROVE  IsFiniteSet(Upto(k)) /\ Rank(S, k) = Cardinality(Upto(k)) /\ Rank(S, k) \in 1..Cardinality(S)
  <2>1. Upto(k) \in SUBSET S /\ k \in Upto(k)
    OBVIOUS
  <2>2. Rank(S, k) = Cardinality(Upto(k))
    BY DEF Rank
  <2> HIDE DEF Upto
  <2>3. IsFiniteSet(Upto(k)) /\ Cardinality(Upto(k)) <= Cardinality(S)
    BY <2>1, FS_Subset
  <2>4. Cardinality(Upto(k)) \in Nat
    BY <2>3, FS_CardinalityType
  <2>5. Cardinality(Upto(k)) # 0
    BY <2>1, <2>3, FS_EmptySet
  <2> QED
    BY <1>1, <2>2, <2>3, <2>4, <2>5
<1>3. ASSUME NEW j \in S, NEW k \in S, Rank(S, j) = Rank(S, k), j <= k PROVE j = k
  <2>1. j \in Nat /\ k \in Nat /\ \A i \in S : i \in Nat
    OBVIOUS
  <2>2. Upto(j) \in SUBSET Upto(k)
    <3>1. \A i \in S : i <= j => i <= k
      BY <1>3, <2>1
    <3> QED
      BY <3>1, Zenon
  <2>3. k \in Upto(k)
    BY <2>1
  <2>4. (k \in Upto(j)) => k <= j
    OBVIOUS
  <2>5. Cardinality(Upto(k)) = Cardinality(Upto(j)) /\ IsFiniteSet(Upto(k))
    BY <1>2, <1>3
  <2> HIDE DEF Upto
  <2>6. Upto(k) = Upto(j)
    BY <2>2, <2>5, FS_Subset
  <2> QED
    BY <1>3, <2>1, <2>3, <2>4, <2>6
<1>4. \A j, k \in S : Rank(S, j) = Rank(S, k) => j = k
  <2> SUFFICES ASSUME NEW j \in S, NEW k \in S, Rank(S, j) = Rank(S, k) PROVE j = k
    OBVIOUS
  <2>1. CASE j <= k
    BY <1>3, <2>1
  <2>2. CASE k <= j
    BY <1>3, <2>2
  <2>3. j \in Nat /\ k \in Nat
    OBVIOUS
  <2> QED
    BY <2>1, <2>2, <2>3
<1>5. \A n \in 1..Cardinality(S) : \E k \in S : Rank(S, k) = n
  <2> DEFINE f == [k \in S |-> Rank(S, k)]
             T == 1..Cardinality(S)
  <2>1. IsFiniteSet(T) /\ Cardinality(T) = Cardinality(S)
    BY <1>1, FS_Interval
  <2>2. f \in Injection(S, T)
    <3>1. f \in [S -> T]
      BY <1>2
    <3>2. \A j, k \in DOMAIN f : f[j] = f[k] => j = k
      BY <1>4
    <3> QED
      BY <3>1, <3>2 DEF Injection, IsInjective
  <2> HIDE DEF T
  <2>3. f \in Surjection(S, T)
    <3> HIDE DEF f
    <3> QED
      BY <2>1, <2>2, FS_Injection
  <2>4. \A n \in T : \E k \in S : f[k] = n
    BY <2>3 DEF Surjection
  <2> QED
    BY <2>4 DEF T
<1> QED
    BY <1>1, <1>2, <1>4, <1>5

\* InOrder lists exactly the members.
LEMMA InOrderLists ==
    ASSUME NEW S \in SUBSET Nat, IsFiniteSet(S)
    PROVE  /\ InOrder(S) \in Seq(S)
           /\ \A i \in S : \E n \in DOMAIN InOrder(S) : InOrder(S)[n] = i
           /\ S # {} => InOrder(S) # <<>>
<1> DEFINE N == Cardinality(S)
           At(n) == CHOOSE i \in S : Cardinality({j \in S : j <= i}) = n
<1>1. /\ N \in Nat
      /\ \A k \in S : Rank(S, k) \in 1..N
      /\ \A j, k \in S : Rank(S, j) = Rank(S, k) => j = k
      /\ \A n \in 1..N : \E k \in S : Rank(S, k) = n
    BY Ranks
<1>2. \A n : At(n) = CHOOSE i \in S : Rank(S, i) = n
    BY DEF Rank
<1>3. InOrder(S) = [n \in 1..N |-> At(n)]
    BY DEF InOrder
<1> HIDE DEF N, At
<1>4. \A n \in 1..N : At(n) \in S /\ Rank(S, At(n)) = n
    BY <1>1, <1>2
<1>5. InOrder(S) \in Seq(S) /\ DOMAIN InOrder(S) = 1..N
    BY <1>1, <1>3, <1>4
<1>6. \A i \in S : Rank(S, i) \in 1..N /\ InOrder(S)[Rank(S, i)] = i
    BY <1>1, <1>3, <1>4
<1>7. S # {} => InOrder(S) # <<>>
  <2> SUFFICES ASSUME S # {} PROVE DOMAIN InOrder(S) # {}
    OBVIOUS
  <2> QED
    BY <1>5, <1>6
<1> QED
    BY <1>5, <1>6, <1>7

\* A claim that snapshot i writes.
NewClaim(i) == [chunk : Chunk, cites : {{i}}, active : {TRUE}]

\* The new claims of a write: each cites the snapshot and is ACTIVE, and every chunk
\* that is written is the chunk of one of them.
LEMMA WrittenFacts ==
    ASSUME NEW write, DOMAIN write \subseteq Nat, IsFiniteSet(DOMAIN write),
           \A k \in DOMAIN write : write[k] \in Chunk, NEW i
    PROVE  /\ Written(write, i) \in Seq(NewClaim(i))
           /\ \A k \in DOMAIN write :
                 \E n \in 1..Len(Written(write, i)) : Written(write, i)[n].chunk = write[k]
<1> DEFINE D == DOMAIN write
           N == Cardinality(D)
           At(n) == CHOOSE k \in D : Cardinality({j \in D : j <= k}) = n
           w == Written(write, i)
<1>1. /\ N \in Nat
      /\ \A k \in D : Rank(D, k) \in 1..N
      /\ \A j, k \in D : Rank(D, j) = Rank(D, k) => j = k
      /\ \A n \in 1..N : \E k \in D : Rank(D, k) = n
    BY Ranks
<1>2. \A n : At(n) = CHOOSE k \in D : Rank(D, k) = n
    BY DEF Rank
<1>3. w = [n \in 1..N |-> [chunk |-> write[At(n)], cites |-> {i}, active |-> TRUE]]
    BY DEF Written
<1> HIDE DEF N, At, w
<1>4. \A n \in 1..N : At(n) \in D /\ Rank(D, At(n)) = n
    BY <1>1, <1>2
<1>5. \A n \in 1..N : w[n] \in NewClaim(i)
    BY <1>3, <1>4 DEF NewClaim
<1>6. w \in Seq(NewClaim(i)) /\ Len(w) = N
    BY <1>1, <1>3, <1>5
<1>7. \A k \in D : Rank(D, k) \in 1..N /\ w[Rank(D, k)].chunk = write[k]
    BY <1>1, <1>3, <1>4
<1> QED
    BY <1>6, <1>7 DEF w

--------------------------------------------------------------------------------
(* Type correctness *)

Status == {"PENDING", "IN_PROGRESS", "COMPLETE", "FAILED"}
Place == {"idle", "item", "step", "claimed", "planned", "read", "retire"}
Reading == {"claimed", "planned", "read"}

\* A captured row has text, and no offset is past its end.
Row == {row \in [content : Seq(Unit), status : Status, through : Nat, whole : BOOLEAN] :
           row.content # <<>> /\ row.through <= Len(row.content)}

Claim == [chunk : Chunk, cites : SUBSET Nat, active : BOOLEAN]

\* What a read yields: it writes chunks of the read, under their numbers.
Yield == [write : UNION {[D -> Chunk] : D \in SUBSET Nat}, carry : SUBSET Nat,
          failed : BOOLEAN, kept : BOOLEAN, whole : BOOLEAN, through : Nat]

Numbers == SUBSET Nat
Listed == Seq(Nat)
ChunkList == Seq(Chunk)
Got == Yield \cup {<<>>}

RunType == [pc : Place, bulk : BOOLEAN, snap : Nat, base : Nat, early : BOOLEAN,
            plan : PlanType, chunks : ChunkList, got : Got,
            pairs : Numbers, replays : BOOLEAN, todo : Listed, old : Numbers,
            kept : Numbers]

\* The fields of a runner, and the values it is reset to.
LEMMA RunFields ==
    /\ \A me \in RunType :
          /\ me.bulk \in BOOLEAN /\ me.snap \in Nat /\ me.base \in Nat /\ me.early \in BOOLEAN
          /\ me.plan \in PlanType /\ me.pairs \in Numbers /\ me.replays \in BOOLEAN
          /\ me.todo \in Seq(Nat) /\ me.old \in Numbers /\ me.kept \in Numbers
          /\ me.pc \in Place /\ me.got \in Got
    /\ Whole \in PlanType /\ <<>> \in ChunkList /\ <<>> \in Listed /\ <<>> \in Got
    /\ {} \in Numbers
    /\ \A a, b \in Numbers : a \cup b \in Numbers /\ a \ b \in Numbers
<1>1. \A me \in RunType :
          /\ me.bulk \in BOOLEAN /\ me.snap \in Nat /\ me.base \in Nat /\ me.early \in BOOLEAN
          /\ me.plan \in PlanType /\ me.pairs \in Numbers /\ me.replays \in BOOLEAN
          /\ me.todo \in Listed /\ me.old \in Numbers /\ me.kept \in Numbers
          /\ me.pc \in Place /\ me.got \in Got
    BY DEF RunType
<1>2. Whole \in PlanType /\ <<>> \in ChunkList /\ <<>> \in Listed /\ <<>> \in Got
    BY DEF Whole, PlanType, ChunkList, Listed, Got
<1>3. {} \in Numbers /\ \A a, b \in Numbers : a \cup b \in Numbers /\ a \ b \in Numbers
    BY DEF Numbers
<1> QED
    BY <1>1, <1>2, <1>3, Zenon DEF Listed

\* The rows and the claims: what a claim cites is there.
StoreOK ==
    /\ rows \in Seq(Row) /\ claims \in Seq(Claim) /\ lost \subseteq Snap
    /\ \A c \in DOMAIN claims : claims[c].cites \in (SUBSET Snap) \ {{}}

\* A runner points at rows and claims that are there, and reads the chunks of its plan.
Shaped(me, rs, cs) ==
    /\ me.base \in DOMAIN rs \cup {0} /\ me.snap \in DOMAIN rs \cup {0}
    /\ me.todo \in Seq(DOMAIN rs) /\ me.pairs \subseteq DOMAIN rs
    /\ me.old \subseteq DOMAIN cs /\ me.kept \subseteq DOMAIN cs
    /\ me.pc \in Reading => me.snap \in DOMAIN rs
    /\ me.pc = "step" => me.todo # <<>>
    /\ ~me.bulk /\ me.pc \in Reading => me.todo # <<>> /\ me.snap = Head(me.todo)
    /\ me.pc \in {"planned", "read"} =>
          /\ Fits(me.plan, rs[me.snap].content)
          /\ me.chunks = Chunks(rs[me.snap].content, me.plan)
    /\ me.pc = "read" =>
          /\ me.got \in Yield /\ me.got.through <= Len(rs[me.snap].content)
          /\ me.got.carry \subseteq DOMAIN cs
          /\ DOMAIN me.got.write \subseteq DOMAIN me.chunks
          /\ \A k \in DOMAIN me.got.write : me.got.write[k] = me.chunks[k]

RunsOK == run \in [Runner -> RunType] /\ \A r \in Runner : Shaped(run[r], rows, claims)

IndType == StoreOK /\ RunsOK

\* Type correctness is part of the invariant.
LEMMA TypeOKFromInd == IndType => TypeOK
<1> SUFFICES ASSUME IndType PROVE TypeOK
    OBVIOUS
<1>1. \A i \in Snap : rows[i] \in Row
    BY DEF IndType, StoreOK, Snap
<1>2. \A i \in Snap : /\ rows[i].status \in {"PENDING", "IN_PROGRESS", "COMPLETE", "FAILED"}
                      /\ rows[i].through \in 0..Len(rows[i].content)
                      /\ rows[i].whole \in BOOLEAN
    BY <1>1 DEF Row, Status
<1>3. \A c \in DOMAIN claims : claims[c].cites \in (SUBSET Snap) \ {{}} /\ claims[c].active \in BOOLEAN
  <2>1. \A c \in DOMAIN claims : claims[c] \in Claim
    BY DEF IndType, StoreOK
  <2>2. \A c \in DOMAIN claims : claims[c].active \in BOOLEAN
    BY <2>1, Zenon DEF Claim
  <2> QED
    BY <2>2, Zenon DEF IndType, StoreOK
<1>4. ASSUME NEW r \in Runner
      PROVE  /\ run[r].pc \in {"idle", "item", "step", "claimed", "planned", "read", "retire"}
             /\ run[r].snap \in Snap \cup {0}
             /\ run[r].old \cup run[r].kept \subseteq DOMAIN claims
  <2>1. run[r] \in RunType /\ Shaped(run[r], rows, claims)
    BY DEF IndType, RunsOK
  <2> QED
    BY <2>1, Zenon DEF RunType, Shaped, Place, Snap
<1> QED
    BY <1>2, <1>3, <1>4 DEF TypeOK, IndType, StoreOK

--------------------------------------------------------------------------------
(* What a step leaves in place *)

\* Rows keep their number and their text, claims their number.
Grown(rs, cs, rs2, cs2) ==
    /\ DOMAIN rs \subseteq DOMAIN rs2 /\ DOMAIN cs \subseteq DOMAIN cs2
    /\ \A i \in DOMAIN rs : rs2[i].content = rs[i].content

\* A runner that stays where it is stays well formed.
LEMMA ShapedStays ==
    ASSUME NEW rs, NEW cs, NEW rs2, NEW cs2, Grown(rs, cs, rs2, cs2),
           NEW me, Shaped(me, rs, cs)
    PROVE  Shaped(me, rs2, cs2)
<1>1. me.todo \in Seq(DOMAIN rs2)
    BY SeqMonotonic DEF Grown, Shaped
<1>2. \A i \in DOMAIN rs : rs2[i].content = rs[i].content
    BY DEF Grown
<1>3. me.pc \in {"planned", "read"} => me.pc \in Reading
    BY DEF Reading
<1> QED
    BY <1>1, <1>2, <1>3, Zenon DEF Grown, Shaped

\* A step that keeps the rows and claims and moves one runner keeps the others.
LEMMA RunsStay ==
    ASSUME RunsOK, Grown(rows, claims, rows', claims'), NEW r \in Runner,
           NEW me \in RunType, run' = [run EXCEPT ![r] = me], Shaped(me, rows', claims')
    PROVE  RunsOK'
<1>1. run' \in [Runner -> RunType]
    BY DEF RunsOK
<1>2. ASSUME NEW q \in Runner PROVE Shaped(run'[q], rows', claims')
  <2>1. CASE q = r
    BY <2>1 DEF RunsOK
  <2>2. CASE q # r
    <3>1. run'[q] = run[q] /\ Shaped(run[q], rows, claims)
      BY <2>2 DEF RunsOK
    <3> QED
      BY <3>1, ShapedStays
  <2> QED
    BY <2>1, <2>2
<1> QED
    BY <1>1, <1>2 DEF RunsOK

\* Rows that change in place are rows still.
LEMMA RowsStay ==
    ASSUME rows \in Seq(Row), NEW rs, DOMAIN rs = Snap, rs = [i \in Snap |-> rs[i]],
           \A i \in Snap : rs[i] \in Row /\ rs[i].content = rows[i].content
    PROVE  rs \in Seq(Row) /\ Grown(rows, claims, rs, claims)
<1>1. Snap = 1..Len(rows) /\ Len(rows) \in Nat
    BY DEF Snap
<1>2. rs \in Seq(Row)
    BY <1>1
<1> QED
    BY <1>2 DEF Grown, Snap

\* A row whose status changes is a row still.
LEMMA StatusRow ==
    ASSUME rows \in Seq(Row), NEW i \in Snap, NEW status \in Status
    PROVE  /\ StatusTo(i, status) \in Seq(Row)
           /\ Grown(rows, claims, StatusTo(i, status), claims)
           /\ DOMAIN StatusTo(i, status) = Snap
           /\ \A j \in Snap : StatusTo(i, status)[j] =
                 IF j = i THEN [rows[j] EXCEPT !.status = status] ELSE rows[j]
<1> DEFINE rs == StatusTo(i, status)
<1>1. \A j \in Snap : rows[j] \in Row
    BY DEF Snap
<1>2. rs = [rows EXCEPT ![i] = [rows[i] EXCEPT !.status = status]]
    BY DEF StatusTo
<1>3. DOMAIN rs = Snap /\ rs = [j \in Snap |-> rs[j]]
    BY <1>2 DEF Snap
<1>4. \A j \in Snap : rs[j] = IF j = i THEN [rows[j] EXCEPT !.status = status] ELSE rows[j]
    BY <1>2 DEF Snap
<1>5. [rows[i] EXCEPT !.status = status] \in Row
    BY <1>1 DEF Row
<1>6. \A j \in Snap : [rows[j] EXCEPT !.status = status].content = rows[j].content
    BY <1>1 DEF Row
<1> HIDE DEF rs
<1>7. \A j \in Snap : rs[j] \in Row /\ rs[j].content = rows[j].content
    BY <1>1, <1>4, <1>5, <1>6
<1> QED
    BY <1>3, <1>4, <1>7, RowsStay DEF rs

\* What is cited goes on being there.
LEMMA StoreStays ==
    ASSUME StoreOK, NEW rs \in Seq(Row), Grown(rows, claims, rs, claims),
           rows' = rs, claims' = claims, lost' = lost
    PROVE  StoreOK'
<1>1. Snap \subseteq Snap'
    BY DEF Snap, Grown
<1> QED
    BY <1>1 DEF StoreOK

--------------------------------------------------------------------------------
(* The plan of a read *)

\* The first n units of two texts are the same.
SameStart(x, y, n) == n <= Len(x) /\ n <= Len(y) /\ \A p \in 1..n : x[p] = y[p]

\* Equal hashes of the text before an offset: the units before it are the same.
LEMMA SharesUnits ==
    ASSUME NEW x \in Seq(Unit), NEW y \in Seq(Unit), NEW n \in Nat, Shares(x, y, n)
    PROVE  SameStart(x, y, n)
<1>1. n <= Len(x) /\ n <= Len(y) /\ SubSeq(x, 1, n) = SubSeq(y, 1, n)
    BY DEF Shares
<1>2. (\A i \in 1..n : x[i] \in Unit) /\ (\A i \in 1..n : y[i] \in Unit)
    BY <1>1
<1>3. \A i \in 1..(n - 1 + 1) : SubSeq(x, 1, n)[i] = x[1 + i - 1]
    BY <1>2, SubSeqProperties
<1>4. \A i \in 1..(n - 1 + 1) : SubSeq(y, 1, n)[i] = y[1 + i - 1]
    BY <1>2, SubSeqProperties
<1>5. \A i \in 1..n : 1 + i - 1 = i /\ i \in 1..(n - 1 + 1)
    OBVIOUS
<1>6. \A i \in 1..n : SubSeq(x, 1, n)[i] = x[i] /\ SubSeq(y, 1, n)[i] = y[i]
    BY <1>3, <1>4, <1>5
<1> QED
    BY <1>1, <1>6 DEF SameStart

\* A plan for snapshot i starts no later than snapshot j was read to, on the same text.
Leans(plan, i, j) ==
    /\ plan.from <= rows[j].through
    /\ SameStart(rows[j].content, rows[i].content, plan.from)

\* A plan from a base: whole, or from what the base was read to.
LEMMA PlanFromFits ==
    ASSUME StoreOK, NEW i \in Snap, NEW b \in Snap \cup {0}
    PROVE  /\ PlanFrom(i, b) \in PlanType /\ Fits(PlanFrom(i, b), rows[i].content)
           /\ PlanFrom(i, b).delta => b \in Snap /\ Leans(PlanFrom(i, b), i, b)
<1> DEFINE off == Smaller(rows[b].through, Len(rows[b].content))
<1>1. \A j \in Snap : rows[j].content \in Seq(Unit) /\ rows[j].through \in Nat
    BY DEF StoreOK, Snap, Row
<1>2. CASE b # 0 /\ b \notin lost /\ Shares(rows[b].content, rows[i].content, off)
  <2>1. b \in Snap
    BY <1>2
  <2>2. rows[b].through \in Nat /\ Len(rows[b].content) \in Nat
    BY <1>1, <2>1
  <2>3. off \in Nat /\ off <= rows[b].through
    BY <2>2, SmallerOf
  <2>4. PlanFrom(i, b) = Delta(off)
    BY <1>2 DEF PlanFrom
  <2> HIDE DEF off
  <2>5. SameStart(rows[b].content, rows[i].content, off)
    BY <1>1, <1>2, <2>1, <2>3, SharesUnits
  <2> QED
    BY <2>1, <2>3, <2>4, <2>5 DEF Delta, PlanType, Fits, Leans, SameStart
<1>3. CASE ~(b # 0 /\ b \notin lost /\ Shares(rows[b].content, rows[i].content, off))
  <2>1. PlanFrom(i, b) = Whole
    BY <1>3 DEF PlanFrom
  <2>2. Len(rows[i].content) \in Nat
    BY <1>1
  <2> QED
    BY <2>1, <2>2 DEF Whole, PlanType, Fits
<1> QED
    BY <1>2, <1>3

\* How far another read covers a snapshot: a place inside its text, on the same text.
LEMMA FurtherLeans ==
    ASSUME StoreOK, NEW i \in Snap, NEW ignoreOwn \in BOOLEAN, NEW n \in Further(i, ignoreOwn)
    PROVE  n \in 0..Len(rows[i].content) /\ \E j \in Snap : Leans(Delta(n), i, j)
<1>1. \A j \in Snap : rows[j].content \in Seq(Unit) /\ rows[j].through \in Nat
    BY DEF StoreOK, Snap, Row
<1>2. PICK j \in Snap : /\ n = Smaller(rows[j].through, Len(rows[i].content))
                        /\ \/ j = i
                           \/ Shares(rows[j].content, rows[i].content,
                                     Smaller(rows[j].through, Len(rows[i].content)))
    BY DEF Further
<1>3. rows[j].through \in Nat /\ Len(rows[i].content) \in Nat
    BY <1>1
<1>4. n \in Nat /\ n <= rows[j].through /\ n <= Len(rows[i].content)
    BY <1>2, <1>3, SmallerOf
<1>5. SameStart(rows[j].content, rows[i].content, n)
  <2>1. CASE j = i
    BY <1>4, <2>1 DEF SameStart
  <2>2. CASE j # i
    BY <1>1, <1>2, <1>4, <2>2, SharesUnits
  <2> QED
    BY <2>1, <2>2
<1> QED
    BY <1>3, <1>4, <1>5 DEF Leans, Delta

\* The plan of a snapshot on its own: whole, or from what some snapshot was read to.
LEMMA AutoPlanFits ==
    ASSUME StoreOK, NEW i \in Snap, NEW ignoreOwn \in BOOLEAN
    PROVE  LET plan == AutoPlan(i, ignoreOwn) IN
           /\ plan \in PlanType /\ Fits(plan, rows[i].content)
           /\ plan.delta => \E j \in Snap : Leans(plan, i, j)
<1> DEFINE done == {j \in 1..(i - 1) : rows[j].status = "COMPLETE"}
           b == IF done = {} THEN 0 ELSE Last(done)
           early == PlanFrom(i, b)
           more == {n \in Further(i, ignoreOwn) : early.delta => n > early.from}
           plan == AutoPlan(i, ignoreOwn)
<1>1. Snap = 1..Len(rows) /\ Len(rows) \in Nat /\ i \in Nat /\ rows[i].content \in Seq(Unit)
    BY DEF StoreOK, Snap, Row
<1>2. b \in Snap \cup {0}
  <2>1. CASE done = {}
    BY <2>1
  <2>2. CASE done # {}
    <3>1. done \in SUBSET (0..i)
      BY <1>1
    <3> HIDE DEF done
    <3>2. Last(done) \in done
      BY <1>1, <2>2, <3>1, LastOf
    <3>3. \A j \in done : j \in Snap
      BY <1>1 DEF done
    <3> QED
      BY <2>2, <3>2, <3>3
  <2> QED
    BY <2>1, <2>2
<1> HIDE DEF b
<1>3. /\ early \in PlanType /\ Fits(early, rows[i].content)
      /\ early.delta => b \in Snap /\ Leans(early, i, b)
    BY <1>2, PlanFromFits
<1>4. plan = IF rows[i].whole /\ ~ignoreOwn THEN Whole
             ELSE IF more = {} THEN early ELSE Delta(Last(more))
    BY DEF AutoPlan, b
<1> HIDE DEF early, plan
<1>5. CASE plan = Whole
  <2>1. Len(rows[i].content) \in Nat
    BY <1>1
  <2> QED
    BY <1>5, <2>1 DEF Whole, PlanType, Fits, plan
<1>6. CASE plan = early
    BY <1>3, <1>6 DEF plan
<1>7. CASE more # {} /\ plan = Delta(Last(more))
  <2>1. more \in SUBSET (0..Len(rows[i].content)) /\ Len(rows[i].content) \in Nat
    BY <1>1, FurtherLeans
  <2>2. \A n \in more : n \in Further(i, ignoreOwn)
    OBVIOUS
  <2> HIDE DEF more
  <2>3. Last(more) \in more
    BY <1>7, <2>1, LastOf
  <2>4. PICK j \in Snap : Leans(Delta(Last(more)), i, j)
    BY <2>2, <2>3, FurtherLeans
  <2>5. Last(more) \in Nat /\ Last(more) <= Len(rows[i].content)
    <3>1. Last(more) \in 0..Len(rows[i].content)
      BY <2>1, <2>3, Zenon
    <3> QED
      BY <2>1, <3>1
  <2>6. Delta(Last(more)) \in PlanType /\ Fits(Delta(Last(more)), rows[i].content)
    BY <2>5 DEF Delta, PlanType, Fits
  <2> QED
    BY <1>7, <2>4, <2>6 DEF plan
<1> QED
    BY <1>4, <1>5, <1>6, <1>7

\* The plan a claimed snapshot is read by.
LEMMA PlanOfFits ==
    ASSUME StoreOK, NEW me \in RunType, Shaped(me, rows, claims), me.pc = "claimed"
    PROVE  /\ PlanOf(me) \in PlanType /\ Fits(PlanOf(me), rows[me.snap].content)
           /\ ~me.bulk /\ me.replays /\ PlanOf(me).delta =>
                 me.base # 0 /\ Leans(PlanOf(me), me.snap, me.base)
           /\ PlanOf(me).delta => \E j \in Snap : Leans(PlanOf(me), me.snap, j)
<1>1. me.snap \in Snap /\ me.base \in Snap \cup {0} /\ me.bulk \in BOOLEAN /\ me.replays \in BOOLEAN
    BY DEF Shaped, Reading, Snap, RunType
<1>2. CASE ~me.bulk /\ me.replays
  <2> DEFINE b == IF me.base # 0 /\ rows[me.base].status = "COMPLETE" THEN me.base ELSE 0
  <2>1. b \in Snap \cup {0} /\ (b # 0 => b = me.base)
    BY <1>1
  <2>2. PlanOf(me) = PlanFrom(me.snap, b)
    BY <1>2 DEF PlanOf, ReplayPlan
  <2> HIDE DEF b
  <2>3. 0 \notin Snap
    BY DEF Snap, StoreOK
  <2> QED
    BY <1>1, <2>1, <2>2, <2>3, PlanFromFits
<1>3. CASE ~(~me.bulk /\ me.replays)
  <2>1. PlanOf(me) = AutoPlan(me.snap, ~me.bulk) /\ (~me.bulk) \in BOOLEAN
    BY <1>3 DEF PlanOf
  <2> QED
    BY <1>1, <1>3, <2>1, AutoPlanFits
<1> QED
    BY <1>2, <1>3

--------------------------------------------------------------------------------
(* What a read yields *)

\* Of the chunks whose calls failed one comes first.
LEMMA FirstFailed ==
    ASSUME NEW n \in Nat, NEW failed \in SUBSET (1..n), failed # {}
    PROVE  LET stop == CHOOSE k \in failed : \A j \in failed : k <= j IN
           stop \in failed /\ \A j \in failed : stop <= j
<1>1. failed \in SUBSET Nat
    OBVIOUS
<1>2. PICK m \in failed : \A k \in failed : m <= k
    BY <1>1, LeastNat
<1> QED
    BY <1>2

\* A kept part of a read: chunks that were answered, and an offset inside the text; an
\* offset past the start keeps every answered chunk before it.
Keeps(keep, content, plan, asked) ==
    /\ keep.kept \in SUBSET asked /\ keep.marker \in BOOLEAN
    /\ keep.offset \in Nat /\ keep.offset <= Len(content)
    /\ keep.offset # 0 =>
          \E K \in 0..Len(Chunks(content, plan)) :
             /\ keep.offset <= Starts(plan, K + 1)
             /\ \A k \in 1..K : k \in asked => k \in keep.kept

\* What a partly failed read keeps, and an offset only beside something kept.
LEMMA PartialKeeps ==
    ASSUME NEW content \in Seq(Unit), NEW plan \in PlanType, Fits(plan, content),
           NEW asked, asked \subseteq 1..Len(Chunks(content, plan)),
           NEW failed, failed \subseteq asked, failed # {}, NEW early \in BOOLEAN
    PROVE  /\ Keeps(PartialKeep(Chunks(content, plan), plan, failed, asked, early),
                    content, plan, asked)
           /\ PartialKeep(Chunks(content, plan), plan, failed, asked, early).offset # 0 =>
                 PartialKeep(Chunks(content, plan), plan, failed, asked, early).kept # {}
<1> DEFINE chunks == Chunks(content, plan)
           stop     == CHOOSE k \in failed : \A n \in failed : k <= n
           answered == asked \ failed
           leading  == {k \in answered : k < stop}
           later    == {k \in answered : stop < k /\ k < Len(chunks)}
           marker   == ~plan.delta /\ early
           kept     == IF ~plan.delta /\ Len(chunks) = 1 THEN {}
                       ELSE IF marker THEN answered
                       ELSE IF plan.delta /\ early THEN leading \cup later
                       ELSE leading
           keep     == PartialKeep(chunks, plan, failed, asked, early)
<1>1. keep = [kept |-> kept, marker |-> marker /\ kept # {},
              offset |-> IF kept = {} \/ marker THEN 0 ELSE Starts(plan, stop)]
    BY DEF PartialKeep
<1>2. chunks \in Seq(Chunk) /\ Len(content) \in Nat
    BY ChunksFacts
<1>3. stop \in failed /\ \A j \in failed : stop <= j
  <2>1. Len(chunks) \in Nat /\ failed \in SUBSET (1..Len(chunks))
    BY <1>2
  <2> HIDE DEF chunks
  <2> QED
    BY <2>1, FirstFailed
<1> HIDE DEF stop, keep
<1>4. stop \in 1..Len(chunks)
    BY <1>3
<1>5. Starts(plan, stop) \in Nat /\ Starts(plan, stop) < Len(content)
    BY <1>4, ChunksFacts
<1>6. kept \in SUBSET asked
    OBVIOUS
<1>7. kept # {} /\ ~marker => leading \subseteq kept
    OBVIOUS
<1>8. \A k \in asked : k < stop => k \in leading
  <2>1. \A k \in asked : k \in Nat
    BY <1>2
  <2>2. stop \in Nat /\ \A k \in failed : k \in Nat
    BY <1>3, <2>1
  <2>3. \A k \in asked : k < stop => k \notin failed
    BY <1>3, <2>1, <2>2
  <2> QED
    BY <2>3
<1>9. marker \in BOOLEAN
    BY DEF PlanType
<1> HIDE DEF kept, marker, leading, answered
<1>10. /\ keep.kept = kept /\ keep.marker = (marker /\ kept # {})
       /\ keep.offset = IF kept = {} \/ marker THEN 0 ELSE Starts(plan, stop)
    BY <1>1
<1> HIDE DEF chunks
<1>11. ASSUME keep.offset # 0
       PROVE  \E K \in 0..Len(chunks) : /\ keep.offset <= Starts(plan, K + 1)
                                        /\ \A k \in 1..K : k \in asked => k \in keep.kept
  <2>1. stop - 1 \in 0..Len(chunks) /\ (stop - 1) + 1 = stop /\ \A k \in 1..(stop - 1) : k < stop
    BY <1>2, <1>4
  <2>2. kept # {} /\ ~marker /\ keep.offset = Starts(plan, stop)
    BY <1>10, <1>11
  <2>3. \A k \in 1..(stop - 1) : k \in asked => k \in keep.kept
    BY <1>7, <1>8, <1>10, <2>1, <2>2
  <2>4. keep.offset <= Starts(plan, (stop - 1) + 1)
    BY <1>5, <2>1, <2>2
  <2> QED
    BY <2>1, <2>3, <2>4
<1>12. /\ keep.kept \in SUBSET asked /\ keep.marker \in BOOLEAN
       /\ keep.offset \in Nat /\ keep.offset <= Len(content)
       /\ keep.offset # 0 => keep.kept # {}
    BY <1>2, <1>5, <1>6, <1>9, <1>10
<1>13. Keeps(keep, content, plan, asked)
    BY <1>11, <1>12, Zenon DEF Keeps, chunks
<1> QED
    BY <1>12, <1>13, Zenon DEF keep, chunks

\* An answered read covers the text as far as its chunks reach.
LEMMA ThroughFacts ==
    ASSUME NEW content \in Seq(Unit), content # <<>>, NEW plan \in PlanType, Fits(plan, content)
    PROVE  LET n == Through(content, plan) IN
           /\ n \in Nat /\ n # 0 /\ n <= Len(content)
           /\ n <= Starts(plan, Len(Chunks(content, plan)) + 1)
<1> DEFINE K == Len(Chunks(content, plan))
           end == Starts(plan, K + 1)
<1>1. K \in Nat /\ Len(content) \in Nat \ {0} /\ (plan.from < Len(content) => K # 0)
    BY ChunksFacts
<1>2. K + 1 \in Nat \ {0} /\ (K + 1) - 1 = K
    BY <1>1
<1>3. end \in Nat /\ end = plan.from + K * Size(plan) /\ Size(plan) \in Nat \ {0}
    BY <1>2, StartsAt
<1>4. plan.from \in Nat /\ plan.from <= Len(content)
    BY DEF Fits, PlanType
<1>5. end # 0
  <2>1. CASE plan.from < Len(content)
    <3>1. K \in Nat \ {0}
      BY <1>1, <2>1
    <3> HIDE DEF K
    <3>2. 1 * Size(plan) <= K * Size(plan) /\ K * Size(plan) \in Nat
      BY <1>3, <3>1, StepsGrow
    <3> QED
      BY <1>3, <1>4, <3>2
  <2>2. CASE plan.from = Len(content)
    <3>1. K * Size(plan) \in Nat
      BY <1>1, <1>3, StepsGrow
    <3> QED
      BY <1>1, <1>3, <1>4, <2>2, <3>1
  <2> QED
    BY <1>1, <1>4, <2>1, <2>2
<1>6. Through(content, plan) = Smaller(Len(content), end)
    BY DEF Through
<1> HIDE DEF end
<1>7. /\ Through(content, plan) \in Nat /\ Through(content, plan) <= Len(content)
      /\ Through(content, plan) <= end /\ Through(content, plan) # 0
    BY <1>1, <1>3, <1>5, <1>6 DEF Smaller
<1> QED
    BY <1>7 DEF end

\* The yield of a read: it writes chunks it asked for, an offset stays inside the text,
\* and the chunks before the offset are the ones it writes or carries forward.
LEMMA ResultFacts ==
    ASSUME StoreOK, NEW me \in RunType, Shaped(me, rows, claims), me.pc = "planned",
           NEW failed \in SUBSET Asked(me)
    PROVE  LET got == Result(me, Asked(me), failed) IN
           /\ got \in Yield /\ got.through <= Len(rows[me.snap].content)
           /\ got.carry = UNION {Carriers(me.chunks[k], me.old) : k \in DOMAIN me.chunks}
           /\ got.carry \subseteq Live \ me.old
           /\ DOMAIN got.write \subseteq DOMAIN me.chunks
           /\ \A k \in DOMAIN got.write : got.write[k] = me.chunks[k]
           /\ got.failed = (failed # {}) /\ (got.failed /\ ~me.bulk => got.through = 0)
           /\ ~got.failed => got.through # 0
           /\ got.through # 0 => got.kept
           /\ got.through # 0 =>
                 \E K \in 0..Len(me.chunks) :
                    /\ got.through <= Starts(me.plan, K + 1)
                    /\ \A k \in 1..K : k \in Asked(me) => k \in DOMAIN got.write
<1> DEFINE content == rows[me.snap].content
           asked == Asked(me)
           keep == IF failed = {}
                   THEN [kept |-> asked, marker |-> FALSE, offset |-> Through(content, me.plan)]
                   ELSE IF me.bulk THEN PartialKeep(me.chunks, me.plan, failed, asked, me.early)
                   ELSE [kept |-> {}, marker |-> FALSE, offset |-> 0]
           carry == UNION {Carriers(me.chunks[k], me.old) : k \in DOMAIN me.chunks}
           write == [k \in keep.kept |-> me.chunks[k]]
           got == Result(me, asked, failed)
           n == Len(me.chunks)
<1>1. /\ me.snap \in Snap /\ content \in Seq(Unit) /\ content # <<>>
      /\ me.plan \in PlanType /\ Fits(me.plan, content) /\ me.chunks = Chunks(content, me.plan)
      /\ me.early \in BOOLEAN /\ me.bulk \in BOOLEAN
  <2>1. me.snap \in DOMAIN rows
    BY DEF Shaped, Reading
  <2>2. rows[me.snap] \in Row
    BY <2>1 DEF StoreOK
  <2> QED
    BY <2>1, <2>2 DEF Shaped, Row, RunType, Snap
<1>2. me.chunks \in Seq(Chunk) /\ n \in Nat /\ DOMAIN me.chunks = 1..n /\ Len(content) \in Nat
    BY <1>1, ChunksFacts
<1>3. asked \in SUBSET (1..n) /\ failed \in SUBSET asked
    BY <1>2 DEF Asked
<1>4. carry \subseteq Live \ me.old /\ carry \in SUBSET Nat
  <2>1. \A c : c \in carry => c \in Live \ me.old
    BY DEF Carriers
  <2>2. \A c \in Live : c \in Nat
    BY DEF Live, StoreOK
  <2> QED
    BY <2>1, <2>2
<1> HIDE DEF content, asked, carry, n
<1>5. /\ Keeps(keep, content, me.plan, asked)
      /\ failed = {} => keep.offset # 0
      /\ failed # {} /\ ~me.bulk => keep.offset = 0
      /\ keep.offset # 0 => failed = {} \/ keep.kept # {}
  <2>1. CASE failed = {}
    <3> DEFINE end == Through(content, me.plan)
    <3>1. /\ end \in Nat /\ end # 0 /\ end <= Len(content)
          /\ end <= Starts(me.plan, n + 1)
      BY <1>1, ThroughFacts DEF n
    <3> HIDE DEF end
    <3>2. keep.kept = asked /\ keep.marker = FALSE /\ keep.offset = end
      BY <2>1 DEF end
    <3> HIDE DEF keep
    <3>3. n \in 0..n /\ n = Len(Chunks(content, me.plan))
      BY <1>1, <1>2 DEF n
    <3>4. Keeps(keep, content, me.plan, asked)
      BY <3>1, <3>2, <3>3 DEF Keeps
    <3> QED
      BY <2>1, <3>1, <3>2, <3>4
  <2>2. CASE failed # {} /\ ~me.bulk
    <3>1. keep.kept = {} /\ keep.marker = FALSE /\ keep.offset = 0
      BY <2>2
    <3> HIDE DEF keep
    <3>2. /\ keep.kept \in SUBSET asked /\ keep.marker \in BOOLEAN
          /\ keep.offset \in Nat /\ keep.offset <= Len(content)
      <4>1. 0 \in Nat /\ 0 <= Len(content)
        BY <1>2
      <4> QED
        BY <3>1, <4>1, Zenon
    <3>3. Keeps(keep, content, me.plan, asked)
      BY <3>1, <3>2, Zenon DEF Keeps
    <3> QED
      BY <2>2, <3>1, <3>3
  <2>3. CASE failed # {} /\ me.bulk
    <3> DEFINE cs == Chunks(content, me.plan)
               pk == PartialKeep(cs, me.plan, failed, asked, me.early)
    <3>1. asked \subseteq 1..Len(cs) /\ failed \subseteq asked /\ keep = pk
      BY <1>1, <1>3, <2>3 DEF n
    <3>2. Keeps(pk, content, me.plan, asked) /\ (pk.offset # 0 => pk.kept # {})
      BY <1>1, <2>3, <3>1, PartialKeeps
    <3> HIDE DEF pk, keep
    <3> QED
      BY <2>3, <3>1, <3>2
  <2> QED
    BY <2>1, <2>2, <2>3
<1>6. got = [write |-> write, carry |-> carry, failed |-> failed # {},
             kept |-> failed = {} \/ keep.kept # {}, whole |-> keep.marker,
             through |-> keep.offset]
    BY DEF Result, content, carry, asked
<1> HIDE DEF keep, got
<1>7. write \in [keep.kept -> Chunk] /\ keep.kept \in SUBSET Nat
  <2>1. \A k \in keep.kept : k \in 1..n
    BY <1>3, <1>5 DEF Keeps
  <2>2. \A k \in 1..n : me.chunks[k] \in Chunk /\ k \in Nat
    BY <1>2 DEF n
  <2> QED
    BY <2>1, <2>2, Zenon
<1>8. DOMAIN write = keep.kept /\ \A k \in DOMAIN write : write[k] = me.chunks[k]
    OBVIOUS
<1> HIDE DEF write
<1>9. got \in Yield
  <2>1. write \in UNION {[D -> Chunk] : D \in SUBSET Nat}
    BY <1>7
  <2> QED
    BY <1>4, <1>5, <1>6, <2>1 DEF Yield, Keeps
<1>10. /\ got.write = write /\ got.carry = carry /\ got.failed = (failed # {})
       /\ got.kept = (failed = {} \/ keep.kept # {}) /\ got.through = keep.offset
    BY <1>6
<1>11. DOMAIN write \subseteq DOMAIN me.chunks
    BY <1>2, <1>3, <1>5, <1>8 DEF Keeps
<1>12. keep.offset # 0 => \E K \in 0..n : /\ keep.offset <= Starts(me.plan, K + 1)
                                         /\ \A k \in 1..K : k \in asked => k \in keep.kept
    BY <1>1, <1>5 DEF Keeps, n
<1>13. keep.offset <= Len(content)
    BY <1>5 DEF Keeps
<1> QED
    BY <1>4, <1>5, <1>8, <1>9, <1>10, <1>11, <1>12, <1>13 DEF n, content, asked, carry, got

--------------------------------------------------------------------------------
(* Type correctness is inductive *)

\* An idle runner is well formed.
LEMMA IdleShaped ==
    ASSUME NEW rs, NEW cs
    PROVE  Idle \in RunType /\ Shaped(Idle, rs, cs)
<1>2. Idle \in RunType
    BY RunFields DEF Idle, RunType, Place
<1>3. Shaped(Idle, rs, cs)
    BY DEF Idle, Shaped, Reading
<1> QED
    BY <1>2, <1>3

\* A runner that goes on is well formed: it has a next step, or it is done with its item.
LEMMA OnwardShaped ==
    ASSUME NEW rs, NEW cs, NEW me \in RunType, Shaped(me, rs, cs), me.pc \in Reading,
           DOMAIN rs \subseteq Nat, NEW failed \in BOOLEAN,
           NEW carried \in SUBSET Nat, carried \subseteq DOMAIN cs
    PROVE  Onward(me, failed, carried) \in RunType /\ Shaped(Onward(me, failed, carried), rs, cs)
<1>1. CASE me.bulk
    BY <1>1, IdleShaped DEF Onward
<1>0. me.bulk \in BOOLEAN /\ carried \in Numbers
    BY RunFields DEF Numbers
<1>2. CASE ~me.bulk /\ failed
  <2>1. Onward(me, failed, carried) = [me EXCEPT !.pc = "item", !.snap = 0, !.plan = Whole,
                                                 !.chunks = <<>>, !.got = <<>>, !.todo = <<>>]
    BY <1>2, Zenon DEF Onward
  <2>2. Onward(me, failed, carried) \in RunType
    <3>1. "item" \in Place
      BY DEF Place
    <3>2. [me EXCEPT !.pc = "item", !.snap = 0, !.plan = Whole,
                     !.chunks = <<>>, !.got = <<>>, !.todo = <<>>] \in RunType
      BY <3>1, RunFields DEF RunType
    <3> QED
      BY <2>1, <3>2
  <2>3. Shaped(Onward(me, failed, carried), rs, cs)
    BY <2>1 DEF RunType, Shaped, Reading
  <2> QED
    BY <2>2, <2>3
<1>3. CASE ~me.bulk /\ ~failed
  <2> DEFINE at == IF Len(me.todo) = 1 THEN "retire" ELSE "step"
             next == [me EXCEPT !.pc = at, !.base = me.snap, !.snap = 0, !.plan = Whole,
                                !.chunks = <<>>, !.got = <<>>,
                                !.todo = Tail(me.todo), !.kept = me.kept \cup carried]
  <2>1. Onward(me, failed, carried) = next
    BY <1>3 DEF Onward
  <2>2. me.todo # <<>> /\ me.todo \in Seq(DOMAIN rs) /\ me.snap \in DOMAIN rs
    BY <1>3 DEF Shaped
  <2>3. /\ Tail(me.todo) \in Seq(DOMAIN rs) /\ Tail(me.todo) \in Listed
        /\ Len(me.todo) # 1 => Tail(me.todo) # <<>>
    <3>1. Len(Tail(me.todo)) = Len(me.todo) - 1 /\ Len(me.todo) \in Nat \ {0}
      BY <2>2, HeadTailProperties, EmptySeq
    <3>2. Tail(me.todo) \in Seq(DOMAIN rs)
      BY <2>2, HeadTailProperties
    <3>3. me.todo \in Seq(Nat)
      BY RunFields
    <3>4. Tail(me.todo) \in Listed
      BY <2>2, <3>3, HeadTailProperties DEF Listed
    <3>5. Len(me.todo) # 1 => Len(Tail(me.todo)) # 0
      BY <3>1
    <3> QED
      BY <3>2, <3>4, <3>5, EmptySeq
  <2>4. /\ next.pc = at /\ next.base = me.snap /\ next.snap = 0 /\ next.todo = Tail(me.todo)
        /\ next.kept = me.kept \cup carried /\ next.pairs = me.pairs /\ next.old = me.old
        /\ next \in RunType
    <3>1. at \in Place /\ me.kept \cup carried \in Numbers /\ me.snap \in Nat
      BY <1>0, RunFields DEF Place
    <3> HIDE DEF at
    <3> QED
      BY <2>3, <3>1, RunFields DEF RunType
  <2>5. at \notin Reading /\ at # "planned" /\ at # "read" /\ (at = "step" => Len(me.todo) # 1)
    BY DEF Reading
  <2> HIDE DEF next, at
  <2>6. Shaped(next, rs, cs)
    <3>1. me.pairs \subseteq DOMAIN rs /\ me.old \subseteq DOMAIN cs /\ me.kept \subseteq DOMAIN cs
      BY DEF Shaped
    <3> QED
      BY <2>2, <2>3, <2>4, <2>5, <3>1, Zenon DEF Shaped
  <2> QED
    BY <2>1, <2>4, <2>6
<1> QED
    BY <1>0, <1>1, <1>2, <1>3

\* The first state.
LEMMA InitTyped == Init => IndType
<1> SUFFICES ASSUME Init PROVE IndType
    OBVIOUS
<1>1. StoreOK
    BY DEF Init, StoreOK, Snap
<1>2. RunsOK
    BY IdleShaped DEF Init, RunsOK
<1> QED
    BY <1>1, <1>2 DEF IndType

\* The runners of a step that changes none of them.
LEMMA AllRunsStay ==
    ASSUME RunsOK, Grown(rows, claims, rows', claims'), run' = run
    PROVE  RunsOK'
BY ShapedStays DEF RunsOK

\* A captured row: the text grew, or its last unit was rewritten.
LEMMA CaptureTyped == IndType /\ Capture => IndType'
<1> SUFFICES ASSUME IndType, Capture PROVE IndType'
    OBVIOUS
<1> DEFINE text == IF rows = <<>> THEN <<>> ELSE rows[Len(rows)].content
           New(content) == [content |-> content, status |-> "PENDING",
                            through |-> 0, whole |-> FALSE]
<1>1. rows \in Seq(Row) /\ claims' = claims /\ lost' = lost /\ run' = run
    BY DEF IndType, StoreOK, Capture
<1>2. text \in Seq(Unit)
  <2>1. CASE rows = <<>>
    BY <2>1
  <2>2. CASE rows # <<>>
    <3>1. Len(rows) \in 1..Len(rows)
      BY <1>1, <2>2, EmptySeq
    <3>2. rows[Len(rows)] \in Row
      BY <1>1, <3>1, ElementOfSeq
    <3> QED
      BY <2>2, <3>2 DEF Row
  <2> QED
    BY <2>1, <2>2
<1>3. PICK content : rows' = Append(rows, New(content)) /\ content \in Seq(Unit) /\ content # <<>>
  <2>1. CASE \E n \in 1..(MaxLen - Len(text)) :
                rows' = Append(rows, New(text \o [k \in 1..n |-> <<Len(text) + k, 0>>]))
    <3>1. PICK n \in 1..(MaxLen - Len(text)) :
                rows' = Append(rows, New(text \o [k \in 1..n |-> <<Len(text) + k, 0>>]))
      BY <2>1
    <3> DEFINE more == [k \in 1..n |-> <<Len(text) + k, 0>>]
    <3>2. n \in Nat \ {0} /\ Len(text) \in Nat
      BY <1>2
    <3> HIDE DEF text
    <3>3. more \in Seq(Unit) /\ Len(more) = n
      BY <3>2 DEF Unit
    <3>4. rows' = Append(rows, New(text \o more))
      BY <3>1 DEF text
    <3> HIDE DEF more, New
    <3>5. text \o more \in Seq(Unit) /\ Len(text \o more) = Len(text) + n
      BY <1>2, <3>3, ConcatProperties
    <3>6. text \o more # <<>>
      BY <3>2, <3>5, EmptySeq
    <3> QED
      BY <3>4, <3>5, <3>6
  <2>2. CASE text # <<>> /\ rows' = Append(rows, New([text EXCEPT ![Len(text)] = <<@[1], @[2] + 1>>]))
    <3> DEFINE unit == <<text[Len(text)][1], text[Len(text)][2] + 1>>
               new == [text EXCEPT ![Len(text)] = unit]
    <3>1. rows' = Append(rows, New(new))
      BY <2>2
    <3> HIDE DEF text, New
    <3>2. Len(text) \in 1..Len(text)
      BY <1>2, <2>2, EmptySeq DEF text
    <3>3. text[Len(text)] \in Unit
      BY <1>2, <3>2, ElementOfSeq
    <3>4. unit \in Unit
      BY <3>3 DEF Unit
    <3> HIDE DEF unit
    <3>5. new \in Seq(Unit) /\ Len(new) = Len(text)
      BY <1>2, <3>2, <3>4, ExceptSeq
    <3>6. new # <<>>
      BY <3>2, <3>5, EmptySeq
    <3> QED
      BY <3>1, <3>5, <3>6
  <2>3. \/ \E n \in 1..(MaxLen - Len(text)) :
              rows' = Append(rows, New(text \o [k \in 1..n |-> <<Len(text) + k, 0>>]))
        \/ text # <<>> /\ rows' = Append(rows, New([text EXCEPT ![Len(text)] = <<@[1], @[2] + 1>>]))
    BY Zenon DEF Capture
  <2> QED
    BY <2>1, <2>2, <2>3
<1> HIDE DEF text
<1>4. New(content) \in Row
  <2>1. Len(content) \in Nat
    BY <1>3
  <2> QED
    BY <1>3, <2>1 DEF Row, Status
<1> HIDE DEF New
<1>5. rows' \in Seq(Row) /\ Grown(rows, claims, rows', claims')
    BY <1>1, <1>3, <1>4 DEF Grown
<1>6. StoreOK'
    BY <1>1, <1>5, StoreStays DEF IndType
<1>7. RunsOK'
    BY <1>1, <1>5, AllRunsStay DEF IndType
<1> QED
    BY <1>6, <1>7 DEF IndType

\* A blob that goes missing moves nothing.
LEMMA LoseBlobTyped == IndType /\ LoseBlob => IndType'
<1> SUFFICES ASSUME IndType, LoseBlob PROVE IndType'
    OBVIOUS
<1>1. rows' = rows /\ claims' = claims /\ run' = run /\ lost' \subseteq Snap
    BY DEF LoseBlob, IndType, StoreOK
<1>2. StoreOK'
    BY <1>1 DEF IndType, StoreOK, Snap
<1>3. Grown(rows, claims, rows', claims')
    BY <1>1 DEF Grown
<1>4. RunsOK'
    BY <1>1, <1>3, AllRunsStay DEF IndType
<1> QED
    BY <1>2, <1>4 DEF IndType

\* A row that was claimed by nobody is pending again.
LEMMA ResetTyped == IndType /\ ResetStale => IndType'
<1> SUFFICES ASSUME IndType, ResetStale PROVE IndType'
    OBVIOUS
<1> DEFINE stale == {i \in Snap : /\ rows[i].status = "IN_PROGRESS"
                                  /\ \A r \in Busy : run[r].snap # i}
           rs == [i \in Snap |-> IF i \in stale THEN [rows[i] EXCEPT !.status = "PENDING"] ELSE rows[i]]
<1>1. rows' = rs /\ claims' = claims /\ lost' = lost /\ run' = run
    BY Zenon DEF ResetStale
<1>2. \A i \in Snap : rows[i] \in Row
    BY DEF IndType, StoreOK, Snap
<1>3. \A i \in Snap : [rows[i] EXCEPT !.status = "PENDING"] \in Row
                      /\ [rows[i] EXCEPT !.status = "PENDING"].content = rows[i].content
    BY <1>2 DEF Row, Status
<1> HIDE DEF stale
<1>4. \A i \in Snap : rs[i] \in Row /\ rs[i].content = rows[i].content
    BY <1>2, <1>3
<1>5. DOMAIN rs = Snap /\ rs = [i \in Snap |-> rs[i]]
    OBVIOUS
<1> HIDE DEF rs
<1>6. rs \in Seq(Row) /\ Grown(rows, claims, rs, claims)
    BY <1>4, <1>5, RowsStay DEF IndType, StoreOK
<1>7. StoreOK' /\ RunsOK'
    BY <1>1, <1>6, StoreStays, AllRunsStay DEF IndType
<1> QED
    BY <1>7 DEF IndType

\* A status that changes beside a runner that moves.
LEMMA MovedTyped ==
    ASSUME IndType, NEW rs \in Seq(Row), Grown(rows, claims, rs, claims),
           rows' = rs, claims' = claims, lost' = lost,
           NEW r \in Runner, NEW me \in RunType, run' = [run EXCEPT ![r] = me],
           Shaped(me, rs, claims)
    PROVE  IndType'
<1>1. StoreOK'
    BY StoreStays DEF IndType
<1>2. RunsOK'
    BY RunsStay DEF IndType
<1> QED
    BY <1>1, <1>2 DEF IndType

\* A bulk run claims a snapshot.
LEMMA BulkClaimTyped ==
    ASSUME IndType, NEW r \in Runner, NEW i \in Snap, BulkClaim(r, i)
    PROVE  IndType'
<1> DEFINE rs == StatusTo(i, "IN_PROGRESS")
           me == [Idle EXCEPT !.pc = "claimed", !.snap = i, !.early = EarlierComplete(i)]
<1>1. rows' = rs /\ claims' = claims /\ lost' = lost /\ run' = [run EXCEPT ![r] = me]
    BY Zenon DEF BulkClaim
<1>2. rs \in Seq(Row) /\ Grown(rows, claims, rs, claims) /\ DOMAIN rs = Snap
    BY StatusRow DEF IndType, StoreOK, Status
<1>3. i \in Nat /\ EarlierComplete(i) \in BOOLEAN
    BY DEF Snap, IndType, StoreOK, EarlierComplete
<1>4. /\ Idle \in RunType /\ Idle.base = 0 /\ Idle.todo = <<>> /\ Idle.pairs = {}
      /\ Idle.old = {} /\ Idle.kept = {} /\ Idle.bulk = TRUE
    BY IdleShaped DEF Idle
<1>5. /\ me \in RunType /\ me.pc = "claimed" /\ me.snap = i /\ me.base = 0 /\ me.todo = <<>>
      /\ me.pairs = {} /\ me.old = {} /\ me.kept = {} /\ me.bulk = TRUE
  <2>1. "claimed" \in Place
    BY DEF Place
  <2> QED
    BY <1>3, <1>4, <2>1 DEF RunType
<1> HIDE DEF rs, me
<1>6. Shaped(me, rs, claims)
    BY <1>2, <1>5 DEF Shaped, Reading
<1> QED
    BY <1>1, <1>2, <1>5, <1>6, MovedTyped

\* What every row and runner is.
LEMMA TypedParts ==
    ASSUME IndType
    PROVE  /\ StoreOK /\ rows \in Seq(Row) /\ claims \in Seq(Claim)
           /\ Snap = 1..Len(rows) /\ Len(rows) \in Nat
           /\ \A i \in Snap : rows[i] \in Row /\ rows[i].content \in Seq(Unit) /\ rows[i].content # <<>>
                              /\ rows[i].through \in Nat /\ rows[i].through <= Len(rows[i].content)
           /\ \A r \in Runner : run[r] \in RunType /\ Shaped(run[r], rows, claims)
           /\ \A r \in Runner : \A me : [run EXCEPT ![r] = me][r] = me
<1>1. rows \in Seq(Row) /\ claims \in Seq(Claim) /\ StoreOK
    BY DEF IndType, StoreOK
<1>2. \A i \in Snap : rows[i] \in Row
    BY <1>1 DEF Snap
<1>3. \A r \in Runner : run[r] \in RunType /\ Shaped(run[r], rows, claims)
    BY DEF IndType, RunsOK
<1>4. \A r \in Runner : \A me : [run EXCEPT ![r] = me][r] = me
    BY DEF IndType, RunsOK
<1>5. \A i \in Snap : rows[i].content \in Seq(Unit) /\ rows[i].content # <<>>
                      /\ rows[i].through \in Nat /\ rows[i].through <= Len(rows[i].content)
    BY <1>2 DEF Row
<1>6. Snap = 1..Len(rows) /\ Len(rows) \in Nat
    BY <1>1 DEF Snap
<1> QED
    BY <1>1, <1>2, <1>3, <1>4, <1>5, <1>6, Zenon

\* A planned read: its chunks are the plan's.
LEMMA PlanTyped ==
    ASSUME IndType, NEW r \in Runner, Plan(r)
    PROVE  IndType'
<1> DEFINE me == run[r]
           plan == PlanOf(me)
           chunks == Chunks(rows[me.snap].content, plan)
           next == [me EXCEPT !.pc = "planned", !.plan = plan, !.chunks = chunks]
<1>1. /\ me \in RunType /\ Shaped(me, rows, claims) /\ StoreOK /\ me.snap \in Snap
      /\ rows[me.snap].content \in Seq(Unit) /\ me.pc = "claimed"
  <2>1. me \in RunType /\ Shaped(me, rows, claims) /\ StoreOK
    BY TypedParts
  <2>2. me.pc = "claimed"
    BY DEF Plan
  <2>3. me.snap \in Snap
    BY <2>1, <2>2 DEF Shaped, Reading, Snap
  <2> QED
    BY <2>1, <2>2, <2>3, TypedParts
<1>2. rows' = rows /\ claims' = claims /\ lost' = lost /\ run' = [run EXCEPT ![r] = next]
  <2>1. rows' = rows /\ claims' = claims /\ lost' = lost
        /\ run' = [run EXCEPT ![r].pc = "planned", ![r].plan = plan, ![r].chunks = chunks]
    BY Zenon DEF Plan
  <2>2. run \in [Runner -> RunType]
    BY DEF IndType, RunsOK
  <2> QED
    BY <2>1, <2>2
<1> HIDE DEF me
<1>3. plan \in PlanType /\ Fits(plan, rows[me.snap].content)
    BY <1>1, PlanOfFits
<1> HIDE DEF plan
<1>4. chunks \in ChunkList
    BY <1>1, <1>3, ChunksFacts DEF ChunkList
<1> HIDE DEF chunks
<1>5. next \in RunType /\ next.pc = "planned" /\ next.plan = plan /\ next.chunks = chunks
      /\ next.snap = me.snap /\ next.base = me.base /\ next.todo = me.todo /\ next.pairs = me.pairs
      /\ next.old = me.old /\ next.kept = me.kept /\ next.bulk = me.bulk
  <2>1. "planned" \in Place
    BY DEF Place
  <2> QED
    BY <1>1, <1>3, <1>4, <2>1 DEF RunType
<1> HIDE DEF next
<1>6. Shaped(next, rows, claims)
  <2>1. "planned" \in Reading /\ "claimed" \in Reading
    BY DEF Reading
  <2> QED
    BY <1>1, <1>3, <1>5, <2>1 DEF Shaped, chunks
<1>7. Grown(rows, claims, rows, claims) /\ rows \in Seq(Row)
    BY TypedParts DEF Grown
<1> QED
    BY <1>2, <1>5, <1>6, <1>7, MovedTyped

\* A read: what it yields fits the snapshot.
LEMMA ReadTyped ==
    ASSUME IndType, NEW r \in Runner, Read(r)
    PROVE  IndType'
<1> DEFINE me == run[r]
<1>1. /\ me \in RunType /\ Shaped(me, rows, claims) /\ StoreOK /\ me.pc = "planned"
  <2>1. me \in RunType /\ Shaped(me, rows, claims) /\ StoreOK
    BY TypedParts
  <2> QED
    BY <2>1 DEF Read
<1>2. PICK failed \in SUBSET Asked(me) :
         run' = [run EXCEPT ![r].pc = "read", ![r].got = Result(me, Asked(me), failed)]
    BY DEF Read
<1> DEFINE got == Result(me, Asked(me), failed)
           next == [me EXCEPT !.pc = "read", !.got = got]
<1>3. rows' = rows /\ claims' = claims /\ lost' = lost /\ run' = [run EXCEPT ![r] = next]
  <2>1. rows' = rows /\ claims' = claims /\ lost' = lost
    BY DEF Read
  <2>2. run \in [Runner -> RunType]
    BY DEF IndType, RunsOK
  <2> QED
    BY <1>2, <2>1, <2>2
<1> HIDE DEF me
<1>4. /\ got \in Yield /\ got.through <= Len(rows[me.snap].content)
      /\ got.carry \subseteq Live \ me.old
      /\ DOMAIN got.write \subseteq DOMAIN me.chunks
      /\ \A k \in DOMAIN got.write : got.write[k] = me.chunks[k]
    BY <1>1, ResultFacts
<1> HIDE DEF got
<1>5. next \in RunType /\ next.pc = "read" /\ next.plan = me.plan /\ next.chunks = me.chunks
      /\ next.snap = me.snap /\ next.base = me.base /\ next.todo = me.todo /\ next.pairs = me.pairs
      /\ next.old = me.old /\ next.kept = me.kept /\ next.bulk = me.bulk /\ next.got = got
  <2>1. "read" \in Place /\ got \in Got
    BY <1>4 DEF Place, Got
  <2> QED
    BY <1>1, <2>1 DEF RunType
<1> HIDE DEF next
<1>6. Shaped(next, rows, claims)
  <2>1. "planned" \in Reading /\ "read" \in Reading
    BY DEF Reading
  <2>2. got.carry \subseteq DOMAIN claims
    BY <1>4 DEF Live
  <2> QED
    BY <1>1, <1>4, <1>5, <2>1, <2>2 DEF Shaped
<1>7. Grown(rows, claims, rows, claims) /\ rows \in Seq(Row)
    BY TypedParts DEF Grown
<1> QED
    BY <1>3, <1>5, <1>6, <1>7, MovedTyped

\* The blob of a claimed snapshot is gone.
LEMMA BlobMissingTyped ==
    ASSUME IndType, NEW r \in Runner, BlobMissing(r)
    PROVE  IndType'
<1> DEFINE me == run[r]
           next == Onward(me, TRUE, {})
           rs == StatusTo(me.snap, "FAILED")
<1>1. rows' = rs /\ claims' = claims /\ lost' = lost /\ run' = [run EXCEPT ![r] = next]
    BY Zenon DEF BlobMissing
<1>2. me \in RunType /\ Shaped(me, rows, claims) /\ me.pc \in Reading /\ me.snap \in Snap
    BY TypedParts DEF BlobMissing, Reading, Shaped, Snap
<1> HIDE DEF me
<1>3. rs \in Seq(Row) /\ Grown(rows, claims, rs, claims)
    BY <1>2, StatusRow, TypedParts DEF Status
<1>4. next \in RunType /\ Shaped(next, rows, claims)
  <2>1. DOMAIN rows \subseteq Nat
    BY TypedParts DEF Snap
  <2> QED
    BY <1>2, <2>1, OnwardShaped
<1> HIDE DEF next, rs
<1>5. Shaped(next, rs, claims)
    BY <1>3, <1>4, ShapedStays
<1> QED
    BY <1>1, <1>3, <1>4, <1>5, MovedTyped

\* A runner that is interrupted or killed.
LEMMA InterruptedTyped ==
    ASSUME IndType, NEW r \in Runner, Interrupted(r)
    PROVE  IndType'
<1> DEFINE me == run[r]
           rs == StatusTo(me.snap, "PENDING")
<1>1. claims' = claims /\ lost' = lost /\ me.pc \in Reading
    BY DEF Interrupted, Reading
<1>2. me \in RunType /\ Shaped(me, rows, claims) /\ me.snap \in Snap
    BY <1>1, TypedParts DEF Shaped, Snap
<1>3. \/ (rows' = rs \/ rows' = rows) /\ run' = [run EXCEPT ![r] = Onward(me, TRUE, {})]
      \/ rows' = rows /\ run' = [run EXCEPT ![r] = Idle]
    BY DEF Interrupted
<1> HIDE DEF me
<1>4. rs \in Seq(Row) /\ Grown(rows, claims, rs, claims)
    BY <1>2, StatusRow, TypedParts DEF Status
<1>5. rows \in Seq(Row) /\ Grown(rows, claims, rows, claims) /\ DOMAIN rows \subseteq Nat
    BY TypedParts DEF Grown, Snap
<1>6. Onward(me, TRUE, {}) \in RunType /\ Shaped(Onward(me, TRUE, {}), rows, claims)
    BY <1>1, <1>2, <1>5, OnwardShaped
<1> HIDE DEF rs
<1>7. CASE rows' = rs /\ run' = [run EXCEPT ![r] = Onward(me, TRUE, {})]
  <2>1. Shaped(Onward(me, TRUE, {}), rs, claims)
    BY <1>4, <1>6, ShapedStays
  <2> QED
    BY <1>1, <1>4, <1>6, <1>7, <2>1, MovedTyped
<1>8. CASE rows' = rows /\ run' = [run EXCEPT ![r] = Onward(me, TRUE, {})]
    BY <1>1, <1>5, <1>6, <1>8, MovedTyped
<1>9. CASE rows' = rows /\ run' = [run EXCEPT ![r] = Idle]
    BY <1>1, <1>5, <1>9, IdleShaped, MovedTyped
<1> QED
    BY <1>3, <1>7, <1>8, <1>9

\* Citing one snapshot more.
LEMMA CitesMore ==
    ASSUME NEW S, NEW T, T \subseteq S, NEW i \in S
    PROVE  T \cup {i} \in (SUBSET S) \ {{}} /\ {i} \in (SUBSET S) \ {{}}
<1>1. i \in T \cup {i} /\ i \in {i}
    OBVIOUS
<1>2. T \cup {i} # {} /\ {i} # {}
    BY <1>1
<1>3. T \cup {i} \subseteq S /\ {i} \subseteq S
    OBVIOUS
<1> QED
    BY <1>2, <1>3

\* What a write leaves: the earlier claims keep their chunk and their status, and every
\* chunk that is written is the chunk of a new ACTIVE claim.
LEMMA AppliedClaims ==
    ASSUME IndType, NEW r \in Runner, Apply(r)
    PROVE  /\ claims' \in Seq(Claim) /\ DOMAIN claims \subseteq DOMAIN claims'
           /\ \A c \in DOMAIN claims : claims'[c].chunk = claims[c].chunk
                                       /\ claims'[c].active = claims[c].active
           /\ \A c \in DOMAIN claims' : claims'[c].cites \in (SUBSET Snap) \ {{}}
           /\ run[r].got.kept =>
                 \A k \in DOMAIN run[r].got.write :
                    \E c \in DOMAIN claims' \ DOMAIN claims :
                       claims'[c].active /\ claims'[c].chunk = run[r].got.write[k]
<1> DEFINE me == run[r]
           got == me.got
           ids == IF me.plan.delta THEN {} ELSE got.carry
           old == Cited(claims, ids, me.snap)
           new == Written(got.write, me.snap)
<1>1. claims' = IF got.kept THEN old \o new ELSE claims
    BY DEF Apply
<1>2. me \in RunType /\ Shaped(me, rows, claims) /\ me.pc = "read"
  <2>1. me \in RunType /\ Shaped(me, rows, claims)
    BY TypedParts
  <2> QED
    BY <2>1 DEF Apply
<1>3. claims \in Seq(Claim) /\ \A c \in DOMAIN claims : claims[c].cites \in (SUBSET Snap) \ {{}}
    BY DEF IndType, StoreOK
<1> HIDE DEF me
<1>4. me.snap \in Snap /\ Snap \in SUBSET Nat
  <2>1. "read" \in Reading
    BY DEF Reading
  <2> QED
    BY <1>2, <2>1, TypedParts DEF Shaped, Snap
<1>5. /\ old \in Seq(Claim) /\ DOMAIN old = DOMAIN claims
      /\ \A c \in DOMAIN claims : /\ old[c].chunk = claims[c].chunk /\ old[c].active = claims[c].active
                                  /\ old[c].cites \in (SUBSET Snap) \ {{}}
  <2>1. \A c \in DOMAIN claims : claims[c] \in Claim
    BY <1>3
  <2> HIDE DEF ids
  <2>2. old = [c \in DOMAIN claims |->
                 IF c \in ids THEN [claims[c] EXCEPT !.cites = claims[c].cites \cup {me.snap}]
                 ELSE claims[c]]
    BY DEF Cited
  <2>3. \A c \in DOMAIN claims :
           /\ [claims[c] EXCEPT !.cites = claims[c].cites \cup {me.snap}] \in Claim
           /\ [claims[c] EXCEPT !.cites = claims[c].cites \cup {me.snap}].chunk = claims[c].chunk
           /\ [claims[c] EXCEPT !.cites = claims[c].cites \cup {me.snap}].active = claims[c].active
           /\ [claims[c] EXCEPT !.cites = claims[c].cites \cup {me.snap}].cites
                 = claims[c].cites \cup {me.snap}
    BY <1>4, <2>1 DEF Claim
  <2>4. DOMAIN claims = 1..Len(claims) /\ Len(claims) \in Nat
    BY <1>3
  <2>5. \A c \in DOMAIN claims : claims[c].cites \cup {me.snap} \in (SUBSET Snap) \ {{}}
    <3> SUFFICES ASSUME NEW c \in DOMAIN claims
                 PROVE  claims[c].cites \cup {me.snap} \in (SUBSET Snap) \ {{}}
      OBVIOUS
    <3>1. claims[c].cites \subseteq Snap
      BY <1>3, Zenon
    <3> QED
      BY <1>4, <3>1, CitesMore
  <2> HIDE DEF old
  <2>6. DOMAIN old = DOMAIN claims /\ \A c \in DOMAIN claims : old[c] \in Claim
    BY <2>1, <2>2, <2>3
  <2>7. old \in Seq(Claim)
    <3>1. old = [c \in 1..Len(claims) |-> old[c]]
      BY <2>2, <2>4
    <3> QED
      BY <2>4, <2>6, <3>1
  <2>8. ASSUME NEW c \in DOMAIN claims
        PROVE  /\ old[c].chunk = claims[c].chunk /\ old[c].active = claims[c].active
               /\ old[c].cites \in (SUBSET Snap) \ {{}}
    <3>1. CASE c \in ids
      <4>1. old[c] = [claims[c] EXCEPT !.cites = claims[c].cites \cup {me.snap}]
        BY <2>2, <3>1
      <4> QED
        BY <2>3, <2>5, <4>1
    <3>2. CASE c \notin ids
      <4>1. old[c] = claims[c]
        BY <2>2, <3>2
      <4> QED
        BY <1>3, <4>1
    <3> QED
      BY <3>1, <3>2
  <2> QED
    BY <2>6, <2>7, <2>8
<1>6. /\ new \in Seq(NewClaim(me.snap))
      /\ \A k \in DOMAIN got.write : \E n \in 1..Len(new) : new[n].chunk = got.write[k]
  <2>1. /\ DOMAIN got.write \subseteq DOMAIN me.chunks
        /\ \A k \in DOMAIN got.write : got.write[k] = me.chunks[k]
    BY <1>2 DEF Shaped
  <2>2. me.chunks \in Seq(Chunk)
    BY <1>2 DEF RunType, ChunkList
  <2>3. /\ Len(me.chunks) \in Nat /\ DOMAIN me.chunks = 1..Len(me.chunks)
        /\ IsFiniteSet(1..Len(me.chunks))
    BY <2>2, FS_Interval
  <2>4. DOMAIN got.write \in SUBSET Nat /\ IsFiniteSet(DOMAIN got.write)
    BY <2>1, <2>3, FS_Subset
  <2>5. \A k \in DOMAIN got.write : got.write[k] \in Chunk
    BY <2>1, <2>2
  <2> HIDE DEF got
  <2> QED
    BY <2>4, <2>5, WrittenFacts
<1>7. CASE ~got.kept
    BY <1>1, <1>3, <1>7 DEF me
<1>8. CASE got.kept
  <2> DEFINE both == old \o new
  <2>1. claims' = both
    BY <1>1, <1>8
  <2> HIDE DEF old, new, got
  <2>2. new \in Seq(Claim) /\ Len(new) \in Nat
        /\ \A n \in 1..Len(new) : new[n].cites = {me.snap} /\ new[n].active = TRUE
    <3>1. \A n \in 1..Len(new) : new[n] \in NewClaim(me.snap)
      BY <1>6, ElementOfSeq
    <3>2. \A n \in 1..Len(new) : /\ new[n].cites = {me.snap} /\ new[n].active = TRUE
                                 /\ new[n] \in Claim
      BY <1>4, <3>1 DEF Claim, NewClaim
    <3>3. Len(new) \in Nat /\ new = [n \in 1..Len(new) |-> new[n]]
      BY <1>6
    <3> QED
      BY <3>2, <3>3
  <2>3. Len(claims) \in Nat /\ DOMAIN claims = 1..Len(claims) /\ Len(old) = Len(claims)
    BY <1>3, <1>5
  <2>4. /\ both \in Seq(Claim) /\ Len(both) = Len(old) + Len(new)
        /\ \A n \in 1..Len(both) : both[n] = IF n <= Len(old) THEN old[n] ELSE new[n - Len(old)]
    BY <1>5, <2>2, ConcatProperties
  <2> HIDE DEF both
  <2>5. DOMAIN both = 1..Len(both) /\ Len(both) = Len(claims) + Len(new)
    BY <2>3, <2>4
  <2>6. \A c \in DOMAIN claims : c \in DOMAIN both /\ both[c] = old[c]
    BY <2>2, <2>3, <2>4, <2>5
  <2>7. \A n \in 1..Len(new) : /\ Len(claims) + n \in DOMAIN both \ DOMAIN claims
                               /\ both[Len(claims) + n] = new[n]
    BY <2>2, <2>3, <2>4, <2>5
  <2>8. \A c \in DOMAIN both : both[c].cites \in (SUBSET Snap) \ {{}}
    <3> SUFFICES ASSUME NEW c \in DOMAIN both PROVE both[c].cites \in (SUBSET Snap) \ {{}}
      OBVIOUS
    <3>1. CASE c \in DOMAIN claims
      BY <1>5, <2>6, <3>1
    <3>2. CASE c \notin DOMAIN claims
      <4>1. c - Len(claims) \in 1..Len(new) /\ both[c] = new[c - Len(claims)]
        BY <2>2, <2>3, <2>4, <2>5, <3>2
      <4>2. both[c].cites = {me.snap}
        BY <2>2, <4>1
      <4>3. {me.snap} \in (SUBSET Snap) \ {{}}
        BY <1>4, CitesMore
      <4> QED
        BY <4>2, <4>3, Zenon
    <3> QED
      BY <3>1, <3>2
  <2>9. \A c \in DOMAIN claims : both[c].chunk = claims[c].chunk /\ both[c].active = claims[c].active
    BY <1>5, <2>6
  <2>10. \A k \in DOMAIN got.write :
            \E c \in DOMAIN both \ DOMAIN claims : both[c].active /\ both[c].chunk = got.write[k]
    <3> SUFFICES ASSUME NEW k \in DOMAIN got.write
                 PROVE  \E c \in DOMAIN both \ DOMAIN claims :
                           both[c].active /\ both[c].chunk = got.write[k]
      OBVIOUS
    <3>1. PICK n \in 1..Len(new) : new[n].chunk = got.write[k]
      BY <1>6
    <3>2. both[Len(claims) + n].active /\ both[Len(claims) + n].chunk = got.write[k]
      BY <2>2, <2>7, <3>1
    <3> QED
      BY <2>7, <3>2
  <2> QED
    BY <2>1, <2>4, <2>6, <2>8, <2>9, <2>10 DEF got, me
<1> QED
    BY <1>7, <1>8

\* Rows and claims change together and a runner moves.
LEMMA ChangedTyped ==
    ASSUME IndType, rows' \in Seq(Row), claims' \in Seq(Claim), lost' = lost,
           Grown(rows, claims, rows', claims'),
           \A c \in DOMAIN claims' : claims'[c].cites \in (SUBSET Snap) \ {{}},
           NEW r \in Runner, NEW me \in RunType, run' = [run EXCEPT ![r] = me],
           Shaped(me, rows, claims)
    PROVE  IndType'
<1>1. Snap \subseteq Snap'
    BY DEF Snap, Grown
<1>2. \A c \in DOMAIN claims' : claims'[c].cites \in (SUBSET Snap') \ {{}}
    BY <1>1
<1>3. StoreOK'
    BY <1>1, <1>2 DEF StoreOK, IndType
<1>4. Shaped(me, rows', claims')
    BY ShapedStays
<1>5. RunsOK'
    BY <1>4, RunsStay DEF IndType
<1> QED
    BY <1>3, <1>5 DEF IndType

\* The row a write leaves: its text is its own and its offset inside it.
LEMMA AppliedRows ==
    ASSUME IndType, NEW r \in Runner, Apply(r)
    PROVE  /\ run[r].snap \in Snap /\ run[r].got \in Yield
           /\ rows' \in Seq(Row) /\ Grown(rows, claims, rows', claims) /\ DOMAIN rows' = Snap
           /\ \A i \in Snap \ {run[r].snap} : rows'[i] = rows[i]
           /\ rows'[run[r].snap].through = IF run[r].got.through = 0 THEN rows[run[r].snap].through
                                           ELSE run[r].got.through
           /\ rows'[run[r].snap].status = IF run[r].got.failed THEN "PENDING" ELSE "COMPLETE"
<1> DEFINE me == run[r]
           got == me.got
           i == me.snap
           row == [rows[i] EXCEPT !.status = IF got.failed THEN "PENDING" ELSE "COMPLETE",
                                  !.through = IF got.through = 0 THEN rows[i].through ELSE got.through,
                                  !.whole = IF got.failed THEN rows[i].whole \/ got.whole ELSE FALSE]
<1>1. /\ me \in RunType /\ Shaped(me, rows, claims) /\ me.pc = "read"
      /\ rows' = [rows EXCEPT ![i] = row]
  <2>1. me \in RunType /\ Shaped(me, rows, claims)
    BY TypedParts
  <2>2. me.pc = "read" /\ rows' = [rows EXCEPT ![i] = row]
    BY Zenon DEF Apply
  <2> QED
    BY <2>1, <2>2
<1>2. i \in Snap /\ got \in Yield /\ got.through <= Len(rows[i].content)
  <2>1. "read" \in Reading
    BY DEF Reading
  <2> QED
    BY <1>1, <2>1 DEF Shaped, Snap
<1>3. got.through \in Nat /\ got.failed \in BOOLEAN /\ got.whole \in BOOLEAN
    BY <1>2 DEF Yield
<1> HIDE DEF got, i
<1>4. rows[i] \in Row
    BY <1>2, TypedParts
<1>5. /\ row \in Row /\ row.content = rows[i].content
      /\ row.through = (IF got.through = 0 THEN rows[i].through ELSE got.through)
      /\ row.status = (IF got.failed THEN "PENDING" ELSE "COMPLETE")
  <2> DEFINE st == IF got.failed THEN "PENDING" ELSE "COMPLETE"
             th == IF got.through = 0 THEN rows[i].through ELSE got.through
             wh == IF got.failed THEN rows[i].whole \/ got.whole ELSE FALSE
  <2>1. st \in Status /\ th \in Nat /\ th <= Len(rows[i].content) /\ wh \in BOOLEAN
    BY <1>2, <1>3, <1>4 DEF Row, Status
  <2>2. row = [rows[i] EXCEPT !.status = st, !.through = th, !.whole = wh]
    OBVIOUS
  <2> HIDE DEF st, th, wh, row
  <2>3. row \in Row /\ row.content = rows[i].content /\ row.through = th /\ row.status = st
    BY <1>4, <2>1, <2>2 DEF Row
  <2> QED
    BY <2>3 DEF st, th
<1> HIDE DEF row
<1>6. DOMAIN rows' = Snap /\ \A j \in Snap : rows'[j] = IF j = i THEN row ELSE rows[j]
    BY <1>1, <1>2 DEF Snap
<1>7. \A j \in Snap : rows'[j] \in Row /\ rows'[j].content = rows[j].content
    BY <1>5, <1>6, TypedParts
<1>8. rows' \in Seq(Row) /\ Grown(rows, claims, rows', claims)
  <2>1. Snap = 1..Len(rows) /\ Len(rows) \in Nat
    BY TypedParts
  <2>2. rows' = [j \in Snap |-> rows'[j]]
    BY <1>1, <1>6 DEF Snap
  <2>3. rows' \in Seq(Row)
    BY <1>7, <2>1, <2>2
  <2> QED
    BY <1>6, <1>7, <2>3 DEF Grown, Snap
<1> QED
    BY <1>2, <1>5, <1>6, <1>8 DEF got, i

\* The write of a read.
LEMMA ApplyTyped ==
    ASSUME IndType, NEW r \in Runner, Apply(r)
    PROVE  IndType'
<1> DEFINE me == run[r]
           next == Onward(me, me.got.failed, me.got.carry)
<1>1. me \in RunType /\ Shaped(me, rows, claims) /\ me.pc = "read"
  <2>1. me \in RunType /\ Shaped(me, rows, claims)
    BY TypedParts
  <2> QED
    BY <2>1 DEF Apply
<1>2. run' = [run EXCEPT ![r] = next] /\ lost' = lost
    BY DEF Apply
<1> HIDE DEF me
<1>3. next \in RunType /\ Shaped(next, rows, claims)
  <2>1. me.got \in Yield /\ me.got.carry \subseteq DOMAIN claims /\ me.pc \in Reading
    BY <1>1 DEF Shaped, Reading
  <2>2. me.got.failed \in BOOLEAN /\ me.got.carry \in SUBSET Nat
    BY <2>1 DEF Yield
  <2>3. DOMAIN rows \subseteq Nat
    BY TypedParts DEF Snap
  <2> QED
    BY <1>1, <2>1, <2>2, <2>3, OnwardShaped
<1> HIDE DEF next
<1>4. rows' \in Seq(Row) /\ Grown(rows, claims, rows', claims)
    BY AppliedRows
<1>5. /\ claims' \in Seq(Claim) /\ DOMAIN claims \subseteq DOMAIN claims'
      /\ \A c \in DOMAIN claims' : claims'[c].cites \in (SUBSET Snap) \ {{}}
    BY AppliedClaims
<1>6. Grown(rows, claims, rows', claims')
    BY <1>4, <1>5 DEF Grown
<1> QED
    BY <1>2, <1>3, <1>4, <1>5, <1>6, ChangedTyped

\* A reindex reaches rows that are there.
LEMMA ScopeRows ==
    ASSUME IndType, NEW kind \in Scopes
    PROVE  Scope(kind) \subseteq Snap /\ IsFiniteSet(Complete) /\ Complete \subseteq Snap
<1>1. Snap = 1..Len(rows) /\ Len(rows) \in Nat
    BY TypedParts
<1>2. Complete \subseteq Snap /\ Partial \subseteq Snap
    BY DEF Complete, Partial
<1>3. \A S \in SUBSET Snap : S # {} => Last(S) \in Snap
  <2> SUFFICES ASSUME NEW S \in SUBSET Snap, S # {} PROVE Last(S) \in Snap
    OBVIOUS
  <2>1. S \in SUBSET (0..Len(rows))
    BY <1>1
  <2> QED
    BY <1>1, <2>1, LastOf
<1>4. IsFiniteSet(Complete)
  <2>1. IsFiniteSet(1..Len(rows))
    BY <1>1, FS_Interval
  <2>2. IsFiniteSet(Snap) /\ Complete \in SUBSET Snap
    BY <1>1, <1>2, <2>1
  <2> QED
    BY <2>2, FS_Subset
<1>5. kind \in {"named", "partial", "pending", "version"}
    BY AppendReadsAssumption
<1>6. UNION {claims[c].cites : c \in Live} \subseteq Snap
  <2>1. \A c \in Live : claims[c].cites \subseteq Snap
    BY DEF Live, IndType, StoreOK
  <2> QED
    BY <2>1
<1>7. CASE kind = "named"
  <2>1. Scope(kind) = IF Complete = {} THEN {} ELSE {Last(Complete)}
    BY <1>7 DEF Scope
  <2> QED
    BY <1>2, <1>3, <1>4, <2>1
<1>8. CASE kind = "partial"
  <2>1. Scope(kind) = IF Complete # {} \/ Partial = {} THEN {} ELSE {Last(Partial)}
    BY <1>8 DEF Scope
  <2> QED
    BY <1>2, <1>3, <1>4, <2>1
<1>9. CASE kind = "pending"
  <2>1. Scope(kind) = {i \in Snap : rows[i].status \in {"PENDING", "FAILED"}}
    BY <1>9 DEF Scope
  <2> QED
    BY <1>2, <1>4, <2>1
<1>10. CASE kind = "version"
  <2>1. Scope(kind) = {i \in Snap : rows[i].status \in {"PENDING", "FAILED"}}
                      \cup UNION {claims[c].cites : c \in Live}
    BY <1>10 DEF Scope
  <2> QED
    BY <1>2, <1>4, <1>6, <2>1
<1> QED
    BY <1>5, <1>7, <1>8, <1>9, <1>10

\* A reindex starts.
LEMMA ReindexStartTyped ==
    ASSUME IndType, NEW r \in Runner, NEW kind \in Scopes, ReindexStart(r, kind)
    PROVE  IndType'
<1> DEFINE replays == Scope(kind) \cap Complete # {}
           pairs == Scope(kind) \ Complete
           at == IF replays THEN "step" ELSE "item"
           todo == IF replays THEN InOrder(Complete) ELSE <<>>
           old == IF replays THEN Live ELSE {}
           next == [Idle EXCEPT !.bulk = FALSE, !.replays = replays, !.pairs = pairs,
                                !.pc = at, !.todo = todo, !.old = old]
<1>1. rows' = rows /\ claims' = claims /\ lost' = lost /\ run' = [run EXCEPT ![r] = next]
    BY Zenon DEF ReindexStart
<1>2. /\ Snap = 1..Len(rows) /\ Len(rows) \in Nat /\ rows \in Seq(Row) /\ claims \in Seq(Claim)
      /\ Scope(kind) \subseteq Snap /\ IsFiniteSet(Complete) /\ Complete \subseteq Snap
    BY TypedParts, ScopeRows
<1>3. Complete \in SUBSET Nat
    BY <1>2
<1>4. todo \in Seq(Snap) /\ todo \in Listed /\ (replays => todo # <<>>)
  <2>1. InOrder(Complete) \in Seq(Complete) /\ (Complete # {} => InOrder(Complete) # <<>>)
    BY <1>2, <1>3, InOrderLists
  <2>2. InOrder(Complete) \in Seq(Snap) /\ InOrder(Complete) \in Listed
    BY <1>2, <1>3, <2>1, SeqMonotonic DEF Listed
  <2>3. <<>> \in Seq(Snap) /\ <<>> \in Listed
    BY RunFields
  <2>4. replays => Complete # {}
    OBVIOUS
  <2> QED
    BY <2>1, <2>2, <2>3, <2>4
<1>5. old \in Numbers /\ old \subseteq DOMAIN claims /\ pairs \in Numbers /\ pairs \subseteq Snap
  <2>1. Live \subseteq DOMAIN claims /\ DOMAIN claims \subseteq Nat
    BY <1>2 DEF Live
  <2>2. Live \in Numbers /\ {} \in Numbers
    BY <2>1 DEF Numbers
  <2>3. pairs \subseteq Snap /\ Snap \subseteq Nat
    BY <1>2
  <2>4. pairs \in Numbers
    BY <2>3 DEF Numbers
  <2> QED
    BY <2>1, <2>2, <2>3, <2>4
<1>6. replays \in BOOLEAN /\ at \in Place /\ at \notin Reading /\ (at = "step" => replays)
      /\ at # "planned" /\ at # "read"
    BY DEF Place, Reading
<1> HIDE DEF replays, pairs, at, todo, old
<1>7. Idle \in RunType /\ Idle.base = 0 /\ Idle.snap = 0 /\ Idle.kept = {}
    BY IdleShaped DEF Idle
<1>8. /\ next \in RunType /\ next.pc = at /\ next.snap = 0 /\ next.base = 0 /\ next.todo = todo
      /\ next.pairs = pairs /\ next.old = old /\ next.kept = {} /\ next.bulk = FALSE
    BY <1>4, <1>5, <1>6, <1>7 DEF RunType
<1> HIDE DEF next
<1>9. Shaped(next, rows, claims)
    BY <1>4, <1>5, <1>6, <1>8, Zenon DEF Shaped, Snap
<1>10. Grown(rows, claims, rows, claims)
    BY DEF Grown
<1> QED
    BY <1>1, <1>2, <1>8, <1>9, <1>10, MovedTyped

\* A reindex takes up its next item, or is done.
LEMMA ReindexItemTyped ==
    ASSUME IndType, NEW r \in Runner, ReindexItem(r)
    PROVE  IndType'
<1> DEFINE me == run[r]
           Old(i) == IF me.replays THEN Live ELSE {c \in Live : i \in claims[c].cites}
           Next_(i) == [me EXCEPT !.pc = "step", !.pairs = me.pairs \ {i}, !.todo = <<i>>, !.base = 0,
                                  !.kept = {}, !.old = Old(i)]
<1>1. me \in RunType /\ Shaped(me, rows, claims) /\ rows \in Seq(Row) /\ claims \in Seq(Claim)
    BY TypedParts
<1>2. /\ rows' = rows /\ claims' = claims /\ lost' = lost /\ me.pc = "item"
      /\ \/ \E i \in me.pairs : run' = [run EXCEPT ![r] = Next_(i)]
         \/ run' = [run EXCEPT ![r] = Idle]
    BY Zenon DEF ReindexItem
<1> HIDE DEF me
<1>3. Grown(rows, claims, rows, claims)
    BY DEF Grown
<1>4. ASSUME NEW i \in me.pairs, run' = [run EXCEPT ![r] = Next_(i)] PROVE IndType'
  <2> DEFINE next == Next_(i)
  <2>1. i \in Snap /\ i \in Nat
    BY <1>1, TypedParts DEF Shaped, Snap
  <2>2. Old(i) \in Numbers /\ Old(i) \subseteq DOMAIN claims
    <3>1. Live \subseteq DOMAIN claims /\ DOMAIN claims \subseteq Nat
      BY <1>1 DEF Live
    <3>2. Old(i) \subseteq Live
      OBVIOUS
    <3> QED
      BY <3>1, <3>2 DEF Numbers
  <2> HIDE DEF Old
  <2>3. <<i>> \in Listed /\ <<i>> \in Seq(Snap) /\ <<i>> # <<>>
    BY <2>1 DEF Listed
  <2>4. me.pairs \ {i} \in Numbers /\ me.pairs \ {i} \subseteq Snap
    BY <1>1, RunFields DEF Numbers, Shaped, Snap
  <2>5. /\ next \in RunType /\ next.pc = "step" /\ next.snap = me.snap /\ next.base = 0
        /\ next.todo = <<i>> /\ next.pairs = me.pairs \ {i} /\ next.old = Old(i)
        /\ next.kept = {}
    <3>1. "step" \in Place
      BY DEF Place
    <3> DEFINE one == <<i>>  less == me.pairs \ {i}
    <3>2. one \in Listed /\ less \in Numbers
      BY <2>3, <2>4
    <3> HIDE DEF one, less
    <3>3. next = [me EXCEPT !.pc = "step", !.pairs = less, !.todo = one, !.base = 0,
                            !.kept = {}, !.old = Old(i)]
      BY DEF one, less
    <3> HIDE DEF next
    <3>4. /\ next \in RunType /\ next.pc = "step" /\ next.snap = me.snap /\ next.base = 0
          /\ next.todo = one /\ next.pairs = less /\ next.old = Old(i)
          /\ next.kept = {}
      BY <1>1, <2>2, <3>1, <3>2, <3>3, RunFields DEF RunType
    <3> QED
      BY <3>4 DEF one, less
  <2> HIDE DEF next
  <2>6. Shaped(next, rows, claims)
    <3>1. me.snap \in DOMAIN rows \cup {0} /\ "step" \notin Reading
      BY <1>1 DEF Shaped, Reading
    <3> QED
      BY <2>2, <2>3, <2>4, <2>5, <3>1, Zenon DEF Shaped, Snap
  <2> QED
    BY <1>1, <1>2, <1>3, <1>4, <2>5, <2>6, MovedTyped DEF next
<1>5. CASE run' = [run EXCEPT ![r] = Idle]
    BY <1>1, <1>2, <1>3, <1>5, IdleShaped, MovedTyped
<1> QED
    BY <1>2, <1>4, <1>5

\* A reindex claims its next row.
LEMMA ReindexClaimTyped ==
    ASSUME IndType, NEW r \in Runner, ReindexClaim(r)
    PROVE  IndType'
<1> DEFINE me == run[r]
           i == Head(me.todo)
           rs == StatusTo(i, "IN_PROGRESS")
           next == [me EXCEPT !.pc = "claimed", !.snap = i]
<1>1. /\ me \in RunType /\ Shaped(me, rows, claims) /\ me.pc = "step"
      /\ rows' = rs /\ claims' = claims /\ lost' = lost /\ run' = [run EXCEPT ![r] = next]
  <2>1. me \in RunType /\ Shaped(me, rows, claims)
    BY TypedParts
  <2>2. me.pc = "step" /\ rows' = rs /\ claims' = claims /\ lost' = lost
        /\ run' = [run EXCEPT ![r].pc = "claimed", ![r].snap = i]
    BY Zenon DEF ReindexClaim
  <2>3. run \in [Runner -> RunType]
    BY DEF IndType, RunsOK
  <2> QED
    BY <2>1, <2>2, <2>3
<1> HIDE DEF me
<1>2. i \in Snap /\ i \in Nat /\ me.todo # <<>>
  <2>1. me.todo \in Seq(Snap) /\ me.todo # <<>>
    BY <1>1 DEF Shaped, Snap
  <2>2. i \in Snap
    BY <2>1, HeadTailProperties
  <2> QED
    BY <2>1, <2>2, TypedParts
<1>3. rs \in Seq(Row) /\ Grown(rows, claims, rs, claims)
    BY <1>2, StatusRow, TypedParts DEF Status
<1>4. /\ next \in RunType /\ next.pc = "claimed" /\ next.snap = i /\ next.base = me.base
      /\ next.todo = me.todo /\ next.pairs = me.pairs /\ next.old = me.old
      /\ next.kept = me.kept /\ next.bulk = me.bulk
  <2>1. "claimed" \in Place
    BY DEF Place
  <2> HIDE DEF i
  <2> QED
    BY <1>1, <1>2, <2>1 DEF RunType
<1>5. Shaped(next, rows, claims)
  <2> HIDE DEF next
  <2>1. i = Head(next.todo) /\ next.todo # <<>>
    BY <1>2, <1>4
  <2> HIDE DEF i
  <2> QED
    BY <1>1, <1>2, <1>4, <2>1 DEF Shaped, Reading, Snap
<1> HIDE DEF next, rs
<1>6. Shaped(next, rs, claims)
    BY <1>3, <1>5, ShapedStays
<1> QED
    BY <1>1, <1>3, <1>4, <1>6, MovedTyped

\* What the end of an item leaves: claims keep their chunk, what is replaced is retired,
\* and after a replay only COMPLETE rows keep an offset.
LEMMA RetireLeaves ==
    ASSUME IndType, NEW r \in Runner, Retire(r)
    PROVE  /\ rows' \in Seq(Row) /\ Grown(rows, claims, rows', claims') /\ DOMAIN rows' = Snap
           /\ claims' \in Seq(Claim) /\ DOMAIN claims' = DOMAIN claims
           /\ \A c \in DOMAIN claims :
                 /\ claims'[c].chunk = claims[c].chunk /\ claims'[c].cites = claims[c].cites
                 /\ claims'[c].active = (claims[c].active /\ c \notin run[r].old \ run[r].kept)
           /\ ~run[r].replays => rows' = rows
           /\ run[r].replays => \A i \in Snap :
                 IF rows[i].status = "COMPLETE" THEN rows'[i] = rows[i]
                 ELSE rows'[i].through = 0 /\ rows'[i].status = rows[i].status
<1> DEFINE me == run[r]
           gone == me.old \ me.kept
<1>1. /\ claims' = [c \in DOMAIN claims |-> [claims[c] EXCEPT !.active = @ /\ c \notin gone]]
      /\ rows' = IF ~me.replays THEN rows
                 ELSE [i \in Snap |-> IF rows[i].status = "COMPLETE" THEN rows[i]
                                      ELSE [rows[i] EXCEPT !.through = 0, !.whole = FALSE]]
    BY Zenon DEF Retire
<1>2. rows \in Seq(Row) /\ claims \in Seq(Claim) /\ \A i \in Snap : rows[i] \in Row
    BY TypedParts
<1> HIDE DEF gone
<1>3. \A c \in DOMAIN claims : claims[c] \in Claim
    BY <1>2
<1>4. \A c \in DOMAIN claims : (claims[c].active /\ c \notin gone) \in BOOLEAN
    OBVIOUS
<1>5. ASSUME NEW c \in DOMAIN claims
      PROVE  /\ claims'[c] \in Claim /\ claims'[c].chunk = claims[c].chunk
             /\ claims'[c].cites = claims[c].cites
             /\ claims'[c].active = (claims[c].active /\ c \notin gone)
  <2> DEFINE a == claims[c].active /\ c \notin gone
  <2>1. claims'[c] = [claims[c] EXCEPT !.active = a]
    BY <1>1, Zenon
  <2>2. a \in BOOLEAN
    OBVIOUS
  <2> HIDE DEF a
  <2>3. claims'[c] \in Claim /\ claims'[c].chunk = claims[c].chunk
        /\ claims'[c].cites = claims[c].cites /\ claims'[c].active = a
    BY <1>3, <2>1, <2>2 DEF Claim
  <2> QED
    BY <2>3 DEF a
<1>6. claims' \in Seq(Claim) /\ DOMAIN claims' = DOMAIN claims
  <2>1. DOMAIN claims = 1..Len(claims) /\ Len(claims) \in Nat
    BY <1>2
  <2>2. DOMAIN claims' = DOMAIN claims /\ claims' = [c \in DOMAIN claims |-> claims'[c]]
    BY <1>1
  <2>3. claims' = [c \in 1..Len(claims) |-> claims'[c]]
    BY <2>1, <2>2
  <2> QED
    BY <1>5, <2>1, <2>2, <2>3
<1>7. \A i \in Snap : LET row == [rows[i] EXCEPT !.through = 0, !.whole = FALSE] IN
         /\ row \in Row /\ row.content = rows[i].content /\ row.through = 0
         /\ row.status = rows[i].status
  <2> TAKE i \in Snap
  <2> DEFINE row == [rows[i] EXCEPT !.through = 0, !.whole = FALSE]
  <2>1. Len(rows[i].content) \in Nat /\ rows[i] \in Row
    BY TypedParts
  <2>2. /\ row.content = rows[i].content /\ row.through = 0 /\ row.status = rows[i].status
        /\ row.whole = FALSE /\ row.content # <<>>
        /\ row \in [content : Seq(Unit), status : Status, through : Nat, whole : BOOLEAN]
    BY <2>1 DEF Row
  <2> HIDE DEF row
  <2>3. row.through <= Len(row.content)
    BY <2>1, <2>2
  <2>4. row \in Row
    BY <2>2, <2>3, Zenon DEF Row
  <2> QED
    BY <2>2, <2>4 DEF row
<1>8. CASE ~me.replays
  <2>1. Grown(rows, claims, rows, claims')
    BY <1>6 DEF Grown
  <2> QED
    BY <1>1, <1>2, <1>5, <1>6, <1>8, <2>1 DEF gone, Snap
<1>9. CASE me.replays
  <2>1. /\ DOMAIN rows' = Snap /\ rows' = [i \in Snap |-> rows'[i]]
        /\ \A i \in Snap : rows'[i] = IF rows[i].status = "COMPLETE" THEN rows[i]
                                      ELSE [rows[i] EXCEPT !.through = 0, !.whole = FALSE]
    BY <1>1, <1>9
  <2>2. \A i \in Snap : rows'[i] \in Row /\ rows'[i].content = rows[i].content
    BY <1>2, <1>7, <2>1
  <2>3. Snap = 1..Len(rows) /\ Len(rows) \in Nat
    BY TypedParts
  <2>4. rows' \in Seq(Row)
    <3> DEFINE rs == rows'
    <3>1. DOMAIN rs = Snap /\ rs = [i \in Snap |-> rs[i]]
      BY <2>1
    <3>2. \A i \in Snap : rs[i] \in Row /\ rs[i].content = rows[i].content
      BY <2>2
    <3> HIDE DEF rs
    <3>3. rs \in Seq(Row)
      BY <1>2, <3>1, <3>2, RowsStay
    <3> QED
      BY <3>3 DEF rs
  <2>5. Grown(rows, claims, rows', claims')
    BY <1>6, <2>1, <2>2 DEF Grown, Snap
  <2> QED
    BY <1>5, <1>6, <1>7, <1>9, <2>1, <2>4, <2>5 DEF gone
<1> QED
    BY <1>8, <1>9

\* The end of an item.
LEMMA RetireTyped ==
    ASSUME IndType, NEW r \in Runner, Retire(r)
    PROVE  IndType'
<1> DEFINE me == run[r]
           next == [me EXCEPT !.pc = "item", !.todo = <<>>]
<1>1. /\ me \in RunType /\ Shaped(me, rows, claims) /\ StoreOK
      /\ lost' = lost /\ run' = [run EXCEPT ![r] = next]
    BY TypedParts DEF Retire
<1> HIDE DEF me
<1>2. /\ next \in RunType /\ next.pc = "item" /\ next.snap = me.snap /\ next.base = me.base
      /\ next.todo = <<>> /\ next.pairs = me.pairs /\ next.old = me.old
      /\ next.kept = me.kept /\ next.bulk = me.bulk
  <2>1. "item" \in Place
    BY DEF Place
  <2> QED
    BY <1>1, <2>1, RunFields DEF RunType
<1> HIDE DEF next
<1>3. Shaped(next, rows, claims)
    BY <1>1, <1>2 DEF Shaped, Reading
<1>4. /\ rows' \in Seq(Row) /\ Grown(rows, claims, rows', claims') /\ claims' \in Seq(Claim)
      /\ DOMAIN claims' = DOMAIN claims
      /\ \A c \in DOMAIN claims : claims'[c].cites = claims[c].cites
    BY RetireLeaves
<1>5. \A c \in DOMAIN claims' : claims'[c].cites \in (SUBSET Snap) \ {{}}
    BY <1>1, <1>4 DEF StoreOK
<1> QED
    BY <1>1, <1>2, <1>3, <1>4, <1>5, ChangedTyped

\* The steps, one by one.
LEMMA StepCases ==
    ASSUME Next
    PROVE  \/ Capture \/ LoseBlob \/ ResetStale
           \/ \E r \in Runner :
                 \/ \E i \in Snap : BulkClaim(r, i)
                 \/ Plan(r) \/ Read(r) \/ BlobMissing(r) \/ Apply(r) \/ Interrupted(r)
                 \/ ReindexItem(r) \/ ReindexClaim(r) \/ Retire(r)
                 \/ \E kind \in Scopes : ReindexStart(r, kind)
BY Zenon DEF Next, Take, Work

\* Every step keeps the types.
LEMMA StepTyped == IndType /\ [Next]_vars => IndType'
<1> SUFFICES ASSUME IndType, [Next]_vars PROVE IndType'
    OBVIOUS
<1>1. CASE Next
  <2>1. \/ Capture \/ LoseBlob \/ ResetStale
        \/ \E r \in Runner :
              \/ \E i \in Snap : BulkClaim(r, i)
              \/ Plan(r) \/ Read(r) \/ BlobMissing(r) \/ Apply(r) \/ Interrupted(r)
              \/ ReindexItem(r) \/ ReindexClaim(r) \/ Retire(r)
              \/ \E kind \in Scopes : ReindexStart(r, kind)
    BY <1>1, StepCases
  <2> QED
    BY <2>1, CaptureTyped, LoseBlobTyped, ResetTyped, BulkClaimTyped, PlanTyped, ReadTyped,
       BlobMissingTyped, ApplyTyped, InterruptedTyped, ReindexItemTyped, ReindexClaimTyped,
       RetireTyped, ReindexStartTyped, Zenon
<1>2. CASE UNCHANGED vars
    BY <1>2 DEF vars, IndType, StoreOK, RunsOK, Snap
<1> QED
    BY <1>1, <1>2

\* However sources grow or rewrite, reads fail and runs are killed, every row, claim and
\* runner is well formed: an offset stays inside its text, a plan reads from inside its
\* snapshot, and no claim is without a source.
THEOREM Typed == Spec => []IndType
<1>1. Init => IndType
    BY InitTyped
<1>2. IndType /\ [Next]_vars => IndType'
    BY StepTyped
<1> QED
    BY <1>1, <1>2, PTL DEF Spec

\* The rows, the claims and the runners have their types (TypeOK).
THEOREM TypeCorrect == Spec => []TypeOK
BY Typed, TypeOKFromInd, PTL

--------------------------------------------------------------------------------
(* An offset vouches for its text *)

\* The reindexes of the theorem below: the entry is named, or one of its rows that is
\* done, and nothing else reads it meanwhile.
Named == Scopes \subseteq {"named"} /\ ~Overlap

\* The units of the ACTIVE claims that are not in old.
Ground(old, cs) ==
    UNION {UnitsIn(cs[c].chunk) : c \in {c \in DOMAIN cs : cs[c].active} \ old}

\* The units a yield is about to write.
Coming(got) == UNION {UnitsIn(got.write[k]) : k \in DOMAIN got.write}

\* The first n units of a row are in S.
Vouched(row, n, S) == \A p \in 1..n : row.content[p] \in S

AllVouched(rs, cs) == \A i \in DOMAIN rs : Vouched(rs[i], rs[i].through, Ground({}, cs))

\* What a runner stands on: the text before its plan is in claims that outlast it, so is
\* the text before what it is about to record; a replay has still to read every COMPLETE
\* row that its new claims do not cover.
Backed(me, rs, cs) ==
    /\ me.pc \in {"planned", "read"} => Vouched(rs[me.snap], me.plan.from, Ground(me.old, cs))
    /\ me.pc = "read" =>
          /\ Vouched(rs[me.snap], me.got.through, Ground(me.old, cs) \cup Coming(me.got))
          /\ ~me.got.failed => me.got.through # 0
          /\ me.got.through # 0 => me.got.kept
          /\ me.got.carry \cap me.old = {}
    /\ me.bulk => me.old = {}
    /\ me.pairs = {} /\ (~me.bulk => me.replays)
    /\ ~me.bulk /\ me.pc # "item" =>
          /\ \A i \in DOMAIN rs : rs[i].status = "COMPLETE" =>
                \/ \E k \in DOMAIN me.todo : me.todo[k] = i
                \/ Vouched(rs[i], rs[i].through, Ground(me.old, cs))
          /\ me.base # 0 => Vouched(rs[me.base], rs[me.base].through, Ground(me.old, cs))
          /\ me.pc = "retire" => me.todo = <<>>
    /\ me.pc = "idle" => me = Idle
    /\ me.kept \cap me.old = {}

\* A reindex is alone.
Lonely == \A q, p \in Runner : ~run[q].bulk /\ p # q => run[p] = Idle

BeliefInd ==
    /\ IndType /\ Lonely /\ AllVouched(rows, claims)
    /\ \A r \in Runner : Backed(run[r], rows, claims)

\* AllVouched is RecordedIsBelieved.
LEMMA VouchedIsRecorded == AllVouched(rows, claims) <=> RecordedIsBelieved
<1>1. Ground({}, claims) = Believed
  <2>1. {c \in DOMAIN claims : claims[c].active} \ {} = Live
    BY DEF Live
  <2>2. \A c : UnitsOf(c) = UnitsIn(claims[c].chunk)
    BY DEF UnitsOf, UnitsIn
  <2> QED
    BY <2>1, <2>2 DEF Ground, Believed
<1> QED
    BY <1>1 DEF AllVouched, RecordedIsBelieved, Vouched, Snap

\* Claims that keep their chunk and status keep their units.
LEMMA GroundGrows ==
    ASSUME NEW cs, NEW cs2, DOMAIN cs \subseteq DOMAIN cs2,
           \A c \in DOMAIN cs : cs2[c].chunk = cs[c].chunk /\ cs2[c].active = cs[c].active
    PROVE  \A old : Ground(old, cs) \subseteq Ground(old, cs2)
<1> SUFFICES ASSUME NEW old, NEW u \in Ground(old, cs) PROVE u \in Ground(old, cs2)
    OBVIOUS
<1>1. PICK c \in {c \in DOMAIN cs : cs[c].active} \ old : u \in UnitsIn(cs[c].chunk)
    BY DEF Ground
<1>2. c \in {d \in DOMAIN cs2 : cs2[d].active} \ old /\ u \in UnitsIn(cs2[c].chunk)
    BY <1>1
<1> QED
    BY <1>2 DEF Ground

\* What is left without some claims is there with them.
LEMMA GroundWhole == \A old, cs : Ground(old, cs) \subseteq Ground({}, cs)
BY DEF Ground

\* No new row is COMPLETE, and no offset moves.
Steady(rs, rs2) ==
    /\ \A i \in DOMAIN rs2 : rs2[i].status = "COMPLETE" => i \in DOMAIN rs /\ rs[i].status = "COMPLETE"
    /\ \A i \in DOMAIN rs : rs2[i].through = rs[i].through

\* A runner that stays where it is keeps what it stands on: a bulk run whatever rows are
\* recorded meanwhile, a reindex while none is.
LEMMA BackedStays ==
    ASSUME NEW rs, NEW cs, NEW rs2, NEW cs2, Grown(rs, cs, rs2, cs2),
           NEW me, Shaped(me, rs, cs), Backed(me, rs, cs),
           Ground(me.old, cs) \subseteq Ground(me.old, cs2),
           me.bulk \/ Steady(rs, rs2)
    PROVE  Backed(me, rs2, cs2)
<1>1. \A i \in DOMAIN rs : rs2[i].content = rs[i].content
    BY DEF Grown
<1>2. \A i \in DOMAIN rs : \A n, S, T : S \subseteq T /\ Vouched(rs[i], n, S) => Vouched(rs2[i], n, T)
    BY <1>1, Zenon DEF Vouched
<1>3. me.pc \in {"planned", "read"} => me.snap \in DOMAIN rs
    BY DEF Shaped, Reading
<1>4. me.base = 0 \/ me.base \in DOMAIN rs
    BY DEF Shaped
<1> DEFINE G == Ground(me.old, cs)  G2 == Ground(me.old, cs2)
<1>5. G \subseteq G2 /\ G \cup Coming(me.got) \subseteq G2 \cup Coming(me.got)
    OBVIOUS
<1> HIDE DEF G, G2
<1>6. me.pc \in {"planned", "read"} => Vouched(rs2[me.snap], me.plan.from, G2)
    BY <1>2, <1>3, <1>5 DEF Backed, G
<1>7. me.pc = "read" => Vouched(rs2[me.snap], me.got.through, G2 \cup Coming(me.got))
    BY <1>2, <1>3, <1>5 DEF Backed, G
<1>8. ASSUME ~me.bulk, me.pc # "item"
      PROVE  /\ \A i \in DOMAIN rs2 : rs2[i].status = "COMPLETE" =>
                   \/ \E k \in DOMAIN me.todo : me.todo[k] = i
                   \/ Vouched(rs2[i], rs2[i].through, G2)
             /\ me.base # 0 => Vouched(rs2[me.base], rs2[me.base].through, G2)
  <2>1. Steady(rs, rs2)
    BY <1>8
  <2>2. ASSUME NEW i \in DOMAIN rs2, rs2[i].status = "COMPLETE",
               ~ \E k \in DOMAIN me.todo : me.todo[k] = i
        PROVE  Vouched(rs2[i], rs2[i].through, G2)
    <3>1. i \in DOMAIN rs /\ rs[i].status = "COMPLETE" /\ rs2[i].through = rs[i].through
      BY <2>1, <2>2 DEF Steady
    <3>2. Vouched(rs[i], rs[i].through, G)
      BY <1>8, <2>2, <3>1 DEF Backed, G
    <3> QED
      BY <1>2, <1>5, <3>1, <3>2
  <2>3. ASSUME me.base # 0 PROVE Vouched(rs2[me.base], rs2[me.base].through, G2)
    <3>1. me.base \in DOMAIN rs /\ rs2[me.base].through = rs[me.base].through
      BY <1>4, <2>1, <2>3 DEF Steady
    <3>2. Vouched(rs[me.base], rs[me.base].through, G)
      BY <1>8, <2>3 DEF Backed, G
    <3> QED
      BY <1>2, <1>5, <3>1, <3>2
  <2> QED
    BY <2>2, <2>3
<1> QED
    BY <1>6, <1>7, <1>8, Zenon DEF Backed, G2

\* An idle runner stands on nothing.
LEMMA IdleBacked ==
    ASSUME NEW rs, NEW cs
    PROVE  Backed(Idle, rs, cs)
<1>1. /\ Idle.pc = "idle" /\ Idle.bulk = TRUE /\ Idle.old = {} /\ Idle.kept = {}
      /\ Idle.pairs = {}
    BY DEF Idle
<1> QED
    BY <1>1 DEF Backed

\* A step of one runner: the others are bulk runs that lose nothing, or they are idle.
LEMMA MovedBelief ==
    ASSUME BeliefInd, IndType', Grown(rows, claims, rows', claims'), AllVouched(rows', claims'),
           NEW r \in Runner, NEW me, run' = [run EXCEPT ![r] = me], Backed(me, rows', claims'),
           \A q \in Runner \ {r} : run[q].bulk,
           me.bulk \/ \A q \in Runner \ {r} : run[q] = Idle,
           Ground({}, claims) \subseteq Ground({}, claims') \/ \A q \in Runner \ {r} : run[q] = Idle
    PROVE  BeliefInd'
<1>1. run'[r] = me /\ \A q \in Runner \ {r} : run'[q] = run[q]
    BY DEF BeliefInd, IndType, RunsOK
<1>2. Lonely'
  <2> SUFFICES ASSUME NEW q \in Runner, NEW p \in Runner, ~run'[q].bulk, p # q
               PROVE  run'[p] = Idle
    BY Zenon DEF Lonely
  <2>1. q = r
    BY <1>1
  <2> QED
    BY <1>1, <2>1
<1>3. ASSUME NEW q \in Runner PROVE Backed(run'[q], rows', claims')
  <2>1. CASE q = r
    BY <1>1, <2>1
  <2>2. CASE q # r
    <3>1. run'[q] = run[q] /\ run[q].bulk
      BY <1>1, <2>2
    <3>2. CASE run[q] = Idle
      BY <3>1, <3>2, IdleBacked
    <3>3. CASE run[q] # Idle
      <4>1. Shaped(run[q], rows, claims) /\ Backed(run[q], rows, claims)
        BY DEF BeliefInd, IndType, RunsOK
      <4>2. run[q].old = {}
        BY <3>1, <4>1 DEF Backed
      <4>3. Ground(run[q].old, claims) \subseteq Ground(run[q].old, claims')
        BY <2>2, <3>3, <4>2
      <4> QED
        BY <3>1, <4>1, <4>3, BackedStays
    <3> QED
      BY <3>2, <3>3
  <2> QED
    BY <2>1, <2>2
<1> QED
    BY <1>2, <1>3 DEF BeliefInd

\* What the invariant says of one runner, and of the others when it is a reindex.
LEMMA BeliefParts ==
    ASSUME BeliefInd
    PROVE  /\ IndType /\ AllVouched(rows, claims)
           /\ \A r \in Runner : Backed(run[r], rows, claims)
           /\ \A r \in Runner : run[r].bulk \/ \A q \in Runner \ {r} : run[q] = Idle
           /\ \A r \in Runner : run[r].pc # "idle" => \A q \in Runner \ {r} : run[q].bulk
<1>1. Idle.bulk = TRUE /\ Idle.pc = "idle"
    BY DEF Idle
<1>2. \A r \in Runner : run[r].bulk \/ \A q \in Runner \ {r} : run[q] = Idle
    BY Zenon DEF BeliefInd, Lonely
<1>3. ASSUME NEW r \in Runner, run[r].pc # "idle", NEW q \in Runner \ {r}, ~run[q].bulk PROVE FALSE
  <2>1. run[r] = Idle
    BY <1>3, Zenon DEF BeliefInd, Lonely
  <2> QED
    BY <1>1, <1>3, <2>1
<1> QED
    BY <1>2, <1>3 DEF BeliefInd

\* Rows whose offsets do not move, and claims that stay, keep the offsets vouched for.
LEMMA VouchedStays ==
    ASSUME NEW rs, NEW cs, NEW rs2, NEW cs2, AllVouched(rs, cs), Grown(rs, cs, rs2, cs2),
           Ground({}, cs) \subseteq Ground({}, cs2),
           \A i \in DOMAIN rs2 : \/ rs2[i].through = 0
                                 \/ i \in DOMAIN rs /\ rs2[i].through = rs[i].through
    PROVE  AllVouched(rs2, cs2)
<1> SUFFICES ASSUME NEW i \in DOMAIN rs2, NEW p \in 1..rs2[i].through
             PROVE  rs2[i].content[p] \in Ground({}, cs2)
    BY DEF AllVouched, Vouched
<1>1. rs2[i].through # 0
    OBVIOUS
<1>2. i \in DOMAIN rs /\ rs2[i].through = rs[i].through
    BY <1>1
<1>3. rs[i].content[p] \in Ground({}, cs)
    BY <1>2 DEF AllVouched, Vouched
<1> QED
    BY <1>2, <1>3 DEF Grown

\* A step that moves no runner and no claim, and records nothing.
LEMMA WorldBelief ==
    ASSUME BeliefInd, IndType', claims' = claims, run' = run, Grown(rows, claims, rows', claims'),
           Steady(rows, rows'),
           \A i \in DOMAIN rows' : i \notin DOMAIN rows => rows'[i].through = 0
    PROVE  BeliefInd'
<1>1. AllVouched(rows', claims')
    BY VouchedStays DEF BeliefInd, Steady
<1>2. ASSUME NEW r \in Runner PROVE Backed(run'[r], rows', claims')
  <2>1. Shaped(run[r], rows, claims) /\ Backed(run[r], rows, claims)
    BY DEF BeliefInd, IndType, RunsOK
  <2>2. Ground(run[r].old, claims) \subseteq Ground(run[r].old, claims')
    OBVIOUS
  <2>3. Backed(run[r], rows', claims')
    BY <2>1, <2>2, BackedStays
  <2> QED
    BY <2>3
<1>3. Lonely'
    BY DEF Lonely, BeliefInd
<1> QED
    BY <1>1, <1>2, <1>3 DEF BeliefInd

\* A captured row has recorded nothing.
LEMMA CaptureBelief == BeliefInd /\ Capture => BeliefInd'
<1> SUFFICES ASSUME BeliefInd, Capture PROVE BeliefInd'
    OBVIOUS
<1> DEFINE New(content) == [content |-> content, status |-> "PENDING",
                            through |-> 0, whole |-> FALSE]
<1>1. IndType /\ IndType' /\ rows \in Seq(Row)
    BY CaptureTyped DEF BeliefInd, IndType, StoreOK
<1>2. claims' = claims /\ run' = run /\ \E content : rows' = Append(rows, New(content))
    BY DEF Capture
<1>3. PICK content : rows' = Append(rows, New(content))
    BY <1>2
<1>4. New(content).status # "COMPLETE" /\ New(content).through = 0
    OBVIOUS
<1> DEFINE row == New(content)
<1>5. rows' = Append(rows, row) /\ row.status # "COMPLETE" /\ row.through = 0
    BY <1>3, <1>4
<1> HIDE DEF row
<1>6. /\ DOMAIN rows = 1..Len(rows) /\ Len(rows) \in Nat /\ DOMAIN rows' = 1..(Len(rows) + 1)
      /\ rows'[Len(rows) + 1] = row /\ \A i \in DOMAIN rows : rows'[i] = rows[i]
    BY <1>1, <1>5
<1>7. Grown(rows, claims, rows', claims')
    BY <1>2, <1>6 DEF Grown
<1>8. \A i \in DOMAIN rows' : i \in DOMAIN rows \/ i = Len(rows) + 1
    BY <1>6
<1>9. Steady(rows, rows') /\ \A i \in DOMAIN rows' : i \notin DOMAIN rows => rows'[i].through = 0
  <2>1. ASSUME NEW i \in DOMAIN rows', i \notin DOMAIN rows
        PROVE  rows'[i].status # "COMPLETE" /\ rows'[i].through = 0
    BY <1>5, <1>6, <1>8, <2>1
  <2>2. \A i \in DOMAIN rows : rows'[i] = rows[i]
    BY <1>6
  <2> QED
    BY <2>1, <2>2, Zenon DEF Steady
<1> QED
    BY <1>1, <1>2, <1>7, <1>9, WorldBelief

\* A lost blob and a freed claim record nothing.
LEMMA LoseBlobBelief == BeliefInd /\ LoseBlob => BeliefInd'
<1> SUFFICES ASSUME BeliefInd, LoseBlob PROVE BeliefInd'
    OBVIOUS
<1>1. IndType'
    BY LoseBlobTyped DEF BeliefInd
<1>2. rows' = rows /\ claims' = claims /\ run' = run
    BY DEF LoseBlob
<1>3. Grown(rows, claims, rows', claims') /\ Steady(rows, rows')
      /\ \A i \in DOMAIN rows' : i \notin DOMAIN rows => rows'[i].through = 0
    BY <1>2 DEF Grown, Steady
<1> QED
    BY <1>1, <1>2, <1>3, WorldBelief

\* A row that is freed keeps its offset.
LEMMA ResetBelief == BeliefInd /\ ResetStale => BeliefInd'
<1> SUFFICES ASSUME BeliefInd, ResetStale PROVE BeliefInd'
    OBVIOUS
<1> DEFINE stale == {i \in Snap : /\ rows[i].status = "IN_PROGRESS"
                                  /\ \A r \in Busy : run[r].snap # i}
<1>1. IndType' /\ \A i \in Snap : rows[i] \in Row
    BY ResetTyped, TypedParts DEF BeliefInd
<1>2. /\ claims' = claims /\ run' = run
      /\ rows' = [i \in Snap |->
            IF i \in stale THEN [rows[i] EXCEPT !.status = "PENDING"] ELSE rows[i]]
    BY Zenon DEF ResetStale
<1> HIDE DEF stale
<1>3. \A i \in Snap : /\ [rows[i] EXCEPT !.status = "PENDING"].status = "PENDING"
                      /\ [rows[i] EXCEPT !.status = "PENDING"].through = rows[i].through
                      /\ [rows[i] EXCEPT !.status = "PENDING"].content = rows[i].content
    BY <1>1 DEF Row
<1>4. DOMAIN rows' = Snap /\ \A i \in Snap :
         /\ rows'[i].through = rows[i].through /\ rows'[i].content = rows[i].content
         /\ rows'[i].status = "COMPLETE" => rows[i].status = "COMPLETE"
    BY <1>2, <1>3
<1>5. Grown(rows, claims, rows', claims') /\ Steady(rows, rows')
      /\ \A i \in DOMAIN rows' : i \notin DOMAIN rows => rows'[i].through = 0
    BY <1>2, <1>4 DEF Grown, Steady, Snap
<1> QED
    BY <1>1, <1>2, <1>5, WorldBelief

\* A status that changes beside one runner's move: nothing is recorded.
LEMMA StatusBelief ==
    ASSUME BeliefInd, IndType', claims' = claims, NEW i \in Snap, NEW status \in Status,
           rows' = rows \/ rows' = StatusTo(i, status),
           NEW r \in Runner, NEW me, run' = [run EXCEPT ![r] = me],
           Backed(me, rows', claims'),
           \A q \in Runner \ {r} : run[q].bulk,
           me.bulk \/ \A q \in Runner \ {r} : run[q] = Idle
    PROVE  BeliefInd'
<1>1. rows \in Seq(Row) /\ \A j \in Snap : rows[j] \in Row
    BY TypedParts DEF BeliefInd
<1>2. Grown(rows, claims, rows', claims') /\ DOMAIN rows' = Snap
      /\ \A j \in Snap : rows'[j].through = rows[j].through
  <2>1. CASE rows' = rows
    BY <2>1 DEF Grown, Snap
  <2>2. CASE rows' = StatusTo(i, status)
    <3> DEFINE rs == StatusTo(i, status)
    <3>0. /\ Grown(rows, claims, rs, claims) /\ DOMAIN rs = Snap
          /\ \A j \in Snap : rs[j] = IF j = i THEN [rows[j] EXCEPT !.status = status] ELSE rows[j]
      BY <1>1, StatusRow
    <3> HIDE DEF rs
    <3>1. /\ Grown(rows, claims, rows', claims') /\ DOMAIN rows' = Snap
          /\ \A j \in Snap : rows'[j] = IF j = i THEN [rows[j] EXCEPT !.status = status] ELSE rows[j]
      BY <2>2, <3>0 DEF rs
    <3>2. \A j \in Snap : [rows[j] EXCEPT !.status = status].through = rows[j].through
      BY <1>1 DEF Row
    <3> QED
      BY <3>1, <3>2
  <2> QED
    BY <2>1, <2>2
<1>3. AllVouched(rows', claims')
    BY <1>2, VouchedStays DEF BeliefInd, Snap
<1> QED
    BY <1>2, <1>3, MovedBelief

\* A bulk run takes a snapshot up while no reindex runs.
LEMMA BulkClaimBelief ==
    ASSUME BeliefInd, Named, NEW r \in Runner, NEW i \in Snap, BulkClaim(r, i)
    PROVE  BeliefInd'
<1> DEFINE me == [Idle EXCEPT !.pc = "claimed", !.snap = i, !.early = EarlierComplete(i)]
<1>1. /\ rows' = StatusTo(i, "IN_PROGRESS") /\ claims' = claims
      /\ run' = [run EXCEPT ![r] = me] /\ Reindexing = {}
    BY Zenon DEF BulkClaim, Named
<1>2. IndType'
    BY BulkClaimTyped DEF BeliefInd
<1>3. \A q \in Runner : run[q].bulk
  <2> SUFFICES ASSUME NEW q \in Runner, ~run[q].bulk PROVE FALSE
    OBVIOUS
  <2>1. run[q].pc = "idle"
    BY <1>1 DEF Reindexing, Busy
  <2>2. run[q] = Idle
    BY <2>1 DEF BeliefInd, Backed
  <2> QED
    BY <2>2 DEF Idle
<1>4. /\ me.pc = "claimed" /\ me.bulk = TRUE /\ me.old = {} /\ me.kept = {}
      /\ me.pairs = {}
    BY DEF Idle
<1> HIDE DEF me
<1>5. Backed(me, rows', claims')
    BY <1>4 DEF Backed
<1> QED
    BY <1>1, <1>2, <1>3, <1>4, <1>5, StatusBelief DEF Status

\* A plan starts where the text before it is in claims that stay.
LEMMA PlanBelief ==
    ASSUME BeliefInd, NEW r \in Runner, Plan(r)
    PROVE  BeliefInd'
<1> DEFINE me == run[r]
           plan == PlanOf(me)
           chunks == Chunks(rows[me.snap].content, plan)
           next == [me EXCEPT !.pc = "planned", !.plan = plan, !.chunks = chunks]
           G == Ground(me.old, claims)
<1>1. /\ IndType /\ IndType' /\ me \in RunType /\ Shaped(me, rows, claims) /\ StoreOK
      /\ me.snap \in Snap /\ me.pc = "claimed" /\ Backed(me, rows, claims)
      /\ AllVouched(rows, claims)
      /\ \A q \in Runner \ {r} : run[q].bulk
      /\ me.bulk \/ \A q \in Runner \ {r} : run[q] = Idle
  <2>1. me.pc = "claimed"
    BY DEF Plan
  <2>2. IndType /\ me \in RunType /\ Shaped(me, rows, claims) /\ StoreOK
    BY BeliefParts, TypedParts
  <2>3. me.snap \in Snap
    BY <2>1, <2>2 DEF Shaped, Reading, Snap
  <2> QED
    BY <2>1, <2>2, <2>3, BeliefParts, PlanTyped
<1>2. rows' = rows /\ claims' = claims /\ run' = [run EXCEPT ![r] = next]
  <2>1. rows' = rows /\ claims' = claims
        /\ run' = [run EXCEPT ![r].pc = "planned", ![r].plan = plan, ![r].chunks = chunks]
    BY Zenon DEF Plan
  <2>2. run \in [Runner -> RunType]
    BY <1>1 DEF IndType, RunsOK
  <2> QED
    BY <2>1, <2>2
<1> HIDE DEF me
<1>3. /\ plan \in PlanType /\ Fits(plan, rows[me.snap].content)
      /\ ~me.bulk /\ me.replays /\ plan.delta => me.base # 0 /\ Leans(plan, me.snap, me.base)
      /\ plan.delta => \E j \in Snap : Leans(plan, me.snap, j)
    BY <1>1, PlanOfFits
<1> HIDE DEF plan, chunks, G
<1>4. ASSUME NEW j \in Snap, Leans(plan, me.snap, j), Vouched(rows[j], rows[j].through, G)
      PROVE  Vouched(rows[me.snap], plan.from, G)
  <2> SUFFICES ASSUME NEW p \in 1..plan.from PROVE rows[me.snap].content[p] \in G
    BY DEF Vouched
  <2>1. plan.from <= rows[j].through /\ plan.from \in Nat /\ rows[j].through \in Nat
    BY <1>1, <1>3, <1>4, TypedParts DEF Leans, PlanType
  <2>2. p \in 1..rows[j].through
    BY <2>1
  <2>3. rows[j].content[p] \in G
    BY <1>4, <2>2 DEF Vouched
  <2> QED
    BY <1>4, <2>3 DEF Leans, SameStart
<1>5. Vouched(rows[me.snap], plan.from, G)
  <2>1. CASE ~plan.delta
    <3>1. plan.from = 0
      BY <1>3, <2>1 DEF Fits
    <3> QED
      BY <3>1 DEF Vouched
  <2>2. CASE plan.delta /\ me.bulk
    <3>1. PICK j \in Snap : Leans(plan, me.snap, j)
      BY <1>3, <2>2
    <3>2. me.old = {}
      BY <1>1, <2>2 DEF Backed
    <3>3. Vouched(rows[j], rows[j].through, G)
      BY <1>1, <3>2 DEF AllVouched, G, Snap
    <3> QED
      BY <1>4, <3>1, <3>3
  <2>3. CASE plan.delta /\ ~me.bulk
    <3>1. me.base # 0 => Vouched(rows[me.base], rows[me.base].through, G)
      BY <1>1, <2>3 DEF Backed, G
    <3>2. me.replays
      BY <1>1, <2>3 DEF Backed
    <3>3. me.base # 0 /\ Leans(plan, me.snap, me.base)
      BY <1>3, <2>3, <3>2
    <3>4. me.base \in Snap
      BY <1>1, <3>3 DEF Shaped, Snap
    <3> QED
      BY <1>4, <3>1, <3>3, <3>4
  <2> QED
    BY <2>1, <2>2, <2>3
<1>6. /\ next.pc = "planned" /\ next.plan = plan /\ next.snap = me.snap /\ next.base = me.base
      /\ next.todo = me.todo /\ next.pairs = me.pairs /\ next.old = me.old
      /\ next.kept = me.kept /\ next.bulk = me.bulk /\ next.replays = me.replays
    BY <1>1 DEF RunType
<1> HIDE DEF next
<1>7. Backed(next, rows, claims)
    BY <1>1, <1>5, <1>6 DEF Backed, G
<1>8. \A q \in Runner \ {r} : run[q].bulk
    BY <1>1
<1>9. me.bulk \/ \A q \in Runner \ {r} : run[q] = Idle
    BY <1>1
<1> QED
    BY <1>1, <1>2, <1>6, <1>7, <1>8, <1>9, StatusBelief DEF Status

\* A read yields what stands: every unit before its offset is carried or about to be
\* written.
LEMMA ReadBelief ==
    ASSUME BeliefInd, NEW r \in Runner, Read(r)
    PROVE  BeliefInd'
<1> DEFINE me == run[r]
           G == Ground(me.old, claims)
<1>1. /\ IndType /\ IndType' /\ me \in RunType /\ Shaped(me, rows, claims) /\ StoreOK
      /\ me.snap \in Snap /\ me.pc = "planned" /\ Backed(me, rows, claims)
      /\ \A q \in Runner \ {r} : run[q].bulk
      /\ me.bulk \/ \A q \in Runner \ {r} : run[q] = Idle
  <2>1. me.pc = "planned"
    BY DEF Read
  <2>2. IndType /\ me \in RunType /\ Shaped(me, rows, claims) /\ StoreOK
    BY BeliefParts, TypedParts
  <2>3. me.snap \in Snap
    BY <2>1, <2>2 DEF Shaped, Reading, Snap
  <2> QED
    BY <2>1, <2>2, <2>3, BeliefParts, ReadTyped
<1>2. PICK failed \in SUBSET Asked(me) :
         run' = [run EXCEPT ![r].pc = "read", ![r].got = Result(me, Asked(me), failed)]
    BY DEF Read
<1> DEFINE got == Result(me, Asked(me), failed)
           next == [me EXCEPT !.pc = "read", !.got = got]
<1>3. rows' = rows /\ claims' = claims /\ run' = [run EXCEPT ![r] = next]
  <2>1. rows' = rows /\ claims' = claims
    BY DEF Read
  <2>2. run \in [Runner -> RunType]
    BY <1>1 DEF IndType, RunsOK
  <2> QED
    BY <1>2, <2>1, <2>2
<1> HIDE DEF me
<1>4. /\ got \in Yield /\ got.through <= Len(rows[me.snap].content)
      /\ got.carry \subseteq Live \ me.old
      /\ \A k \in DOMAIN got.write : got.write[k] = me.chunks[k]
      /\ ~got.failed => got.through # 0
      /\ got.through # 0 => got.kept
      /\ got.through # 0 =>
            \E K \in 0..Len(me.chunks) :
               /\ got.through <= Starts(me.plan, K + 1)
               /\ \A k \in 1..K : k \in Asked(me) => k \in DOMAIN got.write
    BY <1>1, ResultFacts
<1> HIDE DEF got, G
<1>5. /\ me.plan \in PlanType /\ Fits(me.plan, rows[me.snap].content)
      /\ me.chunks = Chunks(rows[me.snap].content, me.plan)
      /\ rows[me.snap].content \in Seq(Unit) /\ Len(rows[me.snap].content) \in Nat
      /\ Vouched(rows[me.snap], me.plan.from, G)
    BY <1>1, RunFields, TypedParts DEF Shaped, Backed, G
<1>6. Vouched(rows[me.snap], got.through, G \cup Coming(got))
  <2> DEFINE content == rows[me.snap].content
  <2> SUFFICES ASSUME NEW p \in 1..got.through PROVE content[p] \in G \cup Coming(got)
    BY DEF Vouched
  <2>1. /\ got.through \in Nat /\ got.through # 0 /\ p \in 1..Len(content)
        /\ p <= got.through /\ me.plan.from \in Nat
    BY <1>4, <1>5 DEF Yield, PlanType
  <2>2. CASE p <= me.plan.from
    <3>1. p \in 1..me.plan.from
      BY <2>1, <2>2
    <3> QED
      BY <1>5, <3>1 DEF Vouched
  <2>3. CASE me.plan.from < p
    <3>1. PICK K \in 0..Len(me.chunks) :
             /\ got.through <= Starts(me.plan, K + 1)
             /\ \A k \in 1..K : k \in Asked(me) => k \in DOMAIN got.write
      BY <1>4, <2>1
    <3>2. p <= Starts(me.plan, K + 1)
      <4>1. me.chunks \in Seq(Chunk)
        BY <1>5, ChunksFacts
      <4>2. K + 1 \in Nat \ {0}
        BY <4>1
      <4>3. Starts(me.plan, K + 1) \in Nat
        BY <1>5, <4>2, StartsAt
      <4> QED
        BY <2>1, <3>1, <4>3
    <3> HIDE DEF content
    <3>3. content \in Seq(Unit) /\ me.chunks = Chunks(content, me.plan) /\ Fits(me.plan, content)
      BY <1>5 DEF content
    <3>4. PICK k \in 1..K : content[p] \in UnitsIn(me.chunks[k])
      BY <1>5, <2>1, <2>3, <3>1, <3>2, <3>3, ChunksCover
    <3>5. k \in DOMAIN me.chunks
      <4>1. me.chunks \in Seq(Chunk)
        BY <1>5, <3>3, ChunksFacts
      <4> QED
        BY <4>1
    <3>6. CASE k \in Asked(me)
      <4>1. k \in DOMAIN got.write /\ got.write[k] = me.chunks[k]
        BY <1>4, <3>1, <3>6
      <4>2. content[p] \in Coming(got)
        BY <3>4, <4>1 DEF Coming
      <4> QED
        BY <4>2
    <3>7. CASE k \notin Asked(me)
      <4>1. Carriers(me.chunks[k], me.old) # {}
        BY <3>5, <3>7 DEF Asked
      <4>2. PICK c \in Live \ me.old : claims[c].chunk = me.chunks[k]
        BY <4>1 DEF Carriers
      <4>3. content[p] \in G
        BY <3>4, <4>2 DEF G, Ground, Live
      <4> QED
        BY <4>3
    <3> QED
      BY <3>6, <3>7
  <2> QED
    BY <2>1, <2>2, <2>3
<1>7. /\ next.pc = "read" /\ next.plan = me.plan /\ next.snap = me.snap /\ next.base = me.base
      /\ next.todo = me.todo /\ next.pairs = me.pairs /\ next.old = me.old
      /\ next.kept = me.kept /\ next.bulk = me.bulk /\ next.replays = me.replays
      /\ next.got = got
    BY <1>1 DEF RunType
<1> HIDE DEF next
<1>8. Backed(next, rows, claims)
  <2>1. got.carry \cap me.old = {}
    BY <1>4
  <2> QED
    BY <1>1, <1>4, <1>5, <1>6, <1>7, <2>1 DEF Backed, G
<1>9. \A q \in Runner \ {r} : run[q].bulk
    BY <1>1
<1>10. me.bulk \/ \A q \in Runner \ {r} : run[q] = Idle
    BY <1>1
<1> QED
    BY <1>1, <1>3, <1>7, <1>8, <1>9, <1>10, StatusBelief DEF Status

\* A runner that fails goes back to nothing.
LEMMA FailedBacked ==
    ASSUME NEW rs, NEW cs, NEW rs2, NEW cs2, NEW me \in RunType, Backed(me, rs, cs), NEW carried
    PROVE  /\ Backed(Onward(me, TRUE, carried), rs2, cs2)
           /\ me.bulk => Onward(me, TRUE, carried).bulk
<1> DEFINE next == Onward(me, TRUE, carried)
<1>1. CASE me.bulk
  <2>1. next = Idle /\ Idle.bulk = TRUE
    BY <1>1 DEF Onward, Idle
  <2> QED
    BY <2>1, IdleBacked
<1>2. CASE ~me.bulk
  <2>1. next = [me EXCEPT !.pc = "item", !.snap = 0, !.plan = Whole,
                          !.chunks = <<>>, !.got = <<>>, !.todo = <<>>]
    BY <1>2 DEF Onward
  <2>2. /\ next.pc = "item" /\ next.bulk = me.bulk /\ next.replays = me.replays
        /\ next.pairs = me.pairs /\ next.old = me.old /\ next.kept = me.kept
    BY <2>1 DEF RunType
  <2> HIDE DEF next
  <2>3. Backed(next, rs2, cs2)
    BY <1>2, <2>2 DEF Backed
  <2> QED
    BY <1>2, <2>3 DEF next
<1> QED
    BY <1>1, <1>2

\* A missing blob records nothing.
LEMMA BlobMissingBelief ==
    ASSUME BeliefInd, NEW r \in Runner, BlobMissing(r)
    PROVE  BeliefInd'
<1> DEFINE me == run[r]
           next == Onward(me, TRUE, {})
<1>1. rows' = StatusTo(me.snap, "FAILED") /\ claims' = claims /\ run' = [run EXCEPT ![r] = next]
    BY Zenon DEF BlobMissing
<1>2. /\ IndType' /\ me \in RunType /\ me.snap \in Snap /\ Backed(me, rows, claims)
      /\ \A q \in Runner \ {r} : run[q].bulk
      /\ me.bulk \/ \A q \in Runner \ {r} : run[q] = Idle
  <2>1. me.pc = "claimed"
    BY DEF BlobMissing
  <2>2. IndType /\ me \in RunType /\ Shaped(me, rows, claims)
    BY BeliefParts, TypedParts
  <2>3. me.snap \in Snap
    BY <2>1, <2>2 DEF Shaped, Reading, Snap
  <2> QED
    BY <2>1, <2>2, <2>3, BeliefParts, BlobMissingTyped
<1> HIDE DEF me
<1>3. Backed(next, rows', claims') /\ (me.bulk => next.bulk)
    BY <1>2, FailedBacked
<1> HIDE DEF next
<1>4. \A q \in Runner \ {r} : run[q].bulk
    BY <1>2
<1>5. next.bulk \/ \A q \in Runner \ {r} : run[q] = Idle
    BY <1>2, <1>3
<1> QED
    BY <1>1, <1>2, <1>3, <1>4, <1>5, StatusBelief DEF Status

\* An interruption records nothing.
LEMMA InterruptedBelief ==
    ASSUME BeliefInd, NEW r \in Runner, Interrupted(r)
    PROVE  BeliefInd'
<1> DEFINE me == run[r]
<1>1. /\ claims' = claims /\ (rows' = rows \/ rows' = StatusTo(me.snap, "PENDING"))
      /\ \/ run' = [run EXCEPT ![r] = Onward(me, TRUE, {})]
         \/ run' = [run EXCEPT ![r] = Idle]
    BY DEF Interrupted
<1>2. /\ IndType' /\ me \in RunType /\ me.snap \in Snap /\ Backed(me, rows, claims)
      /\ \A q \in Runner \ {r} : run[q].bulk
      /\ me.bulk \/ \A q \in Runner \ {r} : run[q] = Idle
  <2>1. me.pc \in Reading /\ me.pc # "idle"
    BY DEF Interrupted, Reading
  <2>2. IndType /\ me \in RunType /\ Shaped(me, rows, claims)
    BY BeliefParts, TypedParts
  <2>3. me.snap \in Snap
    BY <2>1, <2>2 DEF Shaped, Snap
  <2> QED
    BY <2>1, <2>2, <2>3, BeliefParts, InterruptedTyped
<1> HIDE DEF me
<1>3. \A q \in Runner \ {r} : run[q].bulk
    BY <1>2
<1>4. CASE run' = [run EXCEPT ![r] = Onward(me, TRUE, {})]
  <2> DEFINE next == Onward(me, TRUE, {})
  <2>1. Backed(next, rows', claims') /\ (me.bulk => next.bulk)
    BY <1>2, FailedBacked
  <2>2. run' = [run EXCEPT ![r] = next]
    BY <1>4
  <2> HIDE DEF next
  <2>3. next.bulk \/ \A q \in Runner \ {r} : run[q] = Idle
    BY <1>2, <2>1
  <2> QED
    BY <1>1, <1>2, <1>3, <2>1, <2>2, <2>3, StatusBelief DEF Status
<1>5. CASE run' = [run EXCEPT ![r] = Idle]
  <2>1. Idle.bulk = TRUE
    BY DEF Idle
  <2> QED
    BY <1>1, <1>2, <1>3, <1>5, <2>1, IdleBacked, StatusBelief DEF Status
<1> QED
    BY <1>1, <1>4, <1>5

\* A runner that goes on after its write: what it has recorded is in claims that stay.
LEMMA OnwardBacked ==
    ASSUME NEW rs, NEW cs, NEW rs2, NEW cs2,
           NEW me \in RunType, Shaped(me, rs, cs), Backed(me, rs, cs), me.pc = "read",
           ~me.bulk, DOMAIN rs2 = DOMAIN rs, Grown(rs, cs, rs2, cs2),
           Ground(me.old, cs) \subseteq Ground(me.old, cs2),
           \A i \in DOMAIN rs \ {me.snap} : rs2[i] = rs[i],
           Vouched(rs2[me.snap], rs2[me.snap].through, Ground(me.old, cs2))
    PROVE  Backed(Onward(me, FALSE, me.got.carry), rs2, cs2)
<1> DEFINE at == IF Len(me.todo) = 1 THEN "retire" ELSE "step"
           next == [me EXCEPT !.pc = at, !.base = me.snap, !.snap = 0, !.plan = Whole,
                              !.chunks = <<>>, !.got = <<>>,
                              !.todo = Tail(me.todo), !.kept = me.kept \cup me.got.carry]
           G2 == Ground(me.old, cs2)
<1>1. Onward(me, FALSE, me.got.carry) = next
  <2>1. ~me.bulk
    OBVIOUS
  <2> QED
    BY <2>1, Zenon DEF Onward
<1>2. /\ next.pc = at /\ next.base = me.snap /\ next.todo = Tail(me.todo) /\ next.bulk = me.bulk
      /\ next.kept = me.kept \cup me.got.carry /\ next.pairs = me.pairs /\ next.old = me.old
      /\ next.replays = me.replays
    BY DEF RunType
<1> HIDE DEF next
<1>3. me.todo \in Seq(DOMAIN rs) /\ me.todo # <<>> /\ me.snap = Head(me.todo) /\ "read" \in Reading
    BY DEF Shaped, Reading
<1>4. /\ me.kept \cap me.old = {} /\ me.got.carry \cap me.old = {} /\ me.replays /\ me.pairs = {}
      /\ \A i \in DOMAIN rs : rs[i].status = "COMPLETE" =>
            \/ \E k \in DOMAIN me.todo : me.todo[k] = i
            \/ Vouched(rs[i], rs[i].through, Ground(me.old, cs))
    BY DEF Backed
<1>5. /\ Len(me.todo) \in Nat \ {0} /\ DOMAIN me.todo = 1..Len(me.todo) /\ me.todo[1] = me.snap
      /\ Tail(me.todo) \in Seq(DOMAIN rs) /\ Len(Tail(me.todo)) = Len(me.todo) - 1
      /\ \A k \in 1..Len(Tail(me.todo)) : Tail(me.todo)[k] = me.todo[k + 1]
  <2>1. Len(me.todo) \in Nat \ {0}
    BY <1>3, EmptySeq
  <2>2. DOMAIN me.todo = 1..Len(me.todo) /\ me.todo[1] = me.snap
    BY <1>3, <2>1
  <2>3. /\ Tail(me.todo) \in Seq(DOMAIN rs) /\ Len(Tail(me.todo)) = Len(me.todo) - 1
        /\ \A k \in 1..Len(Tail(me.todo)) : Tail(me.todo)[k] = me.todo[k + 1]
    BY <1>3, HeadTailProperties, Zenon
  <2> QED
    BY <2>1, <2>2, <2>3
<1>6. ASSUME NEW i \in DOMAIN rs2, rs2[i].status = "COMPLETE",
             ~ \E k \in DOMAIN Tail(me.todo) : Tail(me.todo)[k] = i
      PROVE  Vouched(rs2[i], rs2[i].through, G2)
  <2>1. CASE i = me.snap
    BY <2>1
  <2>2. CASE i # me.snap
    <3>1. i \in DOMAIN rs /\ rs2[i] = rs[i]
      BY <2>2
    <3>2. ~ \E k \in DOMAIN me.todo : me.todo[k] = i
      <4> SUFFICES ASSUME NEW k \in DOMAIN me.todo, me.todo[k] = i PROVE FALSE
        OBVIOUS
      <4>1. k # 1
        BY <1>5, <2>2
      <4>2. k - 1 \in DOMAIN Tail(me.todo) /\ Tail(me.todo)[k - 1] = me.todo[k]
        <5> DEFINE tail == Tail(me.todo)  n == Len(tail)
        <5>1. n = Len(me.todo) - 1 /\ DOMAIN tail = 1..n
          BY <1>5
        <5>2. k - 1 \in 1..n /\ (k - 1) + 1 = k
          BY <1>5, <4>1, <5>1
        <5>3. \A m \in 1..n : tail[m] = me.todo[m + 1]
          BY <1>5
        <5> HIDE DEF tail, n
        <5>4. tail[k - 1] = me.todo[(k - 1) + 1]
          BY <5>2, <5>3
        <5> QED
          BY <5>1, <5>2, <5>4 DEF tail
      <4> QED
        BY <1>6, <4>2
    <3>3. Vouched(rs[i], rs[i].through, Ground(me.old, cs))
      BY <1>4, <1>6, <3>1, <3>2
    <3> QED
      BY <3>1, <3>3 DEF Vouched
  <2> QED
    BY <2>1, <2>2
<1>7. at = "retire" => Tail(me.todo) = <<>>
  <2> SUFFICES ASSUME at = "retire" PROVE Tail(me.todo) = <<>>
    OBVIOUS
  <2>1. Len(me.todo) = 1
    OBVIOUS
  <2>2. Len(Tail(me.todo)) = 0
    BY <1>5, <2>1
  <2> QED
    BY <1>5, <2>2, EmptySeq
<1>8. at \in {"retire", "step"}
    OBVIOUS
<1>9. (me.kept \cup me.got.carry) \cap me.old = {}
    BY <1>4
<1> HIDE DEF at, G2
<1>10. Backed(next, rs2, cs2)
    BY <1>2, <1>4, <1>6, <1>7, <1>8, <1>9 DEF Backed, G2
<1> QED
    BY <1>1, <1>10

\* A write: its offset is vouched for by what it carried and what it wrote.
LEMMA ApplyBelief ==
    ASSUME BeliefInd, NEW r \in Runner, Apply(r)
    PROVE  BeliefInd'
<1> DEFINE me == run[r]
           got == me.got
           i == me.snap
           next == Onward(me, got.failed, got.carry)
           G == Ground(me.old, claims)
           G2 == Ground(me.old, claims')
<1>1. /\ IndType /\ IndType' /\ me \in RunType /\ Shaped(me, rows, claims)
      /\ me.pc = "read" /\ Backed(me, rows, claims) /\ AllVouched(rows, claims)
      /\ \A q \in Runner \ {r} : run[q].bulk
      /\ me.bulk \/ \A q \in Runner \ {r} : run[q] = Idle
      /\ run' = [run EXCEPT ![r] = next]
  <2>1. me.pc = "read" /\ run' = [run EXCEPT ![r] = next]
    BY DEF Apply
  <2>2. IndType /\ me \in RunType /\ Shaped(me, rows, claims)
    BY BeliefParts, TypedParts
  <2> QED
    BY <2>1, <2>2, BeliefParts, ApplyTyped
<1>2. /\ i \in Snap /\ got \in Yield
      /\ Grown(rows, claims, rows', claims) /\ DOMAIN rows' = Snap
      /\ \A j \in Snap \ {i} : rows'[j] = rows[j]
      /\ rows'[i].through = IF got.through = 0 THEN rows[i].through ELSE got.through
    BY <1>1, AppliedRows
<1>3. /\ DOMAIN claims \subseteq DOMAIN claims'
      /\ \A c \in DOMAIN claims : claims'[c].chunk = claims[c].chunk /\ claims'[c].active = claims[c].active
      /\ got.kept => \A k \in DOMAIN got.write :
            \E c \in DOMAIN claims' \ DOMAIN claims :
               claims'[c].active /\ claims'[c].chunk = got.write[k]
    BY <1>1, AppliedClaims
<1> HIDE DEF me
<1>4. got.failed \in BOOLEAN /\ me.old \subseteq DOMAIN claims
    BY <1>1, <1>2 DEF Yield, Shaped
<1>5. Grown(rows, claims, rows', claims')
    BY <1>2, <1>3 DEF Grown
<1>6. G \subseteq G2 /\ Ground({}, claims) \subseteq Ground({}, claims') /\ G2 \subseteq Ground({}, claims')
    BY <1>3, GroundGrows, GroundWhole
<1>7. got.kept => Coming(got) \subseteq G2
  <2> SUFFICES ASSUME got.kept, NEW k \in DOMAIN got.write, NEW u \in UnitsIn(got.write[k])
               PROVE  u \in G2
    BY DEF Coming
  <2>1. PICK c \in DOMAIN claims' \ DOMAIN claims : claims'[c].active /\ claims'[c].chunk = got.write[k]
    BY <1>3
  <2>2. c \in {d \in DOMAIN claims' : claims'[d].active} \ me.old
    BY <1>4, <2>1
  <2>3. u \in UnitsIn(claims'[c].chunk)
    BY <2>1
  <2> HIDE DEF got
  <2> QED
    BY <2>2, <2>3 DEF Ground
<1> HIDE DEF G, G2
<1>8. ASSUME got.through # 0 PROVE Vouched(rows'[i], rows'[i].through, G2)
  <2>1. Vouched(rows[i], got.through, G \cup Coming(got)) /\ got.kept
    BY <1>1, <1>8 DEF Backed, G
  <2>2. G \cup Coming(got) \subseteq G2
    BY <1>6, <1>7, <2>1
  <2>3. rows'[i].through = got.through /\ rows'[i].content = rows[i].content
    BY <1>2, <1>8 DEF Grown, Snap
  <2> QED
    BY <2>1, <2>2, <2>3 DEF Vouched
<1>9. AllVouched(rows', claims')
  <2> SUFFICES ASSUME NEW j \in DOMAIN rows'
               PROVE  Vouched(rows'[j], rows'[j].through, Ground({}, claims'))
    BY DEF AllVouched
  <2>1. CASE j = i /\ got.through # 0
    BY <1>6, <1>8, <2>1 DEF Vouched
  <2>2. CASE j # i \/ got.through = 0
    <3>1. j \in Snap /\ rows'[j].through = rows[j].through /\ rows'[j].content = rows[j].content
      BY <1>2, <2>2 DEF Grown, Snap
    <3>2. Vouched(rows[j], rows[j].through, Ground({}, claims))
      BY <1>1, <3>1 DEF AllVouched, Snap
    <3> QED
      BY <1>6, <3>1, <3>2 DEF Vouched
  <2> QED
    BY <2>1, <2>2
<1>10. Backed(next, rows', claims') /\ (me.bulk => next.bulk)
  <2>1. CASE me.bulk
    <3>1. next = Idle /\ Idle.bulk = TRUE
      BY <2>1 DEF Onward, Idle
    <3> QED
      BY <3>1, IdleBacked
  <2>2. CASE ~me.bulk /\ got.failed
    <3>1. next = Onward(me, TRUE, got.carry)
      BY <1>4, <2>2
    <3> QED
      BY <1>1, <2>2, <3>1, FailedBacked
  <2>3. CASE ~me.bulk /\ ~got.failed
    <3>1. next = Onward(me, FALSE, me.got.carry)
      BY <1>4, <2>3
    <3>2. got.through # 0
      BY <1>1, <2>3 DEF Backed
    <3>3. Vouched(rows'[me.snap], rows'[me.snap].through, Ground(me.old, claims'))
      BY <1>8, <3>2 DEF G2
    <3>4. Ground(me.old, claims) \subseteq Ground(me.old, claims')
      BY <1>6 DEF G, G2
    <3>5. DOMAIN rows' = DOMAIN rows /\ \A j \in DOMAIN rows \ {me.snap} : rows'[j] = rows[j]
      BY <1>2 DEF Snap
    <3> QED
      BY <1>1, <1>5, <2>3, <3>1, <3>3, <3>4, <3>5, OnwardBacked
  <2> QED
    BY <2>1, <2>2, <2>3
<1> HIDE DEF next
<1>11. \A q \in Runner \ {r} : run[q].bulk
    BY <1>1
<1>12. next.bulk \/ \A q \in Runner \ {r} : run[q] = Idle
    BY <1>1, <1>10
<1> QED
    BY <1>1, <1>5, <1>6, <1>9, <1>10, <1>11, <1>12, MovedBelief

\* A reindex of the named entry has all its COMPLETE rows still to read, and is alone.
LEMMA ReindexStartBelief ==
    ASSUME BeliefInd, Named, NEW r \in Runner, NEW kind \in Scopes, ReindexStart(r, kind)
    PROVE  BeliefInd'
<1> DEFINE next == [Idle EXCEPT !.bulk = FALSE, !.replays = Scope(kind) \cap Complete # {},
                                !.pairs = Scope(kind) \ Complete,
                                !.pc = IF Scope(kind) \cap Complete # {} THEN "step" ELSE "item",
                                !.todo = IF Scope(kind) \cap Complete # {} THEN InOrder(Complete) ELSE <<>>,
                                !.old = IF Scope(kind) \cap Complete # {} THEN Live ELSE {}]
<1>1. /\ rows' = rows /\ claims' = claims /\ run' = [run EXCEPT ![r] = next]
      /\ Busy = {} /\ Scope(kind) # {}
    BY Zenon DEF ReindexStart, Named
<1>2. /\ IndType' /\ Complete \subseteq Snap /\ IsFiniteSet(Complete)
      /\ Snap = 1..Len(rows) /\ Len(rows) \in Nat
    BY ReindexStartTyped, ScopeRows, TypedParts DEF BeliefInd
<1>3. \A q \in Runner : run[q] = Idle
  <2> SUFFICES ASSUME NEW q \in Runner PROVE run[q] = Idle
    OBVIOUS
  <2>1. run[q].pc = "idle"
    BY <1>1 DEF Busy
  <2> QED
    BY <2>1 DEF BeliefInd, Backed
<1>4. kind = "named"
    BY DEF Named
<1>5. Complete # {} /\ Scope(kind) = {Last(Complete)}
  <2>1. Scope(kind) = IF Complete = {} THEN {} ELSE {Last(Complete)}
    BY <1>4 DEF Scope
  <2> QED
    BY <1>1, <2>1
<1>6. Last(Complete) \in Complete
  <2>1. Complete \in SUBSET (0..Len(rows))
    BY <1>2
  <2> HIDE DEF Complete
  <2> QED
    BY <1>2, <1>5, <2>1, LastOf
<1>7. (Scope(kind) \cap Complete # {}) = TRUE /\ Scope(kind) \ Complete = {}
    BY <1>5, <1>6
<1>8. /\ Idle.base = 0 /\ Idle.kept = {}
      /\ next = [Idle EXCEPT !.bulk = FALSE, !.replays = TRUE, !.pairs = {}, !.pc = "step",
                             !.todo = InOrder(Complete), !.old = Live]
    BY <1>7 DEF Idle
<1> HIDE DEF next
<1>9. /\ next.bulk = FALSE /\ next.replays = TRUE /\ next.pairs = {} /\ next.pc = "step"
      /\ next.todo = InOrder(Complete) /\ next.base = 0 /\ next.kept = {} /\ next.old = Live
    BY <1>8 DEF Idle
<1>10. \A i \in DOMAIN rows : rows[i].status = "COMPLETE" =>
          \E k \in DOMAIN next.todo : next.todo[k] = i
  <2>1. Complete \in SUBSET Nat
    BY <1>2
  <2>2. \A i \in Complete : \E k \in DOMAIN InOrder(Complete) : InOrder(Complete)[k] = i
    BY <1>2, <2>1, InOrderLists
  <2> QED
    BY <1>9, <2>2 DEF Complete, Snap
<1>11. Backed(next, rows', claims')
    BY <1>1, <1>9, <1>10 DEF Backed
<1>12. Grown(rows, claims, rows', claims') /\ AllVouched(rows', claims')
    BY <1>1 DEF Grown, BeliefInd
<1>13. Idle.bulk = TRUE
    BY DEF Idle
<1> QED
    BY <1>1, <1>2, <1>3, <1>11, <1>12, <1>13, MovedBelief

\* A reindex of the named entry has no other item.
LEMMA ReindexItemBelief ==
    ASSUME BeliefInd, NEW r \in Runner, ReindexItem(r)
    PROVE  BeliefInd'
<1> DEFINE me == run[r]
           Old(i) == IF me.replays THEN Live ELSE {c \in Live : i \in claims[c].cites}
           Next_(i) == [me EXCEPT !.pc = "step", !.pairs = me.pairs \ {i}, !.todo = <<i>>, !.base = 0,
                                  !.kept = {}, !.old = Old(i)]
<1>1. /\ rows' = rows /\ claims' = claims /\ me.pc = "item"
      /\ \/ \E i \in me.pairs : run' = [run EXCEPT ![r] = Next_(i)]
         \/ run' = [run EXCEPT ![r] = Idle]
    BY Zenon DEF ReindexItem
<1>2. /\ IndType' /\ me \in RunType /\ Backed(me, rows, claims)
      /\ \A q \in Runner \ {r} : run[q].bulk
      /\ me.bulk \/ \A q \in Runner \ {r} : run[q] = Idle
  <2>1. me.pc = "item"
    BY DEF ReindexItem
  <2>2. me \in RunType
    BY BeliefParts, TypedParts
  <2> QED
    BY <2>1, <2>2, BeliefParts, ReindexItemTyped
<1> HIDE DEF me
<1>3. Grown(rows, claims, rows', claims') /\ AllVouched(rows', claims')
    BY <1>1 DEF Grown, BeliefInd
<1>4. ASSUME NEW i \in me.pairs, run' = [run EXCEPT ![r] = Next_(i)] PROVE BeliefInd'
  <2>1. me.pairs = {}
    BY <1>2 DEF Backed
  <2> QED
    BY <1>4, <2>1
<1>5. CASE run' = [run EXCEPT ![r] = Idle]
  <2>1. Idle.bulk = TRUE
    BY DEF Idle
  <2> QED
    BY <1>1, <1>2, <1>3, <1>5, <2>1, IdleBacked, MovedBelief
<1> QED
    BY <1>1, <1>4, <1>5

\* A claim of a replay records nothing.
LEMMA ReindexClaimBelief ==
    ASSUME BeliefInd, NEW r \in Runner, ReindexClaim(r)
    PROVE  BeliefInd'
<1> DEFINE me == run[r]
           i == Head(me.todo)
           rs == StatusTo(i, "IN_PROGRESS")
           next == [me EXCEPT !.pc = "claimed", !.snap = i]
<1>1. /\ IndType /\ IndType' /\ me \in RunType /\ Shaped(me, rows, claims)
      /\ me.pc = "step" /\ Backed(me, rows, claims)
      /\ \A q \in Runner \ {r} : run[q].bulk
      /\ me.bulk \/ \A q \in Runner \ {r} : run[q] = Idle
  <2>1. me.pc = "step"
    BY DEF ReindexClaim
  <2>2. IndType /\ me \in RunType /\ Shaped(me, rows, claims)
    BY BeliefParts, TypedParts
  <2> QED
    BY <2>1, <2>2, BeliefParts, ReindexClaimTyped
<1>2. rows' = rs /\ claims' = claims /\ run' = [run EXCEPT ![r] = next]
  <2>1. rows' = rs /\ claims' = claims
        /\ run' = [run EXCEPT ![r].pc = "claimed", ![r].snap = i]
    BY Zenon DEF ReindexClaim
  <2>2. run \in [Runner -> RunType]
    BY <1>1 DEF IndType, RunsOK
  <2> QED
    BY <2>1, <2>2
<1> HIDE DEF me
<1>3. i \in Snap
  <2>1. me.todo \in Seq(Snap) /\ me.todo # <<>>
    BY <1>1 DEF Shaped, Snap
  <2> QED
    BY <2>1, HeadTailProperties
<1> HIDE DEF i
<1>4. /\ Grown(rows, claims, rs, claims) /\ DOMAIN rs = Snap
      /\ \A j \in Snap : rs[j] = IF j = i THEN [rows[j] EXCEPT !.status = "IN_PROGRESS"] ELSE rows[j]
    BY <1>1, <1>3, StatusRow, TypedParts DEF Status
<1>5. Steady(rows, rs)
  <2>1. \A j \in Snap : /\ [rows[j] EXCEPT !.status = "IN_PROGRESS"].status = "IN_PROGRESS"
                        /\ [rows[j] EXCEPT !.status = "IN_PROGRESS"].through = rows[j].through
    BY <1>1, TypedParts DEF Row
  <2> HIDE DEF rs
  <2>2. \A j \in Snap : rs[j].through = rows[j].through
                        /\ (rs[j].status = "COMPLETE" => rows[j].status = "COMPLETE")
    BY <1>4, <2>1
  <2> QED
    BY <1>4, <2>2 DEF Steady, Snap
<1> HIDE DEF rs
<1>6. Backed(me, rs, claims)
  <2>1. Ground(me.old, claims) \subseteq Ground(me.old, claims)
    OBVIOUS
  <2> QED
    BY <1>1, <1>4, <1>5, <2>1, BackedStays
<1>7. /\ next.pc = "claimed" /\ next.base = me.base /\ next.replays = me.replays
      /\ next.todo = me.todo /\ next.pairs = me.pairs /\ next.old = me.old
      /\ next.kept = me.kept /\ next.bulk = me.bulk
    BY <1>1 DEF RunType
<1> HIDE DEF next
<1>8. Backed(next, rows', claims')
  <2>1. Backed(next, rs, claims)
    BY <1>1, <1>6, <1>7 DEF Backed
  <2> QED
    BY <1>2, <2>1
<1>9. \A q \in Runner \ {r} : run[q].bulk
    BY <1>1
<1>10. next.bulk \/ \A q \in Runner \ {r} : run[q] = Idle
    BY <1>1, <1>7
<1> QED
    BY <1>1, <1>2, <1>3, <1>8, <1>9, <1>10, StatusBelief DEF Status, rs

\* What a replay retires, no offset leans on any more: the COMPLETE rows are vouched for
\* by what stays, and the others start anew.
LEMMA RetireBelief ==
    ASSUME BeliefInd, NEW r \in Runner, Retire(r)
    PROVE  BeliefInd'
<1> DEFINE me == run[r]
           next == [me EXCEPT !.pc = "item", !.todo = <<>>]
           G == Ground(me.old, claims)
<1>1. /\ IndType /\ IndType' /\ me \in RunType /\ me.pc = "retire"
      /\ Backed(me, rows, claims) /\ AllVouched(rows, claims)
      /\ \A q \in Runner \ {r} : run[q].bulk
      /\ me.bulk \/ \A q \in Runner \ {r} : run[q] = Idle
      /\ run' = [run EXCEPT ![r] = next]
  <2>1. me.pc = "retire" /\ run' = [run EXCEPT ![r] = next]
    BY DEF Retire
  <2>2. IndType /\ me \in RunType
    BY BeliefParts, TypedParts
  <2> QED
    BY <2>1, <2>2, BeliefParts, RetireTyped
<1>2. /\ Grown(rows, claims, rows', claims') /\ DOMAIN rows' = Snap
      /\ DOMAIN claims' = DOMAIN claims
      /\ \A c \in DOMAIN claims :
            /\ claims'[c].chunk = claims[c].chunk
            /\ claims'[c].active = (claims[c].active /\ c \notin me.old \ me.kept)
      /\ ~me.replays => rows' = rows
      /\ me.replays => \A i \in Snap :
            IF rows[i].status = "COMPLETE" THEN rows'[i] = rows[i]
            ELSE rows'[i].through = 0 /\ rows'[i].status = rows[i].status
    BY <1>1, RetireLeaves
<1> HIDE DEF me
<1>3. /\ me.kept \cap me.old = {} /\ (me.bulk => me.old = {}) /\ (~me.bulk => me.replays)
      /\ ~me.bulk => \A i \in DOMAIN rows : rows[i].status = "COMPLETE" =>
                        Vouched(rows[i], rows[i].through, G)
  <2>1. /\ me.kept \cap me.old = {} /\ (me.bulk => me.old = {}) /\ (~me.bulk => me.replays)
        /\ ~me.bulk => me.todo = <<>> /\ \A i \in DOMAIN rows : rows[i].status = "COMPLETE" =>
              \/ \E k \in DOMAIN me.todo : me.todo[k] = i
              \/ Vouched(rows[i], rows[i].through, G)
    BY <1>1 DEF Backed, G
  <2>2. DOMAIN <<>> = {}
    OBVIOUS
  <2> QED
    BY <2>1, <2>2
<1>4. \A c \in DOMAIN claims : claims'[c].active = (claims[c].active /\ c \notin me.old)
    BY <1>2, <1>3
<1>5. G = Ground({}, claims')
  <2>1. {c \in DOMAIN claims : claims[c].active} \ me.old
           = {c \in DOMAIN claims' : claims'[c].active} \ {}
    BY <1>2, <1>4
  <2>2. \A c \in {c \in DOMAIN claims : claims[c].active} \ me.old :
           UnitsIn(claims'[c].chunk) = UnitsIn(claims[c].chunk)
    BY <1>2
  <2> QED
    BY <2>1, <2>2 DEF G, Ground
<1> HIDE DEF G
<1>6. AllVouched(rows', claims')
  <2> SUFFICES ASSUME NEW i \in Snap PROVE Vouched(rows'[i], rows'[i].through, G)
    BY <1>2, <1>5 DEF AllVouched
  <2>1. CASE me.bulk
    <3>1. Vouched(rows[i], rows[i].through, G)
      BY <1>1, <1>3, <2>1 DEF AllVouched, Snap, G
    <3>2. rows'[i].through \in {0, rows[i].through} /\ rows'[i].content = rows[i].content
      BY <1>2 DEF Grown, Snap
    <3>3. CASE rows'[i].through = 0
      BY <3>3 DEF Vouched
    <3>4. CASE rows'[i].through = rows[i].through
      BY <3>1, <3>2, <3>4 DEF Vouched
    <3> QED
      BY <3>2, <3>3, <3>4
  <2>2. CASE ~me.bulk /\ rows[i].status = "COMPLETE"
    <3>1. rows'[i] = rows[i]
      BY <1>2, <1>3, <2>2
    <3>2. Vouched(rows[i], rows[i].through, G)
      BY <1>3, <2>2 DEF Snap
    <3> QED
      BY <3>1, <3>2
  <2>3. CASE ~me.bulk /\ rows[i].status # "COMPLETE"
    <3>1. rows'[i].through = 0
      BY <1>2, <1>3, <2>3
    <3> QED
      BY <3>1 DEF Vouched
  <2> QED
    BY <2>1, <2>2, <2>3
<1>7. /\ next.pc = "item" /\ next.pairs = me.pairs /\ next.old = me.old
      /\ next.kept = me.kept /\ next.bulk = me.bulk /\ next.replays = me.replays
    BY <1>1 DEF RunType
<1> HIDE DEF next
<1>8. Backed(next, rows', claims')
    BY <1>1, <1>7 DEF Backed
<1>9. \A q \in Runner \ {r} : run[q].bulk
    BY <1>1
<1>10. next.bulk \/ \A q \in Runner \ {r} : run[q] = Idle
    BY <1>1, <1>7
<1>11. Ground({}, claims) \subseteq Ground({}, claims') \/ \A q \in Runner \ {r} : run[q] = Idle
  <2>1. me.bulk => G = Ground({}, claims)
    BY <1>3 DEF G
  <2> QED
    BY <1>1, <1>5, <2>1
<1> QED
    BY <1>1, <1>2, <1>6, <1>8, <1>9, <1>10, <1>11, MovedBelief

\* The first state.
LEMMA InitBelief == Init => BeliefInd
<1> SUFFICES ASSUME Init PROVE BeliefInd
    OBVIOUS
<1>1. IndType
    BY InitTyped
<1>2. rows = <<>> /\ DOMAIN <<>> = {} /\ \A r \in Runner : run[r] = Idle
    BY DEF Init
<1>3. AllVouched(rows, claims)
    BY <1>2 DEF AllVouched
<1>4. Lonely
    BY <1>2 DEF Lonely
<1>5. \A r \in Runner : Backed(run[r], rows, claims)
    BY <1>2, IdleBacked
<1> QED
    BY <1>1, <1>3, <1>4, <1>5 DEF BeliefInd

\* Every step keeps the offsets vouched for.
LEMMA StepBelief == Named /\ BeliefInd /\ [Next]_vars => BeliefInd'
<1> SUFFICES ASSUME Named, BeliefInd, [Next]_vars PROVE BeliefInd'
    OBVIOUS
<1>1. CASE Next
  <2>1. \/ Capture \/ LoseBlob \/ ResetStale
        \/ \E r \in Runner :
              \/ \E i \in Snap : BulkClaim(r, i)
              \/ Plan(r) \/ Read(r) \/ BlobMissing(r) \/ Apply(r) \/ Interrupted(r)
              \/ ReindexItem(r) \/ ReindexClaim(r) \/ Retire(r)
              \/ \E kind \in Scopes : ReindexStart(r, kind)
    BY <1>1, StepCases
  <2> QED
    BY <2>1, CaptureBelief, LoseBlobBelief, ResetBelief, BulkClaimBelief, PlanBelief, ReadBelief,
       BlobMissingBelief, ApplyBelief, InterruptedBelief, ReindexItemBelief, ReindexClaimBelief,
       RetireBelief, ReindexStartBelief, Zenon
<1>2. CASE UNCHANGED vars
  <2>1. rows' = rows /\ claims' = claims /\ run' = run /\ IndType'
    BY <1>2, StepTyped DEF vars, BeliefInd
  <2>2. /\ Grown(rows, claims, rows', claims') /\ Steady(rows, rows')
        /\ \A i \in DOMAIN rows' : i \notin DOMAIN rows => rows'[i].through = 0
    BY <2>1 DEF Grown, Steady
  <2> QED
    BY <2>1, <2>2, WorldBelief
<1> QED
    BY <1>1, <1>2

\* Whatever failed, was killed, lost its blob or was read out of order, and whatever the
\* source rewrote, with any number of bulk runs beside each other: as long as a reindex
\* names the entry and runs alone, every unit before an extracted_through is in an ACTIVE
\* claim and every runner stands on claims that outlast its read.
THEOREM OffsetsStand == Named => (Spec => []BeliefInd)
<1>1. Init => BeliefInd
    BY InitBelief
<1> SUFFICES ASSUME Named PROVE Spec => []BeliefInd
    OBVIOUS
<1>2. BeliefInd /\ [Next]_vars => BeliefInd'
    BY StepBelief
<1> QED
    BY <1>1, <1>2, PTL DEF Spec

\* An offset vouches for its text (RecordedIsBelieved): no delta skips text nobody read.
THEOREM OffsetsVouch == Named => (Spec => []RecordedIsBelieved)
<1>1. BeliefInd => RecordedIsBelieved
    BY VouchedIsRecorded DEF BeliefInd
<1> SUFFICES ASSUME Named PROVE Spec => []RecordedIsBelieved
    OBVIOUS
<1>2. Spec => []BeliefInd
    BY OffsetsStand
<1> QED
    BY <1>1, <1>2, PTL
================================================================================
