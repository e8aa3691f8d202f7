--------------------------- MODULE JobStatus_proofs ---------------------------
(***************************************************************************)
(* Theorems about JobStatus, for any tasks, workers and size of a page.    *)
(***************************************************************************)
EXTENDS JobStatus, JobCompletion_proofs, FiniteSetTheorems, FunctionTheorems, SequenceTheorems

-----------------------------------------------------------------------------
(***************************************************************************)
(* ORDER BY created_at, id: a set of tasks has one order, because a task's *)
(* place in it is one more than the number of tasks before it.             *)
(***************************************************************************)
LEMMA BeforeIsTotal ==
    /\ \A a \in Tasks : ~Before(a, a)
    /\ \A a, b \in Tasks : a = b \/ Before(a, b) \/ Before(b, a)
    /\ \A a, b, c \in Tasks : Before(a, b) /\ Before(b, c) => Before(a, c)
<1>1. \A a \in Tasks : a \in Nat /\ CreatedAt[a] \in Nat
  BY TasksAreOrdered
<1>2. QED
  BY <1>1 DEF Before

Smaller(S, x) == {y \in S : Before(y, x)}
Place(S, x) == Cardinality(Smaller(S, x)) + 1

LEMMA PlaceOfTask ==
    ASSUME NEW S \in SUBSET Tasks, NEW x \in S
    PROVE  /\ IsFiniteSet(S) /\ Cardinality(S) \in Nat
           /\ IsFiniteSet(Smaller(S, x))
           /\ Place(S, x) \in 1 .. Cardinality(S)
<1>1. IsFiniteSet(S) /\ Cardinality(S) \in Nat
  BY TasksAreFinite, FS_Subset, FS_CardinalityType
<1>2. IsFiniteSet(S \ {x}) /\ Cardinality(S \ {x}) = Cardinality(S) - 1
  BY <1>1, FS_RemoveElement
<1>3. Smaller(S, x) \in SUBSET (S \ {x})
  BY BeforeIsTotal DEF Smaller
<1>4. IsFiniteSet(Smaller(S, x)) /\ Cardinality(Smaller(S, x)) <= Cardinality(S) - 1
  BY <1>2, <1>3, FS_Subset
<1>5. Cardinality(Smaller(S, x)) \in Nat
  BY <1>4, FS_CardinalityType
<1>. QED
  BY <1>1, <1>4, <1>5 DEF Place

LEMMA PlacesIncrease ==
    ASSUME NEW S \in SUBSET Tasks, NEW x \in S, NEW y \in S, Before(x, y)
    PROVE  Place(S, x) < Place(S, y)
<1>1. Smaller(S, x) \in SUBSET (Smaller(S, y) \ {x})
  BY BeforeIsTotal DEF Smaller
<1>2. x \in Smaller(S, y)
  BY DEF Smaller
<1>3. IsFiniteSet(Smaller(S, x)) /\ IsFiniteSet(Smaller(S, y))
  BY PlaceOfTask
<1>4. /\ IsFiniteSet(Smaller(S, y) \ {x})
      /\ Cardinality(Smaller(S, y) \ {x}) = Cardinality(Smaller(S, y)) - 1
  BY <1>2, <1>3, FS_RemoveElement
<1>5. Cardinality(Smaller(S, x)) <= Cardinality(Smaller(S, y)) - 1
  BY <1>1, <1>4, FS_Subset
<1>6. Cardinality(Smaller(S, x)) \in Nat /\ Cardinality(Smaller(S, y)) \in Nat
  BY <1>3, FS_CardinalityType
<1>. QED
  BY <1>5, <1>6 DEF Place

LEMMA PlacesDiffer ==
    ASSUME NEW S \in SUBSET Tasks, NEW x \in S, NEW y \in S, Place(S, x) = Place(S, y)
    PROVE  x = y
<1>1. Place(S, x) \in Nat /\ Place(S, y) \in Nat
  BY PlaceOfTask
<1>2. ~Before(x, y) /\ ~Before(y, x)
  BY <1>1, PlacesIncrease
<1>. QED
  BY <1>2, BeforeIsTotal

LEMMA OrderDef ==
    ASSUME NEW S, NEW rows
    PROVE  rows \in InOrder(S) <=>
             /\ rows \in [1 .. Cardinality(S) -> S]
             /\ \A i, j \in 1 .. Cardinality(S) : i # j => rows[i] # rows[j]
             /\ \A i, j \in 1 .. Cardinality(S) : i < j => ~Before(rows[j], rows[i])
  BY DEF InOrder, IsInjective

LEMMA OrderExists ==
    ASSUME NEW S \in SUBSET Tasks
    PROVE  \E rows : rows \in InOrder(S)
<1> DEFINE n == Cardinality(S)
           place == [x \in S |-> Place(S, x)]
           rows == [i \in 1 .. n |-> CHOOSE x \in S : Place(S, x) = i]
<1>1. IsFiniteSet(S) /\ n \in Nat
  BY TasksAreFinite, FS_Subset, FS_CardinalityType
<1>2. IsFiniteSet(1 .. n) /\ Cardinality(1 .. n) = n
  BY <1>1, FS_Interval
<1>3. place \in Injection(S, 1 .. n)
  <2>1. place \in [S -> 1 .. n]
    BY PlaceOfTask
  <2>2. \A x, y \in S : place[x] = place[y] => x = y
    BY PlacesDiffer
  <2>. QED
    BY <2>1, <2>2, Fun_IsInj
<1>4. place \in Surjection(S, 1 .. n)
  BY <1>1, <1>2, <1>3, FS_Injection
<1>5. \A i \in 1 .. n : \E x \in S : Place(S, x) = i
  BY <1>4 DEF Surjection
<1>6. \A i \in 1 .. n : rows[i] \in S /\ Place(S, rows[i]) = i
  BY <1>5
<1>7. rows \in [1 .. n -> S]
  BY <1>6
<1> HIDE DEF rows
<1>8. \A i, j \in 1 .. n : i # j => rows[i] # rows[j]
  BY <1>6
<1>9. ASSUME NEW i \in 1 .. n, NEW j \in 1 .. n, i < j
      PROVE  ~Before(rows[j], rows[i])
  BY <1>6, <1>9, PlacesIncrease
<1>. QED
  BY <1>7, <1>8, <1>9, OrderDef

\* Every task of S is in the sequence, at its place.
LEMMA OrderPlaces ==
    ASSUME NEW S \in SUBSET Tasks, NEW rows \in InOrder(S)
    PROVE  /\ \A x \in S : \E i \in 1 .. Cardinality(S) : rows[i] = x
           /\ \A i, j \in 1 .. Cardinality(S) : i < j <=> Before(rows[i], rows[j])
           /\ \A i \in 1 .. Cardinality(S) : Place(S, rows[i]) = i
<1> DEFINE n == Cardinality(S)
<1>1. IsFiniteSet(S) /\ n \in Nat
  BY TasksAreFinite, FS_Subset, FS_CardinalityType
<1>2. IsFiniteSet(1 .. n) /\ Cardinality(1 .. n) = n
  BY <1>1, FS_Interval
<1>3. /\ rows \in [1 .. n -> S]
      /\ \A i, j \in 1 .. n : i # j => rows[i] # rows[j]
      /\ \A i, j \in 1 .. n : i < j => ~Before(rows[j], rows[i])
  BY OrderDef
<1>4. rows \in Injection(1 .. n, S)
  BY <1>3, Fun_IsInj
<1>5. rows \in Surjection(1 .. n, S)
  BY <1>1, <1>2, <1>4, FS_Injection
<1>6. \A x \in S : \E i \in 1 .. n : rows[i] = x
  BY <1>5 DEF Surjection
<1>7. \A i, j \in 1 .. n : i < j <=> Before(rows[i], rows[j])
  BY <1>3, BeforeIsTotal
<1>8. ASSUME NEW i \in 1 .. n PROVE Place(S, rows[i]) = i
  <2> DEFINE D == 1 .. i - 1
             T == Smaller(S, rows[i])
             f == [j \in D |-> rows[j]]
  <2>1. \A j \in D : j \in 1 .. n /\ j < i
    BY <1>1
  <2>2. f \in [D -> T]
    BY <1>3, <1>7, <2>1 DEF Smaller
  <2>3. \A j, k \in D : f[j] = f[k] => j = k
    BY <1>3, <2>1
  <2>4. \A x \in T : \E j \in D : f[j] = x
    <3>1. SUFFICES ASSUME NEW x \in T PROVE \E j \in D : f[j] = x
      OBVIOUS
    <3>2. PICK j \in 1 .. n : rows[j] = x
      BY <1>6 DEF Smaller
    <3>3. j < i
      BY <1>7, <3>2 DEF Smaller
    <3>. QED
      BY <3>2, <3>3
  <2>5. f \in Bijection(D, T)
    BY <2>2, <2>3, <2>4, Fun_IsBij
  <2>6. Cardinality(T) = i - 1
    BY <2>5, FS_CountingElements DEF ExistsBijection
  <2>. QED
    BY <2>6 DEF Place
<1>. QED
  BY <1>6, <1>7, <1>8

LEMMA OneOrder ==
    ASSUME NEW S \in SUBSET Tasks, NEW f \in InOrder(S), NEW g \in InOrder(S)
    PROVE  f = g
<1> DEFINE D == 1 .. Cardinality(S)
<1>1. f \in [D -> S] /\ g \in [D -> S]
  BY OrderDef
<1>2. \A i \in D : Place(S, f[i]) = Place(S, g[i])
  BY OrderPlaces
<1> HIDE DEF D
<1>3. \A i \in D : f[i] = g[i]
  BY <1>1, <1>2, PlacesDiffer
<1>. QED
  BY <1>1, <1>3

-----------------------------------------------------------------------------
(***************************************************************************)
(* Pages: what is behind the k-th task of the order is the rest of it.     *)
(***************************************************************************)
N == Cardinality(Tasks)
All == CHOOSE rows \in InOrder(Tasks) : TRUE
Cursor(k) == IF k = 0 THEN NoCursor ELSE <<All[k]>>

LEMMA OrderIsSeq ==
    ASSUME NEW S \in SUBSET Tasks, NEW rows \in InOrder(S)
    PROVE  rows \in Seq(S) /\ Len(rows) = Cardinality(S)
<1>1. Cardinality(S) \in Nat
  BY TasksAreFinite, FS_Subset, FS_CardinalityType
<1>2. rows \in [1 .. Cardinality(S) -> S]
  BY OrderDef
<1>. QED
  BY <1>1, <1>2, SeqDef, LenProperties

LEMMA AllInOrder ==
    /\ N \in Nat
    /\ All \in InOrder(Tasks)
    /\ All \in Seq(Tasks) /\ Len(All) = N
    /\ \A i \in 1 .. N : All[i] \in Tasks
<1>1. N \in Nat
  BY TasksAreFinite, FS_CardinalityType DEF N
<1>2. All \in InOrder(Tasks)
  BY OrderExists DEF All
<1>3. All \in Seq(Tasks) /\ Len(All) = N
  BY <1>2, OrderIsSeq DEF N
<1>. QED
  BY <1>1, <1>2, <1>3

(* What follows the first k places of a sequence: SubSeqProperties with the   *)
(* indices counted from k, as the cursor of a page counts them.               *)
LEMMA SubSeqAfter ==
    ASSUME NEW S, NEW s, NEW k \in Nat, NEW m \in Int,
           \A i \in k + 1 .. m : s[i] \in S
    PROVE  /\ SubSeq(s, k + 1, m) \in Seq(S)
           /\ Len(SubSeq(s, k + 1, m)) = IF k < m THEN m - k ELSE 0
           /\ \A i \in 1 .. m - k : SubSeq(s, k + 1, m)[i] = s[k + i]
<1> DEFINE run == SubSeq(s, k + 1, m)
<1>1. k + 1 \in Int
  OBVIOUS
<1>2. /\ run \in Seq(S)
      /\ Len(run) = IF k + 1 <= m THEN m - (k + 1) + 1 ELSE 0
      /\ \A i \in 1 .. m - (k + 1) + 1 : run[i] = s[(k + 1) + i - 1]
  BY <1>1, SubSeqProperties
<1> HIDE DEF run
<1>3. (k + 1 <= m <=> k < m) /\ m - (k + 1) + 1 = m - k
  OBVIOUS
<1>4. \A i \in 1 .. m - k : run[i] = s[k + i]
  <2>1. SUFFICES ASSUME NEW i \in 1 .. m - k PROVE run[i] = s[k + i]
    OBVIOUS
  <2>2. (k + 1) + i - 1 = k + i
    OBVIOUS
  <2>3. run[i] = s[(k + 1) + i - 1]
    BY <1>2, <1>3
  <2>. QED
    BY <2>2, <2>3
<1>5. Len(run) = IF k < m THEN m - k ELSE 0
  BY <1>2, <1>3
<1>. QED
  BY <1>2, <1>4, <1>5 DEF run

LEMMA PrefixOfSubSeq ==
    ASSUME NEW S, NEW s \in Seq(S), NEW i \in 1 .. Len(s) + 1, NEW j \in i - 1 .. Len(s),
           NEW p \in 0 .. j - i + 1
    PROVE  SubSeq(SubSeq(s, i, j), 1, p) = SubSeq(s, i, i + p - 1)
<1>1. Len(s) \in Nat /\ i \in Int /\ j \in Int /\ p \in Int
  BY LenProperties
<1>2. CASE p = 0
  BY <1>1, <1>2, SubSeqEmpty
<1>3. CASE p # 0
  <2>1. i \in 1 .. Len(s) /\ j \in 1 .. Len(s) /\ 1 \in 1 .. j - i + 1 /\ p \in 1 .. j - i + 1
    BY <1>1, <1>3
  <2>2. SubSeq(SubSeq(s, i, j), 1, p) = SubSeq(s, i + 1 - 1, i + p - 1)
    BY <2>1, SubSeqOfSubSeq
  <2>. QED
    BY <1>1, <2>2
<1>. QED
  BY <1>2, <1>3

LEMMA BehindCursor ==
    ASSUME NEW k \in 0 .. N
    PROVE  /\ Behind(Cursor(k)) = {All[j] : j \in k + 1 .. N}
           /\ Cardinality(Behind(Cursor(k))) = N - k
           /\ SubSeq(All, k + 1, N) \in InOrder(Behind(Cursor(k)))
<1> DEFINE S == {All[j] : j \in k + 1 .. N}
           rest == SubSeq(All, k + 1, N)
           D == 1 .. N - k
<1>0. N \in Nat /\ k \in Nat /\ k <= N
  BY AllInOrder
<1>1. /\ \A x \in Tasks : \E i \in 1 .. N : All[i] = x
      /\ \A i, j \in 1 .. N : i < j <=> Before(All[i], All[j])
      /\ \A i \in 1 .. N : All[i] \in Tasks
      /\ \A i, j \in 1 .. N : i # j => All[i] # All[j]
  BY AllInOrder, OrderPlaces, OrderDef DEF N
<1>2. Behind(Cursor(k)) = S
  <2>1. CASE k = 0
    <3>1. Behind(Cursor(k)) = Tasks
      BY <2>1 DEF Behind, Cursor
    <3>2. S = Tasks
      BY <1>0, <1>1, <2>1
    <3>. QED
      BY <3>1, <3>2
  <2>2. CASE k # 0
    <3>1. Cursor(k) = <<All[k]>> /\ Cursor(k) # NoCursor /\ Last(Cursor(k)) = All[k]
      BY <2>2 DEF Cursor, NoCursor, Last
    <3>2. Behind(Cursor(k)) = {t \in Tasks : Before(All[k], t)}
      BY <3>1 DEF Behind
    <3>3. \A j \in 1 .. N : Before(All[k], All[j]) <=> j \in k + 1 .. N
      BY <1>0, <1>1, <2>2
    <3>4. \A t \in Tasks : Before(All[k], t) <=> t \in S
      <4>1. SUFFICES ASSUME NEW t \in Tasks PROVE Before(All[k], t) <=> t \in S
        OBVIOUS
      <4>2. PICK j \in 1 .. N : All[j] = t
        BY <1>1
      <4>3. t \in S => j \in k + 1 .. N
        BY <1>0, <1>1, <4>2
      <4>. QED
        BY <3>3, <4>2, <4>3
    <3>5. S \subseteq Tasks
      BY <1>0, <1>1
    <3>. QED
      BY <3>2, <3>4, <3>5
  <2>. QED
    BY <2>1, <2>2
<1>3. /\ rest \in Seq(S)
      /\ Len(rest) = N - k
      /\ \A i \in D : rest[i] = All[k + i]
  <2>1. \A i \in k + 1 .. N : All[i] \in S
    OBVIOUS
  <2>2. k \in Nat /\ N \in Int /\ (k < N \/ N - k = 0)
    BY <1>0
  <2>3. /\ rest \in Seq(S)
        /\ Len(rest) = IF k < N THEN N - k ELSE 0
        /\ \A i \in D : rest[i] = All[k + i]
    BY <2>1, <2>2, SubSeqAfter
  <2>4. Len(rest) = N - k
    BY <2>2, <2>3
  <2>. QED
    BY <2>3, <2>4
<1>4. rest \in [D -> S]
  BY <1>3, LenProperties
<1> HIDE DEF rest, S
<1>5. \A i, j \in D : i # j => rest[i] # rest[j]
  BY <1>0, <1>1, <1>3
<1>6. \A x \in S : \E i \in D : rest[i] = x
  <2>1. SUFFICES ASSUME NEW j \in k + 1 .. N PROVE \E i \in D : rest[i] = All[j]
    BY DEF S
  <2>2. j - k \in D /\ k + (j - k) = j
    BY <1>0
  <2>. QED
    BY <1>3, <2>2
<1>7. rest \in Bijection(D, S)
  BY <1>4, <1>5, <1>6, Fun_IsBij
<1>8. Cardinality(S) = N - k
  BY <1>0, <1>7, FS_CountingElements DEF ExistsBijection
<1>9. \A i, j \in D : i < j => ~Before(rest[j], rest[i])
  BY <1>0, <1>1, <1>3
<1>10. rest \in InOrder(S)
  BY <1>4, <1>5, <1>8, <1>9, OrderDef
<1>. QED
  BY <1>2, <1>8, <1>10 DEF rest, S

\* The rows a request selects, and the page that is left of them.
Rows(cursor) == FirstRows(Behind(cursor), PageSize + 1 + 1)
Page(cursor) == IF Len(Rows(cursor)) > PageSize THEN SubSeq(Rows(cursor), 1, PageSize)
                ELSE Rows(cursor)
EndOfPage(k) == IF N - k > PageSize THEN k + PageSize ELSE N

LEMMA PageIsNext ==
    ASSUME NEW k \in 0 .. N
    PROVE  /\ EndOfPage(k) \in k .. N
           /\ k < N => k < EndOfPage(k)
           /\ Page(Cursor(k)) = SubSeq(All, k + 1, EndOfPage(k))
           /\ Len(Rows(Cursor(k))) > PageSize <=> EndOfPage(k) < N
<1> DEFINE S == Behind(Cursor(k))
           rest == SubSeq(All, k + 1, N)
           q == IF N - k < PageSize + 1 + 1 THEN N - k ELSE PageSize + 1 + 1
           m == EndOfPage(k)
<1>0. /\ N \in Nat /\ k \in Nat /\ k <= N
      /\ PageSize \in Nat /\ PageSize > 0
      /\ All \in Seq(Tasks) /\ Len(All) = N
  BY AllInOrder, PageSizeIsPositive
<1>1. S \in SUBSET Tasks /\ rest \in InOrder(S) /\ Cardinality(S) = N - k
  BY BehindCursor DEF Behind
<1>2. rest = CHOOSE rows \in InOrder(S) : TRUE
  BY <1>1, OneOrder
<1>3. Len(rest) = N - k
  BY <1>1, OrderIsSeq
<1>4. Rows(Cursor(k)) = SubSeq(rest, 1, q)
  BY <1>2, <1>3 DEF Rows, FirstRows
<1>5. q \in 0 .. N - k
  BY <1>0
<1>6. Rows(Cursor(k)) = SubSeq(All, k + 1, k + q)
  <2>1. k + 1 \in 1 .. Len(All) + 1 /\ N \in k + 1 - 1 .. Len(All) /\ q \in 0 .. N - (k + 1) + 1
    BY <1>0, <1>5
  <2>2. SubSeq(rest, 1, q) = SubSeq(All, k + 1, k + 1 + q - 1)
    BY <1>0, <2>1, PrefixOfSubSeq
  <2>. QED
    BY <1>0, <1>4, <1>5, <2>2
<1>7. Len(Rows(Cursor(k))) = q
  <2> DEFINE e == k + q
  <2>1. \A i \in k + 1 .. e : All[i] \in Tasks
    BY <1>0, <1>5, AllInOrder
  <2>2. k + 1 \in Int /\ e \in Int
    BY <1>0, <1>5
  <2>3. e - (k + 1) + 1 = q
    BY <1>0, <1>5
  <2>4. k + 1 <= e <=> q # 0
    BY <1>0, <1>5
  <2>5. Rows(Cursor(k)) = SubSeq(All, k + 1, e)
    BY <1>6
  <2> HIDE DEF q, e
  <2>6. Len(SubSeq(All, k + 1, e)) = IF k + 1 <= e THEN e - (k + 1) + 1 ELSE 0
    BY <2>1, <2>2, SubSeqProperties
  <2>. QED
    BY <2>3, <2>4, <2>5, <2>6
<1>8. m \in k .. N /\ (k < N => k < m) /\ (q > PageSize <=> m < N)
  BY <1>0 DEF EndOfPage
<1>9. Page(Cursor(k)) = SubSeq(All, k + 1, m)
  <2>1. CASE q > PageSize
    <3>1. m = k + PageSize
      BY <1>0, <2>1 DEF EndOfPage
    <3>2. /\ k + 1 \in 1 .. Len(All) + 1 /\ k + q \in k + 1 - 1 .. Len(All)
          /\ PageSize \in 0 .. k + q - (k + 1) + 1
      BY <1>0, <1>5, <2>1
    <3>3. SubSeq(SubSeq(All, k + 1, k + q), 1, PageSize) = SubSeq(All, k + 1, k + 1 + PageSize - 1)
      BY <1>0, <3>2, PrefixOfSubSeq
    <3>4. Page(Cursor(k)) = SubSeq(SubSeq(All, k + 1, k + q), 1, PageSize)
      BY <1>6, <1>7, <2>1 DEF Page
    <3>5. k + 1 + PageSize - 1 = k + PageSize
      BY <1>0
    <3>. QED
      BY <3>1, <3>3, <3>4, <3>5
  <2>2. CASE ~(q > PageSize)
    <3>1. k + q = m
      BY <1>0, <2>2 DEF EndOfPage
    <3>. QED
      BY <1>6, <1>7, <2>2, <3>1 DEF Page
  <2>. QED
    BY <2>1, <2>2
<1>. QED
  BY <1>7, <1>8, <1>9

-----------------------------------------------------------------------------
(***************************************************************************)
(* The client has been told the first k tasks, and its cursor is the k-th. *)
(***************************************************************************)
ToldFirst(k) ==
    /\ reader \in [pc : {"job", "page", "summary", "reply"}, job : JobStatus,
                   open : BOOLEAN, more : BOOLEAN,
                   after : {Cursor(k)}, told : {SubSeq(All, 1, k)}]
    /\ reader.pc \in {"job", "page"} => k = 0 \/ k < N
    /\ reader.pc \in {"summary", "reply"} => (reader.more <=> k < N)

Paged == \E k \in 0 .. N : ToldFirst(k)

\* As long as no task has been opened again, a job that is COMPLETED, or is about
\* to be, has no open task.
Finished == \A t \in Tasks : status[t] # Open

JobHolds ==
    /\ \A w \in Workers : txn[w].pc # "begin" => txn[w].assigned \in Ends
    /\ ~reopened =>
         /\ job = "COMPLETED" => Finished
         /\ \A w \in Workers :
              /\ txn[w].pc \in {"count", "commit"} /\ txn[w].found = "COMPLETED" => Finished
              /\ txn[w].pc = "commit" /\ txn[w].writes = "COMPLETED" => NonTerminal(w) = {}

\* And what a transaction has counted is what it commits.
CountExact ==
    \A w \in Workers :
      txn[w].pc = "commit" /\ exhausted = {} /\ ~reopened =>
        txn[w].writes = IF NonTerminal(w) = {} THEN "COMPLETED"
                        ELSE IF txn[w].found = "PENDING" THEN "PROCESSING"
                        ELSE txn[w].found

\* What the client has read of the job is as true of the tasks it reads later.
ReaderHolds ==
    ~reopened /\ reader.pc # "job" /\ reader.job = "COMPLETED" =>
      /\ Finished
      /\ reader.pc \in {"summary", "reply"} => ~reader.open

StatusInv == JobInv /\ reopened \in BOOLEAN /\ Paged /\ JobHolds /\ CountExact
             /\ ReaderHolds

LEMMA PagedTypes ==
    ASSUME NEW k \in 0 .. N
    PROVE  /\ SubSeq(All, 1, k) \in Seq(Tasks)
           /\ Cursor(k) \in {NoCursor} \cup {<<t>> : t \in Tasks}
<1>0. N \in Nat /\ k \in Nat /\ k <= N /\ \A i \in 1 .. N : All[i] \in Tasks
  BY AllInOrder
<1>1. 1 \in Int /\ k \in Int /\ \A i \in 1 .. k : All[i] \in Tasks
  BY <1>0
<1>2. SubSeq(All, 1, k) \in Seq(Tasks)
  BY <1>1, SubSeqProperties
<1>3. Cursor(k) \in {NoCursor} \cup {<<t>> : t \in Tasks}
  BY <1>0 DEF Cursor
<1>. QED
  BY <1>2, <1>3

LEMMA StatusInvTypeOK == StatusInv => StatusTypeOK
<1> SUFFICES ASSUME StatusInv PROVE StatusTypeOK
  OBVIOUS
<1>1. PICK k \in 0 .. N : ToldFirst(k)
  BY DEF StatusInv, Paged
<1>2. /\ SubSeq(All, 1, k) \in Seq(Tasks)
      /\ Cursor(k) \in {NoCursor} \cup {<<t>> : t \in Tasks}
  BY PagedTypes
<1>. QED
  BY <1>1, <1>2 DEF StatusInv, StatusTypeOK, JobInv, ToldFirst

-----------------------------------------------------------------------------
LEMMA NothingTold == 0 \in 0 .. N /\ Cursor(0) = NoCursor /\ SubSeq(All, 1, 0) = <<>>
  BY AllInOrder, SubSeqEmpty DEF Cursor

LEMMA InitPaged == reader = FirstRequest => ToldFirst(0)
  BY NothingTold DEF ToldFirst, FirstRequest, JobStatus

LEMMA InitStatusInv == StatusInit => StatusInv
<1> SUFFICES ASSUME StatusInit PROVE StatusInv
  OBVIOUS
<1>1. JobInv
  BY InitJobInv DEF StatusInit
<1>2. reopened \in BOOLEAN
  BY DEF StatusInit
<1>3. Paged
  BY NothingTold, InitPaged DEF StatusInit, Paged
<1>4. JobHolds /\ CountExact /\ ReaderHolds
  BY DEF StatusInit, Init, JobHolds, CountExact, ReaderHolds, FirstRequest, NoTxn
<1>. QED
  BY <1>1, <1>2, <1>3, <1>4 DEF StatusInv

-----------------------------------------------------------------------------
LEMMA ReadPagePaged ==
    ASSUME NEW k \in 0 .. N, ToldFirst(k), ReadPage
    PROVE  /\ ToldFirst(EndOfPage(k))'
           /\ reader'.open = \E t \in Range(Page(reader.after)) : status[t] = Open
           /\ Range(Page(reader.after)) \subseteq Tasks
<1> DEFINE m == EndOfPage(k)
           page == Page(Cursor(k))
<1>0. /\ N \in Nat /\ k \in Nat /\ k <= N
      /\ All \in Seq(Tasks) /\ Len(All) = N
      /\ \A i \in 1 .. N : All[i] \in Tasks
  BY AllInOrder
<1>1. /\ m \in k .. N
      /\ k < N => k < m
      /\ page = SubSeq(All, k + 1, m)
      /\ Len(Rows(Cursor(k))) > PageSize <=> m < N
  BY PageIsNext
<1>2. reader.after = Cursor(k) /\ reader.told = SubSeq(All, 1, k) /\ (k = 0 \/ k < N)
  BY DEF ToldFirst, ReadPage
<1>3. /\ reader.pc = "page"
      /\ reader' = [reader EXCEPT !.pc = "summary",
                      !.open = \E t \in Range(page) : status[t] = Open,
                      !.more = Len(Rows(Cursor(k))) > PageSize,
                      !.after = IF page = <<>> THEN NoCursor ELSE <<Last(page)>>,
                      !.told = @ \o page]
  BY <1>2 DEF ReadPage, Page, Rows
<1> HIDE DEF m, page
<1>4. /\ page \in Seq(Tasks)
      /\ Len(page) = IF k < m THEN m - k ELSE 0
      /\ \A i \in 1 .. m - k : page[i] = All[k + i]
  <2>1. m \in Int /\ \A i \in k + 1 .. m : All[i] \in Tasks
    BY <1>0, <1>1
  <2>. QED
    BY <1>0, <1>1, <2>1, SubSeqAfter
<1>5. reader.told \o page = SubSeq(All, 1, m)
  <2>1. 1 \in 1 .. Len(All) + 1 /\ k \in 1 - 1 .. Len(All) /\ m \in k .. Len(All)
    BY <1>0, <1>1
  <2>. QED
    BY <1>0, <1>1, <1>2, <2>1, ConcatAdjacentSubSeq
<1>6. (IF page = <<>> THEN NoCursor ELSE <<Last(page)>>) = Cursor(m)
  <2>1. CASE k < m
    <3>0. Len(page) = m - k /\ m - k \in 1 .. m - k /\ Len(page) # 0
      BY <1>0, <1>1, <1>4, <2>1
    <3>1. page # <<>> /\ Len(page) = m - k /\ m - k \in 1 .. m - k
      BY <1>4, <3>0, EmptySeq
    <3>2. Last(page) = All[m]
      BY <1>0, <1>1, <1>4, <3>1 DEF Last
    <3>3. m # 0
      BY <1>0, <1>1, <2>1
    <3>. QED
      BY <3>1, <3>2, <3>3 DEF Cursor
  <2>2. CASE ~(k < m)
    <3>1. m = 0 /\ page = <<>>
      BY <1>0, <1>1, <1>2, <1>4, <2>2, EmptySeq
    <3>. QED
      BY <3>1 DEF Cursor
  <2>. QED
    BY <2>1, <2>2
<1>7. PICK open \in BOOLEAN, more \in BOOLEAN :
        /\ open = \E t \in Range(page) : status[t] = Open
        /\ more = (m < N)
        /\ reader' = [reader EXCEPT !.pc = "summary", !.open = open, !.more = more,
                        !.after = Cursor(m), !.told = SubSeq(All, 1, m)]
  <2> DEFINE open == \E t \in Range(page) : status[t] = Open
             more == m < N
  <2>1. open \in BOOLEAN /\ more \in BOOLEAN
    OBVIOUS
  <2>2. (Len(Rows(Cursor(k))) > PageSize) = more
    BY <1>1
  <2>3. reader' = [reader EXCEPT !.pc = "summary", !.open = open, !.more = more,
                    !.after = Cursor(m), !.told = SubSeq(All, 1, m)]
    BY <1>3, <1>5, <1>6, <2>2, Zenon
  <2>. QED
    BY <2>1, <2>3, Zenon
<1>8. ToldFirst(m)' /\ reader'.open = open
  BY <1>7 DEF ToldFirst
<1>9. Range(page) \subseteq Tasks
  BY <1>4 DEF Range
<1>. QED
  BY <1>2, <1>7, <1>8, <1>9 DEF m, page

LEMMA StepPaged == StatusInv /\ [StatusNext]_statusVars => Paged'
<1> SUFFICES ASSUME StatusInv, [StatusNext]_statusVars PROVE Paged'
  OBVIOUS
<1>1. PICK k \in 0 .. N : ToldFirst(k)
  BY DEF StatusInv, Paged
<1>2. CASE ReadJob
  <2>1. ToldFirst(k)'
    BY <1>1, <1>2 DEF ToldFirst, ReadJob, StatusInv, JobInv, TypeOK
  <2>. QED
    BY <2>1 DEF Paged
<1>3. CASE ReadPage
  <2>1. EndOfPage(k) \in 0 .. N
    BY PageIsNext, AllInOrder
  <2>2. ToldFirst(EndOfPage(k))'
    BY <1>1, <1>3, ReadPagePaged
  <2>. QED
    BY <2>1, <2>2 DEF Paged
<1>4. CASE ReadSummary
  <2>1. PICK open \in BOOLEAN : reader' = [reader EXCEPT !.pc = "reply", !.open = open]
    BY <1>4, Zenon DEF ReadSummary
  <2>2. ToldFirst(k)'
    BY <1>1, <1>4, <2>1 DEF ToldFirst, ReadSummary
  <2>. QED
    BY <2>2 DEF Paged
<1>5. CASE NextRequest
  <2>1. CASE reader.more
    <3>1. ToldFirst(k)'
      BY <1>1, <1>5, <2>1 DEF ToldFirst, NextRequest, FirstRequest, JobStatus
    <3>. QED
      BY <3>1 DEF Paged
  <2>2. CASE ~reader.more
    <3>1. ToldFirst(0)'
      BY <1>5, <2>2, NothingTold DEF ToldFirst, NextRequest, FirstRequest, JobStatus
    <3>. QED
      BY <3>1, NothingTold DEF Paged
  <2>. QED
    BY <2>1, <2>2
<1>6. CASE UNCHANGED reader
  BY <1>1, <1>6 DEF Paged, ToldFirst
<1>. QED
  BY <1>2, <1>3, <1>4, <1>5, <1>6 DEF StatusNext, Reading, Working, statusVars, readerVars

-----------------------------------------------------------------------------
\* Every step is a step of JobCompletion, or leaves its variables alone.
LEMMA StatusNextImpliesNext == [StatusNext]_statusVars => [Next]_vars
  BY DEF StatusNext, Reading, Working, statusVars

LEMMA FinishedStays == Finished /\ Working /\ ~reopened' => Finished'
  BY DEF Finished, Working

LEMMA StepJobHolds == StatusInv /\ [StatusNext]_statusVars => JobHolds'
<1> SUFFICES ASSUME StatusInv, [StatusNext]_statusVars PROVE JobHolds'
  OBVIOUS
<1>1. CASE UNCHANGED <<vars, reopened>>
  BY <1>1 DEF StatusInv, JobHolds, Finished, NonTerminal, Version, vars
<1>2. CASE Working
  <2> USE NobodyAssumption DEF StatusInv, JobInv, TypeOK, Txn, LocksHeld, JobHolds, NoTxn
  <2>0. Finished /\ ~reopened' => Finished'
    BY <1>2, FinishedStays
  <2>1. reopened \in BOOLEAN /\ (~reopened' => ~reopened)
    BY <1>2 DEF Working
  <2>2. ASSUME NEW w \in Workers, NEW t \in Tasks, NEW s \in Ends, SelectTask(w, t, s)
        PROVE  JobHolds'
    BY <2>0, <2>1, <2>2 DEF SelectTask, NonTerminal, Version, Finished
  <2>3. ASSUME NEW w \in Workers, FlushTask(w) PROVE JobHolds'
    BY <2>0, <2>1, <2>3 DEF FlushTask, NonTerminal, Version, Finished
  <2>4. ASSUME NEW w \in Workers, LockJob(w) PROVE JobHolds'
    BY <2>0, <2>1, <2>4 DEF LockJob, NonTerminal, Version, Finished
  <2>5. ASSUME NEW w \in Workers, CountOpen(w) PROVE JobHolds'
    <3>1. Finished => NonTerminal(w) = {}
      BY <2>5 DEF CountOpen, Finished, NonTerminal, Version, Ends, Open
    <3>2. \A v \in Workers : NonTerminal(v)' = NonTerminal(v)
      BY <2>5 DEF CountOpen, NonTerminal, Version
    <3>3. \A v \in Workers : v # w => txn'[v] = txn[v]
      BY <2>5 DEF CountOpen
    <3>4. /\ txn[w].pc = "count" /\ UNCHANGED <<status, job>>
          /\ txn'[w].assigned = txn[w].assigned /\ txn'[w].found = txn[w].found
      BY <2>5 DEF CountOpen
    <3>5. txn'[w].writes = "COMPLETED" => NonTerminal(w) = {} \/ txn[w].found = "COMPLETED"
      BY <2>5 DEF CountOpen
    <3>6. Finished' <=> Finished
      BY <3>4 DEF Finished
    <3>. QED
      BY <2>1, <3>1, <3>2, <3>3, <3>4, <3>5, <3>6
  <2>6. ASSUME NEW w \in Workers, Commit(w) PROVE JobHolds'
    <3>1. jobLock = w /\ \A v \in Workers : v # w => txn[v].pc \notin {"count", "commit"}
      BY <2>6 DEF Commit
    <3>2. /\ txn'[w] = NoTxn
          /\ \A v \in Workers : v # w => txn'[v] = txn[v]
      BY <2>6 DEF Commit, Unlocked
    <3>3. \A v \in Workers : /\ txn'[v].pc \notin {"count", "commit"}
                             /\ txn'[v].pc # "begin" => txn'[v].assigned \in Ends
      BY <3>1, <3>2
    <3>4. job' = "COMPLETED" => job = "COMPLETED" \/ txn[w].writes = "COMPLETED"
      BY <2>6 DEF Commit
    <3>5. NonTerminal(w) = {} => Finished'
      BY <2>6 DEF Commit, NonTerminal, Finished
    <3>. QED
      BY <2>0, <2>1, <2>6, <3>3, <3>4, <3>5 DEF Commit
  <2>7. ASSUME NEW w \in Workers, Rollback(w) PROVE JobHolds'
    BY <2>0, <2>1, <2>7 DEF Rollback, Unlocked, NonTerminal, Version, Finished
  <2>8. ASSUME NEW t \in Tasks, RecoveryFails(t) PROVE JobHolds'
    <3>1. \A w \in Workers : NonTerminal(w)' \subseteq NonTerminal(w)
      BY <2>8 DEF RecoveryFails, NonTerminal, Version, Open
    <3>. QED
      BY <2>0, <2>1, <2>8, <3>1 DEF RecoveryFails
  <2>9. ASSUME NEW t \in Tasks, Reopen(t) PROVE JobHolds'
    <3>1. reopened'
      BY <1>2, <2>9 DEF Working, Reopen
    <3>. QED
      BY <2>9, <3>1 DEF Reopen
  <2>. QED
    BY <1>2, <2>2, <2>3, <2>4, <2>5, <2>6, <2>7, <2>8, <2>9 DEF Working, Next, Statement
<1>. QED
  BY <1>1, <1>2 DEF StatusNext, Reading, statusVars, readerVars

LEMMA StepCountExact == StatusInv /\ [StatusNext]_statusVars => CountExact'
<1> SUFFICES ASSUME StatusInv, [StatusNext]_statusVars PROVE CountExact'
  OBVIOUS
<1>1. CASE UNCHANGED <<vars, reopened>>
  BY <1>1 DEF StatusInv, CountExact, NonTerminal, Version, vars
<1>2. CASE Working
  <2> USE NobodyAssumption DEF StatusInv, JobInv, TypeOK, Txn, LocksHeld, CountExact, NoTxn
  <2>1. reopened \in BOOLEAN /\ (~reopened' => ~reopened)
    BY <1>2 DEF Working
  <2>2. ASSUME NEW w \in Workers, NEW t \in Tasks, NEW s \in Ends, SelectTask(w, t, s)
        PROVE  CountExact'
    BY <2>1, <2>2 DEF SelectTask, NonTerminal, Version
  <2>3. ASSUME NEW w \in Workers, FlushTask(w) PROVE CountExact'
    BY <2>1, <2>3 DEF FlushTask, NonTerminal, Version
  <2>4. ASSUME NEW w \in Workers, LockJob(w) PROVE CountExact'
    BY <2>1, <2>4 DEF LockJob, NonTerminal, Version
  <2>5. ASSUME NEW w \in Workers, CountOpen(w) PROVE CountExact'
    <3>1. \A v \in Workers : NonTerminal(v)' = NonTerminal(v)
      BY <2>5 DEF CountOpen, NonTerminal, Version
    <3>2. \A v \in Workers : v # w => txn'[v] = txn[v]
      BY <2>5 DEF CountOpen
    <3>3. /\ txn'[w].found = txn[w].found
          /\ txn'[w].writes = IF NonTerminal(w) = {} THEN "COMPLETED"
                              ELSE IF txn[w].found = "PENDING" THEN "PROCESSING"
                              ELSE txn[w].found
      BY <2>5 DEF CountOpen
    <3>. QED
      BY <2>1, <2>5, <3>1, <3>2, <3>3 DEF CountOpen
  <2>6. ASSUME NEW w \in Workers, Commit(w) PROVE CountExact'
    <3>1. jobLock = w /\ \A v \in Workers : v # w => txn[v].pc \notin {"count", "commit"}
      BY <2>6 DEF Commit
    <3>2. \A v \in Workers : txn'[v].pc # "commit"
      BY <2>6, <3>1 DEF Commit, Unlocked
    <3>. QED
      BY <3>2
  <2>7. ASSUME NEW w \in Workers, Rollback(w) PROVE CountExact'
    BY <2>1, <2>7 DEF Rollback, Unlocked, NonTerminal, Version
  <2>8. ASSUME NEW t \in Tasks, RecoveryFails(t) PROVE CountExact'
    BY <2>8 DEF RecoveryFails
  <2>9. ASSUME NEW t \in Tasks, Reopen(t) PROVE CountExact'
    <3>1. reopened'
      BY <1>2, <2>9 DEF Working, Reopen
    <3>. QED
      BY <3>1
  <2>. QED
    BY <1>2, <2>2, <2>3, <2>4, <2>5, <2>6, <2>7, <2>8, <2>9 DEF Working, Next, Statement
<1>. QED
  BY <1>1, <1>2 DEF StatusNext, Reading, statusVars, readerVars

LEMMA StepReaderHolds == StatusInv /\ [StatusNext]_statusVars => ReaderHolds'
<1> SUFFICES ASSUME StatusInv, [StatusNext]_statusVars PROVE ReaderHolds'
  OBVIOUS
<1> USE DEF StatusInv, ReaderHolds
<1>0. PICK k \in 0 .. N : ToldFirst(k)
  BY DEF Paged
<1>1. CASE Reading
  <2>1. UNCHANGED <<status, job, reopened>> /\ (Finished' <=> Finished)
    BY <1>1 DEF Reading, vars, Finished
  <2>2. CASE ReadJob
    BY <1>0, <2>1, <2>2 DEF ReadJob, JobHolds, ToldFirst
  <2>3. CASE ReadPage
    <3>1. /\ reader'.open = \E t \in Range(Page(reader.after)) : status[t] = Open
          /\ Range(Page(reader.after)) \subseteq Tasks
      BY <1>0, <2>3, ReadPagePaged
    <3>2. Finished => ~reader'.open
      BY <3>1 DEF Finished
    <3>3. reader'.job = reader.job /\ reader.pc = "page"
      BY <1>0, <2>3 DEF ReadPage, ToldFirst
    <3>. QED
      BY <2>1, <3>2, <3>3
  <2>4. CASE ReadSummary
    <3>1. PICK open \in BOOLEAN :
            /\ open <=> reader.open \/ \E t \in Tasks : status[t] = Open
            /\ reader' = [reader EXCEPT !.pc = "reply", !.open = open]
      BY <2>4, Zenon DEF ReadSummary
    <3>2. reader'.job = reader.job /\ reader'.open = open /\ reader.pc = "summary"
      BY <1>0, <2>4, <3>1 DEF ReadSummary, ToldFirst
    <3>. QED
      BY <2>1, <3>1, <3>2 DEF Finished
  <2>5. CASE NextRequest
    <3>1. reader'.pc = "job"
      BY <2>5 DEF NextRequest, FirstRequest
    <3>. QED
      BY <3>1
  <2>. QED
    BY <1>1, <2>2, <2>3, <2>4, <2>5 DEF Reading
<1>2. CASE Working
  BY <1>2, FinishedStays DEF Working
<1>3. CASE UNCHANGED statusVars
  BY <1>3 DEF statusVars, readerVars, vars, Finished
<1>. QED
  BY <1>1, <1>2, <1>3 DEF StatusNext

LEMMA StepStatusInv == StatusInv /\ [StatusNext]_statusVars => StatusInv'
<1> SUFFICES ASSUME StatusInv, [StatusNext]_statusVars PROVE StatusInv'
  OBVIOUS
<1>1. JobInv'
  BY StatusNextImpliesNext, StepJobInv DEF StatusInv
<1>2. reopened' \in BOOLEAN
  BY DEF StatusInv, StatusNext, Reading, Working, statusVars, readerVars
<1>. QED
  BY <1>1, <1>2, StepPaged, StepJobHolds, StepCountExact, StepReaderHolds
     DEF StatusInv

LEMMA StatusInvariant == StatusSpec => []StatusInv
  BY InitStatusInv, StepStatusInv, PTL DEF StatusSpec

\* The reader, its cursor and the tasks it has been told keep to their types.
THEOREM StatusTypeCorrect == StatusSpec => []StatusTypeOK
  BY StatusInvariant, StatusInvTypeOK, PTL

\* get_by_job_id_paginated, for any tasks and size of a page: whoever follows the
\* cursor to the end is told every task once, in the order of (created_at, id).
THEOREM PagesTellAll == StatusSpec => []EveryTaskOnOnePage
<1>1. StatusInv => EveryTaskOnOnePage
  <2> SUFFICES ASSUME StatusInv, reader.pc = "reply", ~reader.more
               PROVE  reader.told \in InOrder(Tasks)
    BY DEF EveryTaskOnOnePage
  <2>1. PICK k \in 0 .. N : ToldFirst(k)
    BY DEF StatusInv, Paged
  <2>2. k = N
    BY <2>1, AllInOrder DEF ToldFirst
  <2>3. reader.told = SubSeq(All, 1, Len(All))
    BY <2>1, <2>2, AllInOrder DEF ToldFirst
  <2>. QED
    BY <2>3, AllInOrder, SubSeqFull
<1>. QED
  BY <1>1, StatusInvariant, PTL

\* get_job selects the job first: a reply that calls it COMPLETED shows no open
\* task, whatever the workers commit between its statements.
THEOREM ReportIsTrue == StatusSpec => []ReportedCompletion
<1>1. StatusInv => ReportedCompletion
  BY DEF StatusInv, ReaderHolds, ReportedCompletion
<1>. QED
  BY <1>1, StatusInvariant, PTL

\* A client that polls a job does nothing to it: with readers, the job's rows
\* behave as JobCompletion says.
THEOREM StatusImplementsCompletion == StatusSpec => Spec
<1>1. StatusInit => Init
  BY DEF StatusInit
<1>. QED
  BY <1>1, StatusNextImpliesNext, PTL DEF StatusSpec, Spec

\* So of the workers that end the last tasks of a polled job one completes it,
\* and the job stays COMPLETED.
THEOREM PolledCompletion == StatusSpec => []NoMissedCompletion /\ CompletedIsFinal
  BY StatusImplementsCompletion, CompletionNotMissed, CompletedStays, PTL

\* _check_and_update_job_status counts under the lock of the job's row, and what
\* ends a task does not open it: a COMPLETED job has an open task only after a
\* reschedule of a worker that had selected the task before another ended it.
THEOREM CompletedUntilReopened ==
    StatusSpec => [](job = "COMPLETED" /\ ~reopened => \A t \in Tasks : status[t] # Open)
<1>1. StatusInv => (job = "COMPLETED" /\ ~reopened => \A t \in Tasks : status[t] # Open)
  BY DEF StatusInv, JobHolds, Finished
<1>. QED
  BY <1>1, StatusInvariant, PTL

\* The row lock of _check_and_update_job_status makes the evaluation as good as one
\* step with the UPDATE of the task, for any tasks and workers: what was counted
\* some statements earlier is what the tasks are at the commit.
THEOREM EvaluationIsAtomic == StatusSpec => EvaluatedAtOnce
<1>1. StatusInv /\ [StatusNext]_statusVars =>
        [(status' # status \/ job' # job) /\ exhausted' = {} /\ ~reopened'
           => job' = Evaluated(status', job)]_statusVars
  <2> SUFFICES ASSUME StatusInv, StatusNext, status' # status \/ job' # job,
                      exhausted' = {}, ~reopened'
               PROVE  job' = Evaluated(status', job)
    OBVIOUS
  <2>1. Working /\ Next /\ ~reopened
    BY DEF StatusNext, Reading, Working, vars, StatusInv
  <2>2. PICK w \in Workers : Commit(w)
    <3>1. ASSUME NEW t \in Tasks, RecoveryFails(t) PROVE FALSE
      BY <3>1 DEF RecoveryFails, StatusInv, JobInv, TypeOK
    <3>2. ASSUME NEW t \in Tasks, Reopen(t) PROVE FALSE
      BY <2>1, <3>2 DEF Reopen, Working, StatusInv, JobInv, TypeOK
    <3>. QED
      BY <2>1, <3>1, <3>2
         DEF Next, Statement, SelectTask, FlushTask, LockJob, CountOpen, Rollback
  <2>3. /\ txn[w].pc = "commit" /\ exhausted = {} /\ jobLock = w
        /\ status' = [t \in Tasks |-> Version(w, t)]
        /\ job' = IF txn[w].writes # txn[w].found THEN txn[w].writes ELSE job
    BY <2>2 DEF Commit, StatusInv, JobInv, LocksHeld
  <2>4. /\ txn[w].found = job
        /\ txn[w].writes = IF NonTerminal(w) = {} THEN "COMPLETED"
                           ELSE IF txn[w].found = "PENDING" THEN "PROCESSING"
                           ELSE txn[w].found
    BY <2>1, <2>3 DEF StatusInv, JobInv, CountHolds, CountExact
  <2>5. NonTerminal(w) = {} <=> \A t \in Tasks : status'[t] # Open
    BY <2>3 DEF NonTerminal
  <2>. QED
    BY <2>3, <2>4, <2>5 DEF Evaluated
<1>. QED
  BY <1>1, StatusInvariant, PTL DEF StatusSpec, EvaluatedAtOnce

=============================================================================
