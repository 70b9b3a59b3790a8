---------------------------- MODULE LinkedListProofs ----------------------------
(***************************************************************************)
(* Proofs about LinkedList, for quests of any number of steps, whatever    *)
(* their sort numbers and the order they come from the database in.        *)
(***************************************************************************)
EXTENDS LinkedList, FiniteSetTheorems, TLAPS

LEMMA SortedFacts ==
  ASSUME NEW S \in SUBSET Sort, NEW s \in Sorted(S)
  PROVE  /\ Len(s) \in Nat /\ s \in [1..Len(s) -> S] /\ s \in Seq(S)
         /\ \A j, k \in 1..Len(s) : j < k => s[j] < s[k]
         /\ \A j, k \in 1..Len(s) : s[j] = s[k] => j = k
         /\ \A j \in 1..Len(s) : s[j] \in Int /\ s[j] \in Sort /\ s[j] # None
         /\ S = {s[j] : j \in 1..Len(s)}
<1>1. IsFiniteSet(S) /\ Cardinality(S) \in Nat
  BY FS_Subset, FS_CardinalityType, SortAssumption
<1> DEFINE D == 1..Cardinality(S)
<1>2. /\ s \in SetToSeqs(S)
      /\ \A j, k \in DOMAIN s : j < k => s[j] < s[k]
  BY DEF Sorted
<1>3. s \in [D -> S] /\ \A j, k \in D : j # k => s[j] # s[k]
  BY <1>2 DEF SetToSeqs
<1>4. s \in Seq(S) /\ Len(s) = Cardinality(S)
  BY <1>1, <1>3
<1>5. s \in Injection(D, S)
  BY <1>3 DEF Injection, IsInjective
<1>6. Cardinality(D) = Cardinality(S)
  BY <1>1, FS_Interval
<1>7. s \in Surjection(D, S)
  BY <1>1, <1>5, <1>6, FS_Injection
<1>8. \A q \in S : \E j \in D : s[j] = q
  BY <1>7 DEF Surjection
<1>9. S = {s[j] : j \in D}
  BY <1>3, <1>8
<1> QED
  BY <1>1, <1>2, <1>3, <1>4, <1>9, SortAssumption

(***************************************************************************)
(* A set of sort numbers has an order sort.Slice can leave the steps in.   *)
(***************************************************************************)
LEMMA SortedExists ==
  ASSUME NEW S \in SUBSET Sort
  PROVE  Sorted(S) # {}
<1>1. IsFiniteSet(S) /\ Cardinality(S) \in Nat /\ \A x \in S : x \in Int
  BY FS_Subset, FS_CardinalityType, SortAssumption
<1>2. PICK n \in Nat : n = Cardinality(S)
  BY <1>1
<1> DEFINE Below(x) == {y \in S : y < x}
<1> DEFINE r == [x \in S |-> Cardinality(Below(x)) + 1]
<1>3. ASSUME NEW x \in S
      PROVE  IsFiniteSet(Below(x)) /\ Cardinality(Below(x)) \in 0..(n - 1)
  <2>1. Below(x) \in SUBSET S /\ x \notin Below(x) /\ Below(x) # S
    BY <1>1
  <2>2. IsFiniteSet(Below(x)) /\ Cardinality(Below(x)) \in Nat
    BY <1>1, <2>1, FS_Subset, FS_CardinalityType
  <2>3. Cardinality(Below(x)) <= n /\ Cardinality(Below(x)) # n
    BY <1>1, <1>2, <2>1, FS_Subset
  <2> QED
    BY <2>2, <2>3
<1>4. ASSUME NEW x \in S, NEW y \in S, x < y
      PROVE  r[x] < r[y]
  <2>1. Below(x) \in SUBSET Below(y) /\ Below(x) # Below(y)
    <3>1. \A z \in S : z < x => z < y
      BY <1>1, <1>4
    <3>2. x \in Below(y) /\ x \notin Below(x)
      BY <1>1, <1>4
    <3> QED
      BY <3>1, <3>2
  <2>2. /\ IsFiniteSet(Below(x)) /\ Cardinality(Below(x)) \in 0..(n - 1)
        /\ IsFiniteSet(Below(y)) /\ Cardinality(Below(y)) \in 0..(n - 1)
    BY <1>3
  <2> HIDE DEF Below
  <2>3. /\ Cardinality(Below(x)) <= Cardinality(Below(y))
        /\ Cardinality(Below(x)) # Cardinality(Below(y))
    BY <2>1, <2>2, FS_Subset
  <2> QED
    BY <2>2, <2>3
<1>5. r \in [S -> 1..n]
  <2> HIDE DEF Below
  <2> QED
    BY <1>3
<1>6. \A x, y \in S : r[x] = r[y] => x = y
  <2> HIDE DEF r
  <2>1. \A x, y \in S : x = y \/ x < y \/ y < x
    BY <1>1
  <2> QED
    BY <1>4, <1>5, <2>1
<1> HIDE DEF r
<1>7. r \in Surjection(S, 1..n)
  <2>1. r \in Injection(S, 1..n)
    BY <1>5, <1>6 DEF Injection, IsInjective
  <2>2. IsFiniteSet(1..n) /\ Cardinality(1..n) = n
    BY FS_Interval
  <2> QED
    BY <1>1, <1>2, <2>1, <2>2, FS_Injection
<1>8. \A j \in 1..n : \E x \in S : r[x] = j
  BY <1>7 DEF Surjection
<1> DEFINE s == [j \in 1..n |-> CHOOSE x \in S : r[x] = j]
<1>9. \A j \in 1..n : s[j] \in S /\ r[s[j]] = j
  BY <1>8
<1>10. s \in [1..n -> S] /\ DOMAIN s = 1..n
  BY <1>9
<1> HIDE DEF s
<1>11. \A j, k \in 1..n : j # k => s[j] # s[k]
  BY <1>9
<1>12. \A j, k \in 1..n : j < k => s[j] < s[k]
  <2> TAKE j, k \in 1..n
  <2> HAVE j < k
  <2>1. s[j] < s[k] \/ s[j] = s[k] \/ s[k] < s[j]
    BY <1>1, <1>9
  <2>2. ~(s[k] < s[j])
    BY <1>4, <1>9
  <2> QED
    BY <1>9, <2>1, <2>2
<1>13. s \in SetToSeqs(S)
  BY <1>2, <1>10, <1>11 DEF SetToSeqs
<1>14. s \in Sorted(S)
  BY <1>10, <1>12, <1>13 DEF Sorted
<1> QED
  BY <1>14

\* The line at any time: of the steps in their order s, the first a are the
\* previous questions, the list goes on to the b-th, and the rest is to come.
Between(s, a, b) == {s[j] : j \in (a + 1)..b}

PartsOK(s, a, b) ==
  /\ previous \in Seq(Sort) /\ Len(previous) = a
  /\ \A j \in 1..a : previous[j] = s[j]
  /\ head = IF a = b THEN None ELSE s[a + 1]
  /\ \A j \in (a + 1)..Len(s) : next[s[j]] = IF j < b THEN s[j + 1] ELSE None

LoopOK(s, a, b) ==
  pc \in {"loop", "insert"} =>
    /\ rows \in Seq(Sort) /\ Len(rows) = Len(s) - b
    /\ \A j \in 1..(Len(s) - b) : rows[j] = s[b + j]
    /\ len = b - a
    /\ \A j \in 1..a : s[j] < current
    /\ \A j \in (a + 1)..b : s[j] >= current

InsertOK(s, a, b) ==
  pc = "insert" =>
    a < b /\ b < Len(s) /\ s[b + 1] >= current
    /\ i \in 0..(b - a - 1) /\ ptr = s[a + 1 + i]

BuiltOK(s, a, b) ==
  pc = "built" =>
    /\ b = Len(s)
    /\ ql \in [status : Statuses, prev : SUBSET Sort, list : SUBSET Sort,
               success : {"none"}, rewards : {None}]
    /\ ql.prev = Between(s, 0, a) /\ ql.list = Between(s, a, b)

LineOK(s, a, b) ==
  PartsOK(s, a, b) /\ LoopOK(s, a, b) /\ InsertOK(s, a, b) /\ BuiltOK(s, a, b)

ListInv ==
  /\ input \in SUBSET Sort /\ input # {}
  /\ pc \in {"sort", "loop", "insert", "built"}
  /\ next \in [Sort -> Sort \cup {None}]
  /\ current \in Int \cup {None} /\ (pc # "sort" => current \in Int)
  /\ pc = "sort" => /\ previous = << >> /\ head = None /\ len = 0
                    /\ next = [n \in Sort |-> None]
  /\ pc # "sort" =>
       \E s \in Sorted(input) : \E a, b \in 0..Len(s) : a <= b /\ LineOK(s, a, b)

\* The first of the steps that are left is the head.
LEMMA FirstLeft ==
  ASSUME NEW S \in SUBSET Sort, NEW s \in Sorted(S),
         NEW a \in 0..Len(s), NEW b \in 0..Len(s)
  PROVE  /\ Between(s, a, b) = {} <=> b <= a
         /\ a < b => Least(Between(s, a, b)) = s[a + 1]
         /\ a < b => (Between(s, a, b) = {s[a + 1]} <=> b = a + 1)
         /\ a < b => /\ Between(s, a, b) \ {s[a + 1]} = Between(s, a + 1, b)
                     /\ Between(s, 0, a) \cup {s[a + 1]} = Between(s, 0, a + 1)
<1>1. /\ Len(s) \in Nat /\ \A j, k \in 1..Len(s) : j < k => s[j] < s[k]
      /\ \A j, k \in 1..Len(s) : s[j] = s[k] => j = k
      /\ \A j \in 1..Len(s) : s[j] \in Int
  BY SortedFacts
<1>2. Between(s, a, b) = {} <=> b <= a
  <2>1. ASSUME a < b  PROVE  s[a + 1] \in Between(s, a, b)
    BY <1>1, <2>1 DEF Between
  <2>2. ASSUME b <= a  PROVE  Between(s, a, b) = {}
    <3>1. \A j : j \notin (a + 1)..b
      BY <1>1, <2>2
    <3> QED
      BY <3>1 DEF Between
  <2>3. a < b \/ b <= a
    BY <1>1
  <2>4. ~(a < b /\ b <= a)
    BY <1>1
  <2> QED
    BY <2>1, <2>2, <2>3, <2>4
<1>3. ASSUME a < b  PROVE  Least(Between(s, a, b)) = s[a + 1]
  <2>1. s[a + 1] \in Between(s, a, b)
    BY <1>1, <1>3 DEF Between
  <2>2. \A j \in (a + 1)..b : s[a + 1] <= s[j]
    <3> TAKE j \in (a + 1)..b
    <3>1. j = a + 1 \/ a + 1 < j
      BY <1>1
    <3>2. j \in 1..Len(s) /\ a + 1 \in 1..Len(s)
      BY <1>1, <1>3
    <3> QED
      BY <1>1, <3>1, <3>2
  <2>3. \A n \in Between(s, a, b) : n \in Int /\ s[a + 1] <= n
    BY <1>1, <2>2 DEF Between
  <2>4. \A n \in Between(s, a, b) :
          (\A m \in Between(s, a, b) : n <= m) => n = s[a + 1]
    <3> TAKE n \in Between(s, a, b)
    <3> HAVE \A m \in Between(s, a, b) : n <= m
    <3>1. n <= s[a + 1] /\ s[a + 1] <= n /\ n \in Int /\ s[a + 1] \in Int
      BY <2>1, <2>3
    <3> QED
      BY <3>1
  <2> QED
    BY <2>1, <2>3, <2>4 DEF Least
<1>4. ASSUME a < b  PROVE  Between(s, a, b) = {s[a + 1]} <=> b = a + 1
  <2>1. ASSUME b = a + 1  PROVE  Between(s, a, b) = {s[a + 1]}
    <3>1. \A j : j \in (a + 1)..b <=> j = a + 1
      BY <1>1, <2>1
    <3> QED
      BY <3>1 DEF Between
  <2>2. ASSUME b # a + 1  PROVE  Between(s, a, b) # {s[a + 1]}
    <3>1. a + 2 \in (a + 1)..b /\ a + 2 \in 1..Len(s) /\ a + 1 \in 1..Len(s)
      BY <1>1, <1>4, <2>2
    <3>2. s[a + 2] \in Between(s, a, b) /\ s[a + 2] # s[a + 1]
      BY <1>1, <3>1 DEF Between
    <3> QED
      BY <3>2
  <2> QED
    BY <2>1, <2>2
<1>5. ASSUME a < b
      PROVE  /\ Between(s, a, b) \ {s[a + 1]} = Between(s, a + 1, b)
             /\ Between(s, 0, a) \cup {s[a + 1]} = Between(s, 0, a + 1)
  <2>1. \A j \in (a + 1)..b : s[j] = s[a + 1] <=> j = a + 1
    BY <1>1, <1>5
  <2>2. \A j : j \in ((a + 1) + 1)..b <=> j \in (a + 1)..b /\ j # a + 1
    BY <1>1
  <2>3. Between(s, a, b) \ {s[a + 1]} = Between(s, a + 1, b)
    BY <2>1, <2>2 DEF Between
  <2>4. \A j : j \in (0 + 1)..(a + 1) <=> j \in (0 + 1)..a \/ j = a + 1
    BY <1>1
  <2>5. Between(s, 0, a) \cup {s[a + 1]} = Between(s, 0, a + 1)
    BY <2>4 DEF Between
  <2> QED
    BY <2>3, <2>5
<1> QED
  BY <1>2, <1>3, <1>4, <1>5
--------------------------------------------------------------------------------
(* The steps of NewQuestLine, Insert and Next.                             *)

LEMMA SortSliceKeeps ==
  ASSUME ListInv, SortSlice
  PROVE  ListInv'
<1>1. /\ pc = "sort" /\ pc' = "loop"
      /\ UNCHANGED <<input, previous, head, next, len, ptr, i, ql>>
  BY DEF SortSlice
<1>2. PICK s \in Sorted(input) : rows' = s
  BY DEF SortSlice
<1>3. /\ Len(s) \in Nat /\ s \in [1..Len(s) -> input] /\ s \in Seq(input)
      /\ input = {s[j] : j \in 1..Len(s)}
      /\ \A j \in 1..Len(s) : s[j] \in Int /\ s[j] \in Sort
  BY SortedFacts DEF ListInv
<1>4. 1 \in 1..Len(s)
  <2>1. PICK j \in 1..Len(s) : TRUE
    BY <1>3 DEF ListInv
  <2> QED
    BY <1>3, <2>1
<1>5. current' \in Int
  BY <1>2, <1>3, <1>4 DEF SortSlice, ListInv
<1>6. PartsOK(s, 0, 0)'
  BY <1>1, <1>3 DEF ListInv, PartsOK
<1>7. LoopOK(s, 0, 0)'
  <2>1. rows' \in Seq(Sort) /\ Len(rows') = Len(s) /\ \A j \in 1..Len(s) : rows'[j] = s[j]
    BY <1>2, <1>3 DEF ListInv
  <2> QED
    BY <1>1, <1>3, <2>1 DEF ListInv, LoopOK
<1>8. InsertOK(s, 0, 0)' /\ BuiltOK(s, 0, 0)'
  BY <1>1 DEF InsertOK, BuiltOK
<1>9. LineOK(s, 0, 0)' /\ 0 \in 0..Len(s) /\ 0 <= 0
  BY <1>3, <1>6, <1>7, <1>8 DEF LineOK
<1> QED
  BY <1>1, <1>5, <1>9 DEF ListInv

\* What the loop and Insert start from.
LEMMA Started ==
  ASSUME ListInv, pc # "sort"
  PROVE  \E s \in Sorted(input) : \E a, b \in 0..Len(s) :
           /\ a <= b /\ PartsOK(s, a, b) /\ LoopOK(s, a, b)
           /\ InsertOK(s, a, b) /\ BuiltOK(s, a, b)
           /\ Len(s) \in Nat /\ current \in Int
           /\ \A j, k \in 1..Len(s) : j < k => s[j] < s[k]
           /\ \A j, k \in 1..Len(s) : s[j] = s[k] => j = k
           /\ \A j \in 1..Len(s) : s[j] \in Int /\ s[j] \in Sort /\ s[j] # None
           /\ input = {s[j] : j \in 1..Len(s)}
<1>1. PICK s \in Sorted(input) : \E a, b \in 0..Len(s) : a <= b /\ LineOK(s, a, b)
  BY DEF ListInv
<1>2. PICK a, b \in 0..Len(s) : a <= b /\ LineOK(s, a, b)
  BY <1>1
<1>3. /\ Len(s) \in Nat /\ current \in Int
      /\ \A j, k \in 1..Len(s) : j < k => s[j] < s[k]
      /\ \A j, k \in 1..Len(s) : s[j] = s[k] => j = k
      /\ \A j \in 1..Len(s) : s[j] \in Int /\ s[j] \in Sort /\ s[j] # None
      /\ input = {s[j] : j \in 1..Len(s)}
  BY SortedFacts DEF ListInv
<1> QED
  BY <1>2, <1>3 DEF LineOK

LEMMA VisitKeeps ==
  ASSUME ListInv, Visit
  PROVE  ListInv'
<1>1. pc = "loop" /\ rows # << >> /\ UNCHANGED <<input, current, next, ql>>
  BY DEF Visit
<1>2. PICK s \in Sorted(input) : \E a, b \in 0..Len(s) :
        /\ a <= b /\ PartsOK(s, a, b) /\ LoopOK(s, a, b)
        /\ Len(s) \in Nat /\ current \in Int
        /\ \A j, k \in 1..Len(s) : j < k => s[j] < s[k]
        /\ \A j \in 1..Len(s) : s[j] \in Int /\ s[j] \in Sort
  BY <1>1, Started
<1>3. PICK a, b \in 0..Len(s) :
        /\ a <= b /\ PartsOK(s, a, b) /\ LoopOK(s, a, b)
        /\ Len(s) \in Nat /\ current \in Int
        /\ \A j, k \in 1..Len(s) : j < k => s[j] < s[k]
        /\ \A j \in 1..Len(s) : s[j] \in Int /\ s[j] \in Sort
  BY <1>2
<1>4. /\ rows \in Seq(Sort) /\ Len(rows) = Len(s) - b
      /\ \A j \in 1..(Len(s) - b) : rows[j] = s[b + j]
      /\ len = b - a
      /\ \A j \in 1..a : s[j] < current
      /\ \A j \in (a + 1)..b : s[j] >= current
  BY <1>1, <1>3 DEF LoopOK
<1>5. b < Len(s) /\ b + 1 \in 1..Len(s) /\ b + 1 \in 0..Len(s)
  BY <1>1, <1>3, <1>4
<1>6. Head(rows) = s[b + 1]
  BY <1>1, <1>3, <1>4, <1>5
<1>7. /\ Tail(rows) \in Seq(Sort) /\ Len(Tail(rows)) = Len(s) - (b + 1)
      /\ \A j \in 1..(Len(s) - (b + 1)) : Tail(rows)[j] = s[(b + 1) + j]
  <2>1. /\ Tail(rows) \in Seq(Sort) /\ Len(Tail(rows)) = Len(rows) - 1
        /\ \A j \in 1..(Len(rows) - 1) : Tail(rows)[j] = rows[j + 1]
    BY <1>1, <1>4
  <2>2. ASSUME NEW j \in 1..(Len(s) - (b + 1))
        PROVE  Tail(rows)[j] = s[(b + 1) + j]
    <3>1. j \in 1..(Len(rows) - 1) /\ j + 1 \in 1..(Len(s) - b)
          /\ b + (j + 1) = (b + 1) + j
      BY <1>3, <1>4
    <3> QED
      BY <1>4, <2>1, <3>1
  <2> QED
    BY <1>3, <1>4, <2>1, <2>2
<1>8. CASE /\ Head(rows) < current
           /\ previous' = Append(previous, Head(rows)) /\ rows' = Tail(rows)
           /\ UNCHANGED <<pc, head, len, ptr, i>>
  <2>1. s[b + 1] < current
    BY <1>6, <1>8
  <2>2. a = b
    <3>1. SUFFICES ASSUME a < b  PROVE  FALSE
      BY <1>3
    <3>2. b \in (a + 1)..b /\ b \in 1..Len(s) /\ b < b + 1
      BY <1>3, <3>1
    <3>3. s[b] >= current /\ s[b] < s[b + 1]
      BY <1>3, <1>4, <1>5, <3>2
    <3> QED
      BY <1>3, <1>5, <2>1, <3>2, <3>3
  <2>3. PartsOK(s, b + 1, b + 1)'
    <3>1. /\ previous \in Seq(Sort) /\ Len(previous) = b
          /\ \A j \in 1..b : previous[j] = s[j]
          /\ head = None
          /\ \A j \in (b + 1)..Len(s) : next[s[j]] = IF j < b THEN s[j + 1] ELSE None
      BY <1>3, <2>2 DEF PartsOK
    <3>2. /\ previous' \in Seq(Sort) /\ Len(previous') = b + 1
          /\ \A j \in 1..(b + 1) : previous'[j] = s[j]
      BY <1>3, <1>5, <1>6, <1>8, <3>1
    <3>3. ASSUME NEW j \in ((b + 1) + 1)..Len(s)
          PROVE  next'[s[j]] = IF j < b + 1 THEN s[j + 1] ELSE None
      <4>1. j \in (b + 1)..Len(s) /\ ~(j < b) /\ ~(j < b + 1)
        BY <1>3
      <4> QED
        BY <1>1, <3>1, <4>1
    <3> QED
      BY <1>8, <3>1, <3>2, <3>3 DEF PartsOK
  <2>4. LoopOK(s, b + 1, b + 1)'
    <3>1. \A j \in 1..(b + 1) : s[j] < current
      BY <1>3, <1>4, <2>1, <2>2
    <3>2. \A j : j \notin ((b + 1) + 1)..(b + 1)
      BY <1>3
    <3>3. len' = (b + 1) - (b + 1)
      BY <1>3, <1>4, <1>8, <2>2
    <3> QED
      BY <1>1, <1>7, <1>8, <3>1, <3>2, <3>3 DEF LoopOK
  <2>5. LineOK(s, b + 1, b + 1)' /\ b + 1 <= b + 1
    BY <1>1, <1>3, <1>8, <2>3, <2>4 DEF LineOK, InsertOK, BuiltOK
  <2> QED
    BY <1>1, <1>5, <1>8, <2>5 DEF ListInv
<1>9. CASE /\ Head(rows) >= current /\ len = 0
           /\ head' = Head(rows) /\ len' = 1 /\ rows' = Tail(rows)
           /\ UNCHANGED <<pc, previous, ptr, i>>
  <2>1. a = b /\ s[b + 1] >= current
    BY <1>3, <1>4, <1>6, <1>9
  <2>2. PartsOK(s, b, b + 1)'
    <3>1. /\ previous \in Seq(Sort) /\ Len(previous) = b
          /\ \A j \in 1..b : previous[j] = s[j]
          /\ \A j \in (b + 1)..Len(s) : next[s[j]] = IF j < b THEN s[j + 1] ELSE None
      BY <1>3, <2>1 DEF PartsOK
    <3>2. ASSUME NEW j \in (b + 1)..Len(s)
          PROVE  next'[s[j]] = IF j < b + 1 THEN s[j + 1] ELSE None
      <4>1. ~(j < b) /\ ~(j < b + 1)
        BY <1>3
      <4> QED
        BY <1>1, <3>1, <4>1
    <3>3. head' = IF b = b + 1 THEN None ELSE s[b + 1]
      BY <1>3, <1>6, <1>9
    <3> QED
      BY <1>9, <3>1, <3>2, <3>3 DEF PartsOK
  <2>3. LoopOK(s, b, b + 1)'
    <3>1. \A j \in (b + 1)..(b + 1) : s[j] >= current
      BY <1>3, <2>1
    <3>2. len' = (b + 1) - b
      BY <1>3, <1>9
    <3> QED
      BY <1>1, <1>4, <1>7, <1>9, <2>1, <3>1, <3>2 DEF LoopOK
  <2>4. LineOK(s, b, b + 1)' /\ b <= b + 1
    BY <1>1, <1>3, <1>9, <2>2, <2>3 DEF LineOK, InsertOK, BuiltOK
  <2> QED
    BY <1>1, <1>5, <1>9, <2>4 DEF ListInv
<1>10. CASE /\ Head(rows) >= current /\ len > 0
            /\ pc' = "insert" /\ ptr' = head /\ i' = 0
            /\ UNCHANGED <<rows, previous, head, len>>
  <2>1. a < b /\ s[b + 1] >= current
    BY <1>3, <1>4, <1>6, <1>10
  <2>2. PartsOK(s, a, b)'
    BY <1>1, <1>3, <1>10 DEF PartsOK
  <2>3. LoopOK(s, a, b)'
    BY <1>1, <1>4, <1>10 DEF LoopOK
  <2>4. InsertOK(s, a, b)'
    <3>1. head = s[a + 1] /\ a + 1 + 0 = a + 1 /\ 0 \in 0..(b - a - 1)
      BY <1>3, <2>1 DEF PartsOK
    <3>2. ptr' = s[a + 1 + 0] /\ i' = 0
      BY <1>10, <3>1
    <3> QED
      BY <1>1, <1>5, <2>1, <3>1, <3>2 DEF InsertOK
  <2>5. LineOK(s, a, b)'
    BY <1>10, <2>2, <2>3, <2>4 DEF LineOK, BuiltOK
  <2> QED
    BY <1>1, <1>3, <1>10, <2>5 DEF ListInv
<1> QED
  BY <1>8, <1>9, <1>10 DEF Visit

LEMMA InsertKeeps ==
  ASSUME ListInv, Insert
  PROVE  ListInv'
<1>1. pc = "insert" /\ i < len /\ UNCHANGED <<input, current, previous, head, ql>>
  BY DEF Insert
<1>2. PICK s \in Sorted(input) : \E a, b \in 0..Len(s) :
        /\ a <= b /\ PartsOK(s, a, b) /\ LoopOK(s, a, b) /\ InsertOK(s, a, b)
        /\ Len(s) \in Nat /\ current \in Int
        /\ \A j, k \in 1..Len(s) : s[j] = s[k] => j = k
        /\ \A j \in 1..Len(s) : s[j] \in Int /\ s[j] \in Sort /\ s[j] # None
  BY <1>1, Started
<1>3. PICK a, b \in 0..Len(s) :
        /\ a <= b /\ PartsOK(s, a, b) /\ LoopOK(s, a, b) /\ InsertOK(s, a, b)
        /\ Len(s) \in Nat /\ current \in Int
        /\ \A j, k \in 1..Len(s) : s[j] = s[k] => j = k
        /\ \A j \in 1..Len(s) : s[j] \in Int /\ s[j] \in Sort /\ s[j] # None
  BY <1>2
<1>4. /\ rows \in Seq(Sort) /\ Len(rows) = Len(s) - b
      /\ \A j \in 1..(Len(s) - b) : rows[j] = s[b + j]
      /\ len = b - a
      /\ \A j \in 1..a : s[j] < current
      /\ \A j \in (a + 1)..b : s[j] >= current
  BY <1>1, <1>3 DEF LoopOK
<1>5. /\ a < b /\ b < Len(s) /\ s[b + 1] >= current
      /\ i \in 0..(b - a - 1) /\ ptr = s[a + 1 + i]
  BY <1>1, <1>3 DEF InsertOK
<1>6. /\ previous \in Seq(Sort) /\ Len(previous) = a
      /\ \A j \in 1..a : previous[j] = s[j]
      /\ head = IF a = b THEN None ELSE s[a + 1]
      /\ \A j \in (a + 1)..Len(s) : next[s[j]] = IF j < b THEN s[j + 1] ELSE None
  BY <1>3 DEF PartsOK
<1>7. PICK p \in (a + 1)..b : p = a + 1 + i
  BY <1>3, <1>5
<1>8. ptr = s[p] /\ next[s[p]] = (IF p < b THEN s[p + 1] ELSE None)
      /\ p \in 1..Len(s) /\ b + 1 \in 1..Len(s) /\ b + 1 \in 0..Len(s)
  BY <1>3, <1>5, <1>6, <1>7
<1>9. Head(rows) = s[b + 1] /\ rows # << >>
  <2>1. Len(rows) \in Nat /\ Len(rows) > 0 /\ 1 \in 1..(Len(s) - b)
    BY <1>3, <1>4, <1>5
  <2>2. rows # << >>
    BY <2>1
  <2>3. rows[1] = s[b + 1]
    BY <1>4, <2>1
  <2> QED
    BY <1>4, <2>2, <2>3
<1>10. CASE /\ next[ptr] = None
            /\ next' = [next EXCEPT ![ptr] = Head(rows)]
            /\ len' = len + 1
            /\ pc' = "loop" /\ rows' = Tail(rows)
            /\ UNCHANGED <<ptr, i>>
  <2>1. p = b
    <3>1. SUFFICES ASSUME p < b  PROVE  FALSE
      BY <1>3, <1>7
    <3>2. p + 1 \in 1..Len(s)
      BY <1>3, <1>5, <1>7, <3>1
    <3> QED
      BY <1>3, <1>8, <1>10, <3>1, <3>2
  <2>2. next' = [next EXCEPT ![s[b]] = s[b + 1]]
    BY <1>8, <1>9, <1>10, <2>1
  <2>3. next' \in [Sort -> Sort \cup {None}]
    BY <1>3, <1>8, <2>1, <2>2 DEF ListInv
  <2>4. ASSUME NEW j \in (a + 1)..Len(s)
        PROVE  next'[s[j]] = IF j < b + 1 THEN s[j + 1] ELSE None
    <3>1. j \in 1..Len(s) /\ b \in 1..Len(s) /\ s[j] \in Sort /\ s[b] \in Sort
      BY <1>3, <1>5
    <3>2. CASE j = b
      BY <1>3, <2>2, <3>1, <3>2 DEF ListInv
    <3>3. CASE j # b
      <4>1. s[j] # s[b]
        BY <1>3, <3>1, <3>3
      <4>2. next'[s[j]] = next[s[j]]
        BY <2>2, <3>1, <4>1 DEF ListInv
      <4>3. j < b + 1 <=> j < b
        BY <1>3, <3>3
      <4> QED
        BY <1>6, <4>2, <4>3
    <3> QED
      BY <3>2, <3>3
  <2>5. PartsOK(s, a, b + 1)'
    <3>1. head' = IF a = b + 1 THEN None ELSE s[a + 1]
      BY <1>1, <1>3, <1>5, <1>6
    <3> QED
      BY <1>1, <1>6, <2>4, <3>1 DEF PartsOK
  <2>6. LoopOK(s, a, b + 1)'
    <3>1. /\ Tail(rows) \in Seq(Sort) /\ Len(Tail(rows)) = Len(rows) - 1
          /\ \A j \in 1..(Len(rows) - 1) : Tail(rows)[j] = rows[j + 1]
      BY <1>4, <1>9
    <3>2. ASSUME NEW j \in 1..(Len(s) - (b + 1))
          PROVE  Tail(rows)[j] = s[(b + 1) + j]
      <4>1. /\ j \in 1..(Len(rows) - 1) /\ j + 1 \in 1..(Len(s) - b)
            /\ b + (j + 1) = (b + 1) + j
        BY <1>3, <1>4
      <4> QED
        BY <1>4, <3>1, <4>1
    <3>3. \A j \in (a + 1)..(b + 1) : s[j] >= current
      BY <1>3, <1>4, <1>5
    <3>4. Len(Tail(rows)) = Len(s) - (b + 1) /\ len' = (b + 1) - a
      BY <1>3, <1>4, <1>10, <3>1
    <3> QED
      BY <1>1, <1>4, <1>10, <3>1, <3>2, <3>3, <3>4 DEF LoopOK
  <2>7. LineOK(s, a, b + 1)' /\ a <= b + 1
    BY <1>3, <1>10, <2>5, <2>6 DEF LineOK, InsertOK, BuiltOK
  <2> QED
    BY <1>1, <1>3, <1>8, <1>10, <2>3, <2>7 DEF ListInv
<1>11. CASE /\ next[ptr] # None
            /\ ptr' = next[ptr] /\ i' = i + 1
            /\ UNCHANGED <<next, len, pc, rows>>
  <2>1. p < b /\ next[ptr] = s[p + 1]
    BY <1>8, <1>11
  <2>2. PartsOK(s, a, b)'
    BY <1>1, <1>6, <1>11 DEF PartsOK
  <2>3. LoopOK(s, a, b)'
    BY <1>1, <1>4, <1>11 DEF LoopOK
  <2>4. InsertOK(s, a, b)'
    <3>1. i + 1 \in 0..(b - a - 1) /\ p + 1 = a + 1 + (i + 1)
      BY <1>3, <1>5, <1>7, <2>1
    <3>2. ptr' = s[a + 1 + (i + 1)]
      BY <1>11, <2>1, <3>1
    <3> QED
      BY <1>1, <1>5, <1>11, <3>1, <3>2 DEF InsertOK
  <2>5. LineOK(s, a, b)'
    BY <1>1, <1>11, <2>2, <2>3, <2>4 DEF LineOK, BuiltOK
  <2> QED
    BY <1>1, <1>3, <1>11, <2>5 DEF ListInv
<1> QED
  BY <1>10, <1>11 DEF Insert

LEMMA ReturnKeeps ==
  ASSUME ListInv, Return
  PROVE  ListInv'
<1>1. /\ pc = "loop" /\ rows = << >> /\ pc' = "built"
      /\ ql' = NewQuestLine([k \in input |-> {}], current, "in_progress")
      /\ UNCHANGED <<input, rows, current, previous, head, next, len, ptr, i>>
  BY DEF Return
<1>2. PICK s \in Sorted(input) : \E a, b \in 0..Len(s) :
        /\ a <= b /\ PartsOK(s, a, b) /\ LoopOK(s, a, b)
        /\ Len(s) \in Nat /\ current \in Int
        /\ \A j \in 1..Len(s) : s[j] \in Int /\ s[j] \in Sort
        /\ input = {s[j] : j \in 1..Len(s)}
  BY <1>1, Started
<1>3. PICK a, b \in 0..Len(s) :
        /\ a <= b /\ PartsOK(s, a, b) /\ LoopOK(s, a, b)
        /\ Len(s) \in Nat /\ current \in Int
        /\ \A j \in 1..Len(s) : s[j] \in Int /\ s[j] \in Sort
        /\ input = {s[j] : j \in 1..Len(s)}
  BY <1>2
<1>4. /\ Len(rows) = Len(s) - b
      /\ \A j \in 1..a : s[j] < current
      /\ \A j \in (a + 1)..b : s[j] >= current
  BY <1>1, <1>3 DEF LoopOK
<1>5. b = Len(s)
  BY <1>1, <1>3, <1>4
<1>6. \A j \in 1..Len(s) : /\ s[j] < current <=> j \in 1..a
                           /\ s[j] >= current <=> j \in (a + 1)..b
  <2> TAKE j \in 1..Len(s)
  <2>1. j \in 1..a \/ j \in (a + 1)..b
    BY <1>3, <1>5
  <2>2. s[j] \in Int /\ ~(j \in 1..a /\ j \in (a + 1)..b)
    BY <1>3
  <2> QED
    BY <1>3, <1>4, <2>1, <2>2
<1>7. /\ {k \in input : k < current} = Between(s, 0, a)
      /\ {k \in input : k >= current} = Between(s, a, b)
  <2>1. /\ \A j \in (0 + 1)..a : j \in 1..Len(s) /\ j \in 1..a
        /\ \A j \in (a + 1)..b : j \in 1..Len(s)
        /\ \A j \in 1..a : j \in (0 + 1)..a
    BY <1>3
  <2>2. {k \in input : k < current} = Between(s, 0, a)
    BY <1>3, <1>6, <2>1 DEF Between
  <2>3. {k \in input : k >= current} = Between(s, a, b)
    BY <1>3, <1>6, <2>1 DEF Between
  <2> QED
    BY <2>2, <2>3
<1>8. ql' = [status |-> "in_progress", prev |-> Between(s, 0, a), list |-> Between(s, a, b),
             success |-> "none", rewards |-> None]
  BY <1>1, <1>7 DEF NewQuestLine
<1>9. Between(s, 0, a) \in SUBSET Sort /\ Between(s, a, b) \in SUBSET Sort
  BY <1>7 DEF ListInv
<1>10. BuiltOK(s, a, b)'
  BY <1>5, <1>8, <1>9 DEF BuiltOK, Statuses
<1>11. PartsOK(s, a, b)'
  BY <1>1, <1>3 DEF PartsOK
<1>12. LineOK(s, a, b)'
  BY <1>1, <1>10, <1>11 DEF LineOK, LoopOK, InsertOK
<1> QED
  BY <1>1, <1>3, <1>12 DEF ListInv

Passed(x, k) == [x EXCEPT !.prev = x.prev \cup {k}, !.list = x.list \ {k}]

LEMMA NextKeeps ==
  ASSUME ListInv, NextQuestion
  PROVE  ListInv'
<1>1. /\ pc = "built" /\ head # None /\ next[head] # None
      /\ previous' = Append(previous, head) /\ head' = next[head] /\ ql' = Advance(ql)
      /\ UNCHANGED <<input, rows, current, pc, next, len, ptr, i>>
  BY DEF NextQuestion
<1>2. PICK s \in Sorted(input) : \E a, b \in 0..Len(s) :
        /\ a <= b /\ PartsOK(s, a, b) /\ BuiltOK(s, a, b)
        /\ Len(s) \in Nat
        /\ \A j \in 1..Len(s) : s[j] \in Int /\ s[j] \in Sort
  BY <1>1, Started
<1>3. PICK a, b \in 0..Len(s) :
        /\ a <= b /\ PartsOK(s, a, b) /\ BuiltOK(s, a, b)
        /\ Len(s) \in Nat
        /\ \A j \in 1..Len(s) : s[j] \in Int /\ s[j] \in Sort
  BY <1>2
<1>4. /\ previous \in Seq(Sort) /\ Len(previous) = a
      /\ \A j \in 1..a : previous[j] = s[j]
      /\ head = IF a = b THEN None ELSE s[a + 1]
      /\ \A j \in (a + 1)..Len(s) : next[s[j]] = IF j < b THEN s[j + 1] ELSE None
  BY <1>3 DEF PartsOK
<1>5. /\ b = Len(s)
      /\ ql \in [status : Statuses, prev : SUBSET Sort, list : SUBSET Sort,
                 success : {"none"}, rewards : {None}]
      /\ ql.prev = Between(s, 0, a) /\ ql.list = Between(s, a, b)
  BY <1>1, <1>3 DEF BuiltOK
<1>6. a < b /\ head = s[a + 1]
  BY <1>1, <1>3, <1>4
<1>7. /\ a + 1 < b /\ next[head] = s[(a + 1) + 1]
      /\ a + 1 \in 1..Len(s) /\ a + 1 \in 0..Len(s)
  <2>1. a + 1 \in (a + 1)..Len(s)
    BY <1>3, <1>5, <1>6
  <2> QED
    BY <1>1, <1>3, <1>4, <1>5, <1>6, <2>1
<1>8. PartsOK(s, a + 1, b)'
  <2>1. /\ previous' \in Seq(Sort) /\ Len(previous') = a + 1
        /\ \A j \in 1..(a + 1) : previous'[j] = s[j]
    BY <1>1, <1>3, <1>4, <1>6, <1>7
  <2>2. head' = IF a + 1 = b THEN None ELSE s[(a + 1) + 1]
    BY <1>1, <1>3, <1>7
  <2>3. \A j \in ((a + 1) + 1)..Len(s) : next'[s[j]] = IF j < b THEN s[j + 1] ELSE None
    <3>1. \A j \in ((a + 1) + 1)..Len(s) : j \in (a + 1)..Len(s)
      BY <1>3
    <3> QED
      BY <1>1, <1>4, <3>1
  <2> QED
    BY <2>1, <2>2, <2>3 DEF PartsOK
<1>9. /\ Least(ql.list) = s[a + 1] /\ ql.list # {s[a + 1]}
      /\ ql.list \ {s[a + 1]} = Between(s, a + 1, b)
      /\ ql.prev \cup {s[a + 1]} = Between(s, 0, a + 1)
  <2>1. input \in SUBSET Sort /\ b # a + 1
    BY <1>3, <1>7 DEF ListInv
  <2>2. /\ Least(Between(s, a, b)) = s[a + 1]
        /\ Between(s, a, b) = {s[a + 1]} <=> b = a + 1
        /\ Between(s, a, b) \ {s[a + 1]} = Between(s, a + 1, b)
        /\ Between(s, 0, a) \cup {s[a + 1]} = Between(s, 0, a + 1)
    BY <1>6, <2>1, FirstLeft
  <2> QED
    BY <1>5, <2>1, <2>2
<1>10. ql' = Passed(ql, s[a + 1])
  BY <1>1, <1>9 DEF Advance, IsLastStep, HeadOf, Passed
<1>11. BuiltOK(s, a + 1, b)'
  <2>1. s[a + 1] \in Sort
    BY <1>3, <1>7
  <2>2. /\ Passed(ql, s[a + 1]) \in [status : Statuses, prev : SUBSET Sort,
                                     list : SUBSET Sort, success : {"none"},
                                     rewards : {None}]
        /\ Passed(ql, s[a + 1]).prev = ql.prev \cup {s[a + 1]}
        /\ Passed(ql, s[a + 1]).list = ql.list \ {s[a + 1]}
    BY <1>5, <2>1 DEF Passed
  <2> QED
    BY <1>5, <1>9, <1>10, <2>2 DEF BuiltOK
<1>12. LineOK(s, a + 1, b)' /\ a + 1 <= b
  BY <1>1, <1>3, <1>7, <1>8, <1>11 DEF LineOK, LoopOK, InsertOK
<1> QED
  BY <1>1, <1>3, <1>7, <1>12 DEF ListInv

LEMMA ListInvariant == Spec => []ListInv
<1>1. Init => ListInv
  BY SortAssumption DEF Init, ListInv
<1>2. ListInv /\ [Next]_vars => ListInv'
  <2> SUFFICES ASSUME ListInv, [Next]_vars  PROVE  ListInv'
    OBVIOUS
  <2>1. CASE UNCHANGED vars
    <3>1. UNCHANGED <<input, rows, current, pc, previous, head, next, len, ptr, i, ql>>
      BY <2>1 DEF vars
    <3>2. ASSUME NEW s, NEW a, NEW b, LineOK(s, a, b)
          PROVE  LineOK(s, a, b)'
      BY <3>1, <3>2 DEF LineOK, PartsOK, LoopOK, InsertOK, BuiltOK, Statuses
    <3> QED
      BY <3>1, <3>2 DEF ListInv
  <2> QED
    BY <2>1, SortSliceKeeps, VisitKeeps, InsertKeeps, ReturnKeeps, NextKeeps DEF Next
<1> QED
  BY <1>1, <1>2, PTL DEF Spec

--------------------------------------------------------------------------------
(***************************************************************************)
(* Insert's walk, bounded by len, always comes to the last node: no        *)
(* question is dropped, in a list of any length.                           *)
(***************************************************************************)
THEOREM NoneDropped == Spec => []InsertFindsTheEnd
<1>1. ListInv => InsertFindsTheEnd
  <2> SUFFICES ASSUME ListInv, pc = "insert"  PROVE  i < len /\ ptr # None
    BY DEF InsertFindsTheEnd
  <2>1. PICK s \in Sorted(input) : \E a, b \in 0..Len(s) :
          /\ LoopOK(s, a, b) /\ InsertOK(s, a, b) /\ Len(s) \in Nat
          /\ \A j \in 1..Len(s) : s[j] # None
    BY Started
  <2>2. PICK a, b \in 0..Len(s) :
          /\ LoopOK(s, a, b) /\ InsertOK(s, a, b) /\ Len(s) \in Nat
          /\ \A j \in 1..Len(s) : s[j] # None
    BY <2>1
  <2>3. len = b - a /\ a < b /\ b < Len(s) /\ i \in 0..(b - a - 1) /\ ptr = s[a + 1 + i]
    BY <2>2 DEF LoopOK, InsertOK
  <2>4. a + 1 + i \in 1..Len(s)
    BY <2>2, <2>3
  <2> QED
    BY <2>2, <2>3, <2>4
<1> QED
  BY <1>1, ListInvariant, PTL

(***************************************************************************)
(* NewQuestLine sorts the steps of any quest, whatever order the database  *)
(* returned them in, and Next moves along them one by one: the previous    *)
(* questions and the list are all of them, in their order.                 *)
(***************************************************************************)
THEOREM StepsInOrder == Spec => []InOrder
<1>1. ListInv => InOrder
  <2> SUFFICES ASSUME ListInv, pc = "built"
               PROVE  \E s \in Sorted(input) : \E n \in 0..Len(s) :
                        previous = SubSeq(s, 1, n) /\ Chain(SubSeq(s, n + 1, Len(s)))
    BY DEF InOrder
  <2>1. PICK s \in Sorted(input) : \E a, b \in 0..Len(s) :
          /\ a <= b /\ PartsOK(s, a, b) /\ BuiltOK(s, a, b) /\ Len(s) \in Nat
    BY Started
  <2>2. PICK a, b \in 0..Len(s) :
          /\ a <= b /\ PartsOK(s, a, b) /\ BuiltOK(s, a, b) /\ Len(s) \in Nat
    BY <2>1
  <2>3. /\ previous \in Seq(Sort) /\ Len(previous) = a
        /\ \A j \in 1..a : previous[j] = s[j]
        /\ head = IF a = b THEN None ELSE s[a + 1]
        /\ \A j \in (a + 1)..Len(s) : next[s[j]] = IF j < b THEN s[j + 1] ELSE None
        /\ b = Len(s)
    BY <2>2 DEF PartsOK, BuiltOK
  <2>4. s \in Seq(Sort)
    <3>1. s \in Seq(input) /\ input \in SUBSET Sort
      BY SortedFacts DEF ListInv
    <3> QED
      BY <3>1
  <2>5. previous = SubSeq(s, 1, a)
    <3>1. /\ SubSeq(s, 1, a) \in Seq(Sort) /\ Len(SubSeq(s, 1, a)) = a
          /\ \A j \in 1..a : SubSeq(s, 1, a)[j] = s[j]
      BY <2>2, <2>4
    <3> QED
      BY <2>2, <2>3, <3>1
  <2>6. Chain(SubSeq(s, a + 1, Len(s)))
    <3>1. PICK t : t = SubSeq(s, a + 1, Len(s))
      OBVIOUS
    <3>2. /\ t \in Seq(Sort) /\ Len(t) = Len(s) - a
          /\ \A j \in 1..(Len(s) - a) : t[j] = s[a + j]
      BY <2>2, <2>4, <3>1
    <3>3. head = IF t = << >> THEN None ELSE t[1]
      BY <2>2, <2>3, <3>2
    <3>4. ASSUME NEW j \in DOMAIN t
          PROVE  next[t[j]] = IF j = Len(t) THEN None ELSE t[j + 1]
      <4>1. /\ j \in 1..(Len(s) - a) /\ a + j \in (a + 1)..Len(s)
            /\ (a + j < b <=> j # Len(t)) /\ (a + j) + 1 = a + (j + 1)
        BY <2>2, <2>3, <3>2
      <4>2. j # Len(t) => j + 1 \in 1..(Len(s) - a)
        BY <2>2, <3>2, <4>1
      <4>3. t[j] = s[a + j]
        BY <3>2, <4>1
      <4>4. CASE j = Len(t)
        BY <2>3, <4>1, <4>3, <4>4
      <4>5. CASE j # Len(t)
        BY <2>3, <3>2, <4>1, <4>2, <4>3, <4>5
      <4> QED
        BY <4>4, <4>5
    <3> QED
      BY <3>1, <3>3, <3>4 DEF Chain
  <2> QED
    BY <2>2, <2>5, <2>6
<1> QED
  BY <1>1, ListInvariant, PTL

(***************************************************************************)
(* The pointers of LinkedList and the sets QuestLine uses in their place   *)
(* are the same line, for any quest and position and after any number of   *)
(* answers: what is proved of the handlers with the one holds of the other.*)
(***************************************************************************)
THEOREM OneLine == Spec => []SameLine
<1>1. ListInv => SameLine
  <2> SUFFICES ASSUME ListInv, pc = "built"
               PROVE  /\ ql.prev = ToSet(previous)
                      /\ ql.list = input \ ToSet(previous)
                      /\ CurrentStep(ql) = (IF head = None THEN -1 ELSE head)
                      /\ head # None => (IsLastStep(ql) <=> next[head] = None)
    BY DEF SameLine
  <2>1. PICK s \in Sorted(input) : \E a, b \in 0..Len(s) :
          /\ a <= b /\ PartsOK(s, a, b) /\ BuiltOK(s, a, b) /\ Len(s) \in Nat
          /\ \A j, k \in 1..Len(s) : s[j] = s[k] => j = k
          /\ \A j \in 1..Len(s) : s[j] # None
          /\ input = {s[j] : j \in 1..Len(s)}
    BY Started
  <2>2. PICK a, b \in 0..Len(s) :
          /\ a <= b /\ PartsOK(s, a, b) /\ BuiltOK(s, a, b) /\ Len(s) \in Nat
          /\ \A j, k \in 1..Len(s) : s[j] = s[k] => j = k
          /\ \A j \in 1..Len(s) : s[j] # None
          /\ input = {s[j] : j \in 1..Len(s)}
    BY <2>1
  <2>3. /\ previous \in Seq(Sort) /\ Len(previous) = a
        /\ \A j \in 1..a : previous[j] = s[j]
        /\ head = IF a = b THEN None ELSE s[a + 1]
        /\ \A j \in (a + 1)..Len(s) : next[s[j]] = IF j < b THEN s[j + 1] ELSE None
    BY <2>2 DEF PartsOK
  <2>4. b = Len(s) /\ ql.prev = Between(s, 0, a) /\ ql.list = Between(s, a, b)
    BY <2>2 DEF BuiltOK
  <2>5. ToSet(previous) = Between(s, 0, a)
    <3>1. ToSet(previous) = {previous[j] : j \in 1..a}
      BY <2>2, <2>3 DEF ToSet
    <3>2. \A j : j \in (0 + 1)..a <=> j \in 1..a
      BY <2>2
    <3> QED
      BY <2>3, <3>1, <3>2 DEF Between
  <2>6. Between(s, a, b) = input \ Between(s, 0, a)
    <3>1. \A j : j \in 1..Len(s) <=> j \in (0 + 1)..a \/ j \in (a + 1)..b
      BY <2>2, <2>4
    <3>2. \A j \in (a + 1)..b, k \in (0 + 1)..a : s[j] # s[k]
      BY <2>2, <2>4
    <3> QED
      BY <2>2, <3>1, <3>2 DEF Between
  <2>7. /\ Between(s, a, b) = {} <=> b <= a
        /\ a < b => Least(Between(s, a, b)) = s[a + 1]
        /\ a < b => (Between(s, a, b) = {s[a + 1]} <=> b = a + 1)
    <3>1. input \in SUBSET Sort
      BY DEF ListInv
    <3> QED
      BY <2>2, <3>1, FirstLeft
  <2>8. head # None <=> a < b
    BY <2>2, <2>3, <2>4
  <2>9. CurrentStep(ql) = IF head = None THEN -1 ELSE head
    BY <2>2, <2>3, <2>4, <2>7, <2>8 DEF CurrentStep, HeadOf
  <2>10. ASSUME head # None  PROVE  IsLastStep(ql) <=> next[head] = None
    <3>1. a < b /\ head = s[a + 1] /\ a + 1 \in (a + 1)..Len(s)
      BY <2>2, <2>3, <2>4, <2>8, <2>10
    <3>2. next[head] = IF a + 1 < b THEN s[(a + 1) + 1] ELSE None
      BY <2>3, <3>1
    <3>3. a + 1 < b => (a + 1) + 1 \in 1..Len(s)
      BY <2>2, <2>4
    <3>4. next[head] = None <=> b = a + 1
      BY <2>2, <3>1, <3>2, <3>3
    <3> QED
      BY <2>4, <2>7, <3>1, <3>4 DEF IsLastStep, HeadOf
  <2> QED
    BY <2>4, <2>5, <2>6, <2>9, <2>10
<1> QED
  BY <1>1, ListInvariant, PTL
================================================================================
