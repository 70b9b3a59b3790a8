---------------------------- MODULE QuestListsProofs ----------------------------
(***************************************************************************)
(* Proofs about QuestLists, for any number of users, quests, changes and   *)
(* faults, and any limits.                                                 *)
(***************************************************************************)
EXTENDS QuestLists, FiniteSetTheorems, WellFoundedInduction, TLAPS

--------------------------------------------------------------------------------
(* Sequences without repetition, and pages of them.                        *)

LEMMA MaxIn ==
  ASSUME NEW n \in Nat, NEW S \in SUBSET (1..n), S # {}
  PROVE  Max(S) \in S
<1> DEFINE T == {n - x : x \in S}
<1>1. T \subseteq Nat /\ T # {}
  <2>1. PICK s : s \in S
    OBVIOUS
  <2>2. n - s \in T
    BY <2>1
  <2> QED
    BY <2>2
<1>2. IsWellFoundedOn({ss \in Nat \X Nat : ss[1] < ss[2]}, Nat)
  BY NatLessThanWellFounded DEF OpToRel
<1>3. PICK m \in T : \A y \in T : ~(y < m)
  <2> DEFINE R == {ss \in Nat \X Nat : ss[1] < ss[2]}
  <2>1. PICK m \in T : \A y \in T : <<y, m>> \notin R
    <3> HIDE DEF R
    <3>1. IsWellFoundedOn(R, Nat)
      BY <1>2 DEF R
    <3> QED
      BY <1>1, <3>1, WFMin
  <2> QED
    BY <1>1, <2>1
<1>4. PICK x \in S : m = n - x
  OBVIOUS
<1>5. \A y \in S : x >= y
  BY <1>3, <1>4
<1> QED
  BY <1>4, <1>5 DEF Max

LEMMA MinOf == ASSUME NEW a \in Nat, NEW b \in Nat
               PROVE  Min({a, b}) = IF a < b THEN a ELSE b
BY DEF Min

LEMMA MaxOf == ASSUME NEW a \in Int
               PROVE  Max({0, a}) = IF a > 0 THEN a ELSE 0
BY DEF Max

LEMMA PartOf ==
  ASSUME NEW S, NEW s \in Seq(S), NEW o \in Nat, NEW n \in Nat, n <= Len(s)
  PROVE  /\ SubSeq(s, o + 1, n) \in Seq(S)
         /\ Len(SubSeq(s, o + 1, n)) = IF n > o THEN n - o ELSE 0
         /\ \A i \in 1..(n - o) : SubSeq(s, o + 1, n)[i] = s[o + i]
OBVIOUS

LEMMA OrderFacts ==
  ASSUME NEW S, IsFiniteSet(S), NEW s \in Orders(S)
  PROVE  /\ s \in Seq(S) /\ Len(s) = Cardinality(S) /\ Cardinality(S) \in Nat
         /\ DOMAIN s = 1..Len(s)
         /\ \A i, j \in DOMAIN s : i # j => s[i] # s[j]
         /\ \A i, j \in DOMAIN s : i < j => created[s[i]] <= created[s[j]]
         /\ \A q \in S : \E i \in DOMAIN s : s[i] = q
<1>1. Cardinality(S) \in Nat
  BY FS_CardinalityType
<1>2. /\ s \in SetToSeqs(S)
      /\ \A i, j \in DOMAIN s : i < j => created[s[i]] <= created[s[j]]
  BY DEF Orders
<1> DEFINE D == 1..Cardinality(S)
<1>3. s \in [D -> S] /\ \A i, j \in D : i # j => s[i] # s[j]
  BY <1>2 DEF SetToSeqs
<1>4. s \in Seq(S) /\ Len(s) = Cardinality(S)
  BY <1>1, <1>3
<1>5. s \in Injection(D, S)
  BY <1>3 DEF Injection, IsInjective
<1>6. Cardinality(D) = Cardinality(S)
  BY <1>1, FS_Interval
<1>7. s \in Surjection(D, S)
  BY <1>5, <1>6, FS_Injection
<1>8. \A q \in S : \E i \in D : s[i] = q
  BY <1>7 DEF Surjection
<1> QED
  BY <1>1, <1>2, <1>3, <1>4, <1>8

\* In a list ordered by time, those before a quest of a time of its own are those
\* of earlier times.
LEMMA Ahead ==
  ASSUME NEW S, IsFiniteSet(S), \A p \in S : created[p] \in Time,
         NEW s \in Orders(S), NEW i \in DOMAIN s,
         \A p \in S \ {s[i]} : created[p] # created[s[i]]
  PROVE  Cardinality({p \in S : created[p] < created[s[i]]}) = i - 1
<1> DEFINE B == {p \in S : created[p] < created[s[i]]}
<1> DEFINE f == [j \in 1..(i - 1) |-> s[j]]
<1>1. /\ s \in Seq(S) /\ DOMAIN s = 1..Len(s)
      /\ \A j, k \in DOMAIN s : j # k => s[j] # s[k]
      /\ \A j, k \in DOMAIN s : j < k => created[s[j]] <= created[s[k]]
      /\ \A q \in S : \E j \in DOMAIN s : s[j] = q
  BY OrderFacts
<1>2. i \in Nat /\ i >= 1 /\ i <= Len(s) /\ \A j \in DOMAIN s : s[j] \in S
  BY <1>1
<1>3. \A j \in 1..(i - 1) : s[j] \in B
  <2> TAKE j \in 1..(i - 1)
  <2>1. j \in DOMAIN s /\ j < i /\ s[j] # s[i]
    BY <1>1, <1>2
  <2>2. created[s[j]] <= created[s[i]] /\ created[s[j]] # created[s[i]]
    BY <1>1, <1>2, <2>1
  <2>3. created[s[j]] \in Nat /\ created[s[i]] \in Nat
    BY <1>2, <2>1 DEF Time
  <2> QED
    BY <1>2, <2>1, <2>2, <2>3
<1>4. f \in Injection(1..(i - 1), B)
  BY <1>1, <1>2, <1>3 DEF Injection, IsInjective
<1>5. \A q \in B : \E j \in 1..(i - 1) : f[j] = q
  <2> TAKE q \in B
  <2>1. PICK j \in DOMAIN s : s[j] = q
    BY <1>1
  <2>2. created[q] \in Nat /\ created[s[i]] \in Nat /\ created[q] < created[s[i]]
    BY <1>2 DEF Time
  <2>3. ~(i <= j)
    BY <1>1, <1>2, <2>1, <2>2
  <2> QED
    BY <1>1, <1>2, <2>1, <2>3
<1>6. f \in Surjection(1..(i - 1), B)
  BY <1>4, <1>5 DEF Injection, Surjection
<1>7. ExistsBijection(1..(i - 1), B)
  BY <1>4, <1>6 DEF ExistsBijection, Bijection
<1> QED
  BY <1>2, <1>7, FS_CountingElements
--------------------------------------------------------------------------------
(* The list a client walks through, and the place of a quest in it.        *)

\* What the tables are at any time: a quest has its time from its INSERT on, also
\* when it was deleted, and only a quest that is there is sent.
TimesOK ==
  /\ \A q \in Quest : pending[q] # None => rows[q] = None /\ created[q] = None
  /\ \A q \in Quest : rows[q] # None => created[q] \in Time
  /\ \A q \in Quest, u \in User : status[<<q, u>>] # None => created[q] \in Time

Before(q) == {p \in Here : created[p] < created[q]}

Place(q) == Cardinality(Before(q))

Single(q) == \A p \in Here \ {q} : created[p] # created[q]

LEMMA Listed ==
  ASSUME TypeOK, TimesOK, NEW list \in Lists, NEW u \in User
  PROVE  /\ On(list, u) \subseteq Quest /\ IsFiniteSet(On(list, u))
         /\ \A q \in On(list, u) : created[q] \in Time
<1>1. CASE list = "created"
  <2>1. On(list, u) = {q \in Quest : rows[q] # None /\ rows[q].owner = u}
    BY <1>1 DEF On
  <2>2. On(list, u) \subseteq Quest /\ \A q \in On(list, u) : created[q] \in Time
    BY <2>1 DEF TimesOK
  <2> QED
    BY <2>2, FS_Subset, ListAssumption
<1>2. CASE list = "available"
  <2>1. On(list, u) =
          {q \in Quest : status[<<q, u>>] \in {"not_started", "in_progress"}}
    BY <1>2 DEF On
  <2>2. On(list, u) \subseteq Quest /\ \A q \in On(list, u) : created[q] \in Time
    BY <2>1, ListAssumption DEF TimesOK
  <2> QED
    BY <2>2, FS_Subset, ListAssumption
<1>3. CASE list = "finished"
  <2>1. On(list, u) = {q \in Quest : status[<<q, u>>] = "finished"}
    BY <1>3 DEF On
  <2>2. On(list, u) \subseteq Quest /\ \A q \in On(list, u) : created[q] \in Time
    BY <2>1, ListAssumption DEF TimesOK
  <2> QED
    BY <2>2, FS_Subset, ListAssumption
<1> QED
  BY <1>1, <1>2, <1>3 DEF Lists

LEMMA HereFacts ==
  ASSUME TypeOK, TimesOK, walk # None
  PROVE  /\ Here \subseteq Quest /\ IsFiniteSet(Here) /\ Cardinality(Here) \in Nat
         /\ \A q \in Here : created[q] \in Time
         /\ \A q : IsFiniteSet(Before(q)) /\ Place(q) \in Nat
         /\ \A q \in Here : Place(q) < Cardinality(Here)
<1>1. walk.list \in Lists /\ walk.user \in User
  BY DEF TypeOK, Walk
<1>2. /\ Here \subseteq Quest /\ IsFiniteSet(Here)
      /\ \A q \in Here : created[q] \in Time
  BY <1>1, Listed DEF Here
<1>3. Cardinality(Here) \in Nat
  BY <1>2, FS_CardinalityType
<1>4. \A q : IsFiniteSet(Before(q)) /\ Place(q) \in Nat
  <2> TAKE q
  <2>1. Before(q) \in SUBSET Here
    BY DEF Before
  <2> QED
    BY <1>2, <2>1, FS_Subset, FS_CardinalityType DEF Place
<1>5. \A q \in Here : Place(q) < Cardinality(Here)
  <2> TAKE q \in Here
  <2>1. Before(q) \in SUBSET Here /\ ~(created[q] < created[q])
    BY <1>2 DEF Before, Time
  <2>2. Before(q) # Here
    BY <2>1 DEF Before
  <2>3. Cardinality(Before(q)) <= Cardinality(Here)
    BY <1>2, <2>1, FS_Subset
  <2>4. Cardinality(Before(q)) # Cardinality(Here)
    BY <1>2, <2>1, <2>2, FS_Subset
  <2> QED
    BY <1>3, <1>4, <2>3, <2>4 DEF Place
<1> QED
  BY <1>2, <1>3, <1>4, <1>5

\* The quests of part are those from the offset on as far as part goes.
Fits(part) ==
  /\ part \in Seq(Quest)
  /\ \A i \in DOMAIN part : part[i] \in Here
  /\ \A i, j \in DOMAIN part : part[i] = part[j] => i = j
  /\ \A q \in Here : Single(q) =>
       /\ \A i \in DOMAIN part : part[i] = q =>
            walk.offset <= Place(q) /\ Place(q) < walk.offset + Len(part)
       /\ \/ Place(q) < walk.offset
          \/ Place(q) >= walk.offset + Len(part)
          \/ \E i \in DOMAIN part : part[i] = q

LEMMA PageFits ==
  ASSUME TypeOK, TimesOK, walk # None, NEW page \in Pages
  PROVE  /\ Fits(page)
         /\ \A n \in 1..(Len(page) - 1) : Fits(SubSeq(page, 1, n))
         /\ Len(page) = Max({0, Min({walk.limit, Cardinality(Here) - walk.offset})})
<1>1. /\ Here \subseteq Quest /\ IsFiniteSet(Here) /\ Cardinality(Here) \in Nat
      /\ \A q \in Here : created[q] \in Time
  BY HereFacts
<1>2. PICK o \in Nat : o = walk.offset
  BY DEF TypeOK, Walk
<1>3. PICK l \in Nat : l = walk.limit
  BY DEF TypeOK, Walk
<1>4. PICK s \in Orders(Here) : page = Page(s, o, l)
  BY <1>2, <1>3 DEF Pages
<1>5. /\ s \in Seq(Here) /\ Len(s) = Cardinality(Here) /\ DOMAIN s = 1..Len(s)
      /\ \A i, j \in DOMAIN s : i # j => s[i] # s[j]
      /\ \A q \in Here : \E i \in DOMAIN s : s[i] = q
  BY <1>1, OrderFacts
<1>6. PICK m \in Nat : m = Min({o + l, Len(s)}) /\ m <= Len(s) /\ m <= o + l
                       /\ (m = Len(s) \/ m = o + l)
  <2>1. Len(s) \in Nat /\ o + l \in Nat
    BY <1>5
  <2> QED
    BY <2>1, MinOf
<1>7. page = SubSeq(s, o + 1, m)
  BY <1>4, <1>6 DEF Page
<1>8. /\ page \in Seq(Here)
      /\ Len(page) = IF m > o THEN m - o ELSE 0
      /\ DOMAIN page = 1..Len(page)
      /\ \A i \in DOMAIN page : o + i \in DOMAIN s /\ page[i] = s[o + i]
  <2>1. m <= Len(s) /\ s \in Seq(Here) /\ DOMAIN s = 1..Len(s) /\ Len(s) \in Nat
    BY <1>5, <1>6
  <2>2. /\ page \in Seq(Here)
        /\ Len(page) = IF m > o THEN m - o ELSE 0
        /\ \A i \in 1..(m - o) : page[i] = s[o + i]
    <3>1. /\ SubSeq(s, o + 1, m) \in Seq(Here)
          /\ Len(SubSeq(s, o + 1, m)) = IF m > o THEN m - o ELSE 0
          /\ \A i \in 1..(m - o) : SubSeq(s, o + 1, m)[i] = s[o + i]
      BY <2>1, PartOf
    <3> QED
      BY <1>7, <3>1
  <2>3. DOMAIN page = 1..Len(page)
    BY <2>2
  <2>4. \A i \in DOMAIN page : i \in 1..(m - o) /\ o + i \in 1..Len(s)
    BY <2>1, <2>2, <2>3
  <2> QED
    BY <2>1, <2>2, <2>3, <2>4
<1>9. ASSUME NEW q \in Here, Single(q), NEW i \in DOMAIN s, s[i] = q
      PROVE  Place(q) = i - 1
  BY <1>1, <1>9, Ahead DEF Place, Before, Single
<1>10. ASSUME NEW n \in 0..Len(page), NEW part, part = SubSeq(page, 1, n)
       PROVE  Fits(part)
  <2>1. /\ part \in Seq(Here) /\ Len(part) = n /\ DOMAIN part = 1..n
        /\ \A i \in 1..n : part[i] = page[i]
    BY <1>8, <1>10
  <2>2. \A i \in DOMAIN part : o + i \in DOMAIN s /\ part[i] = s[o + i]
    BY <1>8, <2>1
  <2>3. part \in Seq(Quest)
    BY <1>1, <2>1
  <2>4. \A i, j \in DOMAIN part : part[i] = part[j] => i = j
    BY <1>2, <1>5, <2>1, <2>2
  <2>5. ASSUME NEW q \in Here, Single(q), NEW i \in DOMAIN part, part[i] = q
        PROVE  o <= Place(q) /\ Place(q) < o + n
    <3>1. PICK j \in DOMAIN s : j = o + i /\ s[j] = q
      BY <2>2, <2>5
    <3>2. Place(q) = j - 1
      BY <1>9, <2>5, <3>1
    <3> QED
      BY <1>10, <2>1, <3>1, <3>2
  <2>6. ASSUME NEW q \in Here, Single(q), ~(Place(q) < o), ~(Place(q) >= o + n)
        PROVE  \E i \in DOMAIN part : part[i] = q
    <3>1. PICK j \in DOMAIN s : s[j] = q
      BY <1>5
    <3>2. Place(q) = j - 1 /\ j \in Nat
      BY <1>5, <1>9, <2>6, <3>1
    <3>3. j - o \in 1..n
      BY <1>8, <2>6, <3>2
    <3>4. part[j - o] = s[o + (j - o)] /\ j - o \in DOMAIN part
      BY <2>1, <2>2, <3>3
    <3> QED
      BY <3>1, <3>2, <3>4
  <2> QED
    BY <1>2, <2>1, <2>3, <2>4, <2>5, <2>6 DEF Fits
<1>11. Fits(page)
  <2>1. page = SubSeq(page, 1, Len(page)) /\ Len(page) \in 0..Len(page)
    BY <1>8
  <2> QED
    BY <1>10, <2>1
<1>12. ASSUME NEW n \in 1..(Len(page) - 1)
       PROVE  Fits(SubSeq(page, 1, n))
  <2>1. n \in 0..Len(page)
    BY <1>8
  <2> QED
    BY <1>10, <2>1
<1>13. Len(page) = Max({0, Min({l, Cardinality(Here) - o})})
  <2>1. PICK c \in Nat : c = Cardinality(Here)
    BY <1>1
  <2>2. Min({l, c - o}) = IF l < c - o THEN l ELSE c - o
    BY <2>1 DEF Min
  <2>3. Min({l, c - o}) \in Int
    BY <2>1, <2>2
  <2>4. Max({0, Min({l, c - o})}) = IF Min({l, c - o}) > 0 THEN Min({l, c - o}) ELSE 0
    BY <2>3, MaxOf
  <2> QED
    BY <1>5, <1>6, <1>8, <2>1, <2>2, <2>4
<1> QED
  BY <1>2, <1>3, <1>11, <1>12, <1>13
--------------------------------------------------------------------------------
(* The routes of the lists.                                                *)

\* A sequence of n.
Table(t, n) == \E X : t \in Seq(X) /\ Len(t) = n

LEMMA GroupTable ==
  ASSUME NEW g, NEW t, NEW n \in Nat, DOMAIN t = 1..n
  PROVE  Table(Group(g, t), n)
<1> DEFINE X == {Group(g, t)[i] : i \in 1..n}
<1>1. Group(g, t) = [i \in 1..n |-> Group(g, t)[i]]
  BY DEF Group
<1>2. Group(g, t) \in Seq(X) /\ Len(Group(g, t)) = n
  BY <1>1
<1> QED
  BY <1>2 DEF Table

Joins(u, s, t) == u = s \o t

LEMMA Joined ==
  ASSUME NEW s, NEW t, NEW m \in Nat, NEW n \in Nat, Table(s, m), Table(t, n)
  PROVE  \A u, l : Joins(u, s, t) /\ l = m + n =>
           /\ Table(u, l)
           /\ \A i \in 1..m : u[i] = s[i]
           /\ \A i \in 1..n : u[m + i] = t[i]
<1>1. PICK S : s \in Seq(S) /\ Len(s) = m
  BY DEF Table
<1>2. PICK T : t \in Seq(T) /\ Len(t) = n
  BY DEF Table
<1>3. PICK X : X = S \cup T
  OBVIOUS
<1>4. s \in Seq(X) /\ t \in Seq(X)
  BY <1>1, <1>2, <1>3
<1>5. s \o t \in Seq(X) /\ Len(s \o t) = m + n
  BY <1>1, <1>2, <1>4
<1>6. /\ \A i \in 1..m : (s \o t)[i] = s[i]
      /\ \A i \in 1..n : (s \o t)[m + i] = t[i]
  BY <1>1, <1>2, <1>4
<1>7. Table(s \o t, m + n)
  BY <1>5 DEF Table
<1> QED
  BY <1>6, <1>7, Zenon DEF Joins

\* A path of routes of other groups.
Elsewhere(p) == Len(p) = 1 \/ (1 \in DOMAIN p /\ p[1] = "media")

LEMMA RoutesAt ==
  /\ DOMAIN Routes = 1..16
  /\ \A i \in 1..10 : Routes[6 + i] = Group("api", QuestRoutes)[i]
  /\ \A i \in 1..6 : Elsewhere(Routes[i].path)
<1> DEFINE auth == <<<<"POST", <<"login">>, "login">>,
                     <<"POST", <<"register">>, "register">>>>
<1> DEFINE media == <<<<"POST", <<"media", "upload">>, "uploadMedia">>,
                      <<"GET", <<"media", "{id}">>, "getMedia">>>>
<1> DEFINE api == <<<<"GET", <<"profile">>, "getCurrentUser">>,
                    <<"PUT", <<"profile">>, "updateUser">>>>
<1>1. /\ DOMAIN auth = 1..2 /\ DOMAIN media = 1..2 /\ DOMAIN api = 1..2
      /\ DOMAIN QuestRoutes = 1..10
  BY DEF QuestRoutes
<1>2. \A i \in 1..2 : /\ Elsewhere(auth[i][2]) /\ Elsewhere(media[i][2])
                      /\ Elsewhere(api[i][2])
  <2>1. /\ auth[1][2] = <<"login">> /\ auth[2][2] = <<"register">>
        /\ media[1][2] = <<"media", "upload">> /\ media[2][2] = <<"media", "{id}">>
        /\ api[1][2] = <<"profile">> /\ api[2][2] = <<"profile">>
    OBVIOUS
  <2> HIDE DEF auth, media, api
  <2>2. /\ Elsewhere(<<"login">>) /\ Elsewhere(<<"register">>) /\ Elsewhere(<<"profile">>)
        /\ Elsewhere(<<"media", "upload">>) /\ Elsewhere(<<"media", "{id}">>)
    BY DEF Elsewhere
  <2>3. /\ Elsewhere(auth[1][2]) /\ Elsewhere(auth[2][2]) /\ Elsewhere(media[1][2])
        /\ Elsewhere(media[2][2]) /\ Elsewhere(api[1][2]) /\ Elsewhere(api[2][2])
    BY <2>1, <2>2, Zenon
  <2>4. \A i \in 1..2 : i = 1 \/ i = 2
    OBVIOUS
  <2> QED
    BY <2>3, <2>4
<1>3. Routes = ((Group("auth", auth) \o Group("media", media)) \o Group("api", api))
                 \o Group("api", QuestRoutes)
  BY DEF Routes
<1> HIDE DEF auth, media, api
<1>4. PICK g1 : g1 = Group("auth", auth)
  OBVIOUS
<1>5. PICK g2 : g2 = Group("media", media)
  OBVIOUS
<1>6. PICK g3 : g3 = Group("api", api)
  OBVIOUS
<1>7. PICK g4 : g4 = Group("api", QuestRoutes)
  OBVIOUS
<1>8. Table(g1, 2) /\ Table(g2, 2) /\ Table(g3, 2) /\ Table(g4, 10)
  BY <1>1, <1>4, <1>5, <1>6, <1>7, GroupTable
<1>9. \A i \in 1..2 : /\ Elsewhere(g1[i].path) /\ Elsewhere(g2[i].path)
                      /\ Elsewhere(g3[i].path)
  BY <1>1, <1>2, <1>4, <1>5, <1>6 DEF Group
<1>10. /\ 2 \in Nat /\ 4 \in Nat /\ 6 \in Nat /\ 10 \in Nat
       /\ 4 = 2 + 2 /\ 6 = 4 + 2 /\ 16 = 6 + 10
  OBVIOUS
<1>11. PICK h : Joins(h, g1, g2)
  BY DEF Joins
<1>12. Table(h, 4) /\ \A i \in 1..4 : Elsewhere(h[i].path)
  <2>1. /\ Table(h, 4)
        /\ \A i \in 1..2 : h[i] = g1[i]
        /\ \A i \in 1..2 : h[2 + i] = g2[i]
    BY <1>8, <1>10, <1>11, Joined
  <2>2. \A i \in 3..4 : i - 2 \in 1..2 /\ h[2 + (i - 2)] = h[i]
    OBVIOUS
  <2>3. \A i \in 1..4 : i \in 1..2 \/ i \in 3..4
    OBVIOUS
  <2> QED
    BY <1>9, <2>1, <2>2, <2>3
<1>13. PICK k : Joins(k, h, g3)
  BY DEF Joins
<1>14. Table(k, 6) /\ \A i \in 1..6 : Elsewhere(k[i].path)
  <2>1. /\ Table(k, 6)
        /\ \A i \in 1..4 : k[i] = h[i]
        /\ \A i \in 1..2 : k[4 + i] = g3[i]
    BY <1>8, <1>10, <1>12, <1>13, Joined
  <2>2. \A i \in 5..6 : i - 4 \in 1..2 /\ k[4 + (i - 4)] = k[i]
    OBVIOUS
  <2>3. \A i \in 1..6 : i \in 1..4 \/ i \in 5..6
    OBVIOUS
  <2> QED
    BY <1>9, <1>12, <2>1, <2>2, <2>3
<1>15. /\ Table(Routes, 16)
       /\ \A i \in 1..6 : Routes[i] = k[i]
       /\ \A i \in 1..10 : Routes[6 + i] = g4[i]
  <2>1. Joins(Routes, k, g4)
    BY <1>3, <1>4, <1>5, <1>6, <1>7, <1>11, <1>13 DEF Joins
  <2> QED
    BY <1>8, <1>10, <1>14, <2>1, Joined
<1>16. DOMAIN Routes = 1..16
  BY <1>15 DEF Table
<1> QED
  BY <1>7, <1>14, <1>15, <1>16

LEMMA ListedRoutes ==
  /\ Elsewhere(Routes[7].path)
  /\ Routes[8].path = <<"quests", "created">> /\ Routes[8].method = "GET"
  /\ Routes[9].path = <<"quests", "available">> /\ Routes[9].method = "GET"
  /\ Routes[8].handler = "getQuestsByUser" /\ Routes[9].handler = "getAvailableQuests"
<1>1. DOMAIN QuestRoutes = 1..10
  BY DEF QuestRoutes
<1>2. /\ QuestRoutes[1] = <<"POST", <<"quests">>, "createQuest">>
      /\ QuestRoutes[2] = <<"GET", <<"quests", "created">>, "getQuestsByUser">>
      /\ QuestRoutes[3] = <<"GET", <<"quests", "available">>, "getAvailableQuests">>
  BY DEF QuestRoutes
<1>3. PICK g : g = Group("api", QuestRoutes)
  OBVIOUS
<1>4. /\ g[1].path = <<"quests">>
      /\ g[2].path = <<"quests", "created">> /\ g[2].method = "GET"
      /\ g[3].path = <<"quests", "available">> /\ g[3].method = "GET"
      /\ g[2].handler = "getQuestsByUser" /\ g[3].handler = "getAvailableQuests"
  BY <1>1, <1>2, <1>3 DEF Group
<1>5. Routes[6 + 1] = g[1] /\ Routes[6 + 2] = g[2] /\ Routes[6 + 3] = g[3]
  BY <1>3, RoutesAt
<1>6. Elsewhere(<<"quests">>)
  BY DEF Elsewhere
<1> QED
  BY <1>4, <1>5, <1>6

(***************************************************************************)
(* The router takes the first route that fits: GET /quests/created, and    *)
(* /quests/available, come before /quests/{id}, which would fit them too,  *)
(* and reach the handlers of the lists.                                    *)
(***************************************************************************)
THEOREM FirstMatch ==
  ASSUME NEW word, NEW n \in {8, 9}, word = IF n = 8 THEN "created" ELSE "available"
  PROVE  Route("GET", <<"quests", word>>) = Routes[n]
<1>1. PICK path : path = <<"quests", word>>
  OBVIOUS
<1>2. DOMAIN path = 1..2 /\ Len(path) = 2 /\ path[1] = "quests" /\ path[2] = word
  BY <1>1
<1>3. Routes[n].method = "GET" /\ Routes[n].path = path
  BY <1>1, ListedRoutes
<1>4. Matches(Routes[n].path, path)
  BY <1>3 DEF Matches
<1>5. \A p : Elsewhere(p) => ~Matches(p, path)
  BY <1>2 DEF Elsewhere, Matches
<1>6. ~Matches(<<"quests", "created">>, <<"quests", "available">>)
  <2>1. PICK p : p = <<"quests", "created">>
    OBVIOUS
  <2>2. DOMAIN p = 1..2 /\ p[2] = "created"
    BY <2>1
  <2>3. PICK w : w = <<"quests", "available">>
    OBVIOUS
  <2>4. w[2] = "available"
    BY <2>3
  <2>5. ASSUME Matches(p, w)
        PROVE  FALSE
    <3>1. p[2] \in {"{id}", w[2]}
      <4>1. 2 \in DOMAIN p
        BY <2>2
      <4>2. \A i \in DOMAIN p : p[i] \in {"{id}", w[i]}
        BY <2>5, Zenon DEF Matches
      <4> QED
        BY <4>1, <4>2
    <3> QED
      BY <2>2, <2>4, <3>1
  <2> QED
    BY <2>1, <2>3, <2>5
<1>7. ASSUME NEW i \in 1..16, Matches(Routes[i].path, path)
      PROVE  n <= i
  <2>1. i \notin 1..7
    BY <1>5, <1>7, RoutesAt, ListedRoutes
  <2>2. ~(i = 8 /\ n = 9)
    BY <1>1, <1>6, <1>7, ListedRoutes
  <2> QED
    BY <2>1, <2>2
<1>8. PICK hits : hits = {i \in {j \in DOMAIN Routes : Matches(Routes[j].path, path)} :
                           Routes[i].method = "GET"}
  OBVIOUS
<1>9. n \in hits
  BY <1>3, <1>4, <1>8, RoutesAt
<1>10. \A i \in hits : i \in 1..16 /\ n <= i
  BY <1>7, <1>8, RoutesAt
<1>11. \A i \in hits : (\A j \in hits : i <= j) => i = n
  BY <1>9, <1>10
<1>12. \A j \in hits : n <= j
  BY <1>10
<1>13. (CHOOSE i \in hits : \A j \in hits : i <= j) = n
  BY <1>9, <1>11, <1>12, Zenon
<1>14. hits # {} /\ {j \in DOMAIN Routes : Matches(Routes[j].path, path)} # {}
  BY <1>8, <1>9
<1>15. Route("GET", path) = Routes[CHOOSE i \in hits : \A j \in hits : i <= j]
  BY <1>8, <1>14, Zenon DEF Route
<1> QED
  BY <1>1, <1>13, <1>15
--------------------------------------------------------------------------------
(* The invariant: where a client is in a list, in terms of the places of   *)
(* the quests that no change has moved.                                    *)

\* The page of the request will be counted, unless the answer is lost.
Holding ==
  req # None /\ (req.pc = "count" \/ (req.pc = "reply" /\ req.status = 200))

OnPage(q) == Holding /\ \E i \in DOMAIN req.page : req.page[i] = q

Stop == walk.offset + Len(req.page)

\* Nothing left the list before q: it was listed, or is on the page, or is still
\* to come, and as long as it is, the count says so.
DueOK(q) ==
  /\ q \in Here /\ Single(q)
  /\ walk.listed[q] > 0 \/ walk.open
  /\ walk.open => walk.listed[q] > 0 \/ Place(q) >= walk.offset
  /\ Holding => walk.listed[q] > 0 \/ OnPage(q) \/ Place(q) >= Stop
  /\ Holding /\ At("reply") => walk.listed[q] > 0 \/ OnPage(q) \/ Stop < req.total

\* Nothing came before q: it is not to come again once it was listed, or is on the
\* page.  It may have left the list.
FirmOK(q) ==
  /\ created[q] \in Time
  /\ walk.listed[q] < 2
  /\ q \in Here => Single(q)
  /\ q \in Here /\ walk.listed[q] > 0 => Place(q) < walk.offset
  /\ OnPage(q) => walk.listed[q] = 0 /\ (q \in Here => Place(q) < Stop)

WalkOK ==
  walk # None => (\A q \in walk.due : DueOK(q)) /\ (\A q \in walk.firm : FirmOK(q))

\* While the list is the same, the page is what the limit and the offset leave.
PageOK ==
  req.still =>
    req.cut \/ Len(req.page) = Max({0, Min({walk.limit, Cardinality(Here) - walk.offset})})

RequestOK ==
  req # None =>
    /\ Walking
    /\ ~At("reply") => req.status = 200
    /\ At("count") => PageOK
    /\ Holding => \A i, j \in DOMAIN req.page : req.page[i] = req.page[j] => i = j

ListsInv == TypeOK /\ TimesOK /\ WalkOK /\ RequestOK /\ CountFits

--------------------------------------------------------------------------------
(* The requests, while the tables stay.                                    *)

LEMMA Unmoved ==
  ASSUME UNCHANGED <<rows, status, created>>, walk' # None,
         walk'.list = walk.list, walk'.user = walk.user
  PROVE  /\ Here' = Here
         /\ \A q : Place(q)' = Place(q) /\ (Single(q)' <=> Single(q))
<1>1. Here' = Here
  BY Zenon DEF Here, On
<1>2. \A q : Before(q)' = Before(q)
  BY <1>1 DEF Before
<1>3. \A q : Place(q)' = Place(q)
  BY <1>2, Zenon DEF Place
<1>4. \A q : Single(q)' <=> Single(q)
  BY <1>1, Zenon DEF Single
<1> QED
  BY <1>1, <1>3, <1>4

LEMMA TablesStay ==
  ASSUME TypeOK, TimesOK, UNCHANGED tables
  PROVE  /\ TimesOK' /\ Rows!RowsType' /\ clock' \in Time
         /\ created' \in [Quest -> Time \cup {None}]
         /\ pending' \in [Quest -> Time \cup {None}]
<1>1. UNCHANGED <<rows, status, created, pending, clock>>
  BY DEF tables
<1>2. TimesOK'
  BY <1>1 DEF TimesOK, Time
<1> QED
  BY <1>1, <1>2 DEF TypeOK, Rows!RowsType, Time

\* A request that holds no page says nothing of the walk.
LEMMA HoldsNothing ==
  ASSUME ListsInv, UNCHANGED <<tables, walk>>, events' \in 0..MaxEvents,
         req' \in Request \cup {None},
         req' # None => Walking /\ req'.pc # "count" /\ (req'.pc # "reply" <=> req'.status = 200)
  PROVE  ListsInv'
<1>1. /\ UNCHANGED <<rows, status, created, pending, clock>>
      /\ TimesOK' /\ Rows!RowsType' /\ clock' \in Time
      /\ created' \in [Quest -> Time \cup {None}]
      /\ pending' \in [Quest -> Time \cup {None}]
  BY TablesStay DEF ListsInv, tables
<1>2. TypeOK'
  BY <1>1 DEF ListsInv, TypeOK, Walk, Request, Time, Lists
<1>3. ~Holding' /\ \A q : ~OnPage(q)'
  BY DEF Holding, OnPage
<1>4. WalkOK'
  <2>1. SUFFICES ASSUME walk # None  PROVE  WalkOK'
    BY DEF WalkOK
  <2>2. Here' = Here /\ \A q : Place(q)' = Place(q) /\ (Single(q)' <=> Single(q))
    BY <1>1, <2>1, Unmoved
  <2>3. ASSUME NEW q \in walk.due  PROVE  DueOK(q)'
    <3>1. DueOK(q)
      BY <2>1, <2>3 DEF ListsInv, WalkOK
    <3> QED
      BY <1>3, <2>2, <3>1 DEF DueOK
  <2>4. ASSUME NEW q \in walk.firm  PROVE  FirmOK(q)'
    <3>1. FirmOK(q)
      BY <2>1, <2>4 DEF ListsInv, WalkOK
    <3> QED
      BY <1>1, <1>3, <2>2, <3>1 DEF FirmOK, Time
  <2> QED
    BY <2>3, <2>4 DEF WalkOK
<1>5. RequestOK' /\ CountFits'
  BY <1>3 DEF RequestOK, CountFits, At, Walking
<1> QED
  BY <1>1, <1>2, <1>4, <1>5 DEF ListsInv

LEMMA Statuses ==
  StatusOf(Failure) = 500 /\ Unknown = 500
<1>1. Failure.msgs = << >> /\ DOMAIN Failure.msgs = {}
  BY DEF Failure, Of
<1>2. StatusOf(Failure) = 500
  BY <1>1 DEF StatusOf, Is
<1>3. PICK w : w = Wrap("unknown", Failure)
  OBVIOUS
<1>4. w.msgs = <<"unknown">>
  BY <1>1, <1>3 DEF Wrap
<1>5. \A i \in DOMAIN w.msgs : w.msgs[i] = "unknown"
  BY <1>4
<1>6. StatusOf(w) = 500
  BY <1>5 DEF StatusOf, Is
<1> QED
  BY <1>2, <1>3, <1>6 DEF Unknown

\* The request's page is read.
LEMMA PageRead ==
  ASSUME ListsInv, Walking, UNCHANGED <<tables, walk>>, events' \in 0..MaxEvents,
         NEW part, Fits(part), req' \in Request, req' # None,
         req'.pc = "count", req'.page = part, req'.status = 200,
         req'.still =>
           \/ req'.cut
           \/ Len(part) = Max({0, Min({walk.limit, Cardinality(Here) - walk.offset})})
  PROVE  ListsInv'
<1>1. /\ UNCHANGED <<rows, status, created, pending, clock>>
      /\ TimesOK' /\ Rows!RowsType' /\ clock' \in Time
      /\ created' \in [Quest -> Time \cup {None}]
      /\ pending' \in [Quest -> Time \cup {None}]
  BY TablesStay DEF ListsInv, tables
<1>2. TypeOK'
  BY <1>1 DEF ListsInv, TypeOK, Walk, Request, Time, Lists
<1>3. walk # None /\ walk' # None /\ walk.offset \in Nat
  BY DEF Walking, ListsInv, TypeOK, Walk
<1>4. /\ Here' = Here /\ Cardinality(Here)' = Cardinality(Here)
      /\ \A q : Place(q)' = Place(q) /\ (Single(q)' <=> Single(q))
  BY <1>1, <1>3, Unmoved
<1>5. /\ Holding' /\ ~At("reply")' /\ At("count")' /\ Stop' = walk.offset + Len(part)
      /\ \A q : OnPage(q)' <=> \E i \in DOMAIN part : part[i] = q
  BY DEF Holding, OnPage, Stop, At
<1>6. \A q \in Here : Place(q) \in Nat
  BY <1>3, HereFacts DEF ListsInv
<1>7. ASSUME NEW q \in walk.due  PROVE  DueOK(q)'
  <2>1. DueOK(q)
    BY <1>3, <1>7 DEF ListsInv, WalkOK
  <2>2. q \in Here /\ Single(q) /\ (walk.listed[q] > 0 \/ Place(q) >= walk.offset)
    BY <2>1 DEF DueOK, Walking
  <2>3. \/ Place(q) < walk.offset \/ Place(q) >= walk.offset + Len(part)
        \/ \E i \in DOMAIN part : part[i] = q
    BY <2>2 DEF Fits
  <2>4. walk.listed[q] > 0 \/ OnPage(q)' \/ Place(q) >= walk.offset + Len(part)
    BY <1>3, <1>5, <1>6, <2>2, <2>3
  <2> QED
    BY <1>4, <1>5, <2>1, <2>4 DEF DueOK
<1>8. ASSUME NEW q \in walk.firm  PROVE  FirmOK(q)'
  <2>1. FirmOK(q)
    BY <1>3, <1>8 DEF ListsInv, WalkOK
  <2>2. q \in Quest /\ walk.listed[q] \in 0..2
    BY <1>3, <1>8 DEF ListsInv, TypeOK, Walk
  <2>3. ASSUME OnPage(q)'  PROVE  walk.listed[q] = 0 /\ q \in Here /\ Place(q) < Stop'
    <3>1. PICK i \in DOMAIN part : part[i] = q
      BY <1>5, <2>3
    <3>2. q \in Here
      BY <3>1 DEF Fits
    <3>3. Single(q) /\ walk.offset <= Place(q) /\ Place(q) < Stop'
      BY <1>5, <2>1, <3>1, <3>2 DEF Fits, FirmOK
    <3> QED
      BY <1>3, <1>6, <2>1, <2>2, <3>2, <3>3 DEF FirmOK
  <2> QED
    BY <1>1, <1>4, <2>1, <2>3 DEF FirmOK, Time
<1>9. RequestOK'
  <2>1. PageOK'
    BY <1>4 DEF PageOK
  <2> QED
    BY <1>5, <2>1 DEF RequestOK, Walking, Fits
<1>10. WalkOK' /\ CountFits'
  BY <1>5, <1>7, <1>8 DEF WalkOK, CountFits
<1> QED
  BY <1>1, <1>2, <1>9, <1>10 DEF ListsInv

\* The records of requests and walks, with a set in the place of BOOLEAN that the
\* provers do not take apart.
RequestOf(B) ==
  [pc : {"getQuestsByUser", "getAvailableQuests", "page", "count", "reply"},
   page : Seq(Quest), ill : B, cut : B, total : Nat, status : {200, 500}, still : B]

WalkOf(B) ==
  [user : User, list : Lists, limit : Nat, open : B, offset : Nat,
   listed : [Quest -> 0..2], due : SUBSET Quest, firm : SUBSET Quest]

AnsweredWith(x, n, s) == [x EXCEPT !.pc = "reply", !.total = n, !.status = s]

LEMMA Answered ==
  ASSUME NEW x \in Request, NEW n \in Nat, NEW s \in {200, 500}
  PROVE  AnsweredWith(x, n, s) \in Request
<1>1. PICK B : B = BOOLEAN
  OBVIOUS
<1>2. Request = RequestOf(B)
  BY <1>1 DEF Request, RequestOf
<1> QED
  BY <1>2 DEF RequestOf, AnsweredWith

LEMMA CountListKeeps ==
  ASSUME ListsInv, CountList
  PROVE  ListsInv'
<1>1. /\ At("count") /\ req # None /\ UNCHANGED <<tables, walk>> /\ events' \in 0..MaxEvents
      /\ req \in Request /\ RequestOK /\ Walking /\ walk # None
  BY DEF CountList, Read, At, ListsInv, TypeOK, RequestOK, Walking
<1>2. PICK s \in {200, 500} : req' = [req EXCEPT !.pc = "reply", !.total = Count, !.status = s]
  BY Statuses DEF CountList
<1>3. Count = Cardinality(Here) /\ Count \in Nat
  BY <1>1, HereFacts DEF ListsInv, Count
<1>4. /\ req' \in Request /\ req'.pc = "reply" /\ req'.total = Count /\ req'.status = s
      /\ req'.page = req.page /\ req'.still = req.still /\ req'.cut = req.cut
  <2>1. /\ req'.pc = "reply" /\ req'.total = Count /\ req'.status = s
        /\ req'.page = req.page
    BY <1>1, <1>2, <1>3 DEF Request
  <2>2. req'.ill = req.ill /\ req'.cut = req.cut /\ req'.still = req.still
    BY <1>1, <1>2 DEF Request
  <2>3. req' \in Request
    <3>1. req' = AnsweredWith(req, Count, s)
      BY <1>2 DEF AnsweredWith
    <3> QED
      BY <1>1, <1>3, <3>1, Answered
  <2> QED
    BY <2>1, <2>2, <2>3
<1>5. CASE s = 500
  BY <1>1, <1>4, <1>5, HoldsNothing
<1>6. CASE s = 200 /\ req' = None
  BY <1>1, <1>4, <1>6, HoldsNothing
<1>7. CASE s = 200 /\ req' # None
  <2>1. /\ UNCHANGED <<rows, status, created, pending, clock>>
        /\ TimesOK' /\ Rows!RowsType' /\ clock' \in Time
        /\ created' \in [Quest -> Time \cup {None}]
        /\ pending' \in [Quest -> Time \cup {None}]
    BY <1>1, TablesStay DEF ListsInv, tables
  <2>2. TypeOK'
    BY <1>1, <1>4, <2>1 DEF ListsInv, TypeOK, Walk, Request, Time, Lists
  <2>3. /\ Here' = Here /\ Cardinality(Here)' = Cardinality(Here)
        /\ \A q : Place(q)' = Place(q) /\ (Single(q)' <=> Single(q))
    BY <1>1, <2>1, Unmoved
  <2>4. /\ Holding /\ Holding' /\ At("reply")' /\ ~At("count")' /\ Stop' = Stop
        /\ \A q : OnPage(q)' <=> OnPage(q)
    BY <1>1, <1>4, <1>7 DEF Holding, OnPage, Stop, At, RequestOK
  <2>5. Stop \in Nat /\ \A q \in Here : Place(q) \in Nat /\ Place(q) < Count
    BY <1>1, <1>3, HereFacts DEF ListsInv, TypeOK, Walk, Request, Stop
  <2>6. ASSUME NEW q \in walk.due  PROVE  DueOK(q)'
    <3>1. DueOK(q)
      BY <1>1, <2>6 DEF ListsInv, WalkOK
    <3>2. walk.listed[q] > 0 \/ OnPage(q) \/ Stop < Count
      BY <1>3, <2>4, <2>5, <3>1 DEF DueOK
    <3> QED
      BY <1>1, <1>4, <2>3, <2>4, <3>1, <3>2 DEF DueOK
  <2>7. ASSUME NEW q \in walk.firm  PROVE  FirmOK(q)'
    <3>1. FirmOK(q)
      BY <1>1, <2>7 DEF ListsInv, WalkOK
    <3> QED
      BY <1>1, <2>1, <2>3, <2>4, <3>1 DEF FirmOK, Time
  <2>8. RequestOK'
    BY <1>1, <1>4, <1>7, <2>4 DEF RequestOK, Walking
  <2>9. CountFits'
    <3>1. req.still => req.cut
            \/ Len(req.page) = Max({0, Min({walk.limit, Cardinality(Here) - walk.offset})})
      BY <1>1 DEF RequestOK, PageOK
    <3> QED
      BY <1>1, <1>3, <1>4, <2>3, <3>1 DEF CountFits
  <2>10. WalkOK'
    BY <1>1, <2>6, <2>7 DEF WalkOK
  <2> QED
    BY <2>1, <2>2, <2>8, <2>9, <2>10 DEF ListsInv
<1> QED
  BY <1>5, <1>6, <1>7

\* What the statements that read a page, or fail, make of the request.
ReadWith(x, page) == [x EXCEPT !.pc = "count", !.page = page]
ListWith(x, page, ill) == [x EXCEPT !.pc = "count", !.page = page, !.ill = ill]
CutWith(x, page, ill) ==
  [x EXCEPT !.pc = "count", !.page = page, !.cut = TRUE, !.ill = ill]
RefusedWith(x, s) == [x EXCEPT !.pc = "reply", !.status = s]

LEMMA Refused ==
  ASSUME NEW x \in Request, NEW s \in {200, 500}
  PROVE  /\ RefusedWith(x, s) \in Request
         /\ RefusedWith(x, s).pc = "reply" /\ RefusedWith(x, s).status = s
<1>1. PICK B : B = BOOLEAN
  OBVIOUS
<1>2. Request = RequestOf(B)
  BY <1>1 DEF Request, RequestOf
<1>3. RefusedWith(x, s) \in Request
  BY <1>2 DEF RequestOf, RefusedWith
<1>4. RefusedWith(x, s).pc = "reply" /\ RefusedWith(x, s).status = s
  BY <1>2 DEF RequestOf, RefusedWith
<1> QED
  BY <1>3, <1>4

LEMMA ReadTyped ==
  ASSUME NEW x \in Request, NEW page \in Seq(Quest)
  PROVE  /\ ReadWith(x, page) \in Request /\ ReadWith(x, page).pc = "count"
         /\ ReadWith(x, page).page = page /\ ReadWith(x, page).status = x.status
<1>1. PICK B : B = BOOLEAN
  OBVIOUS
<1>2. Request = RequestOf(B)
  BY <1>1 DEF Request, RequestOf
<1>3. ReadWith(x, page) \in Request
  BY <1>2 DEF RequestOf, ReadWith
<1>4. ReadWith(x, page).pc = "count" /\ ReadWith(x, page).page = page
  BY <1>2 DEF RequestOf, ReadWith
<1>5. ReadWith(x, page).status = x.status
  BY <1>2 DEF RequestOf, ReadWith
<1> QED
  BY <1>3, <1>4, <1>5

LEMMA ListTyped ==
  ASSUME NEW x \in Request, NEW page \in Seq(Quest), NEW ill \in BOOLEAN
  PROVE  /\ ListWith(x, page, ill) \in Request /\ ListWith(x, page, ill).pc = "count"
         /\ ListWith(x, page, ill).page = page
         /\ ListWith(x, page, ill).status = x.status
<1>1. PICK B : B = BOOLEAN
  OBVIOUS
<1>2. Request = RequestOf(B)
  BY <1>1 DEF Request, RequestOf
<1>3. ill \in B /\ TRUE \in B
  BY <1>1
<1>4. ListWith(x, page, ill) \in Request
  BY <1>2, <1>3 DEF RequestOf, ListWith
<1>5. ListWith(x, page, ill).pc = "count" /\ ListWith(x, page, ill).page = page
  BY <1>2 DEF RequestOf, ListWith
<1>6. ListWith(x, page, ill).status = x.status
  BY <1>2 DEF RequestOf, ListWith
<1> QED
  BY <1>4, <1>5, <1>6

LEMMA CutTyped ==
  ASSUME NEW x \in Request, NEW page \in Seq(Quest), NEW ill \in BOOLEAN
  PROVE  /\ CutWith(x, page, ill) \in Request /\ CutWith(x, page, ill).pc = "count"
         /\ CutWith(x, page, ill).page = page /\ CutWith(x, page, ill).status = x.status
         /\ CutWith(x, page, ill).cut
<1>1. PICK B : B = BOOLEAN
  OBVIOUS
<1>2. Request = RequestOf(B)
  BY <1>1 DEF Request, RequestOf
<1>3. ill \in B /\ TRUE \in B
  BY <1>1
<1>4. CutWith(x, page, ill) \in Request
  BY <1>2, <1>3 DEF RequestOf, CutWith
<1>5. CutWith(x, page, ill).pc = "count" /\ CutWith(x, page, ill).page = page
  BY <1>2 DEF RequestOf, CutWith
<1>6. CutWith(x, page, ill).status = x.status
  BY <1>2 DEF RequestOf, CutWith
<1>7. CutWith(x, page, ill).cut
  BY <1>2 DEF RequestOf, CutWith
<1> QED
  BY <1>4, <1>5, <1>6, <1>7

LEMMA HasIsBoolean ==
  ASSUME NEW page, NEW kinds
  PROVE  \E b \in BOOLEAN : b = Has(page, kinds)
BY DEF Has

\* A page that is read, in whole or in part.
LEMMA PartRead ==
  ASSUME ListsInv, req # None, ~At("reply"), UNCHANGED <<tables, walk>>,
         events' \in 0..MaxEvents, NEW page \in Pages, NEW ill \in BOOLEAN,
         \/ req' = ReadWith(req, page)
         \/ req' = ListWith(req, page, ill)
         \/ \E n \in 1..(Len(page) - 1) : req' = CutWith(req, SubSeq(page, 1, n), ill)
  PROVE  ListsInv'
<1>1. Walking /\ walk # None /\ req \in Request /\ req.status = 200 /\ TypeOK /\ TimesOK
  BY DEF ListsInv, RequestOK, TypeOK, Walking
<1>2. /\ Fits(page)
      /\ \A n \in 1..(Len(page) - 1) : Fits(SubSeq(page, 1, n))
      /\ Len(page) = Max({0, Min({walk.limit, Cardinality(Here) - walk.offset})})
  BY <1>1, PageFits
<1>3. page \in Seq(Quest)
  BY <1>2 DEF Fits
<1>4. CASE req' = None
  BY <1>1, <1>4, HoldsNothing
<1>5. CASE req' # None /\ (req' = ReadWith(req, page) \/ req' = ListWith(req, page, ill))
  <2>1. req' \in Request /\ req'.pc = "count" /\ req'.page = page /\ req'.status = 200
    BY <1>1, <1>3, <1>5, ReadTyped, ListTyped
  <2> QED
    BY <1>1, <1>2, <1>5, <2>1, PageRead
<1>6. CASE /\ req' # None
           /\ \E n \in 1..(Len(page) - 1) : req' = CutWith(req, SubSeq(page, 1, n), ill)
  <2>1. PICK n \in 1..(Len(page) - 1) : req' = CutWith(req, SubSeq(page, 1, n), ill)
    BY <1>6
  <2>2. PICK part : part = SubSeq(page, 1, n)
    OBVIOUS
  <2>3. Fits(part)
    BY <1>2, <2>2
  <2>4. part \in Seq(Quest)
    BY <2>3 DEF Fits
  <2>5. req' = CutWith(req, part, ill)
    BY <2>1, <2>2
  <2>6. /\ req' \in Request /\ req'.pc = "count" /\ req'.page = part /\ req'.status = 200
        /\ req'.cut
    BY <1>1, <2>4, <2>5, CutTyped
  <2> QED
    BY <1>1, <1>6, <2>3, <2>6, PageRead
<1> QED
  BY <1>4, <1>5, <1>6

LEMMA RequestAnswered ==
  ASSUME ListsInv, req # None, UNCHANGED <<tables, walk>>, events' \in 0..MaxEvents,
         Answer(Unknown)
  PROVE  ListsInv'
<1>1. req \in Request /\ Walking
  BY DEF ListsInv, TypeOK, RequestOK
<1>2. req' = RefusedWith(req, 500)
  BY Statuses DEF Answer, RefusedWith
<1>3. req' \in Request /\ req'.pc = "reply" /\ req'.status = 500
  BY <1>1, <1>2, Refused
<1> QED
  BY <1>1, <1>3, HoldsNothing

LEMMA OneEvent ==
  ASSUME ListsInv, Event
  PROVE  events' \in 0..MaxEvents
BY ListAssumption DEF Event, ListsInv, TypeOK

LEMMA PagesKeep ==
  ASSUME ListsInv, CreatedPage \/ AvailablePage \/ CutPage
  PROVE  ListsInv'
<1>1. CASE CreatedPage
  <2>1. PICK page \in Pages : req' = ListWith(req, page, Has(page, Unwritable))
    BY <1>1 DEF CreatedPage, ListWith
  <2>2. PICK b \in BOOLEAN : b = Has(page, Unwritable)
    BY HasIsBoolean
  <2>3. req' = ListWith(req, page, b)
    BY <2>1, <2>2
  <2>4. /\ UNCHANGED <<tables, walk>> /\ events' \in 0..MaxEvents /\ req # None
        /\ ~At("reply")
    BY <1>1 DEF CreatedPage, Read, At, ListsInv, TypeOK
  <2> QED
    BY <2>3, <2>4, PartRead
<1>2. CASE AvailablePage
  <2>1. PICK page \in Pages : Answer(Unknown) \/ req' = ReadWith(req, page)
    BY <1>2 DEF AvailablePage, ReadWith
  <2>2. /\ UNCHANGED <<tables, walk>> /\ events' \in 0..MaxEvents /\ req # None
        /\ ~At("reply")
    BY <1>2 DEF AvailablePage, Read, At, ListsInv, TypeOK
  <2>3. CASE Answer(Unknown)
    BY <2>2, <2>3, RequestAnswered
  <2>4. CASE req' = ReadWith(req, page)
    <3>1. TRUE \in BOOLEAN
      OBVIOUS
    <3> QED
      BY <2>2, <2>4, <3>1, PartRead
  <2> QED
    BY <2>1, <2>3, <2>4
<1>3. CASE CutPage
  <2>1. PICK page \in Pages : \E n \in 1..(Len(page) - 1) :
          req' = CutWith(req, SubSeq(page, 1, n), Has(SubSeq(page, 1, n), Unwritable))
    BY <1>3 DEF CutPage, CutWith
  <2>2. PICK n \in 1..(Len(page) - 1) :
          req' = CutWith(req, SubSeq(page, 1, n), Has(SubSeq(page, 1, n), Unwritable))
    BY <2>1
  <2>3. PICK b \in BOOLEAN : b = Has(SubSeq(page, 1, n), Unwritable)
    BY HasIsBoolean
  <2>4. req' = CutWith(req, SubSeq(page, 1, n), b)
    BY <2>2, <2>3
  <2>5. events' \in 0..MaxEvents
    <3>1. Event
      BY <1>3 DEF CutPage
    <3> QED
      BY <3>1, OneEvent
  <2>6. UNCHANGED <<tables, walk>>
    BY <1>3 DEF CutPage
  <2>7. At("getQuestsByUser")
    BY <1>3 DEF CutPage
  <2>8. req # None /\ ~At("reply")
    BY <2>7 DEF At
  <2> QED
    BY <2>4, <2>5, <2>6, <2>8, PartRead
<1> QED
  BY <1>1, <1>2, <1>3

LEMMA AskKeeps ==
  ASSUME ListsInv, NEW token \in BOOLEAN, NEW contentType \in ContentTypes,
         Ask(token, contentType)
  PROVE  ListsInv'
<1>1. PICK word : word = IF walk.list = "created" THEN "created" ELSE "available"
  OBVIOUS
<1>2. req' = [pc |-> Route("GET", <<"quests", word>>).handler, page |-> << >>,
              ill |-> FALSE, cut |-> FALSE, total |-> 0, status |-> 200, still |-> TRUE]
  BY <1>1 DEF Ask
<1>3. PICK n \in {8, 9} : word = IF n = 8 THEN "created" ELSE "available"
  BY <1>1
<1>4. Route("GET", <<"quests", word>>) = Routes[n]
  BY <1>3, FirstMatch
<1>5. PICK h : h = Route("GET", <<"quests", word>>).handler
  OBVIOUS
<1>6. h \in {"getQuestsByUser", "getAvailableQuests"}
  BY <1>4, <1>5, ListedRoutes
<1>7. req' = [pc |-> h, page |-> << >>, ill |-> FALSE, cut |-> FALSE, total |-> 0,
              status |-> 200, still |-> TRUE]
  BY <1>2, <1>5
<1>8. req' \in Request /\ req'.pc = h /\ req'.status = 200
  BY <1>6, <1>7 DEF Request
<1>9. UNCHANGED <<tables, walk>> /\ events' \in 0..MaxEvents /\ Walking
  BY DEF Ask, Read, ListsInv, TypeOK
<1> QED
  BY <1>6, <1>8, <1>9, HoldsNothing

MovedTo(x, pc) == [x EXCEPT !.pc = pc]

LEMMA Moved ==
  ASSUME NEW x \in Request
  PROVE  /\ MovedTo(x, "page") \in Request /\ MovedTo(x, "page").pc = "page"
         /\ MovedTo(x, "page").status = x.status
<1>1. PICK B : B = BOOLEAN
  OBVIOUS
<1>2. Request = RequestOf(B)
  BY <1>1 DEF Request, RequestOf
<1>3. MovedTo(x, "page") \in Request
  BY <1>2 DEF RequestOf, MovedTo
<1>4. MovedTo(x, "page").pc = "page" /\ MovedTo(x, "page").status = x.status
  BY <1>2 DEF RequestOf, MovedTo
<1> QED
  BY <1>3, <1>4

LEMMA OthersKeep ==
  ASSUME ListsInv, AvailableUser \/ StatementFails \/ Disconnect
  PROVE  ListsInv'
<1>1. CASE AvailableUser
  <2>1. /\ UNCHANGED <<tables, walk>> /\ events' \in 0..MaxEvents /\ Walking
        /\ req \in Request /\ req.status = 200
    BY <1>1 DEF AvailableUser, Read, At, ListsInv, TypeOK, RequestOK
  <2>2. req' = MovedTo(req, "page")
    BY <1>1 DEF AvailableUser, MovedTo
  <2>3. req' \in Request /\ req'.pc = "page" /\ req'.status = 200
    BY <2>1, <2>2, Moved
  <2> QED
    BY <2>1, <2>3, HoldsNothing
<1>2. CASE StatementFails
  <2>1. /\ UNCHANGED <<tables, walk>> /\ events' \in 0..MaxEvents /\ req # None
        /\ Answer(Unknown)
    BY <1>2, ListAssumption DEF StatementFails, Event, ListsInv, TypeOK
  <2> QED
    BY <2>1, RequestAnswered
<1>3. CASE Disconnect
  <2>1. UNCHANGED <<tables, walk>> /\ events' \in 0..MaxEvents /\ req' = None
    BY <1>3, ListAssumption DEF Disconnect, Event, ListsInv, TypeOK
  <2> QED
    BY <2>1, HoldsNothing
<1> QED
  BY <1>1, <1>2, <1>3

\* What an answer makes of the walk.
WalkedTo(w, offset, listed, open) ==
  [w EXCEPT !.offset = offset, !.listed = listed, !.open = open]

LEMMA Walked ==
  ASSUME NEW w \in Walk, NEW o \in Nat, NEW l \in [Quest -> 0..2], NEW open \in BOOLEAN
  PROVE  LET x == WalkedTo(w, o, l, open) IN
         /\ x \in Walk /\ x.user = w.user /\ x.list = w.list
         /\ x.due = w.due /\ x.firm = w.firm
         /\ x.offset = o /\ x.listed = l /\ x.open = open
<1>1. PICK B : B = BOOLEAN
  OBVIOUS
<1>2. Walk = WalkOf(B)
  BY <1>1 DEF Walk, WalkOf
<1>3. open \in B
  BY <1>1
<1>4. PICK x : x = WalkedTo(w, o, l, open)
  OBVIOUS
<1>5. x \in Walk
  BY <1>2, <1>3, <1>4 DEF WalkOf, WalkedTo
<1>6. x.user = w.user /\ x.list = w.list /\ x.due = w.due /\ x.firm = w.firm
  BY <1>2, <1>4 DEF WalkOf, WalkedTo
<1>7. x.offset = o /\ x.listed = l
  BY <1>2, <1>4 DEF WalkOf, WalkedTo
<1>8. x.open = open
  BY <1>2, <1>4, Zenon DEF WalkOf, WalkedTo
<1> QED
  BY <1>4, <1>5, <1>6, <1>7, <1>8

LEMMA TimesOnPage ==
  ASSUME NEW page \in Seq(Quest), NEW q,
         \A i, j \in DOMAIN page : page[i] = page[j] => i = j
  PROVE  Cardinality({i \in DOMAIN page : page[i] = q}) =
           IF \E i \in DOMAIN page : page[i] = q THEN 1 ELSE 0
<1>1. CASE \E i \in DOMAIN page : page[i] = q
  <2>1. PICK i \in DOMAIN page : page[i] = q
    BY <1>1
  <2>2. {j \in DOMAIN page : page[j] = q} = {i}
    BY <2>1
  <2> QED
    BY <1>1, <2>2, FS_Singleton
<1>2. CASE ~\E i \in DOMAIN page : page[i] = q
  <2>1. {j \in DOMAIN page : page[j] = q} = {}
    BY <1>2
  <2> QED
    BY <1>2, <2>1, FS_EmptySet
<1> QED
  BY <1>1, <1>2

\* A quest on the page is listed once more, the others as often as before.
LEMMA SeenFacts ==
  ASSUME req \in Request, walk \in Walk, Holding, RequestOK
  PROVE  /\ Seen \in [Quest -> 0..2]
         /\ \A q \in Quest : /\ ~OnPage(q) => Seen[q] = walk.listed[q]
                             /\ OnPage(q) => Seen[q] > 0
                             /\ OnPage(q) /\ walk.listed[q] = 0 => Seen[q] = 1
<1>1. /\ req.page \in Seq(Quest) /\ walk.listed \in [Quest -> 0..2]
      /\ \A i, j \in DOMAIN req.page : req.page[i] = req.page[j] => i = j
  BY DEF Request, Walk, RequestOK, Holding
<1>2. ASSUME NEW q \in Quest
      PROVE  /\ Seen[q] \in 0..2
             /\ ~OnPage(q) => Seen[q] = walk.listed[q]
             /\ OnPage(q) => Seen[q] > 0
             /\ OnPage(q) /\ walk.listed[q] = 0 => Seen[q] = 1
  <2>1. PICK c : c = Cardinality({i \in DOMAIN req.page : req.page[i] = q})
    OBVIOUS
  <2>2. c = IF OnPage(q) THEN 1 ELSE 0
    BY <1>1, <2>1, TimesOnPage DEF OnPage
  <2>3. PICK l \in 0..2 : l = walk.listed[q]
    BY <1>1
  <2>4. Seen[q] = Min({2, l + c})
    BY <2>1, <2>3 DEF Seen
  <2>5. l + c \in Nat /\ 2 \in Nat
    BY <2>2, <2>3
  <2>6. Seen[q] = IF 2 < l + c THEN 2 ELSE l + c
    BY <2>4, <2>5, MinOf
  <2> QED
    BY <2>2, <2>3, <2>6
<1>3. Seen \in [Quest -> 0..2]
  <2>1. Seen = [q \in Quest |-> Seen[q]]
    BY DEF Seen
  <2> QED
    BY <1>2, <2>1
<1> QED
  BY <1>2, <1>3

LEMMA ReplyKeeps ==
  ASSUME ListsInv, Reply
  PROVE  ListsInv'
<1>1. /\ At("reply") /\ req' = None /\ UNCHANGED <<tables, events>>
      /\ req # None /\ req \in Request /\ RequestOK /\ Walking /\ events' \in 0..MaxEvents
  BY DEF Reply, At, ListsInv, TypeOK, RequestOK
<1>2. walk # None /\ walk \in Walk
  BY <1>1 DEF Walking, ListsInv, TypeOK
<1>3. CASE req.status # 200
  <2>1. UNCHANGED <<tables, walk>>
    BY <1>1, <1>3 DEF Reply
  <2> QED
    BY <1>1, <2>1, HoldsNothing
<1>4. CASE walk' = None
  <2>1. /\ UNCHANGED <<rows, status, created, pending, clock>>
        /\ TimesOK' /\ Rows!RowsType' /\ clock' \in Time
        /\ created' \in [Quest -> Time \cup {None}]
        /\ pending' \in [Quest -> Time \cup {None}]
    BY <1>1, TablesStay DEF ListsInv, tables
  <2>2. TypeOK'
    BY <1>1, <1>4, <2>1 DEF TypeOK, Time
  <2>3. WalkOK' /\ RequestOK' /\ CountFits'
    BY <1>1, <1>4 DEF WalkOK, RequestOK, CountFits, At
  <2> QED
    BY <2>1, <2>2, <2>3 DEF ListsInv
<1>5. CASE req.status = 200 /\ walk' # None
  <2>1. PICK open \in BOOLEAN : open = (Stop < req.total)
    <3>1. Stop \in Int /\ req.total \in Int
      BY <1>1, <1>2 DEF Walk, Request, Stop
    <3>2. (Stop < req.total) \in BOOLEAN
      BY <3>1
    <3> QED
      BY <3>2, Zenon
  <2>2. walk' = WalkedTo(walk, Stop, Seen, open)
    BY <1>5, <2>1 DEF Reply, WalkedTo, Stop
  <2>3. Holding /\ ~Holding' /\ \A q : ~OnPage(q)'
    BY <1>1, <1>5 DEF Holding, OnPage, At
  <2>4. Stop \in Nat /\ walk.offset \in Nat /\ walk.offset <= Stop
    BY <1>1, <1>2 DEF Walk, Request, Stop
  <2>5. /\ Seen \in [Quest -> 0..2]
        /\ \A q \in Quest : /\ ~OnPage(q) => Seen[q] = walk.listed[q]
                            /\ OnPage(q) => Seen[q] > 0
                            /\ OnPage(q) /\ walk.listed[q] = 0 => Seen[q] = 1
    BY <1>1, <1>2, <2>3, SeenFacts
  <2>6. /\ walk' \in Walk /\ walk'.user = walk.user /\ walk'.list = walk.list
        /\ walk'.due = walk.due /\ walk'.firm = walk.firm
        /\ walk'.offset = Stop /\ walk'.listed = Seen /\ walk'.open = open
    BY <1>2, <2>2, <2>4, <2>5, Walked
  <2>7. /\ UNCHANGED <<rows, status, created, pending, clock>>
        /\ TimesOK' /\ Rows!RowsType' /\ clock' \in Time
        /\ created' \in [Quest -> Time \cup {None}]
        /\ pending' \in [Quest -> Time \cup {None}]
    BY <1>1, TablesStay DEF ListsInv, tables
  <2>8. TypeOK'
    BY <1>1, <2>6, <2>7 DEF TypeOK, Walk, Lists, Time
  <2>9. Here' = Here /\ \A q : Place(q)' = Place(q) /\ (Single(q)' <=> Single(q))
    BY <1>5, <2>6, <2>7, Unmoved
  <2>10. /\ walk.due \subseteq Quest /\ walk.firm \subseteq Quest /\ Here \subseteq Quest
         /\ \A q : Place(q) \in Nat /\ \A x \in Quest : walk.listed[x] \in 0..2
    BY <1>2, HereFacts DEF ListsInv, Walk
  <2>11. ASSUME NEW q \in walk.due  PROVE  DueOK(q)'
    <3>1. DueOK(q)
      BY <1>2, <2>11 DEF ListsInv, WalkOK
    <3>2. Seen[q] > 0 \/ open
      BY <1>1, <2>1, <2>3, <2>5, <2>10, <3>1 DEF DueOK
    <3>3. Seen[q] > 0 \/ Place(q) >= Stop
      BY <1>1, <2>3, <2>5, <2>10, <3>1 DEF DueOK
    <3>4. q \in Here /\ Single(q)
      BY <3>1 DEF DueOK
    <3> QED
      BY <2>3, <2>6, <2>9, <3>2, <3>3, <3>4 DEF DueOK
  <2>12. ASSUME NEW q \in walk.firm  PROVE  FirmOK(q)'
    <3>1. FirmOK(q)
      BY <1>2, <2>12 DEF ListsInv, WalkOK
    <3>2. Seen[q] < 2
      BY <2>5, <2>10, <3>1 DEF FirmOK
    <3>3. q \in Here /\ Seen[q] > 0 => Place(q) < Stop
      <4>1. CASE OnPage(q)
        BY <3>1, <4>1 DEF FirmOK
      <4>2. CASE ~OnPage(q)
        BY <2>4, <2>5, <2>10, <3>1, <4>2 DEF FirmOK
      <4> QED
        BY <4>1, <4>2
    <3>4. created[q] \in Time /\ (q \in Here => Single(q))
      BY <3>1 DEF FirmOK
    <3> QED
      BY <2>3, <2>6, <2>7, <2>9, <3>2, <3>3, <3>4 DEF FirmOK, Time
  <2>13. WalkOK'
    BY <2>6, <2>11, <2>12 DEF WalkOK
  <2>14. RequestOK' /\ CountFits'
    BY <1>1 DEF RequestOK, CountFits, At
  <2> QED
    BY <2>7, <2>8, <2>13, <2>14 DEF ListsInv
<1> QED
  BY <1>3, <1>4, <1>5

LEMMA BeginKeeps ==
  ASSUME ListsInv, NEW u \in User, NEW list \in Lists, NEW param \in Param,
         Begin(u, list, param)
  PROVE  ListsInv'
<1>1. /\ walk = None /\ req = None /\ req' = None /\ UNCHANGED <<tables, events>>
      /\ events' \in 0..MaxEvents /\ TypeOK /\ TimesOK
  BY DEF Begin, ListsInv, TypeOK, RequestOK, Walking
<1>2. PICK S : S = On(list, u)
  OBVIOUS
<1>3. S \subseteq Quest /\ IsFiniteSet(S) /\ \A q \in S : created[q] \in Time
  BY <1>1, <1>2, Listed
<1>4. /\ UNCHANGED <<rows, status, created, pending, clock>>
      /\ TimesOK' /\ Rows!RowsType' /\ clock' \in Time
      /\ created' \in [Quest -> Time \cup {None}]
      /\ pending' \in [Quest -> Time \cup {None}]
  BY <1>1, TablesStay DEF tables
<1>5. PICK l \in Nat : l = Limit(list, param)
  BY ListAssumption DEF Limit
<1>6. PICK a : a = Alone(S)
  OBVIOUS
<1>7. a \subseteq S /\ \A q \in a : \A p \in S \ {q} : created[p] # created[q]
  BY <1>6 DEF Alone
<1>8. walk' = [user |-> u, list |-> list, limit |-> l, open |-> TRUE, offset |-> 0,
               listed |-> [q \in Quest |-> 0], due |-> a, firm |-> a]
  BY <1>2, <1>5, <1>6 DEF Begin
<1>9. walk' \in Walk
  <2>1. PICK B : B = BOOLEAN
    OBVIOUS
  <2>2. Walk = WalkOf(B)
    BY <2>1 DEF Walk, WalkOf
  <2>3. a \in SUBSET Quest
    BY <1>3, <1>7
  <2>4. PICK t \in B : t = TRUE
    BY <2>1
  <2>5. walk' = [user |-> u, list |-> list, limit |-> l, open |-> t, offset |-> 0,
                 listed |-> [q \in Quest |-> 0], due |-> a, firm |-> a]
    BY <1>8, <2>4
  <2> QED
    BY <2>2, <2>3, <2>5 DEF WalkOf
<1>10. /\ walk'.user = u /\ walk'.list = list /\ walk'.open /\ walk'.offset = 0
       /\ walk'.due = a /\ walk'.firm = a /\ \A q \in Quest : walk'.listed[q] = 0
  BY <1>8
<1>11. Here' = S
  <2>1. On(list, u)' = On(list, u)
    BY <1>4, Zenon DEF On
  <2> QED
    BY <1>2, <1>10, <2>1 DEF Here
<1>12. TypeOK'
  BY <1>1, <1>4, <1>9 DEF TypeOK, Walk, Lists, Time
<1>13. ~Holding' /\ \A q : ~OnPage(q)'
  BY <1>1 DEF Holding, OnPage
<1>14. ASSUME NEW q \in a
       PROVE  q \in Quest /\ q \in Here' /\ Single(q)' /\ Place(q)' \in Nat
  <2>1. q \in Quest /\ q \in Here' /\ Single(q)'
    BY <1>3, <1>4, <1>7, <1>11, <1>14 DEF Single
  <2>2. Before(q)' \in SUBSET S
    BY <1>11 DEF Before
  <2>3. Cardinality(Before(q)') \in Nat
    BY <1>3, <2>2, FS_Subset, FS_CardinalityType
  <2> QED
    BY <2>1, <2>3 DEF Place
<1>15. WalkOK'
  <2>1. ASSUME NEW q \in a  PROVE  DueOK(q)'
    BY <1>10, <1>13, <1>14, <2>1 DEF DueOK
  <2>2. ASSUME NEW q \in a  PROVE  FirmOK(q)'
    <3>1. created'[q] \in Time
      BY <1>3, <1>4, <1>7, <2>2
    <3> QED
      BY <1>10, <1>13, <1>14, <2>2, <3>1 DEF FirmOK, Time
  <2> QED
    BY <1>10, <2>1, <2>2 DEF WalkOK
<1>16. RequestOK' /\ CountFits'
  BY <1>1 DEF RequestOK, CountFits, At
<1> QED
  BY <1>4, <1>12, <1>15, <1>16 DEF ListsInv

LEMMA NothingMoves ==
  ASSUME ListsInv, UNCHANGED <<rows, status, created, walk, req>>, TypeOK', TimesOK'
  PROVE  ListsInv'
<1>1. ASSUME walk # None
      PROVE  /\ Here' = Here /\ Cardinality(Here)' = Cardinality(Here)
             /\ \A q : Place(q)' = Place(q) /\ (Single(q)' <=> Single(q))
  BY <1>1, Unmoved
<1>2. /\ Holding' <=> Holding
      /\ Stop' = Stop
      /\ \A q : OnPage(q)' <=> OnPage(q)
      /\ At("reply")' <=> At("reply")
      /\ At("count")' <=> At("count")
      /\ Walking' <=> Walking
  BY DEF Holding, Stop, OnPage, At, Walking
<1>3. WalkOK'
  <2>1. SUFFICES ASSUME walk # None  PROVE  WalkOK'
    BY DEF WalkOK
  <2>2. ASSUME NEW q \in walk.due  PROVE  DueOK(q)'
    <3>1. DueOK(q)
      BY <2>1, <2>2 DEF ListsInv, WalkOK
    <3> QED
      BY <1>1, <1>2, <2>1, <3>1 DEF DueOK
  <2>3. ASSUME NEW q \in walk.firm  PROVE  FirmOK(q)'
    <3>1. FirmOK(q)
      BY <2>1, <2>3 DEF ListsInv, WalkOK
    <3> QED
      BY <1>1, <1>2, <2>1, <3>1 DEF FirmOK, Time
  <2> QED
    BY <2>2, <2>3 DEF WalkOK
<1>4. RequestOK'
  <2>1. SUFFICES ASSUME req # None  PROVE  RequestOK'
    BY DEF RequestOK
  <2>2. RequestOK /\ walk # None
    BY <2>1 DEF ListsInv, RequestOK, Walking
  <2>3. PageOK' <=> PageOK
    BY <1>1, <2>2 DEF PageOK
  <2> QED
    BY <1>2, <2>2, <2>3 DEF RequestOK
<1>5. CountFits'
  <2>1. SUFFICES ASSUME req # None  PROVE  CountFits'
    BY DEF CountFits, At
  <2>2. CountFits /\ walk # None
    BY <2>1 DEF ListsInv, RequestOK, Walking
  <2> QED
    BY <1>1, <1>2, <2>2 DEF CountFits
<1> QED
  BY <1>3, <1>4, <1>5 DEF ListsInv

LEMMA StampKeeps ==
  ASSUME ListsInv, NEW q \in Quest, Stamp(q)
  PROVE  ListsInv'
<1>1. UNCHANGED <<rows, status, created, walk, req, events>> /\ created[q] = None
  BY DEF Stamp
<1>2. PICK t \in Time : clock' = t /\ pending' = [pending EXCEPT ![q] = t]
  BY DEF Stamp
<1>3. TypeOK /\ TimesOK /\ pending' \in [Quest -> Time \cup {None}]
  BY <1>2 DEF ListsInv, TypeOK
<1>4. rows[q] = None
  BY <1>1, <1>3, ListAssumption DEF TimesOK, Time
<1>5. TypeOK'
  BY <1>1, <1>2, <1>3 DEF TypeOK, Rows!RowsType, Time, Walk, Request, Lists
<1>6. TimesOK'
  <2>1. \A p \in Quest : pending'[p] # None => p = q \/ pending[p] # None
    BY <1>2, <1>3 DEF TypeOK
  <2> QED
    BY <1>1, <1>3, <1>4, <2>1 DEF TimesOK, Time
<1> QED
  BY <1>1, <1>5, <1>6, NothingMoves

--------------------------------------------------------------------------------
(* The writers.                                                            *)

\* What a change does to the tables.
LEMMA RowChange ==
  ASSUME TypeOK, TimesOK, NEW q \in Quest, NEW u \in User, NEW kind \in Kind,
         \/ Rows!Edit(q, kind) \/ Rows!Delete(q)
         \/ Rows!Send(q, u) \/ Rows!Start(q, u) \/ Rows!Finish(q, u),
         UNCHANGED <<created, pending>>
  PROVE  Rows!RowsType' /\ TimesOK'
<1>1. /\ rows \in [Quest -> [owner : User, kind : Kind] \cup {None}]
      /\ status \in [Quest \X User -> {"not_started", "in_progress", "finished", None}]
  BY DEF TypeOK, Rows!RowsType
<1>2. ASSUME NEW s \in {"not_started", "in_progress", "finished"}, rows' = rows,
             status' = [status EXCEPT ![<<q, u>>] = s],
             rows[q] # None \/ status[<<q, u>>] # None
      PROVE  Rows!RowsType' /\ TimesOK'
  <2>1. Rows!RowsType'
    BY <1>1, <1>2 DEF Rows!RowsType
  <2>2. created[q] \in Time
    BY <1>2 DEF TimesOK
  <2>3. \A p \in Quest, v \in User :
          status'[<<p, v>>] = IF p = q /\ v = u THEN s ELSE status[<<p, v>>]
    BY <1>1, <1>2
  <2>4. TimesOK'
    BY <1>2, <2>2, <2>3 DEF TimesOK, Time
  <2> QED
    BY <2>1, <2>4
<1>3. CASE Rows!Edit(q, kind)
  <2>1. /\ rows[q] # None /\ status' = status
        /\ rows' = [rows EXCEPT ![q] = [rows[q] EXCEPT !.kind = kind]]
    BY <1>1, <1>3 DEF Rows!Edit
  <2>2. PICK r \in [owner : User, kind : Kind] : r = [rows[q] EXCEPT !.kind = kind]
    BY <1>1, <2>1
  <2>3. rows' = [rows EXCEPT ![q] = r]
    BY <2>1, <2>2
  <2>4. Rows!RowsType'
    BY <1>1, <2>1, <2>3 DEF Rows!RowsType
  <2>5. \A p \in Quest : rows'[p] # None => rows[p] # None
    BY <1>1, <2>1, <2>3
  <2>6. \A p \in Quest : rows[p] = None => rows'[p] = None
    BY <1>1, <2>1, <2>3
  <2>7. TimesOK'
    BY <2>1, <2>5, <2>6 DEF TimesOK, Time
  <2> QED
    BY <2>4, <2>7
<1>4. CASE Rows!Delete(q)
  <2>1. status' = status /\ rows' = [rows EXCEPT ![q] = None]
    BY <1>4 DEF Rows!Delete
  <2>2. Rows!RowsType'
    BY <1>1, <2>1 DEF Rows!RowsType
  <2>3. \A p \in Quest : rows'[p] # None => rows'[p] = rows[p]
    BY <1>1, <2>1
  <2>4. TimesOK'
    BY <2>1, <2>3 DEF TimesOK, Time
  <2> QED
    BY <2>2, <2>4
<1>5. CASE Rows!Send(q, u)
  BY <1>2, <1>5 DEF Rows!Send
<1>6. CASE Rows!Start(q, u)
  BY <1>2, <1>6, ListAssumption DEF Rows!Start
<1>7. CASE Rows!Finish(q, u)
  BY <1>2, <1>7, ListAssumption DEF Rows!Finish
<1> QED
  BY <1>3, <1>4, <1>5, <1>6, <1>7

LEMMA Inserted ==
  ASSUME TypeOK, TimesOK, NEW q \in Quest, NEW u \in User, NEW kind \in Kind,
         Insert(q, u, kind)
  PROVE  /\ Rows!RowsType' /\ TimesOK'
         /\ created' \in [Quest -> Time \cup {None}]
         /\ pending' \in [Quest -> Time \cup {None}]
         /\ \A p \in Quest : created[p] \in Time => created'[p] = created[p]
<1>1. /\ rows \in [Quest -> [owner : User, kind : Kind] \cup {None}]
      /\ created \in [Quest -> Time \cup {None}] /\ pending \in [Quest -> Time \cup {None}]
  BY DEF TypeOK, Rows!RowsType
<1>2. PICK r \in [owner : User, kind : Kind] : r = [owner |-> u, kind |-> kind]
  OBVIOUS
<1>3. PICK t \in Time : t = pending[q]
  BY <1>1 DEF Insert
<1>4. /\ status' = status /\ rows' = [rows EXCEPT ![q] = r]
      /\ created' = [created EXCEPT ![q] = t]
      /\ pending' = [pending EXCEPT ![q] = None]
  BY <1>2, <1>3 DEF Insert, Rows!Create
<1>5. Rows!RowsType'
  BY <1>1, <1>4 DEF TypeOK, Rows!RowsType
<1>6. created' \in [Quest -> Time \cup {None}] /\ pending' \in [Quest -> Time \cup {None}]
  BY <1>1, <1>4
<1>7. created[q] = None
  BY DEF Insert, TimesOK
<1>8. \A p \in Quest : created[p] \in Time => created'[p] = created[p]
  <2>1. None \notin Time
    BY ListAssumption DEF Time
  <2> QED
    BY <1>1, <1>4, <1>7, <2>1
<1>9. TimesOK'
  <2>1. \A p \in Quest : /\ pending'[p] = IF p = q THEN None ELSE pending[p]
                         /\ created'[p] = IF p = q THEN t ELSE created[p]
                         /\ rows'[p] = IF p = q THEN r ELSE rows[p]
    BY <1>1, <1>4
  <2>2. \A p \in Quest : pending'[p] # None => rows'[p] = None /\ created'[p] = None
    BY <2>1 DEF TimesOK
  <2>3. \A p \in Quest : rows'[p] # None => created'[p] \in Time
    BY <2>1 DEF TimesOK
  <2>4. \A p \in Quest, v \in User : status'[<<p, v>>] # None => created'[p] \in Time
    BY <1>4, <2>1 DEF TimesOK
  <2> QED
    BY <2>2, <2>3, <2>4 DEF TimesOK, Time
<1> QED
  BY <1>5, <1>6, <1>8, <1>9

LEMMA Changed ==
  ASSUME TypeOK, TimesOK, Change
  PROVE  /\ Rows!RowsType' /\ TimesOK'
         /\ created' \in [Quest -> Time \cup {None}]
         /\ pending' \in [Quest -> Time \cup {None}]
         /\ \A p \in Quest : created[p] \in Time => created'[p] = created[p]
<1>1. CASE \E q \in Quest, u \in User, kind \in Kind : Insert(q, u, kind)
  BY <1>1, Inserted
<1>2. CASE /\ \E q \in Quest, u \in User, kind \in Kind :
                \/ Rows!Edit(q, kind) \/ Rows!Delete(q)
                \/ Rows!Send(q, u) \/ Rows!Start(q, u) \/ Rows!Finish(q, u)
           /\ UNCHANGED <<created, pending>>
  <2>1. PICK q \in Quest, u \in User, kind \in Kind :
          \/ Rows!Edit(q, kind) \/ Rows!Delete(q)
          \/ Rows!Send(q, u) \/ Rows!Start(q, u) \/ Rows!Finish(q, u)
    BY <1>2
  <2>2. Rows!RowsType' /\ TimesOK'
    BY <1>2, <2>1, RowChange
  <2> QED
    BY <1>2, <2>2 DEF TypeOK, Time
<1> QED
  BY <1>1, <1>2 DEF Change

\* What a change makes of the walk and of the request.
HistoryWith(w, due, firm) == [w EXCEPT !.due = due, !.firm = firm]
StillWith(x, still) == [x EXCEPT !.still = still]

LEMMA Histories ==
  ASSUME NEW w \in Walk, NEW due \in SUBSET Quest, NEW firm \in SUBSET Quest
  PROVE  LET x == HistoryWith(w, due, firm) IN
         /\ x \in Walk /\ x.user = w.user /\ x.list = w.list /\ x.limit = w.limit
         /\ x.due = due /\ x.firm = firm
         /\ x.offset = w.offset /\ x.listed = w.listed /\ x.open = w.open
<1>1. PICK B : B = BOOLEAN
  OBVIOUS
<1>2. Walk = WalkOf(B)
  BY <1>1 DEF Walk, WalkOf
<1>3. PICK x : x = HistoryWith(w, due, firm)
  OBVIOUS
<1>4. x \in Walk
  BY <1>2, <1>3 DEF WalkOf, HistoryWith
<1>5. x.user = w.user /\ x.list = w.list /\ x.limit = w.limit
  BY <1>2, <1>3 DEF WalkOf, HistoryWith
<1>6. x.due = due /\ x.firm = firm
  BY <1>2, <1>3 DEF WalkOf, HistoryWith
<1>7. x.offset = w.offset /\ x.listed = w.listed
  BY <1>2, <1>3 DEF WalkOf, HistoryWith
<1>8. x.open = w.open
  BY <1>2, <1>3 DEF WalkOf, HistoryWith
<1> QED
  BY <1>3, <1>4, <1>5, <1>6, <1>7, <1>8

LEMMA Stills ==
  ASSUME NEW x \in Request, NEW still \in BOOLEAN
  PROVE  LET y == StillWith(x, still) IN
         /\ y \in Request /\ y.pc = x.pc /\ y.page = x.page /\ y.total = x.total
         /\ y.status = x.status /\ y.cut = x.cut /\ y.still = still
<1>1. PICK B : B = BOOLEAN
  OBVIOUS
<1>2. Request = RequestOf(B)
  BY <1>1 DEF Request, RequestOf
<1>3. PICK y : y = StillWith(x, still)
  OBVIOUS
<1>4. PICK b \in B : b = still
  BY <1>1
<1>5. y = [x EXCEPT !.still = b]
  BY <1>3, <1>4 DEF RequestOf, StillWith
<1>6. y \in Request
  BY <1>2, <1>5 DEF RequestOf
<1>7. y.pc = x.pc /\ y.page = x.page /\ y.total = x.total
  BY <1>2, <1>5 DEF RequestOf
<1>8. y.status = x.status /\ y.still = b
  BY <1>2, <1>5 DEF RequestOf
<1>9. y.cut = x.cut
  BY <1>2, <1>5 DEF RequestOf
<1> QED
  BY <1>3, <1>4, <1>6, <1>7, <1>8, <1>9

LEMMA OnQuests ==
  ASSUME TimesOK', NEW list \in Lists, NEW u \in User
  PROVE  On(list, u)' \subseteq Quest /\ \A q \in On(list, u)' : created'[q] \in 1..MaxClock
<1>1. CASE list = "created"
  <2>1. On(list, u)' = {q \in Quest : rows'[q] # None /\ rows'[q].owner = u}
    BY <1>1 DEF On
  <2> QED
    BY <2>1 DEF TimesOK, Time
<1>2. CASE list = "available"
  <2>1. On(list, u)' =
          {q \in Quest : status'[<<q, u>>] \in {"not_started", "in_progress"}}
    BY <1>2 DEF On
  <2> QED
    BY <2>1, ListAssumption DEF TimesOK, Time
<1>3. CASE list = "finished"
  <2>1. On(list, u)' = {q \in Quest : status'[<<q, u>>] = "finished"}
    BY <1>3 DEF On
  <2> QED
    BY <2>1, ListAssumption DEF TimesOK, Time
<1> QED
  BY <1>1, <1>2, <1>3 DEF Lists

\* The list after a change: what a quest is due for, and what is firm about it.
LEMMA DueMoves ==
  ASSUME Here \subseteq Quest, IsFiniteSet(Here), IsFiniteSet(Here'),
         \A p \in Here : created[p] \in Time /\ created'[p] = created[p],
         NEW q \in Here, Single(q),
         \A p \in Here \ Here' : created[q] < created[p],
         \A p \in Here' \ Here : created[q] # created'[p]
  PROVE  q \in Here' /\ Single(q)' /\ Place(q) <= Place(q)'
<1>1. ~(created[q] < created[q])
  BY DEF Time
<1>2. q \in Here'
  BY <1>1
<1>3. Single(q)'
  <2>1. SUFFICES ASSUME NEW p \in Here' \ {q}  PROVE  created'[p] # created'[q]
    BY DEF Single
  <2>2. CASE p \in Here
    BY <2>2 DEF Single
  <2>3. CASE p \notin Here
    BY <2>3
  <2> QED
    BY <2>2, <2>3
<1>4. Before(q) \subseteq Before(q)'
  <2>1. SUFFICES ASSUME NEW p \in Here, created[p] < created[q]
                 PROVE  p \in Here' /\ created'[p] < created'[q]
    BY DEF Before
  <2>2. ~(created[q] < created[p])
    BY <2>1 DEF Time
  <2> QED
    BY <2>1, <2>2
<1>5. Before(q)' \in SUBSET Here'
  BY DEF Before
<1>6. IsFiniteSet(Before(q)')
  BY <1>5, FS_Subset
<1> QED
  BY <1>2, <1>3, <1>4, <1>6, FS_Subset DEF Place

LEMMA FirmMoves ==
  ASSUME Here \subseteq Quest, IsFiniteSet(Here),
         \A p \in Here : created[p] \in Time /\ created'[p] = created[p],
         \A p \in Here' : created'[p] \in Time,
         NEW q, q \in Here', created[q] \in Time, created'[q] = created[q],
         q \in Here => Single(q),
         \A p \in Here' \ Here : created[q] < created'[p]
  PROVE  q \in Here /\ Single(q)' /\ Place(q)' <= Place(q)
<1>1. ~(created[q] < created[q])
  BY DEF Time
<1>2. q \in Here
  BY <1>1
<1>3. Single(q)'
  <2>1. SUFFICES ASSUME NEW p \in Here' \ {q}  PROVE  created'[p] # created'[q]
    BY DEF Single
  <2>2. CASE p \in Here
    BY <1>2, <2>2 DEF Single
  <2>3. CASE p \notin Here
    BY <1>1, <2>3
  <2> QED
    BY <2>2, <2>3
<1>4. Before(q)' \subseteq Before(q)
  <2>1. SUFFICES ASSUME NEW p \in Here', created'[p] < created'[q]
                 PROVE  p \in Here /\ created[p] < created[q]
    BY DEF Before
  <2>2. CASE p \in Here
    BY <2>1, <2>2
  <2>3. CASE p \notin Here
    <3>1. p \in Here' \ Here
      BY <2>3
    <3>2. created[q] < created'[p]
      BY <3>1
    <3>3. created[q] \in Nat /\ created'[p] < created[q]
      BY <2>1 DEF Time
    <3>4. created'[p] \in Nat
      BY <2>1 DEF Time
    <3> QED
      BY <3>2, <3>3, <3>4
  <2> QED
    BY <2>2, <2>3
<1>5. Before(q) \in SUBSET Here
  BY DEF Before
<1>6. IsFiniteSet(Before(q))
  BY <1>5, FS_Subset
<1> QED
  BY <1>2, <1>3, <1>4, <1>6, FS_Subset DEF Place

LEMMA WriterKeeps ==
  ASSUME ListsInv, Writer
  PROVE  ListsInv'
<1>1. /\ TypeOK /\ TimesOK /\ WalkOK /\ RequestOK /\ CountFits
      /\ Walking /\ Change /\ clock' = clock /\ walk # None
  BY DEF ListsInv, Writer, Walking
<1>2. walk \in Walk /\ walk.list \in Lists /\ walk.user \in User
  BY <1>1 DEF TypeOK, Walk
<1>3. events' \in 0..MaxEvents
  BY OneEvent DEF Writer
<1>4. /\ Rows!RowsType' /\ TimesOK'
      /\ created' \in [Quest -> Time \cup {None}]
      /\ pending' \in [Quest -> Time \cup {None}]
      /\ \A p \in Quest : created[p] \in Time => created'[p] = created[p]
  BY <1>1, Changed
<1>5. PICK list \in Lists, u \in User :
        list = walk.list /\ u = walk.user /\ Watched(list, u)
  BY <1>2 DEF Writer
<1>6. Here = On(list, u)
  BY <1>5 DEF Here
<1>7. PICK S : S = On(list, u)'
  OBVIOUS
<1>8. /\ walk' = [walk EXCEPT
           !.due = {q \in walk.due : /\ \A p \in Here \ S : created[q] < created[p]
                                     /\ \A p \in S \ Here : created[q] # created'[p]},
           !.firm = {q \in walk.firm : \A p \in S \ Here : created[q] < created'[p]}]
      /\ req' = IF req = None THEN req
                ELSE [req EXCEPT !.still = req.still /\ Here \ S = {} /\ S \ Here = {}]
  BY <1>5, <1>6, <1>7 DEF Watched
<1>9. PICK due \in SUBSET walk.due :
        due = {q \in walk.due : /\ \A p \in Here \ S : created[q] < created[p]
                                /\ \A p \in S \ Here : created[q] # created'[p]}
  OBVIOUS
<1>10. PICK firm \in SUBSET walk.firm :
         firm = {q \in walk.firm : \A p \in S \ Here : created[q] < created'[p]}
  OBVIOUS
<1>11. due \in SUBSET Quest /\ firm \in SUBSET Quest
  BY <1>2 DEF Walk
<1>12. walk' = HistoryWith(walk, due, firm)
  BY <1>8, <1>9, <1>10 DEF HistoryWith
<1>13. /\ walk' \in Walk /\ walk'.user = walk.user /\ walk'.list = walk.list
       /\ walk'.limit = walk.limit /\ walk'.due = due /\ walk'.firm = firm
       /\ walk'.offset = walk.offset /\ walk'.listed = walk.listed
       /\ walk'.open = walk.open
  BY <1>2, <1>11, <1>12, Histories
<1>14. Here' = S
  BY <1>5, <1>7, <1>13 DEF Here
<1>15. /\ S \subseteq Quest /\ IsFiniteSet(S)
       /\ \A q \in S : created'[q] \in Time
  <2>1. S \subseteq Quest /\ \A q \in S : created'[q] \in Time
    BY <1>4, <1>7, OnQuests DEF Time
  <2> QED
    BY <2>1, FS_Subset, ListAssumption
<1>16. /\ Here \subseteq Quest /\ IsFiniteSet(Here)
       /\ \A p \in Here : created[p] \in Time /\ created'[p] = created[p]
       /\ \A q : Place(q) \in Nat
  BY <1>1, <1>4, HereFacts
<1>17. \A q : Place(q)' \in Nat
  <2> TAKE q
  <2>1. Before(q)' \in SUBSET S
    BY <1>14 DEF Before
  <2>2. Cardinality(Before(q)') \in Nat
    BY <1>15, <2>1, FS_Subset, FS_CardinalityType
  <2> QED
    BY <2>2 DEF Place
<1>18. /\ req = None => req' = None
       /\ req # None => \E still \in BOOLEAN :
            /\ req' = StillWith(req, still)
            /\ still => req.still /\ S = Here
  <2>1. CASE req = None
    BY <1>8, <2>1
  <2>2. CASE req # None
    <3>1. (req.still /\ Here \ S = {} /\ S \ Here = {}) \in BOOLEAN
      OBVIOUS
    <3>2. PICK still \in BOOLEAN : still = (req.still /\ Here \ S = {} /\ S \ Here = {})
      BY <3>1, Zenon
    <3>3. req' = StillWith(req, still)
      BY <1>8, <2>2, <3>2, Zenon DEF StillWith
    <3>4. still => req.still /\ S = Here
      BY <3>2
    <3> QED
      BY <2>2, <3>3, <3>4
  <2> QED
    BY <2>1, <2>2
<1>19. req # None => req \in Request
  BY <1>1 DEF TypeOK
<1>20. /\ req' # None => /\ req # None /\ req' \in Request
                         /\ req'.pc = req.pc /\ req'.page = req.page
                         /\ req'.total = req.total /\ req'.status = req.status
                         /\ req'.cut = req.cut
                         /\ req'.still => req.still /\ S = Here
  BY <1>18, <1>19, Stills
<1>21. TypeOK'
  BY <1>1, <1>3, <1>4, <1>13, <1>20
  DEF TypeOK, Walk, Request, Lists, Time
<1>22. /\ Holding' => Holding /\ Stop' = Stop
       /\ \A q : OnPage(q)' => OnPage(q)
       /\ Holding' => \A q : OnPage(q) => OnPage(q)'
       /\ At("reply")' => At("reply") /\ req'.total = req.total
       /\ At("reply") /\ req' # None => At("reply")'
       /\ At("count")' => At("count")
  BY <1>13, <1>20 DEF Holding, OnPage, Stop, At
<1>23. ASSUME NEW q \in due  PROVE  DueOK(q)'
  <2>1. DueOK(q)
    BY <1>1, <1>23 DEF WalkOK
  <2>2. q \in Here /\ Single(q)
    BY <2>1 DEF DueOK
  <2>3. /\ \A p \in Here \ Here' : created[q] < created[p]
        /\ \A p \in Here' \ Here : created[q] # created'[p]
    BY <1>9, <1>14, <1>23
  <2>4. q \in Here' /\ Single(q)' /\ Place(q) <= Place(q)'
    BY <1>14, <1>15, <1>16, <2>2, <2>3, DueMoves
  <2>5. \A n \in Nat : Place(q) >= n => Place(q)' >= n
    BY <1>16, <1>17, <2>4
  <2>6. walk.offset \in Nat
    BY <1>2 DEF Walk
  <2>7. Holding => Stop \in Nat
    BY <1>19, <2>6 DEF Holding, Stop, Request
  <2>8. walk.open => walk.listed[q] > 0 \/ Place(q)' >= walk.offset
    BY <2>1, <2>5, <2>6 DEF DueOK
  <2>9. Holding => walk.listed[q] > 0 \/ OnPage(q) \/ Place(q)' >= Stop
    BY <2>1, <2>5, <2>7 DEF DueOK
  <2>10. walk.listed[q] > 0 \/ walk.open
    BY <2>1 DEF DueOK
  <2>11. Holding /\ At("reply") => walk.listed[q] > 0 \/ OnPage(q) \/ Stop < req.total
    BY <2>1 DEF DueOK
  <2> QED
    BY <1>13, <1>22, <2>4, <2>8, <2>9, <2>10, <2>11 DEF DueOK
<1>24. ASSUME NEW q \in firm  PROVE  FirmOK(q)'
  <2>1. FirmOK(q) /\ q \in Quest
    BY <1>1, <1>2, <1>24 DEF WalkOK, Walk
  <2>2. created[q] \in Time /\ created'[q] = created[q] /\ (q \in Here => Single(q))
    BY <1>4, <2>1 DEF FirmOK
  <2>3. \A p \in Here' \ Here : created[q] < created'[p]
    BY <1>10, <1>14, <1>24
  <2>4. q \in Here' => q \in Here /\ Single(q)' /\ Place(q)' <= Place(q)
    BY <1>14, <1>15, <1>16, <2>2, <2>3, FirmMoves
  <2>5. \A n \in Nat : q \in Here' /\ Place(q) < n => Place(q)' < n
    BY <1>16, <1>17, <2>4
  <2>6. walk.offset \in Nat
    BY <1>2 DEF Walk
  <2>7. OnPage(q) => Stop \in Nat
    BY <1>19, <2>6 DEF OnPage, Holding, Stop, Request
  <2>8. q \in Here' /\ walk.listed[q] > 0 => Place(q)' < walk.offset
    BY <2>1, <2>4, <2>5, <2>6 DEF FirmOK
  <2>9. OnPage(q) => walk.listed[q] = 0 /\ (q \in Here' => Place(q)' < Stop)
    BY <2>1, <2>4, <2>5, <2>7 DEF FirmOK
  <2>10. walk.listed[q] < 2
    BY <2>1 DEF FirmOK
  <2>11. OnPage(q)' => Holding'
    BY DEF OnPage
  <2> QED
    BY <1>13, <1>22, <2>2, <2>4, <2>8, <2>9, <2>10, <2>11 DEF FirmOK, Time
<1>25. WalkOK'
  BY <1>13, <1>23, <1>24 DEF WalkOK
<1>26. RequestOK'
  <2>1. SUFFICES ASSUME req' # None  PROVE  RequestOK'
    BY DEF RequestOK
  <2>2. RequestOK /\ Walking' /\ req # None
    BY <1>1, <1>13, <1>20, <2>1, ListAssumption DEF Walking, RequestOK
  <2>3. At("count")' => PageOK'
    <3>1. SUFFICES ASSUME At("count")', req'.still  PROVE  PageOK'
      BY DEF PageOK
    <3>2. PageOK /\ req.still /\ Here' = Here
      BY <1>14, <1>20, <1>22, <2>1, <2>2, <3>1 DEF RequestOK
    <3> QED
      BY <1>13, <1>20, <2>1, <3>2 DEF PageOK
  <2>4. ~At("reply")' => req'.status = 200
    BY <1>20, <1>22, <2>1, <2>2 DEF RequestOK
  <2>5. Holding' => \A i, j \in DOMAIN req'.page : req'.page[i] = req'.page[j] => i = j
    BY <1>20, <1>22, <2>1, <2>2 DEF RequestOK
  <2> QED
    BY <2>2, <2>3, <2>4, <2>5 DEF RequestOK
<1>27. CountFits'
  <2>1. SUFFICES ASSUME At("reply")', req'.status = 200, req'.still  PROVE  CountFits'
    BY DEF CountFits
  <2>2. req' # None
    BY <2>1 DEF At
  <2>3. CountFits /\ At("reply") /\ req.status = 200 /\ req.still /\ Here' = Here
    BY <1>1, <1>14, <1>20, <1>22, <2>1, <2>2
  <2> QED
    BY <1>13, <1>20, <2>2, <2>3 DEF CountFits
<1> QED
  BY <1>4, <1>21, <1>25, <1>26, <1>27 DEF ListsInv

LEMMA InitListsInv == Init => ListsInv
<1> SUFFICES ASSUME Init  PROVE  ListsInv
  OBVIOUS
<1>1. /\ rows \in [Quest -> [owner : User, kind : Kind] \cup {None}]
      /\ status \in [Quest \X User -> {"not_started", "in_progress", "finished", None}]
      /\ walk = None /\ req = None /\ events = 0
  BY DEF Init
<1>2. PICK S \in SUBSET {q \in Quest : rows[q] = None} :
        pending = [q \in Quest |-> IF q \in S THEN Born[q] ELSE None]
  BY DEF Init
<1>3. created = [q \in Quest |-> IF rows[q] = None THEN None ELSE Born[q]]
  BY DEF Init
<1>4. Born \in [Quest -> Time] /\ MaxClock \in Nat /\ Quest # {}
  BY ListAssumption
<1>5. clock \in Time
  <2>1. Range(Born) \in SUBSET (1..MaxClock) /\ Range(Born) # {}
    BY <1>4 DEF Range, Time
  <2>2. Max(Range(Born)) \in Range(Born)
    BY <1>4, <2>1, MaxIn
  <2> QED
    BY <2>1, <2>2 DEF Init, Time
<1>6. TypeOK
  <2>1. created \in [Quest -> Time \cup {None}] /\ pending \in [Quest -> Time \cup {None}]
    BY <1>2, <1>3, <1>4
  <2> QED
    BY <1>1, <1>5, <2>1, ListAssumption DEF TypeOK, Rows!RowsType
<1>7. TimesOK
  <2>1. \A q \in Quest, u \in User : rows[q] = None => status[<<q, u>>] = None
    BY DEF Init
  <2> QED
    BY <1>2, <1>3, <1>4, <2>1 DEF TimesOK
<1> QED
  BY <1>1, <1>6, <1>7 DEF ListsInv, WalkOK, RequestOK, CountFits, At

LEMMA NextListsInv == ListsInv /\ [Next]_vars => ListsInv'
<1> SUFFICES ASSUME ListsInv, [Next]_vars  PROVE  ListsInv'
  OBVIOUS
<1>1. ASSUME NEW u \in User, NEW list \in Lists, NEW param \in Param,
             Begin(u, list, param)
      PROVE  ListsInv'
  BY <1>1, BeginKeeps
<1>2. ASSUME NEW token \in BOOLEAN, NEW contentType \in ContentTypes,
             Ask(token, contentType)
      PROVE  ListsInv'
  BY <1>2, AskKeeps
<1>3. CASE Handle
  <2>1. CASE CreatedPage \/ AvailablePage
    BY <2>1, PagesKeep
  <2>2. CASE AvailableUser
    BY <2>2, OthersKeep
  <2>3. CASE CountList
    BY <2>3, CountListKeeps
  <2>4. CASE Reply
    BY <2>4, ReplyKeeps
  <2> QED
    BY <1>3, <2>1, <2>2, <2>3, <2>4 DEF Handle
<1>4. CASE StatementFails \/ Disconnect
  BY <1>4, OthersKeep
<1>5. CASE CutPage
  BY <1>5, PagesKeep
<1>6. ASSUME NEW q \in Quest, Stamp(q)
      PROVE  ListsInv'
  BY <1>6, StampKeeps
<1>7. CASE Writer
  BY <1>7, WriterKeeps
<1>8. CASE UNCHANGED vars
  <2>1. UNCHANGED <<rows, status, created, pending, clock, walk, req, events>>
    BY <1>8 DEF vars
  <2>2. TypeOK' /\ TimesOK'
    BY <2>1 DEF ListsInv, TypeOK, TimesOK, Rows!RowsType, Time, Walk, Request, Lists
  <2> QED
    BY <2>1, <2>2, NothingMoves
<1> QED
  BY <1>1, <1>2, <1>3, <1>4, <1>5, <1>6, <1>7, <1>8 DEF Next

LEMMA ListsInvariant == Spec => []ListsInv
BY InitListsInv, NextListsInv, PTL DEF Spec

--------------------------------------------------------------------------------
(***************************************************************************)
(* The theorems.                                                           *)
(***************************************************************************)

(***************************************************************************)
(* The variables keep their types, in every answer of a handler and after  *)
(* every change of the tables.                                             *)
(***************************************************************************)
THEOREM TypeCorrect == Spec => []TypeOK
<1>1. ListsInv => TypeOK
  BY DEF ListsInv
<1> QED
  BY <1>1, ListsInvariant, PTL

(***************************************************************************)
(* A client who walks through a list with getQuestsByUser or               *)
(* getAvailableQuests misses no quest, unless one before it left the list, *)
(* and sees none twice, unless one came before it: for any tables at       *)
(* first, any limits, order of the writers and number of faults.           *)
(***************************************************************************)
THEOREM ListedOnce == Spec => []ListsOnce
<1>1. ListsInv => ListsOnce
  <2> SUFFICES ASSUME ListsInv, walk # None  PROVE  ListsOnce
    BY DEF ListsOnce
  <2>1. WalkOK
    BY DEF ListsInv
  <2>2. ~walk.open => \A q \in walk.due : walk.listed[q] > 0
    BY <2>1 DEF WalkOK, DueOK
  <2>3. \A q \in walk.firm : walk.listed[q] < 2
    BY <2>1 DEF WalkOK, FirmOK
  <2> QED
    BY <2>2, <2>3 DEF ListsOnce
<1> QED
  BY <1>1, ListsInvariant, PTL

(***************************************************************************)
(* The page and the total_count of an answer are of one list, when the     *)
(* list was the same through the two statements that read them.            *)
(***************************************************************************)
THEOREM CountsFit == Spec => []CountFits
<1>1. ListsInv => CountFits
  BY DEF ListsInv
<1> QED
  BY <1>1, ListsInvariant, PTL
================================================================================
