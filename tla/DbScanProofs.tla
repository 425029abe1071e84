---------------------------- MODULE DbScanProofs ----------------------------
(* For any records, lists, phases and puts: the lists agree with the fields  *)
(* of the records, and a walk that puts disturb between two of its locked    *)
(* sections neither follows a pointer out of its list nor leaves out or      *)
(* repeats a record that stays.                                              *)
EXTENDS DbScan, FiniteSetTheorems, TLAPS

-----------------------------------------------------------------------------
\* Sequences: what the insertion and the removal of an element give.
LEMMA ConcatProps ==
  ASSUME NEW S, NEW s \in Seq(S), NEW t \in Seq(S)
  PROVE  /\ s \o t \in Seq(S)
         /\ Len(s \o t) = Len(s) + Len(t)
         /\ \A j \in 1..(Len(s) + Len(t)) :
              (s \o t)[j] = IF j <= Len(s) THEN s[j] ELSE t[j - Len(s)]
OBVIOUS

LEMMA SubSeqProps ==
  ASSUME NEW S, NEW s \in Seq(S), NEW a \in 1..(Len(s) + 1), NEW b \in 0..Len(s), a <= b + 1
  PROVE  /\ SubSeq(s, a, b) \in Seq(S)
         /\ Len(SubSeq(s, a, b)) = (b - a) + 1
         /\ \A j \in 1..((b - a) + 1) : SubSeq(s, a, b)[j] = s[(a + j) - 1]
<1>1. \A j \in a..b : j \in 1..Len(s)
  OBVIOUS
<1> QED BY <1>1

LEMMA InsertAtProps ==
  ASSUME NEW S, NEW s \in Seq(S), NEW i \in 1..(Len(s) + 1), NEW e \in S
  PROVE  /\ InsertAt(s, i, e) \in Seq(S)
         /\ Len(InsertAt(s, i, e)) = Len(s) + 1
         /\ \A j \in 1..(Len(s) + 1) :
              InsertAt(s, i, e)[j] = IF j < i THEN s[j] ELSE IF j = i THEN e ELSE s[j - 1]
<1> DEFINE front == SubSeq(s, 1, i-1)
           back == SubSeq(s, i, Len(s))
           left == front \o <<e>>
<1>0. Len(s) \in Nat /\ i \in Int /\ <<e>> \in Seq(S) /\ Len(<<e>>) = 1 /\ <<e>>[1] = e
  OBVIOUS
<1>1. front \in Seq(S) /\ Len(front) = i - 1 /\ \A j \in 1..(i-1) : front[j] = s[j]
  OBVIOUS
<1>2. back \in Seq(S) /\ Len(back) = (Len(s) - i) + 1
      /\ \A j \in 1..((Len(s) - i) + 1) : back[j] = s[(i + j) - 1]
  BY <1>0, SubSeqProps
<1> HIDE DEF front, back
<1>3. left \in Seq(S) /\ Len(left) = i
      /\ \A j \in 1..i : left[j] = IF j < i THEN front[j] ELSE e
  BY <1>0, <1>1, ConcatProps
<1> HIDE DEF left
<1>4. InsertAt(s, i, e) = left \o back
  BY DEF InsertAt, left, front, back
<1>5. Len(left) + Len(back) = Len(s) + 1
  BY <1>0, <1>2, <1>3
<1>6. left \o back \in Seq(S) /\ Len(left \o back) = Len(s) + 1
  BY <1>2, <1>3, <1>5, ConcatProps
<1>7. ASSUME NEW j \in 1..(Len(s) + 1)
      PROVE  (left \o back)[j] = IF j < i THEN s[j] ELSE IF j = i THEN e ELSE s[j - 1]
  <2>1. (left \o back)[j] = IF j <= Len(left) THEN left[j] ELSE back[j - Len(left)]
    BY <1>2, <1>3, <1>5, ConcatProps
  <2>2. CASE j < i
    <3>1. j \in 1..i /\ j \in 1..(i - 1) /\ j <= Len(left)
      BY <1>0, <1>3, <2>2
    <3> QED BY <1>1, <1>3, <2>1, <2>2, <3>1
  <2>3. CASE j = i
    <3>1. j \in 1..i /\ j <= Len(left) /\ ~(j < i)
      BY <1>0, <1>3, <2>3
    <3> QED BY <1>3, <2>1, <2>3, <3>1
  <2>4. CASE j > i
    <3>1. ~(j <= Len(left)) /\ j - i \in 1..((Len(s) - i) + 1) /\ (i + (j - i)) - 1 = j - 1
          /\ ~(j < i) /\ j # i
      BY <1>0, <1>3, <2>4
    <3>2. back[j - i] = s[j - 1]
      BY <1>2, <3>1
    <3>3. Len(left) = i
      BY <1>3
    <3>4. (left \o back)[j] = back[j - i]
      BY <2>1, <3>1, <3>3
    <3> QED BY <3>1, <3>2, <3>4
  <2>5. j < i \/ j = i \/ j > i
    BY <1>0
  <2> QED BY <2>2, <2>3, <2>4, <2>5, Zenon
<1> QED BY <1>4, <1>6, <1>7

LEMMA RemoveAtProps ==
  ASSUME NEW S, NEW s \in Seq(S), NEW i \in 1..Len(s)
  PROVE  /\ RemoveAt(s, i) \in Seq(S)
         /\ Len(RemoveAt(s, i)) = Len(s) - 1
         /\ \A j \in 1..(Len(s) - 1) : RemoveAt(s, i)[j] = IF j < i THEN s[j] ELSE s[j + 1]
<1> DEFINE front == SubSeq(s, 1, i-1)
           back == SubSeq(s, i+1, Len(s))
<1>0. Len(s) \in Nat /\ i \in Int /\ i + 1 \in 1..(Len(s) + 1)
  OBVIOUS
<1>1. front \in Seq(S) /\ Len(front) = i - 1 /\ \A j \in 1..(i-1) : front[j] = s[j]
  OBVIOUS
<1>2. back \in Seq(S) /\ Len(back) = (Len(s) - (i + 1)) + 1
      /\ \A j \in 1..((Len(s) - (i + 1)) + 1) : back[j] = s[((i + 1) + j) - 1]
  BY <1>0, SubSeqProps
<1> HIDE DEF front, back
<1>3. RemoveAt(s, i) = front \o back
  BY DEF RemoveAt, front, back
<1>4. Len(front) + Len(back) = Len(s) - 1
  BY <1>0, <1>1, <1>2
<1>5. front \o back \in Seq(S) /\ Len(front \o back) = Len(s) - 1
  BY <1>1, <1>2, <1>4, ConcatProps
<1>6. ASSUME NEW j \in 1..(Len(s) - 1)
      PROVE  (front \o back)[j] = IF j < i THEN s[j] ELSE s[j + 1]
  <2>1. (front \o back)[j] = IF j <= Len(front) THEN front[j] ELSE back[j - Len(front)]
    BY <1>1, <1>2, <1>4, ConcatProps
  <2>2. CASE j < i
    <3>1. j \in 1..(i - 1) /\ j <= Len(front)
      BY <1>0, <1>1, <2>2
    <3> QED BY <1>1, <2>1, <2>2, <3>1
  <2>3. CASE j >= i
    <3>1. /\ ~(j <= Len(front)) /\ j - (i - 1) \in 1..((Len(s) - (i + 1)) + 1)
          /\ ((i + 1) + (j - (i - 1))) - 1 = j + 1 /\ ~(j < i)
      BY <1>0, <1>1, <2>3
    <3>2. back[j - (i - 1)] = s[j + 1]
      BY <1>2, <3>1
    <3>3. Len(front) = i - 1
      BY <1>1
    <3>4. (front \o back)[j] = back[j - (i - 1)]
      BY <2>1, <3>1, <3>3
    <3> QED BY <3>1, <3>2, <3>4
  <2>4. j < i \/ j >= i
    BY <1>0
  <2> QED BY <2>2, <2>3, <2>4, Zenon
<1> QED BY <1>3, <1>5, <1>6

-----------------------------------------------------------------------------
(***************************************************************************)
(* A list holds each element once, in an order.                            *)
(***************************************************************************)
Once(L) == L \in Seq(Records) /\ IsInjective(L)

Precedes(L, x, y) == \E i, j \in DOMAIN L : i < j /\ L[i] = x /\ L[j] = y

LEMMA OnceProps ==
  ASSUME NEW L, Once(L)
  PROVE  /\ Len(L) \in Nat /\ DOMAIN L = 1..Len(L) /\ L \in Seq(Records)
         /\ \A i, j \in 1..Len(L) : L[i] = L[j] => i = j
         /\ \A i \in 1..Len(L) : L[i] \in Records
BY DEF Once, IsInjective

LEMMA RangeIs ==
  ASSUME NEW L, Once(L), NEW x
  PROVE  x \in Range(L) <=> \E i \in 1..Len(L) : L[i] = x
BY OnceProps DEF Range

LEMMA PlaceProps ==
  ASSUME NEW L, Once(L), NEW x \in Range(L)
  PROVE  /\ Place(L, x) \in 1..Len(L) /\ L[Place(L, x)] = x
         /\ \A k \in 1..Len(L) : L[k] = x => k = Place(L, x)
<1>1. \E k \in DOMAIN L : L[k] = x
  BY DEF Range
<1>2. Place(L, x) \in DOMAIN L /\ L[Place(L, x)] = x
  BY <1>1 DEF Place
<1> QED BY <1>2, OnceProps

LEMMA PrecedesByPlace ==
  ASSUME NEW L, Once(L), NEW x \in Range(L), NEW y \in Range(L)
  PROVE  /\ Precedes(L, x, y) <=> Place(L, x) < Place(L, y)
         /\ x = y <=> Place(L, x) = Place(L, y)
<1>1. ASSUME Precedes(L, x, y) PROVE Place(L, x) < Place(L, y)
  <2>1. PICK i \in 1..Len(L), j \in 1..Len(L) : i < j /\ L[i] = x /\ L[j] = y
    BY <1>1, OnceProps DEF Precedes
  <2> QED BY <2>1, PlaceProps
<1>2. ASSUME Place(L, x) < Place(L, y) PROVE Precedes(L, x, y)
  <2>1. Place(L, x) \in DOMAIN L /\ Place(L, y) \in DOMAIN L
    BY PlaceProps, OnceProps
  <2>2. L[Place(L, x)] = x /\ L[Place(L, y)] = y
    BY PlaceProps
  <2> QED BY <1>2, <2>1, <2>2 DEF Precedes
<1>3. Place(L, x) = Place(L, y) => x = y
  BY PlaceProps
<1> QED BY <1>1, <1>2, <1>3

\* The elements up to p are those before its successor.
LEMMA AfterProps ==
  ASSUME NEW L, Once(L), NEW p \in Range(L)
  PROVE  /\ After(L, p) = NULL => \A y \in Range(L) : y = p \/ Precedes(L, y, p)
         /\ After(L, p) # NULL =>
              /\ After(L, p) \in Range(L)
              /\ \A y \in Range(L) :
                   (y = p \/ Precedes(L, y, p)) <=> Precedes(L, y, After(L, p))
<1>0. /\ Place(L, p) \in 1..Len(L) /\ Len(L) \in Nat
      /\ \A y \in Range(L) : Place(L, y) \in 1..Len(L)
  BY PlaceProps, OnceProps
<1>1. CASE Place(L, p) < Len(L)
  <2> DEFINE n == L[Place(L, p) + 1]
  <2>1. After(L, p) = n
    BY <1>1 DEF After
  <2>2. Place(L, p) + 1 \in 1..Len(L)
    BY <1>0, <1>1
  <2>3. n \in Range(L) /\ n \in Records
    BY <2>2, RangeIs, OnceProps
  <2>4. Place(L, n) = Place(L, p) + 1
    BY <2>2, <2>3, PlaceProps
  <2>5. n # NULL
    BY <2>3, DbScanAssumption
  <2> HIDE DEF n
  <2>6. \A y \in Range(L) : (y = p \/ Precedes(L, y, p)) <=> Precedes(L, y, n)
    <3> SUFFICES ASSUME NEW y \in Range(L)
                 PROVE  (y = p \/ Precedes(L, y, p)) <=> Precedes(L, y, n)
      OBVIOUS
    <3>1. Place(L, y) = Place(L, p) \/ Place(L, y) < Place(L, p) <=> Place(L, y) < Place(L, n)
      BY <1>0, <2>4
    <3> QED BY <2>3, <3>1, PrecedesByPlace
  <2> QED BY <2>1, <2>3, <2>5, <2>6
<1>2. CASE ~(Place(L, p) < Len(L))
  <2>1. After(L, p) = NULL
    BY <1>2 DEF After
  <2>2. \A y \in Range(L) : y = p \/ Precedes(L, y, p)
    <3> SUFFICES ASSUME NEW y \in Range(L) PROVE y = p \/ Precedes(L, y, p)
      OBVIOUS
    <3>1. Place(L, y) = Place(L, p) \/ Place(L, y) < Place(L, p)
      BY <1>0, <1>2
    <3> QED BY <3>1, PrecedesByPlace
  <2> QED BY <2>1, <2>2
<1> QED BY <1>1, <1>2

LEMMA BeforeProps ==
  ASSUME NEW L, Once(L), NEW n \in Range(L), Before(L, n) # NULL
  PROVE  /\ Before(L, n) \in Range(L) /\ Before(L, n) # n
         /\ \A y \in Range(L) :
              (y = Before(L, n) \/ Precedes(L, y, Before(L, n))) <=> Precedes(L, y, n)
<1> DEFINE q == L[Place(L, n) - 1]
<1>0. /\ Place(L, n) \in 1..Len(L) /\ Len(L) \in Nat
      /\ \A y \in Range(L) : Place(L, y) \in 1..Len(L)
  BY PlaceProps, OnceProps
<1>1. Place(L, n) > 1 /\ Before(L, n) = q
  BY DEF Before
<1>2. Place(L, n) - 1 \in 1..Len(L)
  BY <1>0, <1>1
<1>3. q \in Range(L)
  BY <1>2, RangeIs
<1>4. Place(L, q) = Place(L, n) - 1
  BY <1>2, <1>3, PlaceProps
<1> HIDE DEF q
<1>5. \A y \in Range(L) : (y = q \/ Precedes(L, y, q)) <=> Precedes(L, y, n)
  <2> SUFFICES ASSUME NEW y \in Range(L)
               PROVE  (y = q \/ Precedes(L, y, q)) <=> Precedes(L, y, n)
    OBVIOUS
  <2>1. Place(L, y) = Place(L, q) \/ Place(L, y) < Place(L, q) <=> Place(L, y) < Place(L, n)
    BY <1>0, <1>4
  <2> QED BY <1>3, <2>1, PrecedesByPlace
<1>6. q # n
  BY <1>0, <1>4
<1> QED BY <1>1, <1>3, <1>5, <1>6

LEMMA FirstProps ==
  ASSUME NEW L, Once(L), L # <<>>
  PROVE  First(L) \in Range(L) /\ \A y \in Range(L) : ~Precedes(L, y, First(L))
<1>1. First(L) = L[1] /\ 1 \in 1..Len(L)
  BY OnceProps DEF First
<1>2. L[1] \in Range(L)
  BY <1>1, RangeIs
<1>3. Place(L, L[1]) = 1
  BY <1>1, <1>2, PlaceProps
<1> QED BY <1>1, <1>2, <1>3, PrecedesByPlace, PlaceProps

\* Every set of natural numbers has a least element.
LEMMA LeastNumber ==
  ASSUME NEW T \in SUBSET Nat, T # {}
  PROVE  \E m \in T : \A k \in T : m <= k
<1> DEFINE R == {ss \in Nat \X Nat : ss[1] < ss[2]}
<1>1. IsWellFoundedOn(R, Nat)
  BY NatLessThanWellFounded DEF OpToRel
<1> HIDE DEF R
<1>2. PICK m \in T : \A k \in T : ~(<<k, m>> \in R)
  BY <1>1, WFMin
<1>3. \A k \in T : ~(k < m)
  BY <1>2 DEF R
<1> QED BY <1>3

LEMMA GreatestNumber ==
  ASSUME NEW n \in Nat, NEW T \in SUBSET (0..n), T # {}
  PROVE  \E m \in T : \A k \in T : m >= k
<1> DEFINE U == {j \in Nat : n - j \in T}
<1>1. U \in SUBSET Nat
  OBVIOUS
<1>2. U # {}
  <2>1. PICK k \in T : TRUE
    OBVIOUS
  <2>2. k \in 0..n
    OBVIOUS
  <2>3. n - k \in Nat /\ n - (n - k) = k
    BY <2>2
  <2>4. n - k \in U
    BY <2>1, <2>3
  <2> QED BY <2>4
<1>3. PICK m \in U : \A k \in U : m <= k
  BY <1>1, <1>2, LeastNumber
<1>4. \A k \in T : n - m >= k
  <2> SUFFICES ASSUME NEW k \in T PROVE n - m >= k
    OBVIOUS
  <2>1. k \in 0..n
    OBVIOUS
  <2>2. n - k \in Nat /\ n - (n - k) = k
    BY <2>1
  <2>3. m <= n - k
    BY <1>3, <2>2
  <2> QED BY <2>1, <2>3
<1> QED BY <1>3, <1>4
LEMMA DeleteProps ==
  ASSUME NEW L, Once(L), NEW r \in Range(L)
  PROVE  /\ Once(Delete(L, r))
         /\ Range(Delete(L, r)) = Range(L) \ {r}
         /\ \A x, y \in Range(L) \ {r} : Precedes(Delete(L, r), x, y) <=> Precedes(L, x, y)
<1> DEFINE i == Place(L, r)
           M == Delete(L, r)
           f == [k \in 1..Len(L) |-> IF k < i THEN k ELSE k - 1]
<1>0. /\ i \in 1..Len(L) /\ L[i] = r /\ Len(L) \in Nat /\ L \in Seq(Records)
      /\ \A j, k \in 1..Len(L) : L[j] = L[k] => j = k
  BY PlaceProps, OnceProps
<1> HIDE DEF i
<1>1. /\ M \in Seq(Records) /\ Len(M) = Len(L) - 1
      /\ \A j \in 1..(Len(L) - 1) : M[j] = IF j < i THEN L[j] ELSE L[j + 1]
  BY <1>0, RemoveAtProps DEF Delete, i
<1> HIDE DEF M
<1>2. Once(M)
  <2> SUFFICES ASSUME NEW a \in 1..Len(M), NEW b \in 1..Len(M), M[a] = M[b] PROVE a = b
    BY <1>1 DEF Once, IsInjective
  <2> DEFINE up(n) == IF n < i THEN n ELSE n + 1
  <2>1. /\ up(a) \in 1..Len(L) /\ up(b) \in 1..Len(L) /\ M[a] = L[up(a)] /\ M[b] = L[up(b)]
    BY <1>0, <1>1
  <2>2. up(a) = up(b)
    BY <1>0, <2>1
  <2> QED BY <1>0, <1>1, <2>2
<1>3. ASSUME NEW x \in Range(M) PROVE x \in Range(L) \ {r}
  <2>1. PICK a \in 1..Len(M) : M[a] = x
    BY <1>2, RangeIs
  <2> DEFINE u == IF a < i THEN a ELSE a + 1
  <2>2. u \in 1..Len(L) /\ L[u] = x /\ u # i
    BY <1>0, <1>1, <2>1
  <2> HIDE DEF u
  <2> QED BY <1>0, <2>2, RangeIs
<1>4. ASSUME NEW x \in Range(L), x # r PROVE x \in Range(M) /\ Place(M, x) = f[Place(L, x)]
  <2>1. Place(L, x) \in 1..Len(L) /\ L[Place(L, x)] = x
    BY PlaceProps
  <2> DEFINE a == f[Place(L, x)]
  <2>2. Place(L, x) # i
    BY <1>0, <1>4, <2>1
  <2>3. a \in 1..Len(M) /\ M[a] = x
    BY <1>0, <1>1, <2>1, <2>2
  <2> HIDE DEF f
  <2>4. x \in Range(M)
    BY <1>2, <2>3, RangeIs
  <2> QED BY <1>2, <2>3, <2>4, PlaceProps
<1>5. f \in [1..Len(L) -> Int] /\ Len(L) \in Nat
  BY <1>0
<1>6. Range(M) = Range(L) \ {r}
  BY <1>3, <1>4
<1>7. \A x, y \in Range(L) \ {r} : Precedes(M, x, y) <=> Precedes(L, x, y)
  <2> SUFFICES ASSUME NEW x \in Range(L) \ {r}, NEW y \in Range(L) \ {r}
               PROVE  Precedes(M, x, y) <=> Precedes(L, x, y)
    OBVIOUS
  <2>1. /\ Place(L, x) \in 1..Len(L) /\ Place(L, y) \in 1..Len(L)
        /\ Place(L, x) # i /\ Place(L, y) # i
    BY <1>0, PlaceProps
  <2>2. Place(M, x) = f[Place(L, x)] /\ Place(M, y) = f[Place(L, y)]
    BY <1>4
  <2>3. Place(M, x) < Place(M, y) <=> Place(L, x) < Place(L, y)
    BY <1>0, <2>1, <2>2
  <2> QED BY <1>2, <1>6, <2>3, PrecedesByPlace
<1> QED BY <1>2, <1>6, <1>7 DEF M

LEMMA InsertAtKeeps ==
  ASSUME NEW L, Once(L), NEW r \in Records \ Range(L), NEW i \in 1..(Len(L) + 1)
  PROVE  /\ Once(InsertAt(L, i, r))
         /\ Range(InsertAt(L, i, r)) = Range(L) \cup {r}
         /\ \A x, y \in Range(L) : Precedes(InsertAt(L, i, r), x, y) <=> Precedes(L, x, y)
<1> DEFINE M == InsertAt(L, i, r)
           f == [k \in 1..Len(L) |-> IF k < i THEN k ELSE k + 1]
<1>0. /\ Len(L) \in Nat /\ L \in Seq(Records) /\ i \in Int
      /\ \A j, k \in 1..Len(L) : L[j] = L[k] => j = k
      /\ \A j \in 1..Len(L) : L[j] # r
  BY OnceProps, RangeIs
<1>1. /\ M \in Seq(Records) /\ Len(M) = Len(L) + 1
      /\ \A j \in 1..(Len(L) + 1) : M[j] = IF j < i THEN L[j] ELSE IF j = i THEN r ELSE L[j - 1]
  BY <1>0, InsertAtProps
<1> HIDE DEF M
<1>2. Once(M)
  <2> SUFFICES ASSUME NEW a \in 1..Len(M), NEW b \in 1..Len(M), M[a] = M[b] PROVE a = b
    BY <1>1 DEF Once, IsInjective
  <2>0. ASSUME NEW k \in 1..Len(M), k # i PROVE M[k] # r
    <3>1. CASE k < i
      <4>1. k \in 1..Len(L) /\ M[k] = L[k]
        BY <1>0, <1>1, <3>1
      <4> QED BY <1>0, <4>1
    <3>2. CASE k > i
      <4>1. k - 1 \in 1..Len(L) /\ M[k] = L[k - 1]
        BY <1>0, <1>1, <3>2
      <4> QED BY <1>0, <4>1
    <3> QED BY <1>0, <2>0, <3>1, <3>2
  <2>1. CASE a = i
    <3>1. M[a] = r
      BY <1>0, <1>1, <2>1
    <3> QED BY <2>0, <2>1, <3>1
  <2>2. CASE b = i
    <3>1. M[b] = r
      BY <1>0, <1>1, <2>2
    <3> QED BY <2>0, <2>2, <3>1
  <2>3. CASE a # i /\ b # i
    <3> DEFINE down(n) == IF n < i THEN n ELSE n - 1
    <3>1. /\ down(a) \in 1..Len(L) /\ down(b) \in 1..Len(L)
          /\ M[a] = L[down(a)] /\ M[b] = L[down(b)]
      BY <1>0, <1>1, <2>3
    <3>2. down(a) = down(b)
      BY <1>0, <3>1
    <3> QED BY <1>0, <2>3, <3>2
  <2> QED BY <2>1, <2>2, <2>3
<1>3. ASSUME NEW x \in Range(M) PROVE x \in Range(L) \cup {r}
  <2>1. PICK a \in 1..Len(M) : M[a] = x
    BY <1>2, RangeIs
  <2>2. CASE a # i
    <3> DEFINE d == IF a < i THEN a ELSE a - 1
    <3>1. d \in 1..Len(L) /\ L[d] = x
      BY <1>0, <1>1, <2>1, <2>2
    <3> HIDE DEF d
    <3> QED BY <3>1, RangeIs
  <2> QED BY <1>1, <2>1, <2>2
<1>4. ASSUME NEW x \in Range(L) PROVE x \in Range(M) /\ Place(M, x) = f[Place(L, x)]
  <2>1. Place(L, x) \in 1..Len(L) /\ L[Place(L, x)] = x
    BY PlaceProps
  <2> DEFINE a == f[Place(L, x)]
  <2>2. a \in 1..Len(M) /\ M[a] = x
    BY <1>0, <1>1, <2>1
  <2> HIDE DEF f
  <2>3. x \in Range(M)
    BY <1>2, <2>2, RangeIs
  <2> QED BY <1>2, <2>2, <2>3, PlaceProps
<1>5. r \in Range(M)
  <2>1. i \in 1..Len(M) /\ M[i] = r
    BY <1>0, <1>1
  <2> QED BY <1>2, <2>1, RangeIs
<1>6. Range(M) = Range(L) \cup {r}
  BY <1>3, <1>4, <1>5
<1>7. \A x, y \in Range(L) : Precedes(M, x, y) <=> Precedes(L, x, y)
  <2> SUFFICES ASSUME NEW x \in Range(L), NEW y \in Range(L)
               PROVE  Precedes(M, x, y) <=> Precedes(L, x, y)
    OBVIOUS
  <2>1. Place(L, x) \in 1..Len(L) /\ Place(L, y) \in 1..Len(L)
    BY PlaceProps
  <2>2. Place(M, x) = f[Place(L, x)] /\ Place(M, y) = f[Place(L, y)]
    BY <1>4
  <2>3. Place(M, x) < Place(M, y) <=> Place(L, x) < Place(L, y)
    BY <1>0, <2>1, <2>2
  <2> QED BY <1>2, <1>6, <2>3, PrecedesByPlace
<1> QED BY <1>2, <1>6, <1>7 DEF M

LEMMA InsertProps ==
  ASSUME NEW L, Once(L), NEW r \in Records \ Range(L), NEW p,
         phas \in [Records -> Phases], p \in Phases
  PROVE  /\ Once(Insert(L, r, p))
         /\ Range(Insert(L, r, p)) = Range(L) \cup {r}
         /\ \A x, y \in Range(L) : Precedes(Insert(L, r, p), x, y) <=> Precedes(L, x, y)
<1> DEFINE lower == {k \in DOMAIN L : phas[L[k]] <= p}
           i == (IF lower = {} THEN Len(L) ELSE Max(lower)) + 1
<1>1. Len(L) \in Nat /\ lower \subseteq 1..Len(L)
  BY OnceProps
<1>2. ASSUME lower # {} PROVE Max(lower) \in lower
  <2>1. \E m \in lower : \A y \in lower : m >= y
    <3> lower \in SUBSET (0..Len(L))
      BY <1>1
    <3> HIDE DEF lower
    <3> QED BY <1>1, <1>2, GreatestNumber
  <2> QED BY <2>1 DEF Max
<1>3. i \in 1..(Len(L) + 1)
  BY <1>1, <1>2
<1>4. Insert(L, r, p) = InsertAt(L, i, r)
  BY DEF Insert
<1> HIDE DEF i
<1> QED BY <1>3, <1>4, InsertAtKeeps

-----------------------------------------------------------------------------
(***************************************************************************)
(* The lists and the fields agree; a record with a put under way is on no  *)
(* list, so that scanAdd finds its element free.                           *)
(***************************************************************************)
FieldsTyped ==
  /\ scan \in [Records -> ScanValues]
  /\ phas \in [Records -> Phases]
  /\ pscan_list \in [Records -> Lists \cup {NULL}]
  /\ list \in [Lists -> Seq(Records)]
  /\ putting \subseteq Records
  /\ changes \in 0..MaxChanges

ListInv ==
  /\ FieldsTyped
  /\ \A l \in Lists : Once(list[l])
  /\ \A l \in Lists, r \in Records : r \in On(l) <=> pscan_list[r] = l
  /\ \A r \in Records \ putting :
       pscan_list[r] = IF scan[r] \in Lists THEN scan[r] ELSE NULL
  /\ \A r \in putting : pscan_list[r] = NULL

\* What the locked section of scanDelete does.
LEMMA DeleteEffect ==
  ASSUME ListInv, NEW r \in Records \ putting, scan[r] \in Lists, deleteFromList(r, scan[r])
  PROVE  /\ scan[r] \in Lists /\ r \in On(scan[r])
         /\ pscan_list' = [pscan_list EXCEPT ![r] = NULL]
         /\ list' \in [Lists -> Seq(Records)]
         /\ \A m \in Lists : Once(list'[m])
         /\ Range(list'[scan[r]]) = On(scan[r]) \ {r}
         /\ \A m \in Lists : m # scan[r] => list'[m] = list[m]
         /\ \A x, y \in On(scan[r]) \ {r} :
              Precedes(list'[scan[r]], x, y) <=> Precedes(list[scan[r]], x, y)
         /\ modified' = [modified EXCEPT ![scan[r]] = TRUE]
         /\ stayed' = [stayed EXCEPT ![scan[r]] = @ \ {r}]
         /\ departed' = [departed EXCEPT ![scan[r]] = @ \cup {r}]
<1> DEFINE l == scan[r]
<1>1. l \in Lists /\ pscan_list[r] = l /\ r \in On(l)
  BY DEF ListInv, FieldsTyped
<1>2. /\ pscan_list' = [pscan_list EXCEPT ![r] = NULL]
      /\ list' = [list EXCEPT ![l] = Delete(list[l], r)]
      /\ modified' = [modified EXCEPT ![l] = TRUE]
      /\ stayed' = [stayed EXCEPT ![l] = @ \ {r}]
      /\ departed' = [departed EXCEPT ![l] = @ \cup {r}]
  BY <1>1 DEF deleteFromList
<1> HIDE DEF l
<1>3. Once(list[l]) /\ r \in Range(list[l])
  BY <1>1 DEF ListInv, On
<1>4. /\ Once(Delete(list[l], r))
      /\ Range(Delete(list[l], r)) = Range(list[l]) \ {r}
      /\ \A x, y \in Range(list[l]) \ {r} :
           Precedes(Delete(list[l], r), x, y) <=> Precedes(list[l], x, y)
  BY <1>3, DeleteProps
<1>5. list \in [Lists -> Seq(Records)]
  BY DEF ListInv, FieldsTyped
<1>6. list'[l] = Delete(list[l], r) /\ \A m \in Lists : m # l => list'[m] = list[m]
  BY <1>1, <1>2, <1>5
<1>7. \A m \in Lists : Once(list'[m])
  BY <1>4, <1>6 DEF ListInv
<1>8. Delete(list[l], r) \in Seq(Records)
  BY <1>4 DEF Once
<1>9. list' \in [Lists -> Seq(Records)]
  BY <1>1, <1>2, <1>5, <1>8
<1>10. Range(list'[l]) = On(l) \ {r}
  BY <1>4, <1>6 DEF On
<1>11. \A x, y \in On(l) \ {r} : Precedes(list'[l], x, y) <=> Precedes(list[l], x, y)
  BY <1>4, <1>6 DEF On
<1> QED BY <1>1, <1>2, <1>6, <1>7, <1>9, <1>10, <1>11 DEF l

\* What the locked section of scanAdd does.
LEMMA AddEffect ==
  ASSUME ListInv, NEW r \in putting, NEW l \in Lists, NEW p \in Phases, addToList(r, l, p)
  PROVE  /\ \A m \in Lists : r \notin On(m)
         /\ list' \in [Lists -> Seq(Records)]
         /\ \A m \in Lists : Once(list'[m])
         /\ Range(list'[l]) = On(l) \cup {r}
         /\ \A m \in Lists : m # l => list'[m] = list[m]
         /\ \A x, y \in On(l) : Precedes(list'[l], x, y) <=> Precedes(list[l], x, y)
<1>1. r \in Records /\ pscan_list[r] = NULL /\ NULL \notin Lists
  BY DbScanAssumption DEF ListInv, FieldsTyped
<1>2. \A m \in Lists : r \notin On(m)
  BY <1>1 DEF ListInv
<1>3. list' = [list EXCEPT ![l] = Insert(list[l], r, p)]
  BY DEF addToList
<1>4. /\ Once(Insert(list[l], r, p))
      /\ Range(Insert(list[l], r, p)) = Range(list[l]) \cup {r}
      /\ \A x, y \in Range(list[l]) :
           Precedes(Insert(list[l], r, p), x, y) <=> Precedes(list[l], x, y)
  <2>1. Once(list[l]) /\ r \in Records \ Range(list[l]) /\ phas \in [Records -> Phases]
    BY <1>1, <1>2 DEF ListInv, FieldsTyped, On
  <2> QED BY <2>1, InsertProps
<1>5. list \in [Lists -> Seq(Records)]
  BY DEF ListInv, FieldsTyped
<1>6. list'[l] = Insert(list[l], r, p) /\ \A m \in Lists : m # l => list'[m] = list[m]
  BY <1>3, <1>5
<1>7. \A m \in Lists : Once(list'[m])
  BY <1>4, <1>6 DEF ListInv
<1>8. Insert(list[l], r, p) \in Seq(Records)
  BY <1>4 DEF Once
<1>9. list' \in [Lists -> Seq(Records)]
  BY <1>3, <1>5, <1>8
<1>10. Range(list'[l]) = On(l) \cup {r}
  BY <1>4, <1>6 DEF On
<1>11. \A x, y \in On(l) : Precedes(list'[l], x, y) <=> Precedes(list[l], x, y)
  BY <1>4, <1>6 DEF On
<1> QED BY <1>2, <1>6, <1>7, <1>9, <1>10, <1>11

LEMMA ListPutBegins ==
  ASSUME ListInv, NEW r \in Records, PutBegins(r)
  PROVE  ListInv'
<1> USE DEF FieldsTyped
<1>1. /\ r \notin putting /\ putting' = putting \cup {r} /\ changes' = changes + 1
      /\ changes < MaxChanges /\ UNCHANGED <<scan, phas>>
  BY DEF PutBegins
<1>2. changes' \in 0..MaxChanges
  BY <1>1, DbScanAssumption DEF ListInv
<1>3. CASE scan[r] \notin Lists
  <2>1. UNCHANGED <<pscan_list, list>>
    BY <1>3 DEF PutBegins
  <2>2. pscan_list[r] = NULL
    BY <1>1, <1>3 DEF ListInv
  <2> QED BY <1>1, <1>2, <2>1, <2>2 DEF ListInv, On
<1>4. CASE scan[r] \in Lists
  <2> DEFINE l == scan[r]
  <2>1. deleteFromList(r, l) /\ r \in Records \ putting
    BY <1>1, <1>4 DEF PutBegins
  <2>2. /\ l \in Lists /\ r \in On(l)
        /\ pscan_list' = [pscan_list EXCEPT ![r] = NULL]
        /\ list' \in [Lists -> Seq(Records)]
        /\ \A m \in Lists : Once(list'[m])
        /\ Range(list'[l]) = On(l) \ {r}
        /\ \A m \in Lists : m # l => list'[m] = list[m]
    BY <1>4, <2>1, DeleteEffect
  <2> HIDE DEF l
  <2>3. pscan_list \in [Records -> Lists \cup {NULL}] /\ NULL \notin Lists
    BY DbScanAssumption DEF ListInv
  <2>4. /\ pscan_list' \in [Records -> Lists \cup {NULL}] /\ pscan_list'[r] = NULL
        /\ \A q \in Records : q # r => pscan_list'[q] = pscan_list[q]
    BY <2>2, <2>3
  <2>6. \A m \in Lists, q \in Records : q \in Range(list'[m]) <=> pscan_list'[q] = m
    <3> SUFFICES ASSUME NEW m \in Lists, NEW q \in Records
                 PROVE  q \in Range(list'[m]) <=> pscan_list'[q] = m
      OBVIOUS
    <3>1. q \in Range(list[m]) <=> pscan_list[q] = m
      BY DEF ListInv, On
    <3>2. pscan_list[r] = l
      BY <2>2 DEF ListInv
    <3>3. CASE m = l
      BY <2>2, <2>3, <2>4, <3>1, <3>3 DEF On
    <3>4. CASE m # l
      <4>1. list'[m] = list[m]
        BY <2>2, <3>4
      <4> QED BY <2>3, <2>4, <3>1, <3>2, <3>4, <4>1
    <3> QED BY <3>3, <3>4
  <2>7. /\ \A q \in Records \ putting' :
             pscan_list'[q] = IF scan'[q] \in Lists THEN scan'[q] ELSE NULL
        /\ \A q \in putting' : pscan_list'[q] = NULL
    BY <1>1, <2>4 DEF ListInv
  <2>8. FieldsTyped'
    BY <1>1, <1>2, <2>2, <2>4 DEF ListInv
  <2> HIDE DEF FieldsTyped
  <2> QED BY <2>2, <2>6, <2>7, <2>8 DEF ListInv, On
<1> QED BY <1>3, <1>4

LEMMA ListPutEnds ==
  ASSUME ListInv, NEW r \in Records, NEW s \in ScanValues, NEW p \in Phases,
         PutEnds(r, s, p)
  PROVE  ListInv'
<1> USE DEF FieldsTyped
<1>1. /\ r \in putting /\ putting' = putting \ {r} /\ UNCHANGED changes
      /\ scan' = [scan EXCEPT ![r] = s] /\ phas' = [phas EXCEPT ![r] = p]
  BY DEF PutEnds
<1>2. /\ scan \in [Records -> ScanValues] /\ phas \in [Records -> Phases]
      /\ pscan_list \in [Records -> Lists \cup {NULL}]
      /\ NULL \notin Lists
      /\ pscan_list[r] = NULL
  BY <1>1, DbScanAssumption DEF ListInv
<1>3. /\ scan' \in [Records -> ScanValues] /\ phas' \in [Records -> Phases]
      /\ scan'[r] = s /\ \A q \in Records : q # r => scan'[q] = scan[q]
  BY <1>1, <1>2
<1>4. CASE s \notin Lists
  <2>1. UNCHANGED <<pscan_list, list>>
    BY <1>4 DEF PutEnds
  <2> QED BY <1>1, <1>2, <1>3, <1>4, <2>1 DEF ListInv, On
<1>5. CASE s \in Lists
  <2>1. addToList(r, s, p) /\ s \in Lists
    BY <1>5 DEF PutEnds
  <2>2. /\ list' \in [Lists -> Seq(Records)]
        /\ \A m \in Lists : Once(list'[m])
        /\ Range(list'[s]) = On(s) \cup {r}
        /\ \A m \in Lists : m # s => list'[m] = list[m]
    BY <1>1, <2>1, AddEffect
  <2>3. pscan_list' = [pscan_list EXCEPT ![r] = s]
    BY <2>1 DEF addToList
  <2>4. /\ pscan_list' \in [Records -> Lists \cup {NULL}] /\ pscan_list'[r] = s
        /\ \A q \in Records : q # r => pscan_list'[q] = pscan_list[q]
    BY <1>2, <2>1, <2>3
  <2>6. \A m \in Lists, q \in Records : q \in Range(list'[m]) <=> pscan_list'[q] = m
    <3> SUFFICES ASSUME NEW m \in Lists, NEW q \in Records
                 PROVE  q \in Range(list'[m]) <=> pscan_list'[q] = m
      OBVIOUS
    <3>1. q \in Range(list[m]) <=> pscan_list[q] = m
      BY DEF ListInv, On
    <3>3. CASE m = s
      BY <2>2, <2>4, <3>1, <3>3 DEF On
    <3>4. CASE m # s
      <4>1. list'[m] = list[m]
        BY <2>2, <3>4
      <4> QED BY <1>2, <2>4, <3>1, <3>4, <4>1
    <3> QED BY <3>3, <3>4
  <2>7. /\ \A q \in Records \ putting' :
             pscan_list'[q] = IF scan'[q] \in Lists THEN scan'[q] ELSE NULL
        /\ \A q \in putting' : pscan_list'[q] = NULL
    <3>1. ASSUME NEW q \in Records \ putting'
          PROVE  pscan_list'[q] = IF scan'[q] \in Lists THEN scan'[q] ELSE NULL
      <4>1. CASE q = r
        BY <1>3, <1>5, <2>4, <4>1
      <4>2. CASE q # r
        <5>1. q \in Records \ putting
          BY <1>1, <3>1, <4>2
        <5> QED BY <1>3, <2>4, <4>2, <5>1 DEF ListInv
      <4> QED BY <4>1, <4>2
    <3>2. ASSUME NEW q \in putting' PROVE pscan_list'[q] = NULL
      BY <1>1, <2>4 DEF ListInv
    <3> QED BY <3>1, <3>2
  <2>8. FieldsTyped'
    BY <1>1, <1>3, <2>2, <2>4 DEF ListInv
  <2> HIDE DEF FieldsTyped
  <2> QED BY <2>2, <2>6, <2>7, <2>8 DEF ListInv, On
<1> QED BY <1>4, <1>5

LEMMA OnlyPutsChangeLists ==
  ASSUME [DbScanNext]_scanVars
  PROVE  \/ UNCHANGED <<fieldVars, list>>
         \/ \E r \in Records : PutBegins(r)
         \/ \E r \in Records, s \in ScanValues, p \in Phases : PutEnds(r, s, p)
BY DEF DbScanNext, scanVars, scanRun, scanPause, PutFinishes, WalkStep, WalkBegins,
       ProcessBegins, ProcessEnds, StepOn, GiveUp, GoOn

LEMMA ListInit == DbScanInit => ListInv
<1> SUFFICES ASSUME DbScanInit PROVE ListInv
  OBVIOUS
<1>1. /\ list = InitialList /\ phas = [r \in Records |-> 0] /\ putting = {} /\ changes = 0
      /\ pscan_list = [r \in Records |-> IF scan[r] \in Lists THEN scan[r] ELSE NULL]
      /\ scan = [r \in Records |->
                   IF \E l \in Lists : r \in On(l) THEN CHOOSE l \in Lists : r \in On(l)
                                                   ELSE Passive]
  BY DEF DbScanInit
<1>2. list \in [Lists -> Seq(Records)] /\ \A l \in Lists : Once(list[l])
  BY <1>1, DbScanAssumption DEF Once
<1>3. \A r \in Records : /\ scan[r] \in ScanValues
                         /\ \A l \in Lists : r \in On(l) <=> scan[r] = l
  <2> SUFFICES ASSUME NEW r \in Records
               PROVE  /\ scan[r] \in ScanValues
                      /\ \A l \in Lists : r \in On(l) <=> scan[r] = l
    OBVIOUS
  <2>1. CASE \E l \in Lists : r \in On(l)
    <3>1. scan[r] = CHOOSE l \in Lists : r \in On(l)
      BY <1>1, <2>1
    <3>2. scan[r] \in Lists /\ r \in On(scan[r])
      BY <2>1, <3>1
    <3>3. \A l \in Lists : r \in On(l) => l = scan[r]
      BY <1>1, <3>2, DbScanAssumption DEF On
    <3> QED BY <3>2, <3>3 DEF ScanValues
  <2>2. CASE ~\E l \in Lists : r \in On(l)
    <3>1. scan[r] = Passive
      BY <1>1, <2>2
    <3> QED BY <2>2, <3>1, DbScanAssumption DEF ScanValues
  <2> QED BY <2>1, <2>2
<1>4. scan \in [Records -> ScanValues]
  <2> DEFINE f(r) == IF \E l \in Lists : r \in On(l) THEN CHOOSE l \in Lists : r \in On(l)
                                                   ELSE Passive
  <2>1. scan = [r \in Records |-> f(r)]
    BY <1>1
  <2> HIDE DEF f
  <2> QED BY <1>3, <2>1
<1>5. \A r \in Records : pscan_list[r] = IF scan[r] \in Lists THEN scan[r] ELSE NULL
  BY <1>1
<1>6. pscan_list \in [Records -> Lists \cup {NULL}]
  BY <1>1, <1>4
<1>7. FieldsTyped
  BY <1>1, <1>2, <1>4, <1>6, DbScanAssumption DEF FieldsTyped
<1>8. \A l \in Lists, r \in Records : r \in On(l) <=> pscan_list[r] = l
  BY <1>3, <1>5, DbScanAssumption
<1> QED BY <1>1, <1>2, <1>5, <1>7, <1>8 DEF ListInv

LEMMA ListAlways == DbScanSpec => []ListInv
<1>1. ListInv /\ UNCHANGED <<fieldVars, list>> => ListInv'
  BY DEF ListInv, FieldsTyped, fieldVars, On
<1>2. ListInv /\ [DbScanNext]_scanVars => ListInv'
  BY <1>1, OnlyPutsChangeLists, ListPutBegins, ListPutEnds
<1> QED BY <1>2, ListInit, PTL DEF DbScanSpec

(***************************************************************************)
(* For any records, lists, phases and any number of puts to SCAN and PHAS, *)
(* also failing ones: a record is on the list its element names, once, and *)
(* when no put is under way that is the list SCAN names (scanAdd and       *)
(* scanDelete).                                                            *)
(***************************************************************************)
THEOREM ScanOnListOfScan == DbScanSpec => []OnListOfScan
<1>1. ListInv => OnListOfScan
  BY DEF ListInv, OnListOfScan, Once
<1> QED BY <1>1, ListAlways, PTL

-----------------------------------------------------------------------------
(***************************************************************************)
(* A walk between two of its locked sections holds an element, which is on *)
(* the list unless the flag says that the list has changed.                *)
(***************************************************************************)
Walking(l) == wpc[l] \in {"lock", "process", "step"}

WalkTyped ==
  /\ modified \in [Lists -> BOOLEAN]
  /\ scanCtl \in {"run", "pause"}
  /\ listCtl \in [Lists -> {"run", "pause"}]
  /\ wpc \in [Lists -> {"wait", "lock", "process", "step", "gave up"}]
  /\ pse \in [Lists -> Records \cup {NULL}]
  /\ prev \in [Lists -> Records \cup {NULL}]
  /\ next \in [Lists -> Records \cup {NULL}]

HoldInv ==
  \A l \in Lists : Walking(l) =>
    /\ pse[l] # NULL
    /\ modified[l] = FALSE => pse[l] \in On(l)

LEMMA EndsOfLists ==
  ASSUME NEW L, Once(L), NEW x
  PROVE  /\ Range(L) \subseteq Records
         /\ After(L, x) \in Range(L) \cup {NULL}
         /\ Before(L, x) \in Range(L) \cup {NULL}
         /\ First(L) \in Range(L) \cup {NULL}
         /\ L # <<>> => First(L) \in Range(L)
<1>1. Range(L) \subseteq Records
  BY RangeIs, OnceProps
<1>2. x \in Range(L) => After(L, x) \in Range(L) \cup {NULL}
  BY AfterProps
<1>3. x \notin Range(L) => After(L, x) = NULL /\ Before(L, x) = NULL
  BY DEF After, Before
<1>4. x \in Range(L) => Before(L, x) \in Range(L) \cup {NULL}
  BY BeforeProps
<1>5. L # <<>> => First(L) \in Range(L)
  BY FirstProps
<1>6. L = <<>> => First(L) = NULL
  BY DEF First
<1> QED BY <1>1, <1>2, <1>3, <1>4, <1>5, <1>6

LEMMA OnIsOnce ==
  ASSUME ListInv, NEW l \in Lists
  PROVE  Once(list[l]) /\ On(l) = Range(list[l]) /\ On(l) \subseteq Records
BY RangeIs, OnceProps DEF ListInv, On

\* How a walk goes on: behind an element p of the list, or with next.
LEMMA HowItGoesOn ==
  ASSUME ListInv, WalkTyped, HoldInv, NEW l \in Lists, StepOn(l)
  PROVE  /\ wpc[l] = "step"
         /\ \E e, q :
              /\ GoOn(l, e, q)
              /\ e \in On(l) \cup {NULL} /\ q \in On(l) \cup {NULL}
              /\ \/ /\ q \in On(l) /\ e = After(list[l], q)
                    /\ q = pse[l] \/ (q = prev[l] /\ pse[l] \notin On(l))
                 \/ /\ e = next[l] /\ e \in On(l) /\ q = Before(list[l], e)
                    /\ pse[l] \notin On(l)
<1>1. \A x \in Records \cup {NULL} : IsOn(x, l) <=> x \in On(l)
  BY DbScanAssumption, OnIsOnce DEF ListInv, IsOn
<1>2. /\ pse[l] \in Records \cup {NULL} /\ prev[l] \in Records \cup {NULL}
      /\ next[l] \in Records \cup {NULL}
  BY DEF WalkTyped
<1>3. wpc[l] = "step" /\ (modified[l] = FALSE => pse[l] \in On(l))
  BY DEF StepOn, HoldInv, Walking
<1>4. ~modified[l] => modified[l] = FALSE
  BY Zenon DEF WalkTyped
<1>5. \A x : After(list[l], x) \in On(l) \cup {NULL} /\ Before(list[l], x) \in On(l) \cup {NULL}
  BY OnIsOnce, EndsOfLists
<1>6. CASE (~modified[l] \/ IsOn(pse[l], l)) /\ GoOn(l, After(list[l], pse[l]), pse[l])
  <2>1. pse[l] \in On(l)
    BY <1>1, <1>2, <1>3, <1>4, <1>6
  <2> QED BY <1>3, <1>5, <1>6, <2>1
<1>7. CASE ~IsOn(pse[l], l) /\ IsOn(prev[l], l) /\ GoOn(l, After(list[l], prev[l]), prev[l])
  <2>1. prev[l] \in On(l) /\ pse[l] \notin On(l)
    BY <1>1, <1>2, <1>7
  <2> QED BY <1>3, <1>5, <1>7, <2>1
<1>8. CASE ~IsOn(pse[l], l) /\ IsOn(next[l], l) /\ GoOn(l, next[l], Before(list[l], next[l]))
  <2>1. next[l] \in On(l) /\ pse[l] \notin On(l)
    BY <1>1, <1>2, <1>8
  <2> QED BY <1>3, <1>5, <1>8, <2>1
<1> QED BY <1>6, <1>7, <1>8 DEF StepOn

LEMMA WalkTypedStep ==
  ASSUME ListInv, WalkTyped, HoldInv, [DbScanNext]_scanVars
  PROVE  WalkTyped'
<1>1. CASE scanRun \/ scanPause
  BY <1>1 DEF scanRun, scanPause, WalkTyped, walkVars
<1>2. ASSUME NEW r \in Records, PutBegins(r) PROVE WalkTyped'
  <2>1. UNCHANGED <<ctlVars, walkVars>>
    BY <1>2 DEF PutBegins
  <2>2. \/ modified' = modified
        \/ modified' = [modified EXCEPT ![scan[r]] = TRUE]
    BY <1>2 DEF PutBegins, deleteFromList
  <2>3. modified' \in [Lists -> BOOLEAN]
    BY <2>2, Zenon DEF WalkTyped
  <2> QED BY <2>1, <2>3 DEF WalkTyped, ctlVars, walkVars
<1>3. ASSUME NEW r \in Records, NEW s \in ScanValues, NEW p \in Phases, PutEnds(r, s, p)
      PROVE  WalkTyped'
  <2>1. UNCHANGED <<ctlVars, walkVars>>
    BY <1>3 DEF PutEnds
  <2>2. \/ modified' = modified
        \/ modified' = [modified EXCEPT ![s] = TRUE]
    BY <1>3 DEF PutEnds, addToList
  <2>3. modified' \in [Lists -> BOOLEAN]
    BY <2>2, Zenon DEF WalkTyped
  <2> QED BY <2>1, <2>3 DEF WalkTyped, ctlVars, walkVars
<1>4. ASSUME NEW l \in Lists, WalkBegins(l) PROVE WalkTyped'
  <2>1. First(list[l]) \in Records \cup {NULL}
        /\ After(list[l], First(list[l])) \in Records \cup {NULL}
    BY OnIsOnce, EndsOfLists
  <2>2. modified' = [modified EXCEPT ![l] = FALSE]
    BY <1>4 DEF WalkBegins
  <2>3. modified' \in [Lists -> BOOLEAN]
    BY <2>2, Zenon DEF WalkTyped
  <2> QED BY <1>4, <2>1, <2>3 DEF WalkBegins, WalkTyped, ctlVars
<1>5. ASSUME NEW l \in Lists, ProcessBegins(l) \/ ProcessEnds(l) \/ GiveUp(l) PROVE WalkTyped'
  BY <1>5 DEF ProcessBegins, ProcessEnds, GiveUp, WalkTyped, ctlVars
<1>6. ASSUME NEW l \in Lists, StepOn(l) PROVE WalkTyped'
  <2>1. PICK e, q : GoOn(l, e, q) /\ e \in Records \cup {NULL} /\ q \in Records \cup {NULL}
    BY <1>6, HowItGoesOn, OnIsOnce
  <2>2. After(list[l], e) \in Records \cup {NULL}
    BY OnIsOnce, EndsOfLists
  <2>3. modified' = [modified EXCEPT ![l] = FALSE]
    BY <2>1 DEF GoOn
  <2>4. modified' \in [Lists -> BOOLEAN]
    BY <2>3, Zenon DEF WalkTyped
  <2>5. UNCHANGED ctlVars
    BY <1>6 DEF StepOn
  <2> QED BY <2>1, <2>2, <2>4, <2>5 DEF GoOn, WalkTyped, ctlVars
<1>7. CASE UNCHANGED scanVars
  BY <1>7 DEF scanVars, WalkTyped, ctlVars, walkVars
<1> QED BY <1>1, <1>2, <1>3, <1>4, <1>5, <1>6, <1>7 DEF DbScanNext, WalkStep, PutFinishes

LEMMA HoldStep ==
  ASSUME ListInv, WalkTyped, HoldInv, [DbScanNext]_scanVars
  PROVE  HoldInv'
<1>0. /\ modified \in [Lists -> BOOLEAN]
      /\ wpc \in [Lists -> {"wait", "lock", "process", "step", "gave up"}]
      /\ pse \in [Lists -> Records \cup {NULL}]
  BY DEF WalkTyped
<1>1. CASE UNCHANGED <<wpc, pse, modified, list>>
  BY <1>1 DEF HoldInv, Walking, On
\* A list that changes is marked.
<1>2. ASSUME NEW l \in Lists, modified' = [modified EXCEPT ![l] = TRUE],
             \A m \in Lists : m # l => list'[m] = list[m], UNCHANGED <<wpc, pse>>
      PROVE  HoldInv'
  <2> SUFFICES ASSUME NEW m \in Lists, Walking(m)'
               PROVE  /\ pse'[m] # NULL
                      /\ modified'[m] = FALSE => pse'[m] \in Range(list'[m])
    BY DEF HoldInv, On
  <2>1. pse[m] # NULL /\ (modified[m] = FALSE => pse[m] \in Range(list[m]))
    BY <1>2 DEF HoldInv, Walking, On
  <2>2. CASE m = l
    <3>1. modified'[m] = TRUE
      BY <1>0, <1>2, <2>2
    <3>2. TRUE # FALSE
      OBVIOUS
    <3> QED BY <1>2, <2>1, <3>1, <3>2
  <2>3. CASE m # l
    <3>1. modified'[m] = modified[m]
      BY <1>0, <1>2, <2>3, Zenon
    <3> QED BY <1>2, <2>1, <2>3, <3>1
  <2> QED BY <2>2, <2>3
<1>3. ASSUME NEW r \in Records, PutBegins(r) PROVE HoldInv'
  <2>1. CASE scan[r] \notin Lists
    BY <1>1, <1>3, <2>1 DEF PutBegins, walkVars
  <2>2. CASE scan[r] \in Lists
    <3>1. /\ deleteFromList(r, scan[r]) /\ r \in Records \ putting /\ UNCHANGED <<wpc, pse>>
      BY <1>3, <2>2 DEF PutBegins, walkVars
    <3>2. /\ scan[r] \in Lists /\ modified' = [modified EXCEPT ![scan[r]] = TRUE]
          /\ \A m \in Lists : m # scan[r] => list'[m] = list[m]
      BY <2>2, <3>1, DeleteEffect
    <3> QED BY <1>2, <3>1, <3>2
  <2> QED BY <2>1, <2>2
<1>4. ASSUME NEW r \in Records, NEW s \in ScanValues, NEW p \in Phases, PutEnds(r, s, p)
      PROVE  HoldInv'
  <2>1. CASE s \notin Lists
    BY <1>1, <1>4, <2>1 DEF PutEnds, walkVars
  <2>2. CASE s \in Lists
    <3>1. addToList(r, s, p) /\ s \in Lists /\ r \in putting /\ UNCHANGED <<wpc, pse>>
      BY <1>4, <2>2 DEF PutEnds, walkVars
    <3>2. modified' = [modified EXCEPT ![s] = TRUE]
      BY <3>1 DEF addToList
    <3>3. \A m \in Lists : m # s => list'[m] = list[m]
      BY <3>1, AddEffect
    <3> QED BY <1>2, <3>1, <3>2, <3>3
  <2> QED BY <2>1, <2>2
\* A walk that goes on does so with an element of the list.
<1>5. ASSUME NEW l \in Lists, NEW e \in On(l) \cup {NULL}, UNCHANGED list,
             wpc' = [wpc EXCEPT ![l] = IF e = NULL THEN "wait" ELSE "lock"],
             pse' = [pse EXCEPT ![l] = e], modified' = [modified EXCEPT ![l] = FALSE]
      PROVE  HoldInv'
  <2> SUFFICES ASSUME NEW m \in Lists, Walking(m)'
               PROVE  /\ pse'[m] # NULL
                      /\ modified'[m] = FALSE => pse'[m] \in Range(list[m])
    BY <1>5 DEF HoldInv, On
  <2>1. CASE m = l
    <3>1. wpc'[m] # "wait" /\ pse'[m] = e
      BY <1>0, <1>5, <2>1 DEF Walking
    <3>2. e # NULL
      BY <1>0, <1>5, <2>1, <3>1
    <3> QED BY <2>1, <3>1, <3>2 DEF On
  <2>2. CASE m # l
    <3>1. wpc'[m] = wpc[m] /\ pse'[m] = pse[m]
      BY <1>0, <1>5, <2>2
    <3>2. modified'[m] = modified[m]
      BY <1>0, <1>5, <2>2, Zenon
    <3>3. Walking(m)
      BY <3>1 DEF Walking
    <3> QED BY <3>1, <3>2, <3>3 DEF HoldInv, On
  <2> QED BY <2>1, <2>2
<1>6. ASSUME NEW l \in Lists, WalkBegins(l) PROVE HoldInv'
  <2>1. /\ First(list[l]) \in On(l) \cup {NULL}
        /\ list[l] # <<>> => First(list[l]) \in On(l)
        /\ On(l) \subseteq Records
    BY OnIsOnce, EndsOfLists
  <2>2. First(list[l]) = NULL <=> list[l] = <<>>
    BY <2>1, DbScanAssumption DEF First
  <2>3. wpc' = [wpc EXCEPT ![l] = IF First(list[l]) = NULL THEN "wait" ELSE "lock"]
    BY <1>6, <2>2 DEF WalkBegins
  <2> QED BY <1>5, <1>6, <2>1, <2>3 DEF WalkBegins
<1>7. ASSUME NEW l \in Lists, StepOn(l) PROVE HoldInv'
  <2>1. PICK e, q : GoOn(l, e, q) /\ e \in On(l) \cup {NULL}
    BY <1>7, HowItGoesOn
  <2>2. UNCHANGED list
    BY <1>7 DEF StepOn
  <2> QED BY <1>5, <2>1, <2>2 DEF GoOn
<1>8. ASSUME NEW l \in Lists, ProcessBegins(l) \/ ProcessEnds(l) \/ GiveUp(l) PROVE HoldInv'
  <2>1. UNCHANGED <<pse, modified, list>>
    BY <1>8 DEF ProcessBegins, ProcessEnds, GiveUp
  <2>2. \A m \in Lists : Walking(m)' => Walking(m)
    BY <1>0, <1>8 DEF ProcessBegins, ProcessEnds, GiveUp, Walking
  <2> QED BY <2>1, <2>2 DEF HoldInv, On
<1>9. UNCHANGED scanVars \/ scanRun \/ scanPause => UNCHANGED <<wpc, pse, modified, list>>
  BY DEF scanVars, walkVars, scanRun, scanPause
<1> QED BY <1>1, <1>3, <1>4, <1>6, <1>7, <1>8, <1>9 DEF DbScanNext, WalkStep, PutFinishes

LEMMA WalkAlways == DbScanSpec => [](WalkTyped /\ HoldInv)
<1>1. DbScanInit => WalkTyped /\ HoldInv
  <2> SUFFICES ASSUME DbScanInit PROVE WalkTyped /\ HoldInv
    OBVIOUS
  <2>1. modified \in [Lists -> BOOLEAN]
    <3>1. modified = [l \in Lists |-> list[l] # <<>>]
      BY DEF DbScanInit
    <3> QED BY <3>1, Zenon
  <2>2. WalkTyped
    BY <2>1 DEF DbScanInit, WalkTyped
  <2>3. \A l \in Lists : ~Walking(l)
    BY DEF DbScanInit, Walking
  <2> QED BY <2>2, <2>3 DEF HoldInv
<1>2. ListInv /\ (WalkTyped /\ HoldInv) /\ [DbScanNext]_scanVars => (WalkTyped /\ HoldInv)'
  BY WalkTypedStep, HoldStep
<1> QED BY <1>1, <1>2, ListAlways, PTL DEF DbScanSpec

(***************************************************************************)
(* The fields, the lists and the walks keep their types, and a walk always *)
(* has an element in hand, however lists change under it (scanList).       *)
(***************************************************************************)
THEOREM ScanTypes == DbScanSpec => []DbScanTypeOK
<1>1. ListInv /\ (WalkTyped /\ HoldInv) => DbScanTypeOK
  BY DEF ListInv, FieldsTyped, WalkTyped, HoldInv, Walking, DbScanTypeOK
<1> QED BY <1>1, ListAlways, WalkAlways, PTL

(***************************************************************************)
(* For any number of walks and puts in any order, a walk that finds its    *)
(* list unmodified holds an element of that list: ellNext never leads it   *)
(* along a pointer into another list (scanList).                           *)
(***************************************************************************)
THEOREM ScanUnmodifiedMeansOnList == DbScanSpec => []UnmodifiedMeansOnList
<1>1. WalkTyped /\ HoldInv => UnmodifiedMeansOnList
  <2> SUFFICES ASSUME WalkTyped, HoldInv, NEW l \in Lists, Walking(l), ~modified[l]
               PROVE  pse[l] \in On(l)
    BY DEF UnmodifiedMeansOnList, Walking
  <2>1. modified[l] = FALSE
    BY Zenon DEF WalkTyped
  <2> QED BY <2>1 DEF HoldInv
<1> QED BY <1>1, WalkAlways, PTL

-----------------------------------------------------------------------------
(***************************************************************************)
(* Where a walk of list L is, that has e in hand, came from q and saw n    *)
(* behind e: each of the three, as long as it is on the list, separates    *)
(* the records of S that have been processed from those that have not.     *)
(***************************************************************************)
Cut(L, S, vis, here, e, q, n) ==
  \A x \in S :
    /\ x = e => vis[x] = here
    /\ x # e =>
         /\ e \in Range(L) => vis[x] = IF Precedes(L, x, e) THEN 1 ELSE 0
         /\ q \in Range(L) => vis[x] = IF x = q \/ Precedes(L, x, q) THEN 1 ELSE 0
         /\ n \in Range(L) => vis[x] = IF Precedes(L, x, n) THEN 1 ELSE 0

Here(l) == IF wpc[l] = "lock" THEN 0 ELSE 1

HistTyped ==
  /\ stayed \in [Lists -> SUBSET Records]
  /\ departed \in [Lists -> SUBSET Records]
  /\ returned \in [Lists -> BOOLEAN]
  /\ visits \in [Lists -> [Records -> Nat]]

InHand(l) == {pse[l], prev[l], next[l]} \ {NULL}

(***************************************************************************)
(* What stayed is on the list, and what a walk has in hand has not left it *)
(* unnoticed: an element that is neither on the list nor departed cannot   *)
(* come to be on it.                                                       *)
(***************************************************************************)
HistOK(l) ==
  /\ stayed[l] \subseteq On(l)
  /\ Walking(l) => InHand(l) \subseteq On(l) \cup departed[l]
  /\ returned[l] = FALSE =>
       /\ Walking(l) =>
            Cut(list[l], stayed[l], visits[l], Here(l), pse[l], prev[l], next[l])
       /\ wpc[l] = "wait" => \A r \in stayed[l] : visits[l][r] = 1

HistInv == HistTyped /\ \A l \in Lists : HistOK(l)

LEMMA NotBeforeItself ==
  ASSUME NEW L, Once(L), NEW e \in Range(L)
  PROVE  ~Precedes(L, e, e)
BY PrecedesByPlace, PlaceProps

\* A walk that comes to an element separates at it, at the one before and at
\* the one behind.
LEMMA CutOnArrival ==
  ASSUME NEW L, Once(L), NEW S, S \subseteq Range(L), NEW vis, NEW e \in Range(L), NEW q,
         \A x \in S : vis[x] = IF Precedes(L, x, e) THEN 1 ELSE 0,
         q \in Range(L) => \A y \in Range(L) : (y = q \/ Precedes(L, y, q)) <=> Precedes(L, y, e)
  PROVE  Cut(L, S, vis, 0, e, q, After(L, e))
<1> SUFFICES ASSUME NEW x \in S
             PROVE  /\ x = e => vis[x] = 0
                    /\ x # e =>
                         /\ vis[x] = IF Precedes(L, x, e) THEN 1 ELSE 0
                         /\ q \in Range(L) =>
                              vis[x] = IF x = q \/ Precedes(L, x, q) THEN 1 ELSE 0
                         /\ After(L, e) \in Range(L) =>
                              vis[x] = IF Precedes(L, x, After(L, e)) THEN 1 ELSE 0
  BY DEF Cut
<1>1. x = e => vis[x] = 0
  BY NotBeforeItself
<1>2. q \in Range(L) => vis[x] = IF x = q \/ Precedes(L, x, q) THEN 1 ELSE 0
  OBVIOUS
<1>3. ASSUME x # e, After(L, e) \in Range(L)
      PROVE  Precedes(L, x, After(L, e)) <=> Precedes(L, x, e)
  <2>1. After(L, e) # NULL
    BY <1>3, RangeIs, OnceProps, DbScanAssumption
  <2> QED BY <1>3, <2>1, AfterProps
<1> QED BY <1>1, <1>2, <1>3

\* What an element p that separates says of the walk that goes on behind it.
LEMMA CutBehind ==
  ASSUME NEW L, Once(L), NEW S, S \subseteq Range(L), NEW vis, NEW p \in Range(L),
         \A x \in S : vis[x] = IF x = p \/ Precedes(L, x, p) THEN 1 ELSE 0
  PROVE  /\ After(L, p) = NULL => \A x \in S : vis[x] = 1
         /\ After(L, p) # NULL => Cut(L, S, vis, 0, After(L, p), p, After(L, After(L, p)))
<1>1. ASSUME After(L, p) = NULL, NEW x \in S PROVE vis[x] = 1
  BY <1>1, AfterProps
<1>2. ASSUME After(L, p) # NULL
      PROVE  Cut(L, S, vis, 0, After(L, p), p, After(L, After(L, p)))
  <2>1. /\ After(L, p) \in Range(L)
        /\ \A y \in Range(L) : (y = p \/ Precedes(L, y, p)) <=> Precedes(L, y, After(L, p))
    BY <1>2, AfterProps
  <2>2. \A x \in S : vis[x] = IF Precedes(L, x, After(L, p)) THEN 1 ELSE 0
    BY <2>1
  <2> QED BY <2>1, <2>2, CutOnArrival
<1> QED BY <1>1, <1>2

LEMMA CutAtNext ==
  ASSUME NEW L, Once(L), NEW S, S \subseteq Range(L), NEW vis, NEW n \in Range(L),
         \A x \in S : vis[x] = IF Precedes(L, x, n) THEN 1 ELSE 0
  PROVE  Cut(L, S, vis, 0, n, Before(L, n), After(L, n))
<1>1. ASSUME Before(L, n) \in Range(L)
      PROVE  \A y \in Range(L) :
               (y = Before(L, n) \/ Precedes(L, y, Before(L, n))) <=> Precedes(L, y, n)
  <2>1. Before(L, n) # NULL
    BY <1>1, RangeIs, OnceProps, DbScanAssumption
  <2> QED BY <2>1, BeforeProps
<1> QED BY <1>1, CutOnArrival

LEMMA CutAtFirst ==
  ASSUME NEW L, Once(L), L # <<>>, NEW S, S \subseteq Range(L), NEW vis, \A x \in S : vis[x] = 0
  PROVE  Cut(L, S, vis, 0, First(L), NULL, After(L, First(L)))
<1>1. First(L) \in Range(L) /\ \A y \in Range(L) : ~Precedes(L, y, First(L))
  BY FirstProps
<1>2. NULL \notin Range(L)
  BY RangeIs, OnceProps, DbScanAssumption
<1> QED BY <1>1, <1>2, CutOnArrival

(***************************************************************************)
(* A step that does not touch a list, its walk and its history keeps what  *)
(* is said of it.                                                          *)
(***************************************************************************)
Same(l) ==
  /\ list'[l] = list[l] /\ wpc'[l] = wpc[l]
  /\ pse'[l] = pse[l] /\ prev'[l] = prev[l] /\ next'[l] = next[l]
  /\ stayed'[l] = stayed[l] /\ departed'[l] = departed[l] /\ visits'[l] = visits[l]
  /\ returned'[l] = returned[l]

LEMMA SameKeeps ==
  ASSUME NEW l \in Lists, HistOK(l), Same(l)
  PROVE  HistOK(l)'
<1>1. On(l)' = On(l) /\ Here(l)' = Here(l) /\ InHand(l)' = InHand(l)
  BY DEF Same, On, Here, InHand
<1>2. Walking(l)' <=> Walking(l)
  BY DEF Same, Walking
<1>3. Cut(list[l], stayed[l], visits[l], Here(l), pse[l], prev[l], next[l]) =>
        Cut(list'[l], stayed'[l], visits'[l], Here(l)', pse'[l], prev'[l], next'[l])
  BY <1>1 DEF Same
<1>4. returned'[l] = returned[l] /\ wpc'[l] = wpc[l] /\ stayed'[l] = stayed[l]
      /\ departed'[l] = departed[l] /\ visits'[l] = visits[l]
  BY DEF Same
<1> QED BY <1>1, <1>2, <1>3, <1>4 DEF HistOK

\* An element leaves a list.
LEMMA CutDelete ==
  ASSUME NEW L, NEW M, NEW r, Range(M) = Range(L) \ {r},
         \A x, y \in Range(L) \ {r} : Precedes(M, x, y) <=> Precedes(L, x, y),
         NEW S, S \subseteq Range(L), NEW vis, NEW here, NEW e, NEW q, NEW n,
         Cut(L, S, vis, here, e, q, n)
  PROVE  Cut(M, S \ {r}, vis, here, e, q, n)
<1> SUFFICES ASSUME NEW x \in S, x # r
             PROVE  /\ x = e => vis[x] = here
                    /\ x # e =>
                         /\ e \in Range(M) => vis[x] = IF Precedes(M, x, e) THEN 1 ELSE 0
                         /\ q \in Range(M) =>
                              vis[x] = IF x = q \/ Precedes(M, x, q) THEN 1 ELSE 0
                         /\ n \in Range(M) => vis[x] = IF Precedes(M, x, n) THEN 1 ELSE 0
  BY DEF Cut
<1>1. x \in Range(L) \ {r}
  OBVIOUS
<1>2. \A y \in Range(M) : y \in Range(L) /\ (Precedes(M, x, y) <=> Precedes(L, x, y))
  BY <1>1
<1> QED BY <1>2 DEF Cut

\* An element joins a list, which the walk did not have in hand.
LEMMA CutInsert ==
  ASSUME NEW L, NEW M, NEW r, Range(M) = Range(L) \cup {r},
         \A x, y \in Range(L) : Precedes(M, x, y) <=> Precedes(L, x, y),
         NEW S, S \subseteq Range(L), NEW vis, NEW here,
         NEW e, NEW q, NEW n, r \notin {e, q, n},
         Cut(L, S, vis, here, e, q, n)
  PROVE  Cut(M, S, vis, here, e, q, n)
<1> SUFFICES ASSUME NEW x \in S
             PROVE  /\ x = e => vis[x] = here
                    /\ x # e =>
                         /\ e \in Range(M) => vis[x] = IF Precedes(M, x, e) THEN 1 ELSE 0
                         /\ q \in Range(M) =>
                              vis[x] = IF x = q \/ Precedes(M, x, q) THEN 1 ELSE 0
                         /\ n \in Range(M) => vis[x] = IF Precedes(M, x, n) THEN 1 ELSE 0
  BY DEF Cut
<1>1. \A y \in Range(M) : y # r =>
        y \in Range(L) /\ (Precedes(M, x, y) <=> Precedes(L, x, y))
  OBVIOUS
<1> QED BY <1>1 DEF Cut

LEMMA HistPutBegins ==
  ASSUME ListInv, HistInv, NEW r \in Records, PutBegins(r)
  PROVE  HistInv'
<1>0. /\ stayed \in [Lists -> SUBSET Records] /\ departed \in [Lists -> SUBSET Records]
      /\ list \in [Lists -> Seq(Records)]
  BY DEF HistInv, HistTyped, ListInv, FieldsTyped
<1>1. UNCHANGED <<wpc, pse, prev, next, returned, visits>>
  BY DEF PutBegins, walkVars
<1>2. CASE scan[r] \notin Lists
  <2>1. UNCHANGED <<list, stayed, departed>>
    BY <1>2 DEF PutBegins
  <2>2. \A l \in Lists : HistOK(l)'
    BY <1>1, <2>1, SameKeeps DEF HistInv, Same
  <2> QED BY <1>1, <2>1, <2>2 DEF HistInv, HistTyped
<1>3. CASE scan[r] \in Lists
  <2>0. PICK k \in Lists : k = scan[r]
    BY <1>3 DEF ListInv, FieldsTyped
  <2>1. deleteFromList(r, scan[r]) /\ r \in Records \ putting
    BY <1>3 DEF PutBegins
  <2>2. /\ k \in Lists /\ r \in On(k)
        /\ Range(list'[k]) = On(k) \ {r}
        /\ \A m \in Lists : m # k => list'[m] = list[m]
        /\ \A x, y \in On(k) \ {r} : Precedes(list'[k], x, y) <=> Precedes(list[k], x, y)
        /\ stayed' = [stayed EXCEPT ![k] = @ \ {r}]
        /\ departed' = [departed EXCEPT ![k] = @ \cup {r}]
    BY <1>3, <2>0, <2>1, DeleteEffect
  <2>3. /\ stayed'[k] = stayed[k] \ {r} /\ departed'[k] = departed[k] \cup {r}
        /\ \A m \in Lists : m # k => stayed'[m] = stayed[m] /\ departed'[m] = departed[m]
        /\ stayed' \in [Lists -> SUBSET Records] /\ departed' \in [Lists -> SUBSET Records]
    BY <1>0, <2>2
  <2>4. HistTyped'
    BY <1>1, <2>3 DEF HistInv, HistTyped
  <2>5. ASSUME NEW m \in Lists, m # k PROVE HistOK(m)'
    <3>1. Same(m)
      BY <1>1, <2>2, <2>3, <2>5 DEF Same
    <3> QED BY <3>1, SameKeeps DEF HistInv
  <2>6. HistOK(k)'
    <3>1. HistOK(k)
      BY <2>2 DEF HistInv
    <3>2. stayed'[k] \subseteq Range(list'[k])
      BY <2>2, <2>3, <3>1 DEF HistOK
    <3>3. InHand(k)' = InHand(k) /\ Here(k)' = Here(k) /\ (Walking(k)' <=> Walking(k))
      BY <1>1 DEF InHand, Here, Walking
    <3>4. Walking(k) => InHand(k) \subseteq Range(list'[k]) \cup departed'[k]
      BY <2>2, <2>3, <3>1 DEF HistOK
    <3>5. ASSUME Cut(list[k], stayed[k], visits[k], Here(k), pse[k], prev[k], next[k])
          PROVE  Cut(list'[k], stayed'[k], visits[k], Here(k), pse[k], prev[k], next[k])
      <4>1. On(k) = Range(list[k]) /\ stayed[k] \subseteq Range(list[k])
        BY <3>1 DEF HistOK, On
      <4> HIDE DEF Here
      <4>2. Cut(list'[k], stayed[k] \ {r}, visits[k], Here(k), pse[k], prev[k], next[k])
        BY <2>2, <3>5, <4>1, CutDelete
      <4> QED BY <2>3, <4>2
    <3>6. On(k)' = Range(list'[k])
      BY DEF On
    <3>7. returned'[k] = FALSE => returned[k] = FALSE
      BY <1>1
    <3>8. wpc[k] = "wait" /\ returned[k] = FALSE => \A x \in stayed'[k] : visits[k][x] = 1
      BY <2>3, <3>1 DEF HistOK
    <3>9. returned'[k] = FALSE /\ Walking(k)' =>
            Cut(list'[k], stayed'[k], visits'[k], Here(k)', pse'[k], prev'[k], next'[k])
      BY <1>1, <3>1, <3>3, <3>5, <3>7 DEF HistOK
    <3> QED BY <1>1, <3>2, <3>3, <3>4, <3>6, <3>7, <3>8, <3>9 DEF HistOK
  <2> QED BY <2>4, <2>5, <2>6 DEF HistInv
<1> QED BY <1>2, <1>3

LEMMA HistPutEnds ==
  ASSUME ListInv, WalkTyped, HistInv, NEW r \in Records, NEW k \in ScanValues,
         NEW p \in Phases, PutEnds(r, k, p)
  PROVE  HistInv'
<1>0. /\ returned \in [Lists -> BOOLEAN] /\ departed \in [Lists -> SUBSET Records]
      /\ r # NULL
  BY DbScanAssumption DEF HistInv, HistTyped
<1>1. UNCHANGED <<wpc, pse, prev, next, stayed, departed, visits>>
  BY DEF PutEnds, walkVars
<1>2. CASE k \notin Lists
  <2>1. UNCHANGED <<list, returned>>
    BY <1>2 DEF PutEnds
  <2>2. \A l \in Lists : HistOK(l)'
    BY <1>1, <2>1, SameKeeps DEF HistInv, Same
  <2> QED BY <1>1, <2>1, <2>2 DEF HistInv, HistTyped
<1>3. CASE k \in Lists
  <2>1. addToList(r, k, p) /\ r \in putting /\ k \in Lists
    BY <1>3 DEF PutEnds
  <2>2. /\ r \notin On(k)
        /\ Range(list'[k]) = On(k) \cup {r}
        /\ \A m \in Lists : m # k => list'[m] = list[m]
        /\ \A x, y \in On(k) : Precedes(list'[k], x, y) <=> Precedes(list[k], x, y)
    BY <2>1, AddEffect
  <2>3. returned' = [returned EXCEPT ![k] = @ \/ r \in departed[k]]
    BY <2>1 DEF addToList
  <2>4. /\ returned' \in [Lists -> BOOLEAN]
        /\ \A m \in Lists : m # k => returned'[m] = returned[m]
    BY <1>0, <2>1, <2>3, Zenon
  <2>5. returned'[k] <=> (returned[k] \/ r \in departed[k])
    BY <1>0, <2>1, <2>3, Zenon
  <2>6. returned'[k] = FALSE => returned[k] = FALSE /\ r \notin departed[k]
    <3>1. returned[k] \in BOOLEAN
      BY <1>0, <2>1, Zenon
    <3> QED BY <2>5, <3>1, Zenon
  <2>7. HistTyped'
    BY <1>1, <2>4 DEF HistInv, HistTyped
  <2>8. ASSUME NEW m \in Lists, m # k PROVE HistOK(m)'
    <3>1. Same(m)
      BY <1>1, <2>2, <2>4, <2>8 DEF Same
    <3> QED BY <3>1, SameKeeps DEF HistInv
  <2>9. HistOK(k)'
    <3>1. HistOK(k) /\ On(k) = Range(list[k]) /\ On(k)' = Range(list'[k])
      BY <2>1 DEF HistInv, On
    <3>2. stayed[k] \subseteq On(k)
      BY <3>1 DEF HistOK
    <3>3. InHand(k)' = InHand(k) /\ Here(k)' = Here(k) /\ (Walking(k)' <=> Walking(k))
      BY <1>1 DEF InHand, Here, Walking
    <3>4. Walking(k) => InHand(k) \subseteq On(k) \cup departed[k]
      BY <3>1 DEF HistOK
    <3>5. ASSUME Walking(k), r \notin departed[k]
          PROVE  r \notin {pse[k], prev[k], next[k]}
      BY <1>0, <2>2, <3>4, <3>5 DEF InHand
    <3>6. ASSUME Walking(k), returned'[k] = FALSE
          PROVE  Cut(list'[k], stayed[k], visits[k], Here(k), pse[k], prev[k], next[k])
      <4>1. Cut(list[k], stayed[k], visits[k], Here(k), pse[k], prev[k], next[k])
        BY <2>6, <3>1, <3>6 DEF HistOK
      <4>2. r \notin {pse[k], prev[k], next[k]}
        BY <2>6, <3>5, <3>6
      <4>3. /\ Range(list'[k]) = Range(list[k]) \cup {r}
            /\ \A x, y \in Range(list[k]) :
                 Precedes(list'[k], x, y) <=> Precedes(list[k], x, y)
            /\ stayed[k] \subseteq Range(list[k])
        BY <2>2, <3>1, <3>2
      <4> HIDE DEF Here
      <4> QED BY <4>1, <4>2, <4>3, CutInsert
    <3>7. wpc[k] = "wait" /\ returned'[k] = FALSE => \A x \in stayed[k] : visits[k][x] = 1
      BY <2>6, <3>1 DEF HistOK
    <3>8. returned'[k] = FALSE /\ Walking(k)' =>
            Cut(list'[k], stayed'[k], visits'[k], Here(k)', pse'[k], prev'[k], next'[k])
      BY <1>1, <3>3, <3>6
    <3> QED BY <1>1, <2>2, <3>1, <3>2, <3>3, <3>4, <3>7, <3>8 DEF HistOK
  <2> QED BY <2>7, <2>8, <2>9 DEF HistInv
<1> QED BY <1>2, <1>3

LEMMA HistWalkBegins ==
  ASSUME ListInv, WalkTyped, HistInv, NEW l \in Lists, WalkBegins(l)
  PROVE  HistInv'
<1>0. /\ stayed \in [Lists -> SUBSET Records] /\ departed \in [Lists -> SUBSET Records]
      /\ visits \in [Lists -> [Records -> Nat]]
      /\ wpc \in [Lists -> {"wait", "lock", "process", "step", "gave up"}]
      /\ pse \in [Lists -> Records \cup {NULL}] /\ prev \in [Lists -> Records \cup {NULL}]
      /\ next \in [Lists -> Records \cup {NULL}]
      /\ returned \in [Lists -> BOOLEAN]
  BY DEF HistInv, HistTyped, WalkTyped
<1>1. /\ UNCHANGED list
      /\ wpc' = [wpc EXCEPT ![l] = IF list[l] = <<>> THEN "wait" ELSE "lock"]
      /\ pse' = [pse EXCEPT ![l] = First(list[l])]
      /\ prev' = [prev EXCEPT ![l] = NULL]
      /\ next' = [next EXCEPT ![l] = After(list[l], First(list[l]))]
      /\ stayed' = [stayed EXCEPT ![l] = On(l)]
      /\ departed' = [departed EXCEPT ![l] = {}]
      /\ visits' = [visits EXCEPT ![l] = [r \in Records |-> 0]]
  BY DEF WalkBegins
<1>2. returned' = [returned EXCEPT ![l] = FALSE]
  BY DEF WalkBegins
<1>3. returned' \in [Lists -> BOOLEAN] /\ \A m \in Lists : m # l => returned'[m] = returned[m]
  BY <1>0, <1>2, Zenon
<1>4. Once(list[l]) /\ On(l) = Range(list[l]) /\ On(l) \subseteq Records
  BY OnIsOnce
<1>5. HistTyped'
  BY <1>0, <1>1, <1>3, <1>4 DEF HistTyped
<1>6. ASSUME NEW m \in Lists, m # l PROVE HistOK(m)'
  <2>1. Same(m)
    BY <1>0, <1>1, <1>3, <1>6 DEF Same
  <2> QED BY <2>1, SameKeeps DEF HistInv
<1>7. HistOK(l)'
  <2>1. /\ wpc'[l] = (IF list[l] = <<>> THEN "wait" ELSE "lock")
        /\ pse'[l] = First(list[l]) /\ prev'[l] = NULL
        /\ next'[l] = After(list[l], First(list[l]))
        /\ stayed'[l] = On(l) /\ departed'[l] = {} /\ visits'[l] = [r \in Records |-> 0]
    BY <1>0, <1>1
  <2>2. On(l)' = On(l)
    BY <1>1 DEF On
  <2>3. InHand(l)' \subseteq On(l)
    <3>1. /\ First(list[l]) \in On(l) \cup {NULL}
          /\ After(list[l], First(list[l])) \in On(l) \cup {NULL}
      BY <1>4, EndsOfLists
    <3> QED BY <2>1, <3>1 DEF InHand
  <2>4. CASE list[l] = <<>>
    <3>1. On(l) = {}
      BY <1>4, <2>4, RangeIs
    <3>2. wpc'[l] = "wait" /\ ~Walking(l)'
      BY <2>1, <2>4 DEF Walking
    <3> QED BY <2>1, <2>2, <3>1, <3>2 DEF HistOK
  <2>5. CASE list[l] # <<>>
    <3>1. wpc'[l] = "lock" /\ wpc'[l] # "wait" /\ Here(l)' = 0
      BY <2>1, <2>5 DEF Here
    <3>2. \A x \in On(l) : [r \in Records |-> 0][x] = 0
      BY <1>4
    <3>3. Cut(list[l], On(l), [r \in Records |-> 0], 0, First(list[l]), NULL,
              After(list[l], First(list[l])))
      BY <1>4, <2>5, <3>2, CutAtFirst
    <3>4. Cut(list'[l], stayed'[l], visits'[l], Here(l)', pse'[l], prev'[l], next'[l])
      BY <1>1, <2>1, <3>1, <3>3
    <3> QED BY <2>1, <2>2, <2>3, <3>1, <3>4 DEF HistOK
  <2> QED BY <2>4, <2>5
<1> QED BY <1>5, <1>6, <1>7 DEF HistInv

LEMMA HistProcessBegins ==
  ASSUME ListInv, WalkTyped, HoldInv, HistInv, NEW l \in Lists, ProcessBegins(l)
  PROVE  HistInv'
<1>0. /\ visits \in [Lists -> [Records -> Nat]]
      /\ wpc \in [Lists -> {"wait", "lock", "process", "step", "gave up"}]
  BY DEF HistInv, HistTyped, WalkTyped
<1>1. /\ UNCHANGED <<list, pse, prev, next, stayed, departed, returned>>
      /\ wpc[l] = "lock" /\ wpc' = [wpc EXCEPT ![l] = "process"]
      /\ visits' = [visits EXCEPT ![l][pse[l]] = @ + 1]
  BY DEF ProcessBegins
<1>2. pse[l] \in Records
  BY <1>1 DEF WalkTyped, HoldInv, Walking
<1>3. /\ visits' \in [Lists -> [Records -> Nat]]
      /\ \A m \in Lists : m # l => visits'[m] = visits[m]
      /\ visits'[l][pse[l]] = visits[l][pse[l]] + 1
      /\ \A x \in Records : x # pse[l] => visits'[l][x] = visits[l][x]
  <2> DEFINE v == visits[l]
             w == [v EXCEPT ![pse[l]] = @ + 1]
  <2>1. v \in [Records -> Nat]
    BY <1>0
  <2>2. visits' = [visits EXCEPT ![l] = w]
    BY <1>1, Zenon
  <2>3. w \in [Records -> Nat] /\ w[pse[l]] = v[pse[l]] + 1
        /\ \A x \in Records : x # pse[l] => w[x] = v[x]
    BY <1>2, <2>1
  <2> HIDE DEF w
  <2>4. visits'[l] = w /\ \A m \in Lists : m # l => visits'[m] = visits[m]
    BY <1>0, <2>2
  <2>5. visits' \in [Lists -> [Records -> Nat]]
    BY <1>0, <2>2, <2>3
  <2> QED BY <2>3, <2>4, <2>5
<1>4. HistTyped'
  BY <1>1, <1>3 DEF HistInv, HistTyped
<1>5. ASSUME NEW m \in Lists, m # l PROVE HistOK(m)'
  <2>1. Same(m)
    BY <1>0, <1>1, <1>3, <1>5 DEF Same
  <2> QED BY <2>1, SameKeeps DEF HistInv
<1>6. HistOK(l)'
  <2>1. /\ wpc'[l] = "process" /\ Walking(l) /\ Here(l) = 0 /\ Here(l)' = 1
        /\ wpc'[l] # "wait" /\ HistOK(l)
    BY <1>0, <1>1 DEF Walking, Here, HistInv
  <2>2. On(l)' = On(l) /\ InHand(l)' = InHand(l)
    BY <1>1 DEF On, InHand
  <2>3. ASSUME returned[l] = FALSE
        PROVE  Cut(list[l], stayed[l], visits'[l], 1, pse[l], prev[l], next[l])
    <3>1. Cut(list[l], stayed[l], visits[l], 0, pse[l], prev[l], next[l])
      BY <2>1, <2>3 DEF HistOK
    <3>2. stayed[l] \subseteq Records
      BY DEF HistInv, HistTyped
    <3>3. pse[l] \in stayed[l] => visits'[l][pse[l]] = 1
      BY <1>3, <3>1 DEF Cut
    <3> QED BY <1>3, <3>1, <3>2, <3>3 DEF Cut
  <2>4. returned'[l] = FALSE =>
          Cut(list'[l], stayed'[l], visits'[l], Here(l)', pse'[l], prev'[l], next'[l])
    BY <1>1, <2>1, <2>3
  <2> QED BY <1>1, <2>1, <2>2, <2>4 DEF HistOK
<1> QED BY <1>4, <1>5, <1>6 DEF HistInv

LEMMA HistProcessEnds ==
  ASSUME ListInv, WalkTyped, HistInv, NEW l \in Lists, ProcessEnds(l) \/ GiveUp(l)
  PROVE  HistInv'
<1>0. wpc \in [Lists -> {"wait", "lock", "process", "step", "gave up"}]
  BY DEF WalkTyped
<1>1. UNCHANGED <<list, pse, prev, next, stayed, departed, returned, visits>>
  BY DEF ProcessEnds, GiveUp, histVars
<1>2. HistTyped'
  BY <1>1 DEF HistInv, HistTyped
<1>3. ASSUME NEW m \in Lists, m # l PROVE HistOK(m)'
  <2>1. Same(m)
    BY <1>0, <1>1, <1>3 DEF ProcessEnds, GiveUp, Same
  <2> QED BY <2>1, SameKeeps DEF HistInv
<1>4. HistOK(l)'
  <2>1. HistOK(l) /\ On(l)' = On(l) /\ InHand(l)' = InHand(l)
    BY <1>1 DEF On, InHand, HistInv
  <2>2. CASE ProcessEnds(l)
    <3>1. Walking(l) /\ Here(l) = 1 /\ Here(l)' = 1 /\ wpc'[l] # "wait"
      BY <1>0, <2>2 DEF ProcessEnds, Walking, Here
    <3>2. returned[l] = FALSE =>
            Cut(list'[l], stayed'[l], visits'[l], Here(l)', pse'[l], prev'[l], next'[l])
      BY <1>1, <2>1, <3>1 DEF HistOK
    <3> QED BY <1>1, <2>1, <3>1, <3>2 DEF HistOK
  <2>3. CASE GiveUp(l)
    <3>1. ~Walking(l)' /\ wpc'[l] # "wait"
      BY <1>0, <2>3 DEF GiveUp, Walking
    <3> QED BY <1>1, <2>1, <3>1 DEF HistOK
  <2> QED BY <2>2, <2>3
<1> QED BY <1>2, <1>3, <1>4 DEF HistInv

LEMMA HistStepOn ==
  ASSUME ListInv, WalkTyped, HoldInv, HistInv, NEW l \in Lists, StepOn(l)
  PROVE  HistInv'
<1>0. /\ wpc \in [Lists -> {"wait", "lock", "process", "step", "gave up"}]
      /\ pse \in [Lists -> Records \cup {NULL}] /\ prev \in [Lists -> Records \cup {NULL}]
      /\ next \in [Lists -> Records \cup {NULL}]
  BY DEF WalkTyped
<1>1. UNCHANGED <<list, stayed, departed, returned, visits>>
  BY DEF StepOn, histVars
<1>2. /\ wpc[l] = "step"
      /\ \E e, q :
           /\ GoOn(l, e, q)
           /\ e \in On(l) \cup {NULL} /\ q \in On(l) \cup {NULL}
           /\ \/ /\ q \in On(l) /\ e = After(list[l], q)
                 /\ q = pse[l] \/ (q = prev[l] /\ pse[l] \notin On(l))
              \/ /\ e = next[l] /\ e \in On(l) /\ q = Before(list[l], e)
                 /\ pse[l] \notin On(l)
  BY HowItGoesOn
<1>3. PICK e, q :
        /\ GoOn(l, e, q)
        /\ e \in On(l) \cup {NULL} /\ q \in On(l) \cup {NULL}
        /\ \/ /\ q \in On(l) /\ e = After(list[l], q)
              /\ q = pse[l] \/ (q = prev[l] /\ pse[l] \notin On(l))
           \/ /\ e = next[l] /\ e \in On(l) /\ q = Before(list[l], e)
              /\ pse[l] \notin On(l)
  BY <1>2
<1>4. /\ wpc' = [wpc EXCEPT ![l] = IF e = NULL THEN "wait" ELSE "lock"]
      /\ pse' = [pse EXCEPT ![l] = e] /\ prev' = [prev EXCEPT ![l] = q]
      /\ next' = [next EXCEPT ![l] = IF e = NULL THEN @ ELSE After(list[l], e)]
  BY <1>3 DEF GoOn
<1>5. HistTyped'
  BY <1>1 DEF HistInv, HistTyped
<1>6. ASSUME NEW m \in Lists, m # l PROVE HistOK(m)'
  <2>1. Same(m)
    BY <1>0, <1>1, <1>4, <1>6 DEF Same
  <2> QED BY <2>1, SameKeeps DEF HistInv
<1>7. HistOK(l)'
  <2>1. HistOK(l) /\ On(l)' = On(l) /\ Walking(l) /\ Here(l) = 1
    BY <1>1, <1>2 DEF On, HistInv, Walking, Here
  <2>2. /\ Once(list[l]) /\ On(l) = Range(list[l]) /\ stayed[l] \subseteq Range(list[l])
        /\ NULL \notin On(l)
    BY <2>1, OnIsOnce, DbScanAssumption DEF HistOK
  <2>3. /\ wpc'[l] = (IF e = NULL THEN "wait" ELSE "lock")
        /\ pse'[l] = e /\ prev'[l] = q
        /\ e # NULL => next'[l] = After(list[l], e)
    BY <1>0, <1>4
  <2> DEFINE L == list[l]
             S == stayed[l]
             vis == visits[l]
  <2>4. ASSUME returned[l] = FALSE
        PROVE  /\ e = NULL => \A x \in S : vis[x] = 1
               /\ e # NULL => Cut(L, S, vis, 0, e, q, After(L, e))
    <3>1. Cut(L, S, vis, 1, pse[l], prev[l], next[l])
      BY <2>1, <2>4 DEF HistOK
    <3>2. CASE q \in On(l) /\ e = After(L, q) /\ q = pse[l]
      <4>1. \A x \in S : vis[x] = IF x = q \/ Precedes(L, x, q) THEN 1 ELSE 0
        BY <2>2, <3>1, <3>2 DEF Cut
      <4>2. q \in Range(L) /\ Once(L) /\ S \subseteq Range(L)
        BY <2>2, <3>2
      <4> HIDE DEF L, S, vis
      <4>3. /\ After(L, q) = NULL => \A x \in S : vis[x] = 1
            /\ After(L, q) # NULL => Cut(L, S, vis, 0, After(L, q), q, After(L, After(L, q)))
        BY <4>1, <4>2, CutBehind
      <4> QED BY <3>2, <4>3
    <3>3. CASE q \in On(l) /\ e = After(L, q) /\ q = prev[l] /\ pse[l] \notin On(l)
      <4>1. \A x \in S : vis[x] = IF x = q \/ Precedes(L, x, q) THEN 1 ELSE 0
        BY <2>2, <3>1, <3>3 DEF Cut
      <4>2. q \in Range(L) /\ Once(L) /\ S \subseteq Range(L)
        BY <2>2, <3>3
      <4> HIDE DEF L, S, vis
      <4>3. /\ After(L, q) = NULL => \A x \in S : vis[x] = 1
            /\ After(L, q) # NULL => Cut(L, S, vis, 0, After(L, q), q, After(L, After(L, q)))
        BY <4>1, <4>2, CutBehind
      <4> QED BY <3>3, <4>3
    <3>4. CASE e = next[l] /\ e \in On(l) /\ q = Before(L, e) /\ pse[l] \notin On(l)
      <4>1. \A x \in S : vis[x] = IF Precedes(L, x, e) THEN 1 ELSE 0
        BY <2>2, <3>1, <3>4 DEF Cut
      <4> QED BY <2>2, <3>4, <4>1, CutAtNext
    <3> QED BY <1>3, <3>2, <3>3, <3>4
  <2>5. CASE e = NULL
    <3>1. wpc'[l] = "wait" /\ ~Walking(l)'
      BY <2>3, <2>5 DEF Walking
    <3> QED BY <1>1, <2>1, <2>4, <2>5, <3>1 DEF HistOK
  <2>6. CASE e # NULL
    <3>1. wpc'[l] # "wait" /\ Here(l)' = 0
      BY <2>3, <2>6 DEF Here
    <3>2. After(L, e) \in On(l) \cup {NULL}
      BY <2>2, EndsOfLists
    <3>3. InHand(l)' \subseteq On(l)
      BY <1>3, <2>3, <2>6, <3>2 DEF InHand
    <3>4. returned'[l] = FALSE =>
            Cut(list'[l], stayed'[l], visits'[l], Here(l)', pse'[l], prev'[l], next'[l])
      BY <1>1, <2>3, <2>4, <2>6, <3>1
    <3> QED BY <1>1, <2>1, <3>1, <3>3, <3>4 DEF HistOK
  <2> QED BY <2>5, <2>6
<1> QED BY <1>5, <1>6, <1>7 DEF HistInv

LEMMA HistStep ==
  ASSUME ListInv, WalkTyped, HoldInv, HistInv, [DbScanNext]_scanVars
  PROVE  HistInv'
<1>1. CASE scanRun \/ scanPause \/ UNCHANGED scanVars
  <2>1. UNCHANGED <<list, walkVars, histVars>>
    BY <1>1 DEF scanRun, scanPause, scanVars
  <2>2. \A l \in Lists : Same(l)
    BY <2>1 DEF walkVars, histVars, Same
  <2>3. HistTyped'
    BY <2>1 DEF histVars, HistInv, HistTyped
  <2> QED BY <2>2, <2>3, SameKeeps DEF HistInv
<1> QED BY <1>1, HistPutBegins, HistPutEnds, HistWalkBegins, HistProcessBegins,
           HistProcessEnds, HistStepOn DEF DbScanNext, WalkStep, PutFinishes

LEMMA HistAlways == DbScanSpec => []HistInv
<1>1. DbScanInit => HistInv
  <2> SUFFICES ASSUME DbScanInit PROVE HistInv
    OBVIOUS
  <2>1. returned \in [Lists -> BOOLEAN]
    <3>1. returned = [l \in Lists |-> FALSE]
      BY DEF DbScanInit
    <3> QED BY <3>1, Zenon
  <2>2. HistTyped
    BY <2>1 DEF DbScanInit, HistTyped
  <2>3. \A l \in Lists : stayed[l] = {} /\ ~Walking(l)
    BY DEF DbScanInit, Walking
  <2> QED BY <2>2, <2>3 DEF HistInv, HistOK
<1>2. ListInv /\ (WalkTyped /\ HoldInv) /\ HistInv /\ [DbScanNext]_scanVars => HistInv'
  BY HistStep
<1> QED BY <1>1, <1>2, ListAlways, WalkAlways, PTL DEF DbScanSpec

(***************************************************************************)
(* For any records, lists and puts: a walk that reaches the end of its     *)
(* list has processed every record that stayed on it exactly once,         *)
(* whatever else joined or left between two of its locked sections, unless *)
(* a record left and came back (prev, pse and next in scanList).           *)
(***************************************************************************)
THEOREM ScanEveryoneOnce == DbScanSpec => []EveryoneOnce
<1>1. HistInv => EveryoneOnce
  <2> SUFFICES ASSUME HistInv, NEW l \in Lists, wpc[l] = "wait", ~returned[l]
               PROVE  \A r \in stayed[l] : visits[l][r] = 1
    BY DEF EveryoneOnce
  <2>1. returned[l] = FALSE
    BY Zenon DEF HistInv, HistTyped
  <2> QED BY <2>1 DEF HistInv, HistOK
<1> QED BY <1>1, HistAlways, PTL

=============================================================================
