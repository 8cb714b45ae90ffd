----------------------- MODULE TimeoutProviderProofs -----------------------
(***************************************************************************)
(* The list of the TimeoutProvider stays sorted and the thread never       *)
(* sleeps beyond its head, for any number of threads, receivers and        *)
(* requests, and the provider implements the TimeoutService.               *)
(*                                                                         *)
(* What cancelRequest and remove do to a list of any length is proved by   *)
(* induction.  The induction theorems of the library take an operator; the *)
(* form used here, about a set, follows from the natural numbers being     *)
(* well founded.                                                           *)
(***************************************************************************)
EXTENDS TimeoutProvider, FiniteSetTheorems, SequenceTheorems, TLAPS

----------------------------------------------------------------------------
(* A set of natural numbers that has one has a smallest one.               *)
LEMMA SmallestElement ==
  ASSUME NEW T, T \subseteq Nat, T # {}
  PROVE  \E x \in T : \A y \in T : x <= y
<1>1. IsWellFoundedOn(OpToRel(<,Nat), Nat)
  BY NatLessThanWellFounded
<1>2. PICK x \in T : \A y \in T : <<y, x>> \notin OpToRel(<,Nat)
  BY <1>1, WFMin
<1>3. \A y \in T : ~(y < x)
  BY <1>2 DEF OpToRel
<1> QED
  BY <1>3

(* Induction up to n, about a set.                                         *)
LEMMA Induction ==
  ASSUME NEW n \in Nat, NEW A, 0 \in A,
         \A k \in 0 .. (n - 1) : k \in A => k + 1 \in A
  PROVE  0 .. n \subseteq A
<1> SUFFICES ASSUME (0 .. n) \ A # {}
             PROVE  FALSE
  OBVIOUS
<1> DEFINE T == (0 .. n) \ A
<1>0. T \subseteq Nat /\ T # {}
  OBVIOUS
<1>1. PICK x \in T : \A y \in T : x <= y
  BY <1>0, SmallestElement
<1>2. x # 0 /\ x - 1 \in 0 .. (n - 1) /\ x - 1 \in 0 .. n
  BY <1>1
<1>3. x - 1 \in A
  BY <1>1, <1>2
<1>4. (x - 1) + 1 \in A
  BY <1>2, <1>3
<1> QED
  BY <1>1, <1>4

----------------------------------------------------------------------------
(* Lists.  RemoveAt and InsertAt, position by position.                    *)
LEMMA RemoveAtProperties ==
  ASSUME NEW R, NEW l \in Seq(R), NEW i \in 1 .. Len(l)
  PROVE  /\ RemoveAt(l, i) \in Seq(R)
         /\ Len(RemoveAt(l, i)) = Len(l) - 1
         /\ \A j \in 1 .. (i - 1) : RemoveAt(l, i)[j] = l[j]
         /\ \A j \in i .. (Len(l) - 1) : RemoveAt(l, i)[j] = l[j + 1]
<1> DEFINE a == SubSeq(l, 1, i - 1)
           b == SubSeq(l, i + 1, Len(l))
<1>0. Len(l) \in Nat /\ \A j \in 1 .. Len(l) : l[j] \in R
  BY LenProperties, ElementOfSeq
<1>1. a \in Seq(R) /\ Len(a) = i - 1 /\ \A j \in 1 .. (i - 1) : a[j] = l[j]
  BY <1>0, SubSeqProperties
<1>2. b \in Seq(R) /\ Len(b) = Len(l) - i
      /\ \A j \in 1 .. (Len(l) - i) : b[j] = l[i + j]
  BY <1>0, SubSeqProperties
<1> HIDE DEF a, b
<1>3. a \o b \in Seq(R) /\ Len(a \o b) = Len(l) - 1
      /\ \A j \in 1 .. (Len(l) - 1) :
           (a \o b)[j] = IF j <= i - 1 THEN a[j] ELSE b[j - (i - 1)]
  <2>1. /\ a \o b \in Seq(R)
        /\ Len(a \o b) = Len(a) + Len(b)
        /\ \A j \in 1 .. Len(a) + Len(b) :
             (a \o b)[j] = IF j <= Len(a) THEN a[j] ELSE b[j - Len(a)]
    BY <1>1, <1>2, ConcatProperties
  <2> QED
    BY <2>1, <1>0, <1>1, <1>2
<1>4. \A j \in i .. (Len(l) - 1) : (a \o b)[j] = l[j + 1]
  <2> TAKE j \in i .. (Len(l) - 1)
  <2>1. (a \o b)[j] = b[j - (i - 1)] /\ j - (i - 1) \in 1 .. (Len(l) - i)
    BY <1>0, <1>3
  <2>2. b[j - (i - 1)] = l[i + (j - (i - 1))] /\ i + (j - (i - 1)) = j + 1
    BY <1>0, <1>2, <2>1
  <2> QED
    BY <2>1, <2>2
<1>5. \A j \in 1 .. (i - 1) : (a \o b)[j] = l[j]
  BY <1>0, <1>1, <1>3
<1> QED
  BY <1>3, <1>4, <1>5 DEF RemoveAt, a, b

LEMMA InsertAtProperties ==
  ASSUME NEW R, NEW l \in Seq(R), NEW r \in R, NEW i \in 1 .. (Len(l) + 1)
  PROVE  /\ InsertAt(l, i, r) \in Seq(R)
         /\ Len(InsertAt(l, i, r)) = Len(l) + 1
         /\ \A j \in 1 .. (i - 1) : InsertAt(l, i, r)[j] = l[j]
         /\ InsertAt(l, i, r)[i] = r
         /\ \A j \in i .. Len(l) : InsertAt(l, i, r)[j + 1] = l[j]
<1> DEFINE a == SubSeq(l, 1, i - 1)
           b == SubSeq(l, i, Len(l))
<1>0. Len(l) \in Nat /\ \A j \in 1 .. Len(l) : l[j] \in R
  BY LenProperties, ElementOfSeq
<1>1. a \in Seq(R) /\ Len(a) = i - 1 /\ \A j \in 1 .. (i - 1) : a[j] = l[j]
  BY <1>0, SubSeqProperties
<1>2. b \in Seq(R) /\ Len(b) = Len(l) - i + 1
      /\ \A j \in 1 .. (Len(l) - i + 1) : b[j] = l[i + j - 1]
  BY <1>0, SubSeqProperties
<1> DEFINE c == <<r>>
<1>3. c \in Seq(R) /\ Len(c) = 1 /\ c[1] = r
  OBVIOUS
<1> DEFINE d == a \o c
<1> HIDE DEF a, b, c
<1>4. d \in Seq(R) /\ Len(d) = i
      /\ \A j \in 1 .. i : d[j] = IF j <= i - 1 THEN a[j] ELSE c[j - (i - 1)]
  <2>1. /\ a \o c \in Seq(R)
        /\ Len(a \o c) = Len(a) + Len(c)
        /\ \A j \in 1 .. Len(a) + Len(c) :
             (a \o c)[j] = IF j <= Len(a) THEN a[j] ELSE c[j - Len(a)]
    BY <1>1, <1>3, ConcatProperties
  <2> QED
    BY <2>1, <1>0, <1>1, <1>3
<1> HIDE DEF d
<1>5. d \o b \in Seq(R) /\ Len(d \o b) = Len(l) + 1
      /\ \A j \in 1 .. (Len(l) + 1) :
           (d \o b)[j] = IF j <= i THEN d[j] ELSE b[j - i]
  <2>1. /\ d \o b \in Seq(R)
        /\ Len(d \o b) = Len(d) + Len(b)
        /\ \A j \in 1 .. Len(d) + Len(b) :
             (d \o b)[j] = IF j <= Len(d) THEN d[j] ELSE b[j - Len(d)]
    BY <1>2, <1>4, ConcatProperties
  <2> QED
    BY <2>1, <1>0, <1>2, <1>4
<1>6. (d \o b)[i] = r
  BY <1>0, <1>3, <1>4, <1>5
<1>7. \A j \in 1 .. (i - 1) : (d \o b)[j] = l[j]
  <2> TAKE j \in 1 .. (i - 1)
  <2>1. (d \o b)[j] = d[j] /\ d[j] = a[j]
    BY <1>0, <1>4, <1>5
  <2> QED
    BY <1>1, <2>1
<1>8. \A j \in i .. Len(l) : (d \o b)[j + 1] = l[j]
  <2> TAKE j \in i .. Len(l)
  <2>1. (d \o b)[j + 1] = b[j + 1 - i] /\ j + 1 - i \in 1 .. (Len(l) - i + 1)
    BY <1>0, <1>5
  <2>2. b[j + 1 - i] = l[i + (j + 1 - i) - 1] /\ i + (j + 1 - i) - 1 = j
    BY <1>0, <1>2, <2>1
  <2> QED
    BY <2>1, <2>2
<1> QED
  BY <1>5, <1>6, <1>7, <1>8 DEF InsertAt, a, b, c, d

----------------------------------------------------------------------------
(* How often a timeout is requested in a list.                             *)
LEMMA RequestsType ==
  ASSUME NEW l \in Seq(TPRequest), NEW w
  PROVE  /\ IsFiniteSet({i \in 1 .. Len(l) : l[i].what = w})
         /\ Requests(l, w) \in Nat
<1>1. Len(l) \in Nat /\ IsFiniteSet(1 .. Len(l))
  BY LenProperties, FS_Interval
<1>2. {i \in 1 .. Len(l) : l[i].what = w} \in SUBSET (1 .. Len(l))
  OBVIOUS
<1>3. IsFiniteSet({i \in 1 .. Len(l) : l[i].what = w})
  BY <1>1, <1>2, FS_Subset
<1> QED
  BY <1>3, FS_CardinalityType DEF Requests

(* A request that is put in, wherever it is, is one more for its timeout   *)
(* and leaves the others alone.                                            *)
LEMMA OneMore ==
  ASSUME NEW l \in Seq(TPRequest), NEW m \in Seq(TPRequest),
         NEW k \in 1 .. (Len(l) + 1), Len(m) = Len(l) + 1,
         \A j \in 1 .. (k - 1) : m[j] = l[j],
         \A j \in k .. Len(l) : m[j + 1] = l[j],
         NEW w
  PROVE  Requests(m, w) = Requests(l, w) + (IF m[k].what = w THEN 1 ELSE 0)
<1> DEFINE L == {i \in 1 .. Len(l) : l[i].what = w}
           M == {i \in 1 .. Len(m) : m[i].what = w}
           f == [i \in L |-> IF i < k THEN i ELSE i + 1]
<1>0. Len(l) \in Nat /\ IsFiniteSet(L) /\ IsFiniteSet(M)
  BY LenProperties, RequestsType
<1>1. \A i \in L : f[i] \in M \ {k}
  <2> SUFFICES ASSUME NEW i \in L
               PROVE  f[i] \in M \ {k}
    OBVIOUS
  <2>1. CASE i < k
    <3>1. i \in 1 .. (k - 1) /\ i \in 1 .. Len(m) /\ m[i] = l[i] /\ f[i] = i
      BY <1>0, <2>1
    <3> QED
      BY <2>1, <3>1
  <2>2. CASE ~(i < k)
    <3>1. i \in k .. Len(l) /\ i + 1 \in 1 .. Len(m) /\ m[i + 1] = l[i] /\ f[i] = i + 1
      BY <1>0, <2>2
    <3> QED
      BY <2>2, <3>1
  <2> QED
    BY <2>1, <2>2
<1>2. \A i, j \in L : f[i] = f[j] => i = j
  OBVIOUS
<1>3. \A j \in M \ {k} : \E i \in L : f[i] = j
  <2> SUFFICES ASSUME NEW j \in M \ {k}
               PROVE  \E i \in L : f[i] = j
    OBVIOUS
  <2>1. CASE j < k
    <3>1. j \in L /\ f[j] = j
      BY <1>0, <2>1
    <3> QED
      BY <3>1
  <2>2. CASE j > k
    <3>1. j - 1 \in k .. Len(l) /\ m[(j - 1) + 1] = l[j - 1] /\ (j - 1) + 1 = j
      BY <1>0, <2>2
    <3>2. j - 1 \in L /\ f[j - 1] = j
      BY <1>0, <2>2, <3>1
    <3> QED
      BY <3>2
  <2>3. j < k \/ j > k
    BY <1>0
  <2> QED
    BY <2>1, <2>2, <2>3
<1>4. ExistsBijection(L, M \ {k})
  <2>1. f \in Bijection(L, M \ {k})
    BY <1>1, <1>2, <1>3 DEF Bijection, Injection, Surjection, IsInjective
  <2> QED
    BY <2>1 DEF ExistsBijection
<1>5. Cardinality(M \ {k}) = Cardinality(L)
  BY <1>0, <1>4, FS_Bijection
<1>6. Cardinality(M \ {k}) = IF k \in M THEN Cardinality(M) - 1 ELSE Cardinality(M)
  BY <1>0, FS_RemoveElement
<1>7. k \in M <=> m[k].what = w
  BY <1>0
<1>8. Cardinality(M) \in Nat
  BY <1>0, FS_CardinalityType
<1> QED
  BY <1>5, <1>6, <1>7, <1>8 DEF Requests

LEMMA OneLess ==
  ASSUME NEW l \in Seq(TPRequest), NEW i \in 1 .. Len(l), NEW w
  PROVE  Requests(l, w) =
           Requests(RemoveAt(l, i), w) + (IF l[i].what = w THEN 1 ELSE 0)
<1> DEFINE m == RemoveAt(l, i)
<1>1. /\ Len(l) \in Nat /\ m \in Seq(TPRequest) /\ Len(m) = Len(l) - 1
      /\ \A j \in 1 .. (i - 1) : m[j] = l[j]
      /\ \A j \in i .. (Len(l) - 1) : m[j] = l[j + 1]
  BY LenProperties, RemoveAtProperties
<1> HIDE DEF m
<1>2. i \in 1 .. (Len(m) + 1) /\ Len(l) = Len(m) + 1
  BY <1>1
<1>3. /\ \A j \in 1 .. (i - 1) : l[j] = m[j]
      /\ \A j \in i .. Len(m) : l[j + 1] = m[j]
  BY <1>1
<1>4. Requests(l, w) = Requests(m, w) + (IF l[i].what = w THEN 1 ELSE 0)
  BY <1>1, <1>2, <1>3, OneMore
<1> QED
  BY <1>4 DEF m

(* A sorted list stays sorted when a request goes, and when one is put in  *)
(* between those due before and those due after.                           *)
LEMMA RemoveSorted ==
  ASSUME NEW l \in Seq(TPRequest), Sorted(l), NEW i \in 1 .. Len(l)
  PROVE  Sorted(RemoveAt(l, i))
<1> DEFINE m == RemoveAt(l, i)
<1>1. /\ Len(l) \in Nat /\ Len(m) = Len(l) - 1
      /\ \A j \in 1 .. (i - 1) : m[j] = l[j]
      /\ \A j \in i .. (Len(l) - 1) : m[j] = l[j + 1]
  BY LenProperties, RemoveAtProperties
<1> HIDE DEF m
<1> SUFFICES ASSUME NEW j \in 1 .. Len(m), NEW k \in 1 .. Len(m), j <= k
             PROVE  m[j].when <= m[k].when
  BY DEF Sorted, m
<1>2. \A h \in 1 .. Len(m) : m[h] = l[IF h < i THEN h ELSE h + 1]
  <2> TAKE h \in 1 .. Len(m)
  <2>1. CASE h < i
    BY <1>1, <2>1
  <2>2. CASE ~(h < i)
    <3>1. h \in i .. (Len(l) - 1)
      BY <1>1, <2>2
    <3> QED
      BY <1>1, <2>2, <3>1
  <2> QED
    BY <2>1, <2>2
<1>3. /\ (IF j < i THEN j ELSE j + 1) \in 1 .. Len(l)
      /\ (IF k < i THEN k ELSE k + 1) \in 1 .. Len(l)
      /\ (IF j < i THEN j ELSE j + 1) <= (IF k < i THEN k ELSE k + 1)
  BY <1>1
<1> QED
  BY <1>2, <1>3 DEF Sorted

LEMMA InsertSorted ==
  ASSUME NEW l \in Seq(TPRequest), Sorted(l),
         NEW r \in TPRequest, NEW k \in 1 .. (Len(l) + 1),
         \A j \in 1 .. (k - 1) : l[j].when <= r.when,
         \A j \in k .. Len(l) : r.when <= l[j].when
  PROVE  Sorted(InsertAt(l, k, r))
<1> DEFINE m == InsertAt(l, k, r)
<1>1. /\ Len(l) \in Nat /\ Len(m) = Len(l) + 1
      /\ \A j \in 1 .. (k - 1) : m[j] = l[j]
      /\ m[k] = r
      /\ \A j \in k .. Len(l) : m[j + 1] = l[j]
  BY LenProperties, InsertAtProperties
<1> HIDE DEF m
<1>0. r.when \in Nat
  BY BoundsAssumption DEF TPRequest
<1> SUFFICES ASSUME NEW i \in 1 .. Len(m), NEW j \in 1 .. Len(m), i <= j
             PROVE  m[i].when <= m[j].when
  BY DEF Sorted, m
<1>2. \A h \in 1 .. Len(m) : h > k => h - 1 \in k .. Len(l) /\ m[h] = l[h - 1]
  <2> SUFFICES ASSUME NEW h \in 1 .. Len(m), h > k
               PROVE  h - 1 \in k .. Len(l) /\ m[h] = l[h - 1]
    OBVIOUS
  <2>1. h - 1 \in k .. Len(l) /\ (h - 1) + 1 = h
    BY <1>1
  <2>2. m[(h - 1) + 1] = l[h - 1]
    BY <1>1, <2>1
  <2> QED
    BY <2>1, <2>2
<1>3. CASE i < k /\ j < k
  BY <1>1, <1>3 DEF Sorted
<1>4. CASE i < k /\ j = k
  BY <1>1, <1>4
<1>5. CASE i < k /\ j > k
  <2>1. i \in 1 .. Len(l) /\ j - 1 \in 1 .. Len(l) /\ i <= j - 1
    BY <1>1, <1>5
  <2>2. l[i].when <= l[j - 1].when
    BY <2>1 DEF Sorted
  <2> QED
    BY <1>1, <1>2, <1>5, <2>2
<1>6. CASE i = k /\ j = k
  BY <1>0, <1>1, <1>6
<1>7. CASE i = k /\ j > k
  BY <1>1, <1>2, <1>7
<1>8. CASE i > k /\ j > k
  <2>1. i - 1 \in 1 .. Len(l) /\ j - 1 \in 1 .. Len(l) /\ i - 1 <= j - 1
    BY <1>1, <1>8
  <2>2. l[i - 1].when <= l[j - 1].when
    BY <2>1 DEF Sorted
  <2> QED
    BY <1>2, <1>8, <2>2
<1>9. \/ i < k /\ j < k
      \/ i < k /\ j = k
      \/ i < k /\ j > k
      \/ i = k /\ j = k
      \/ i = k /\ j > k
      \/ i > k /\ j > k
  BY <1>1
<1> QED
  BY <1>3, <1>4, <1>5, <1>6, <1>7, <1>8, <1>9

(* requestTimeout finds such a place.                                      *)
LEMMA PlaceProperties ==
  ASSUME list \in Seq(TPRequest), Sorted(list), NEW r \in TPRequest
  PROVE  /\ Place(r) \in 1 .. (Len(list) + 1)
         /\ \A j \in 1 .. (Place(r) - 1) : list[j].when <= r.when
         /\ \A j \in Place(r) .. Len(list) : r.when <= list[j].when
<1>0. /\ Len(list) \in Nat /\ r.when \in Nat
      /\ \A j \in 1 .. Len(list) : list[j].when \in Nat
  <2>1. \A j \in 1 .. Len(list) : list[j] \in TPRequest
    BY ElementOfSeq
  <2> QED
    BY <2>1, LenProperties, BoundsAssumption DEF TPRequest
<1>1. CASE list = <<>> \/ r.when < list[1].when
  <2>1. Place(r) = 1
    BY <1>1 DEF Place
  <2>2. \A j \in 1 .. Len(list) : list # <<>> => list[1].when <= list[j].when
    BY <1>0 DEF Sorted
  <2> QED
    BY <1>0, <1>1, <2>1, <2>2, EmptySeq
<1>2. CASE ~(list = <<>> \/ r.when < list[1].when) /\ list[Len(list)].when < r.when
  <2>1. Place(r) = Len(list) + 1
    BY <1>2 DEF Place
  <2>2. \A j \in 1 .. Len(list) : list[j].when <= list[Len(list)].when
    BY <1>0 DEF Sorted
  <2> QED
    BY <1>0, <1>2, <2>1, <2>2
<1>3. CASE ~(list = <<>> \/ r.when < list[1].when) /\ ~(list[Len(list)].when < r.when)
  <2> DEFINE First(i) == /\ ~(list[i].when < r.when)
                         /\ \A j \in 1 .. (i - 1) : list[j].when < r.when
             T == {i \in 1 .. Len(list) : ~(list[i].when < r.when)}
  <2>1. Len(list) \in T
    BY <1>0, <1>3, EmptySeq
  <2>2. T \subseteq Nat /\ T # {}
    BY <2>1
  <2>3. PICK x \in T : \A y \in T : x <= y
    BY <2>2, SmallestElement
  <2>4. x \in 1 .. Len(list) /\ First(x)
    BY <1>0, <2>3
  <2>5. Place(r) = CHOOSE i \in 1 .. Len(list) : First(i)
    BY <1>3 DEF Place
  <2>6. Place(r) \in 1 .. Len(list) /\ First(Place(r))
    <3> HIDE DEF First
    <3> QED
      BY <2>4, <2>5
  <2>7. \A j \in Place(r) .. Len(list) : list[Place(r)].when <= list[j].when
    BY <1>0, <2>6 DEF Sorted
  <2>8. \A j \in 1 .. (Place(r) - 1) : list[j].when <= r.when
    BY <1>0, <2>6
  <2>9. r.when <= list[Place(r)].when
    BY <1>0, <2>6
  <2>10. \A j \in Place(r) .. Len(list) : r.when <= list[j].when
    <3> TAKE j \in Place(r) .. Len(list)
    <3>1. j \in 1 .. Len(list)
      BY <1>0, <2>6
    <3> QED
      BY <1>0, <2>6, <2>7, <2>9, <3>1
  <2> QED
    BY <1>0, <2>6, <2>8, <2>10
<1> QED
  BY <1>1, <1>2, <1>3

----------------------------------------------------------------------------
(* What cancelRequest leaves of a list.                                    *)
ScanStep(s, n, w) ==
  IF n - 1 >= Len(s.left) THEN s
  ELSE IF s.left[s.i].what = w THEN [left |-> RemoveAt(s.left, s.i), i |-> 2]
  ELSE [s EXCEPT !.i = @ + 1]

(* The recursion of Scan defines a function: up to any n there is one that *)
(* satisfies its equation.                                                 *)
LEMMA ScanDefinition ==
  ASSUME Len(list) \in Nat, NEW w
  PROVE  Scan(w) = [n \in 0 .. Len(list) |->
                      IF n = 0 THEN [left |-> list, i |-> 1]
                      ELSE ScanStep(Scan(w)[n - 1], n, w)]
<1> DEFINE Body(g, n) == IF n = 0 THEN [left |-> list, i |-> 1]
                         ELSE ScanStep(g[n - 1], n, w)
           A == {n \in Nat : \E g : g = [k \in 0 .. n |-> Body(g, k)]}
<1>1. 0 \in A
  <2> DEFINE g == [k \in 0 .. 0 |-> [left |-> list, i |-> 1]]
  <2>1. g = [k \in 0 .. 0 |-> Body(g, k)]
    OBVIOUS
  <2> QED
    BY <2>1
<1>2. \A n \in 0 .. (Len(list) - 1) : n \in A => n + 1 \in A
  <2> SUFFICES ASSUME NEW n \in 0 .. (Len(list) - 1), n \in A
               PROVE  \E h : h = [k \in 0 .. (n + 1) |-> Body(h, k)]
    <3> HIDE DEF Body
    <3>1. \A n \in 0 .. (Len(list) - 1) : n + 1 \in Nat
      OBVIOUS
    <3> QED
      BY <3>1
  <2>0. PICK g : g = [k \in 0 .. n |-> Body(g, k)]
    OBVIOUS
  <2> DEFINE h == [k \in 0 .. (n + 1) |-> Body(g, k)]
  <2>1. \A k \in 0 .. (n + 1) : Body(h, k) = Body(g, k)
    <3> TAKE k \in 0 .. (n + 1)
    <3>1. CASE k = 0
      BY <3>1
    <3>2. CASE k # 0
      <4>1. k - 1 \in 0 .. n /\ k - 1 \in 0 .. (n + 1)
        BY <3>2
      <4>2. h[k - 1] = Body(g, k - 1) /\ g[k - 1] = Body(g, k - 1)
        <5> HIDE DEF Body
        <5> QED
          BY <4>1, <2>0
      <4>3. h[k - 1] = g[k - 1]
        BY <4>2
      <4> HIDE DEF h
      <4> QED
        BY <4>3, <3>2
    <3> QED
      BY <3>1, <3>2
  <2>2. h = [k \in 0 .. (n + 1) |-> Body(h, k)]
    <3> HIDE DEF Body
    <3> QED
      BY <2>1
  <2> QED
    BY <2>2
<1>3. Len(list) \in A
  <2> HIDE DEF A
  <2>1. 0 .. Len(list) \subseteq A
    BY <1>1, <1>2, Induction
  <2> QED
    BY <2>1
<1>4. Scan(w) = CHOOSE g : g = [k \in 0 .. Len(list) |-> Body(g, k)]
  BY DEF Scan, ScanStep
<1> HIDE DEF Body
<1>5. Scan(w) = [k \in 0 .. Len(list) |-> Body(Scan(w), k)]
  BY <1>3, <1>4
<1> QED
  BY <1>5 DEF Body

(* A list that is what is left of the provider's when requests for w, and  *)
(* no others, have been taken off it.                                      *)
Leaves(l, w) ==
  /\ l \in Seq(TPRequest) /\ Len(l) <= Len(list) /\ Sorted(l)
  /\ \A k \in 1 .. Len(l) : \E j \in 1 .. Len(list) : l[k] = list[j]
  /\ \A v \in Timeout : v # w => Requests(l, v) = Requests(list, v)
  /\ l = list \/ Requests(l, w) < Requests(list, w)

LEMMA LeavesFewer ==
  ASSUME list \in Seq(TPRequest), NEW w, NEW l, Leaves(l, w),
         NEW i \in 1 .. Len(l), l[i].what = w
  PROVE  Leaves(RemoveAt(l, i), w)
<1> DEFINE m == RemoveAt(l, i)
<1>0. l \in Seq(TPRequest) /\ Len(l) \in Nat /\ Len(list) \in Nat
  BY LenProperties DEF Leaves
<1>1. /\ m \in Seq(TPRequest) /\ Len(m) = Len(l) - 1
      /\ \A j \in 1 .. (i - 1) : m[j] = l[j]
      /\ \A j \in i .. (Len(l) - 1) : m[j] = l[j + 1]
  BY <1>0, RemoveAtProperties
<1>2. Sorted(m)
  BY <1>0, RemoveSorted DEF Leaves
<1>3. \A v : Requests(l, v) = Requests(m, v) + (IF l[i].what = v THEN 1 ELSE 0)
  BY <1>0, OneLess
<1>4. \A v : Requests(m, v) \in Nat /\ Requests(l, v) \in Nat /\ Requests(list, v) \in Nat
  BY <1>0, <1>1, RequestsType
<1> HIDE DEF m
<1>5. \A k \in 1 .. Len(m) : \E j \in 1 .. Len(list) : m[k] = list[j]
  <2> TAKE k \in 1 .. Len(m)
  <2>1. \E h \in 1 .. Len(l) : m[k] = l[h]
    <3>1. CASE k < i
      BY <1>0, <1>1, <3>1
    <3>2. CASE ~(k < i)
      <4>1. k \in i .. (Len(l) - 1) /\ k + 1 \in 1 .. Len(l)
        BY <1>0, <1>1, <3>2
      <4> QED
        BY <1>1, <4>1
    <3> QED
      BY <3>1, <3>2
  <2> QED
    BY <2>1 DEF Leaves
<1>6. \A v \in Timeout : v # w => Requests(m, v) = Requests(list, v)
  <2> TAKE v \in Timeout
  <2> HAVE v # w
  <2>1. Requests(l, v) = Requests(list, v)
    BY DEF Leaves
  <2> QED
    BY <1>3, <1>4, <2>1
<1>7. Requests(l, w) = Requests(m, w) + 1 /\ Requests(l, w) <= Requests(list, w)
  BY <1>3, <1>4 DEF Leaves
<1>8. Requests(m, w) < Requests(list, w)
  BY <1>4, <1>7
<1>9. Len(m) <= Len(list)
  BY <1>0, <1>1 DEF Leaves
<1> QED
  BY <1>1, <1>2, <1>5, <1>6, <1>8, <1>9 DEF Leaves, m

LEMMA CancelledLeaves ==
  ASSUME list \in Seq(TPRequest), Sorted(list), NEW w
  PROVE  Leaves(Cancelled(w), w)
<1> DEFINE S == Scan(w)
           A == {n \in Nat : /\ S[n] \in [left : Seq(TPRequest), i : Nat]
                             /\ Leaves(S[n].left, w)
                             /\ S[n].i \in 1 .. (n + 1)}
<1>0. Len(list) \in Nat
  BY LenProperties
<1>1. /\ S[0] = [left |-> list, i |-> 1]
      /\ \A n \in 0 .. (Len(list) - 1) : S[n + 1] = ScanStep(S[n], n + 1, w)
  <2> DEFINE Body(n) == IF n = 0 THEN [left |-> list, i |-> 1]
                        ELSE ScanStep(S[n - 1], n, w)
  <2>1. S = [n \in 0 .. Len(list) |-> Body(n)]
    BY <1>0, ScanDefinition
  <2> HIDE DEF S
  <2>2. S[0] = Body(0) /\ \A n \in 0 .. (Len(list) - 1) : S[n + 1] = Body(n + 1)
    <3> HIDE DEF Body
    <3>1. 0 \in 0 .. Len(list) /\ \A n \in 0 .. (Len(list) - 1) : n + 1 \in 0 .. Len(list)
      BY <1>0
    <3> QED
      BY <2>1, <3>1
  <2>3. \A n \in 0 .. (Len(list) - 1) : n + 1 # 0 /\ (n + 1) - 1 = n
    OBVIOUS
  <2> QED
    BY <2>2, <2>3
<1> HIDE DEF S
<1>2. Leaves(list, w)
  BY <1>0 DEF Leaves
<1>3. 0 \in A
  BY <1>1, <1>2
<1>4. \A n \in 0 .. (Len(list) - 1) : n \in A => n + 1 \in A
  <2> SUFFICES ASSUME NEW n \in 0 .. (Len(list) - 1), n \in A
               PROVE  n + 1 \in A
    OBVIOUS
  <2> DEFINE s == S[n]
  <2>1. s \in [left : Seq(TPRequest), i : Nat] /\ Leaves(s.left, w) /\ s.i \in 1 .. (n + 1)
    OBVIOUS
  <2>2. S[n + 1] = ScanStep(s, n + 1, w) /\ (n + 1) - 1 = n /\ n + 1 \in Nat
    BY <1>1
  <2>3. Len(s.left) \in Nat
    BY <2>1, LenProperties
  <2> HIDE DEF s
  <2>4. CASE n >= Len(s.left)
    <3>1. S[n + 1] = s
      BY <2>2, <2>4 DEF ScanStep
    <3>2. s.i \in 1 .. ((n + 1) + 1)
      BY <2>1
    <3> QED
      BY <2>1, <2>2, <3>1, <3>2
  <2>5. CASE ~(n >= Len(s.left)) /\ s.left[s.i].what = w
    <3>1. S[n + 1] = [left |-> RemoveAt(s.left, s.i), i |-> 2]
      BY <2>2, <2>5 DEF ScanStep
    <3>2. s.i \in 1 .. Len(s.left)
      BY <2>1, <2>3, <2>5
    <3>3. Leaves(RemoveAt(s.left, s.i), w)
      BY <2>1, <2>5, <3>2, LeavesFewer
    <3>4. RemoveAt(s.left, s.i) \in Seq(TPRequest) /\ 2 \in 1 .. ((n + 1) + 1)
      BY <3>3 DEF Leaves
    <3> QED
      BY <2>2, <3>1, <3>3, <3>4
  <2>6. CASE ~(n >= Len(s.left)) /\ s.left[s.i].what # w
    <3>1. S[n + 1] = [s EXCEPT !.i = @ + 1]
      BY <2>2, <2>6 DEF ScanStep
    <3>2. S[n + 1].left = s.left /\ S[n + 1].i = s.i + 1
          /\ S[n + 1] \in [left : Seq(TPRequest), i : Nat]
      BY <2>1, <3>1
    <3>3. s.i + 1 \in 1 .. ((n + 1) + 1)
      BY <2>1
    <3> QED
      BY <2>1, <2>2, <3>2, <3>3
  <2> QED
    BY <2>4, <2>5, <2>6
<1>5. Len(list) \in A
  <2> HIDE DEF A
  <2>1. 0 .. Len(list) \subseteq A
    BY <1>0, <1>3, <1>4, Induction
  <2> QED
    BY <1>0, <2>1
<1> QED
  BY <1>5 DEF Cancelled, S

----------------------------------------------------------------------------
(* What requests.remove leaves of the list when its first request is due.  *)
KeptStep(l, n) ==
  IF n < 2 THEN <<>>
  ELSE IF n = 2 \/ list[n] # list[1] THEN Append(l, list[n])
  ELSE l

LEMMA KeptDefinition ==
  ASSUME Len(list) \in Nat
  PROVE  Kept = [n \in 0 .. Len(list) |->
                   IF n = 0 THEN <<>> ELSE KeptStep(Kept[n - 1], n)]
<1> DEFINE Body(g, n) == IF n = 0 THEN <<>> ELSE KeptStep(g[n - 1], n)
           Code(g, n) == IF n < 2 THEN <<>>
                         ELSE IF n = 2 \/ list[n] # list[1] THEN Append(g[n - 1], list[n])
                         ELSE g[n - 1]
           A == {n \in Nat : \E g : g = [k \in 0 .. n |-> Body(g, k)]}
<1>1. 0 \in A
  <2> DEFINE g == [k \in 0 .. 0 |-> <<>>]
  <2>1. g = [k \in 0 .. 0 |-> Body(g, k)]
    OBVIOUS
  <2> QED
    BY <2>1
<1>2. \A n \in 0 .. (Len(list) - 1) : n \in A => n + 1 \in A
  <2> SUFFICES ASSUME NEW n \in 0 .. (Len(list) - 1), n \in A
               PROVE  \E h : h = [k \in 0 .. (n + 1) |-> Body(h, k)]
    <3> HIDE DEF Body
    <3>1. \A n \in 0 .. (Len(list) - 1) : n + 1 \in Nat
      OBVIOUS
    <3> QED
      BY <3>1
  <2>0. PICK g : g = [k \in 0 .. n |-> Body(g, k)]
    OBVIOUS
  <2> DEFINE h == [k \in 0 .. (n + 1) |-> Body(g, k)]
  <2>1. \A k \in 0 .. (n + 1) : Body(h, k) = Body(g, k)
    <3> TAKE k \in 0 .. (n + 1)
    <3>1. CASE k = 0
      BY <3>1
    <3>2. CASE k # 0
      <4>1. k - 1 \in 0 .. n /\ k - 1 \in 0 .. (n + 1)
        BY <3>2
      <4>2. h[k - 1] = Body(g, k - 1) /\ g[k - 1] = Body(g, k - 1)
        <5> HIDE DEF Body
        <5> QED
          BY <4>1, <2>0
      <4>3. h[k - 1] = g[k - 1]
        BY <4>2
      <4> HIDE DEF h
      <4> QED
        BY <4>3, <3>2
    <3> QED
      BY <3>1, <3>2
  <2>2. h = [k \in 0 .. (n + 1) |-> Body(h, k)]
    <3> HIDE DEF Body
    <3> QED
      BY <2>1
  <2> QED
    BY <2>2
<1>3. Len(list) \in A
  <2> HIDE DEF A
  <2>1. 0 .. Len(list) \subseteq A
    BY <1>1, <1>2, Induction
  <2> QED
    BY <2>1
<1>4. Kept = CHOOSE g : g = [k \in 0 .. Len(list) |-> Code(g, k)]
  BY DEF Kept
<1>5. \A g : \A k \in 0 .. Len(list) : Code(g, k) = Body(g, k)
  BY DEF KeptStep
<1>6. \E g : g = [k \in 0 .. Len(list) |-> Code(g, k)]
  <2>1. PICK g : g = [k \in 0 .. Len(list) |-> Body(g, k)]
    BY <1>3
  <2> HIDE DEF Body, Code
  <2>2. g = [k \in 0 .. Len(list) |-> Code(g, k)]
    BY <1>5, <2>1
  <2> QED
    BY <2>2
<1> HIDE DEF Body, Code
<1>7. Kept = [k \in 0 .. Len(list) |-> Code(Kept, k)]
  BY <1>4, <1>6
<1>8. Kept = [k \in 0 .. Len(list) |-> Body(Kept, k)]
  BY <1>5, <1>7
<1> QED
  BY <1>8 DEF Body

(* Appending to a list that is sorted what is due later.                   *)
LEMMA AppendLater ==
  ASSUME NEW l \in Seq(TPRequest), Sorted(l), NEW r \in TPRequest,
         \A i \in 1 .. Len(l) : l[i].when <= r.when
  PROVE  /\ Append(l, r) \in Seq(TPRequest)
         /\ Len(Append(l, r)) = Len(l) + 1
         /\ \A i \in 1 .. Len(l) : Append(l, r)[i] = l[i]
         /\ Append(l, r)[Len(l) + 1] = r
         /\ Sorted(Append(l, r))
         /\ \A w : Requests(Append(l, r), w) =
                    Requests(l, w) + (IF r.what = w THEN 1 ELSE 0)
<1> DEFINE m == Append(l, r)
<1>1. /\ m \in Seq(TPRequest) /\ Len(m) = Len(l) + 1 /\ Len(l) \in Nat
      /\ \A i \in 1 .. Len(l) : m[i] = l[i]
      /\ m[Len(l) + 1] = r
  BY AppendProperties, LenProperties
<1> HIDE DEF m
<1>2. Sorted(m)
  <2> SUFFICES ASSUME NEW i \in 1 .. Len(m), NEW j \in 1 .. Len(m), i <= j
               PROVE  m[i].when <= m[j].when
    BY DEF Sorted
  <2>0. r.when \in Nat
    BY BoundsAssumption DEF TPRequest
  <2>1. CASE j <= Len(l)
    BY <1>1, <2>1 DEF Sorted
  <2>2. CASE j = Len(l) + 1 /\ i <= Len(l)
    BY <1>1, <2>2
  <2>3. CASE j = Len(l) + 1 /\ i = Len(l) + 1
    BY <1>1, <2>0, <2>3
  <2> QED
    BY <1>1, <2>1, <2>2, <2>3
<1>3. ASSUME NEW w
      PROVE  Requests(m, w) = Requests(l, w) + (IF r.what = w THEN 1 ELSE 0)
  <2> DEFINE k == Len(l) + 1
  <2>1. k \in 1 .. (Len(l) + 1) /\ m[k] = r
    BY <1>1
  <2>2. \A j \in 1 .. (k - 1) : m[j] = l[j]
    BY <1>1
  <2>3. \A j \in k .. Len(l) : m[j + 1] = l[j]
    BY <1>1
  <2> HIDE DEF k
  <2>4. Len(m) = Len(l) + 1
    BY <1>1
  <2>5. Requests(m, w) = Requests(l, w) + (IF m[k].what = w THEN 1 ELSE 0)
    BY <1>1, <2>1, <2>2, <2>3, <2>4, OneMore
  <2> QED
    BY <2>1, <2>5
<1> QED
  BY <1>1, <1>2, <1>3 DEF m

(* The first requests of the list, one more at a time.                     *)
LEMMA PrefixStep ==
  ASSUME list \in Seq(TPRequest), NEW n \in 0 .. (Len(list) - 1), NEW w
  PROVE  /\ SubSeq(list, 1, n) \in Seq(TPRequest)
         /\ Requests(SubSeq(list, 1, n + 1), w) =
              Requests(SubSeq(list, 1, n), w) + (IF list[n + 1].what = w THEN 1 ELSE 0)
<1> DEFINE l == SubSeq(list, 1, n)
           m == SubSeq(list, 1, n + 1)
           k == n + 1
<1>0. Len(list) \in Nat /\ \A j \in 1 .. Len(list) : list[j] \in TPRequest
  BY LenProperties, ElementOfSeq
<1>1. l \in Seq(TPRequest) /\ Len(l) = n /\ \A j \in 1 .. n : l[j] = list[j]
  BY <1>0, SubSeqProperties
<1>2. m \in Seq(TPRequest) /\ Len(m) = n + 1 /\ \A j \in 1 .. (n + 1) : m[j] = list[j]
  BY <1>0, SubSeqProperties
<1> HIDE DEF l, m
<1>3. k \in 1 .. (Len(l) + 1) /\ m[k] = list[k]
  BY <1>1, <1>2
<1>4. \A j \in 1 .. (k - 1) : m[j] = l[j]
  BY <1>1, <1>2
<1>5. \A j \in k .. Len(l) : m[j + 1] = l[j]
  BY <1>1, <1>2
<1>6. Len(m) = Len(l) + 1
  BY <1>1, <1>2
<1> HIDE DEF k
<1>7. Requests(m, w) = Requests(l, w) + (IF m[k].what = w THEN 1 ELSE 0)
  BY <1>1, <1>2, <1>3, <1>4, <1>5, <1>6, OneMore
<1> QED
  BY <1>1, <1>3, <1>7 DEF l, m, k

LEMMA EmptyIsSorted == <<>> \in Seq(TPRequest) /\ Sorted(<<>>)
  BY DEF Sorted

LEMMA NoRequests ==
  ASSUME NEW w
  PROVE  Requests(<<>>, w) = 0
<1>1. {i \in 1 .. Len(<<>>) : <<>>[i].what = w} = {}
  OBVIOUS
<1> QED
  BY <1>1, FS_EmptySet DEF Requests

(* What is kept of the first n: less requests for the timeout that is due, *)
(* and all for the others.                                                 *)
FewerOf(l, m) ==
  \A v : /\ v # list[1].what => Requests(l, v) = Requests(m, v)
         /\ v = list[1].what => Requests(l, v) < Requests(m, v)

KeptOf(l, n) ==
  /\ l \in Seq(TPRequest) /\ Sorted(l) /\ Len(l) <= n
  /\ \A k \in 1 .. Len(l) : \E j \in 1 .. n : l[k] = list[j]
  /\ n # 0 => FewerOf(l, SubSeq(list, 1, n))

LEMMA KeptGrows ==
  ASSUME list \in Seq(TPRequest), Sorted(list), NEW n \in 0 .. (Len(list) - 1),
         NEW l, KeptOf(l, n), n < 2 => l = <<>>
  PROVE  KeptOf(KeptStep(l, n + 1), n + 1)
<1> DEFINE r == list[n + 1]
           P(i) == SubSeq(list, 1, i)
<1>0. /\ Len(list) \in Nat /\ r \in TPRequest /\ r.when \in Nat
      /\ l \in Seq(TPRequest) /\ Sorted(l) /\ Len(l) \in Nat /\ Len(l) <= n
      /\ \A k \in 1 .. Len(l) : \E j \in 1 .. n : l[k] = list[j]
  <2>1. Len(list) \in Nat /\ n + 1 \in 1 .. Len(list)
    BY LenProperties
  <2>2. r \in TPRequest
    BY <2>1, ElementOfSeq
  <2>3. r.when \in Nat
    BY <2>2, BoundsAssumption DEF TPRequest
  <2>4. l \in Seq(TPRequest) /\ Len(l) \in Nat
    BY LenProperties DEF KeptOf
  <2> QED
    BY <2>1, <2>2, <2>3, <2>4 DEF KeptOf
<1>1. ASSUME NEW v
      PROVE  /\ Requests(P(n + 1), v) = Requests(P(n), v) + (IF r.what = v THEN 1 ELSE 0)
             /\ Requests(P(n), v) \in Nat
             /\ Requests(l, v) \in Nat
  BY <1>0, PrefixStep, RequestsType
<1>6. n # 0 => FewerOf(l, P(n))
  BY DEF KeptOf
<1>2. \A k \in 1 .. Len(l) : l[k].when <= r.when
  <2> TAKE k \in 1 .. Len(l)
  <2>1. PICK j \in 1 .. n : l[k] = list[j]
    BY <1>0
  <2>2. j \in 1 .. Len(list) /\ n + 1 \in 1 .. Len(list) /\ j <= n + 1
    BY <1>0
  <2> QED
    BY <2>1, <2>2 DEF Sorted
<1>3. CASE n = 0
  <2>1. KeptStep(l, n + 1) = <<>> /\ r = list[1]
    BY <1>3 DEF KeptStep
  <2>2. P(n) = <<>>
    BY <1>3, SubSeqEmpty
  <2>3. ASSUME NEW v
        PROVE  /\ v # list[1].what => Requests(<<>>, v) = Requests(P(n + 1), v)
               /\ v = list[1].what => Requests(<<>>, v) < Requests(P(n + 1), v)
    <3>1. Requests(<<>>, v) = 0
      BY NoRequests
    <3> HIDE DEF P
    <3> QED
      BY <1>1, <2>1, <2>2, <3>1
  <2>4. FewerOf(<<>>, P(n + 1))
    BY <2>3 DEF FewerOf
  <2>5. Len(<<>>) <= n + 1 /\ \A k \in 1 .. Len(<<>>) : \E j \in 1 .. (n + 1) : <<>>[k] = list[j]
    OBVIOUS
  <2>6. KeptOf(<<>>, n + 1)
    BY <2>4, <2>5, EmptyIsSorted DEF KeptOf
  <2> QED
    BY <2>1, <2>6
<1>4. CASE n # 0 /\ (n = 1 \/ r # list[1])
  <2> DEFINE m == Append(l, r)
  <2>1. KeptStep(l, n + 1) = m
    BY <1>4 DEF KeptStep
  <2>2. /\ m \in Seq(TPRequest) /\ Len(m) = Len(l) + 1 /\ Sorted(m)
        /\ \A i \in 1 .. Len(l) : m[i] = l[i]
        /\ m[Len(l) + 1] = r
        /\ \A w : Requests(m, w) = Requests(l, w) + (IF r.what = w THEN 1 ELSE 0)
    BY <1>0, <1>2, AppendLater
  <2> HIDE DEF m
  <2>3. \A k \in 1 .. Len(m) : \E j \in 1 .. (n + 1) : m[k] = list[j]
    <3> TAKE k \in 1 .. Len(m)
    <3>1. CASE k = Len(l) + 1
      BY <2>2, <3>1
    <3>2. CASE k # Len(l) + 1
      <4>1. k \in 1 .. Len(l)
        BY <1>0, <2>2, <3>2
      <4>2. PICK j \in 1 .. n : l[k] = list[j]
        BY <1>0, <4>1
      <4> QED
        BY <2>2, <4>1, <4>2
    <3> QED
      BY <3>1, <3>2
  <2>4. ASSUME NEW v
        PROVE  /\ v # list[1].what => Requests(m, v) = Requests(P(n + 1), v)
               /\ v = list[1].what => Requests(m, v) < Requests(P(n + 1), v)
    <3>1. /\ v # list[1].what => Requests(l, v) = Requests(P(n), v)
          /\ v = list[1].what => Requests(l, v) < Requests(P(n), v)
      BY <1>4, <1>6 DEF FewerOf
    <3>2. Requests(m, v) = Requests(l, v) + (IF r.what = v THEN 1 ELSE 0)
      BY <2>2
    <3> HIDE DEF P
    <3> QED
      BY <1>1, <3>1, <3>2
  <2>5. Len(m) <= n + 1
    BY <1>0, <2>2
  <2> QED
    BY <2>1, <2>2, <2>3, <2>4, <2>5 DEF KeptOf, FewerOf
<1>5. CASE n # 0 /\ ~(n = 1 \/ r # list[1])
  <2>1. KeptStep(l, n + 1) = l /\ r.what = list[1].what
    BY <1>5 DEF KeptStep
  <2>2. ASSUME NEW v
        PROVE  /\ v # list[1].what => Requests(l, v) = Requests(P(n + 1), v)
               /\ v = list[1].what => Requests(l, v) < Requests(P(n + 1), v)
    <3>1. /\ v # list[1].what => Requests(l, v) = Requests(P(n), v)
          /\ v = list[1].what => Requests(l, v) < Requests(P(n), v)
      BY <1>5, <1>6 DEF FewerOf
    <3> HIDE DEF P
    <3> QED
      BY <1>1, <2>1, <3>1
  <2>3. \A k \in 1 .. Len(l) : \E j \in 1 .. (n + 1) : l[k] = list[j]
    BY <1>0
  <2>4. Len(l) <= n + 1
    BY <1>0
  <2> QED
    BY <1>0, <2>1, <2>2, <2>3, <2>4 DEF KeptOf, FewerOf
<1> QED
  BY <1>3, <1>4, <1>5

LEMMA WithoutFirstLeaves ==
  ASSUME list \in Seq(TPRequest), Sorted(list), list # <<>>
  PROVE  /\ Leaves(WithoutFirst, list[1].what)
         /\ Requests(WithoutFirst, list[1].what) < Requests(list, list[1].what)
<1> DEFINE A == {n \in Nat : KeptOf(Kept[n], n) /\ (n < 2 => Kept[n] = <<>>)}
<1>0. Len(list) \in Nat \ {0}
  BY EmptySeq
<1>1. /\ Kept[0] = <<>>
      /\ \A n \in 0 .. (Len(list) - 1) : Kept[n + 1] = KeptStep(Kept[n], n + 1)
  <2> DEFINE Body(n) == IF n = 0 THEN <<>> ELSE KeptStep(Kept[n - 1], n)
  <2>1. Kept = [n \in 0 .. Len(list) |-> Body(n)]
    BY <1>0, KeptDefinition
  <2>2. Kept[0] = Body(0) /\ \A n \in 0 .. (Len(list) - 1) : Kept[n + 1] = Body(n + 1)
    <3> HIDE DEF Body
    <3>1. 0 \in 0 .. Len(list) /\ \A n \in 0 .. (Len(list) - 1) : n + 1 \in 0 .. Len(list)
      BY <1>0
    <3> QED
      BY <2>1, <3>1
  <2>3. \A n \in 0 .. (Len(list) - 1) : n + 1 # 0 /\ (n + 1) - 1 = n
    OBVIOUS
  <2> QED
    BY <2>2, <2>3
<1>2. 0 \in A
  <2>1. Len(<<>>) <= 0 /\ \A k \in 1 .. Len(<<>>) : \E j \in 1 .. 0 : <<>>[k] = list[j]
    OBVIOUS
  <2>2. KeptOf(<<>>, 0)
    BY <2>1, EmptyIsSorted DEF KeptOf
  <2> QED
    BY <1>1, <2>2
<1>3. \A n \in 0 .. (Len(list) - 1) : n \in A => n + 1 \in A
  <2> SUFFICES ASSUME NEW n \in 0 .. (Len(list) - 1), n \in A
               PROVE  n + 1 \in A
    OBVIOUS
  <2>1. KeptOf(Kept[n + 1], n + 1)
    BY <1>1, KeptGrows
  <2>2. n + 1 < 2 => Kept[n + 1] = <<>>
    BY <1>1 DEF KeptStep
  <2> QED
    BY <2>1, <2>2
<1>4. Len(list) \in A
  <2> HIDE DEF A
  <2>1. 0 .. Len(list) \subseteq A
    BY <1>0, <1>2, <1>3, Induction
  <2> QED
    BY <1>0, <2>1
<1>5. KeptOf(WithoutFirst, Len(list)) /\ SubSeq(list, 1, Len(list)) = list
  BY <1>4, SubSeqFull DEF WithoutFirst
<1>6. FewerOf(WithoutFirst, list)
  BY <1>0, <1>5 DEF KeptOf
<1>7. /\ WithoutFirst \in Seq(TPRequest) /\ Sorted(WithoutFirst)
      /\ Len(WithoutFirst) <= Len(list)
      /\ \A k \in 1 .. Len(WithoutFirst) : \E j \in 1 .. Len(list) : WithoutFirst[k] = list[j]
  BY <1>5 DEF KeptOf
<1> QED
  BY <1>6, <1>7 DEF Leaves, FewerOf

----------------------------------------------------------------------------
(* The invariant.                                                          *)
LEMMA InitIInv == Init => IInv
<1> SUFFICES ASSUME Init
             PROVE  IInv
  OBVIOUS
<1>1. Sorted(list)
  BY DEF Init, Sorted
<1>2. TypeOK
  <2>1. now \in 0 .. MaxTime /\ made \in 0 .. MaxRequests /\ until \in Nat
    BY BoundsAssumption DEF Init
  <2>2. list \in Seq(TPRequest)
    BY EmptyIsSorted DEF Init
  <2>3. coming \in [Clients -> SUBSET TPRequest]
    BY DEF Init
  <2>4. /\ pc \in Places /\ handed \subseteq TPRequest
        /\ stop \in BOOLEAN /\ stopper \in {"idle", "set", "joining", "done"}
    BY DEF Init, Places
  <2> QED
    BY <2>1, <2>2, <2>3, <2>4 DEF TypeOK
<1>3. SleepOK /\ HandedOK
  BY DEF Init, SleepOK, HandedOK
<1> QED
  BY <1>1, <1>2, <1>3 DEF IInv

LEMMA NextIInv == IInv /\ [Next]_vars => IInv'
<1> SUFFICES ASSUME IInv, [Next]_vars
             PROVE  IInv'
  OBVIOUS
<1> USE DEF IInv
<1>0. /\ now \in Nat /\ list \in Seq(TPRequest) /\ Len(list) \in Nat
      /\ MaxTime \in Nat /\ MaxRequests \in Nat /\ Hour \in Nat /\ Delays \subseteq Nat
  BY LenProperties, DelaysAssumption, BoundsAssumption DEF TypeOK
<1>00. \A i \in 1 .. Len(list) : list[i] \in TPRequest /\ list[i].when \in 0 .. MaxTime
  <2>1. \A i \in 1 .. Len(list) : list[i] \in TPRequest
    BY <1>0, ElementOfSeq
  <2> QED
    BY <2>1 DEF TPRequest
<1>1. ASSUME NEW c \in Clients, NEW w \in Timeout, NEW d \in Delays, MakeRequest(c, w, d)
      PROVE  IInv'
  <2>1. [what |-> w, when |-> now + d] \in TPRequest
    BY <1>0, <1>1 DEF MakeRequest, TPRequest
  <2>2. coming' \in [Clients -> SUBSET TPRequest]
    BY <1>1, <2>1 DEF MakeRequest, TypeOK
  <2>3. made' \in 0 .. MaxRequests
    BY <1>0, <1>1 DEF MakeRequest, TypeOK
  <2> QED
    BY <1>1, <2>2, <2>3 DEF MakeRequest, TypeOK, Sorted, SleepOK, HandedOK
<1>2. ASSUME NEW c \in Clients, InsertRequest(c)
      PROVE  IInv'
  <2>1. PICK r \in TPRequest : r \in coming[c] /\ list' = InsertAt(list, Place(r), r)
    BY <1>2 DEF InsertRequest, TypeOK
  <2>2. /\ Place(r) \in 1 .. (Len(list) + 1)
        /\ \A j \in 1 .. (Place(r) - 1) : list[j].when <= r.when
        /\ \A j \in Place(r) .. Len(list) : r.when <= list[j].when
    BY <1>0, PlaceProperties
  <2>3. list' \in Seq(TPRequest)
    BY <1>0, <2>1, <2>2, InsertAtProperties
  <2>4. Sorted(InsertAt(list, Place(r), r))
    BY <1>0, <2>2, InsertSorted
  <2>5. coming' \in [Clients -> SUBSET TPRequest]
    BY <1>2 DEF InsertRequest, TypeOK
  <2>6. pc' \in Places \ {"checked", "asleep"} /\ (pc' = "delivering" <=> pc = "delivering")
    BY <1>2 DEF InsertRequest, Woken, LockFree, TypeOK, Places
  <2> QED
    BY <1>2, <2>1, <2>3, <2>4, <2>5, <2>6 DEF InsertRequest, TypeOK, Sorted, SleepOK, HandedOK
<1>3. ASSUME NEW w \in Timeout, cancelRequest(w)
      PROVE  IInv'
  <2>1. Leaves(list', w)
    BY <1>0, <1>3, CancelledLeaves DEF cancelRequest
  <2>2. list' \in Seq(TPRequest) /\ Sorted(list')
    BY <2>1 DEF Leaves
  <2>3. SleepOK'
    BY <1>3, <2>1 DEF Leaves, cancelRequest, SleepOK
  <2> QED
    BY <1>3, <2>2, <2>3 DEF cancelRequest, TypeOK, Sorted, HandedOK
<1>4. CASE StopSet
  BY <1>4 DEF StopSet, TypeOK, Sorted, SleepOK, HandedOK
<1>5. CASE StopWake
  BY <1>5 DEF StopWake, Woken, TypeOK, Places, Sorted, SleepOK, HandedOK
<1>6. CASE StopJoin
  <2>1. Sorted(<<>>)
    BY EmptyIsSorted
  <2> QED
    BY <1>6, <2>1 DEF StopJoin, TypeOK, Sorted, SleepOK, HandedOK
<1>7. CASE Lock
  BY <1>7 DEF Lock, TypeOK, Places, Sorted, SleepOK, HandedOK
<1>8. CASE TakeDue
  <2>1. CASE stop
    BY <1>8, <2>1 DEF TakeDue, TypeOK, Places, Sorted, SleepOK, HandedOK
  <2>2. CASE ~stop
    <3>1. list # <<>> /\ list' = WithoutFirst /\ handed' = {list[1]} /\ pc' = "delivering"
      BY <1>8, <2>2 DEF TakeDue, Due
    <3>2. Leaves(list', list[1].what)
      BY <1>0, <3>1, WithoutFirstLeaves
    <3>3. list' \in Seq(TPRequest) /\ Sorted(list')
      BY <3>2 DEF Leaves
    <3>4. list[1] \in TPRequest
      BY <1>0, <1>00, <3>1, EmptySeq
    <3> QED
      BY <1>8, <3>1, <3>3, <3>4 DEF TakeDue, TypeOK, Places, Sorted, SleepOK, HandedOK
  <2> QED
    BY <2>1, <2>2
<1>9. CASE Deliver
  BY <1>9 DEF Deliver, TypeOK, Places, Sorted, SleepOK, HandedOK
<1>10. CASE CheckStop
  <2>1. CASE stop
    BY <1>10, <2>1 DEF CheckStop, TypeOK, Places, Sorted, SleepOK, HandedOK
  <2>2. CASE ~stop /\ list = <<>>
    <3>1. until' \in Nat
      BY <1>0, <1>10, <2>2 DEF CheckStop
    <3> QED
      BY <1>10, <2>2, <3>1 DEF CheckStop, TypeOK, Places, Sorted, SleepOK, HandedOK
  <2>3. CASE ~stop /\ list # <<>>
    <3>1. 1 \in 1 .. Len(list)
      BY <1>0, <2>3, EmptySeq
    <3>2. until' = list[1].when /\ until' \in Nat
      BY <1>0, <1>00, <1>10, <2>3, <3>1 DEF CheckStop
    <3>3. \A i \in 1 .. Len(list) : list[1].when <= list[i].when
      BY <3>1 DEF Sorted
    <3> QED
      BY <1>10, <2>3, <3>2, <3>3 DEF CheckStop, TypeOK, Places, Sorted, SleepOK, HandedOK
  <2> QED
    BY <2>1, <2>2, <2>3
<1>11. CASE Wait
  BY <1>11 DEF Wait, TypeOK, Places, Sorted, SleepOK, HandedOK
<1>12. CASE Relock
  BY <1>12 DEF Relock, TypeOK, Places, Sorted, SleepOK, HandedOK
<1>13. CASE WakeUp
  BY <1>13 DEF WakeUp, TypeOK, Places, Sorted, SleepOK, HandedOK
<1>14. CASE Tick
  <2>1. now' \in 0 .. MaxTime
    BY <1>0, <1>14 DEF Tick, TypeOK
  <2> QED
    BY <1>14, <2>1 DEF Tick, TypeOK, Sorted, SleepOK, HandedOK
<1>15. CASE UNCHANGED vars
  BY <1>15 DEF vars, TypeOK, Sorted, SleepOK, HandedOK
<1> QED
  BY <1>1, <1>2, <1>3, <1>4, <1>5, <1>6, <1>7, <1>8, <1>9, <1>10, <1>11, <1>12,
     <1>13, <1>14, <1>15 DEF Next, Client, Stopper, Running

(* In every state the list is sorted and no thread sleeps beyond it.       *)
THEOREM Invariance == Spec => []IInv
  BY InitIInv, NextIInv, PTL DEF Spec

(* The thread never sleeps beyond the time its first request is due, for   *)
(* any number of requests, and whatever cancelRequest does to the list.    *)
THEOREM NeverOversleeping == Spec => []NeverOversleeps
<1>1. IInv => NeverOversleeps
  <2> SUFFICES ASSUME IInv, pc = "asleep", list # <<>>
               PROVE  until <= list[1].when
    BY DEF NeverOversleeps
  <2>1. 1 \in 1 .. Len(list)
    BY EmptySeq DEF IInv, TypeOK
  <2> QED
    BY <2>1 DEF IInv, SleepOK
<1> QED
  BY <1>1, Invariance, PTL

(* A timeout is not delivered before it is due, nor before another that    *)
(* was due earlier: what the thread takes is the head of a sorted list.    *)
THEOREM InOrder == Spec => EarliestFirst
<1> DEFINE InTurn == \A r \in handed' \ handed :
                       /\ r.when <= now
                       /\ \A i \in 1 .. Len(list) : r.when <= list[i].when
<1>1. ASSUME IInv, [Next]_vars
      PROVE  [InTurn]_vars
  <2>1. CASE TakeDue /\ ~stop
    <3>1. list # <<>> /\ list[1].when <= now /\ handed' = {list[1]}
      BY <2>1 DEF TakeDue, Due
    <3>2. 1 \in 1 .. Len(list)
      BY <1>1, <3>1, EmptySeq DEF IInv, TypeOK
    <3>3. \A i \in 1 .. Len(list) : list[1].when <= list[i].when
      BY <1>1, <3>2 DEF IInv, Sorted
    <3> QED
      BY <3>1, <3>3
  <2>2. ASSUME ~(TakeDue /\ ~stop)
        PROVE  handed' \subseteq handed
    BY <1>1, <2>2 DEF Next, Client, Stopper, Running, vars, MakeRequest, InsertRequest,
       cancelRequest, StopSet, StopWake, StopJoin, Lock, TakeDue, Deliver, CheckStop,
       Wait, Relock, WakeUp, Tick
  <2> QED
    BY <2>1, <2>2
<1> QED
  BY <1>1, Invariance, PTL DEF Spec, EarliestFirst

----------------------------------------------------------------------------
(* The refinement.                                                         *)
Counts(l) == [w \in Timeout |-> Requests(l, w)]

LEMMA LeavesIsFewer ==
  ASSUME list \in Seq(TPRequest), NEW w \in Timeout, Leaves(list', w),
         Requests(list', w) < Requests(list, w)
  PROVE  Service!Fewer(w)
<1>1. Requests(list, w) \in Nat /\ Requests(list', w) \in Nat
  BY RequestsType DEF Leaves
<1>2. Requests(list', w) \in 0 .. (Requests(list, w) - 1) /\ Requests(list, w) > 0
  BY <1>1
<1>3. Counts(list') = [Counts(list) EXCEPT ![w] = Requests(list', w)]
  BY DEF Leaves, Counts
<1>4. Counts(list)[w] = Requests(list, w)
  BY DEF Counts
<1> QED
  BY <1>2, <1>3, <1>4 DEF Service!Fewer, Pending, Counts

LEMMA InitService == Init => Service!Init
<1> SUFFICES ASSUME Init
             PROVE  Service!Init
  OBVIOUS
<1>1. \A w \in Timeout : Requests(list, w) = 0
  BY NoRequests DEF Init
<1> QED
  BY <1>1 DEF Init, Service!Init, Pending

(* Every step of the provider is a step of the service or leaves it alone. *)
LEMMA NextService == IInv /\ [Next]_vars => [Service!Next]_Service!serviceVars
<1> SUFFICES ASSUME IInv, [Next]_vars
             PROVE  [Service!Next]_Service!serviceVars
  OBVIOUS
<1>0. list \in Seq(TPRequest) /\ Len(list) \in Nat /\ Sorted(list) /\ HandedOK /\ TypeOK
  BY LenProperties DEF IInv, TypeOK
<1>1. ASSUME UNCHANGED <<list, handed>>
      PROVE  UNCHANGED Service!serviceVars
  BY <1>1 DEF Service!serviceVars, Pending
<1>2. ASSUME NEW c \in Clients, InsertRequest(c)
      PROVE  Service!Next
  <2>1. PICK r \in TPRequest : r \in coming[c] /\ list' = InsertAt(list, Place(r), r)
    BY <1>0, <1>2 DEF InsertRequest, TypeOK
  <2>2. Place(r) \in 1 .. (Len(list) + 1)
    BY <1>0, PlaceProperties
  <2>3. /\ list' \in Seq(TPRequest) /\ Len(list') = Len(list) + 1 /\ list'[Place(r)] = r
        /\ \A j \in 1 .. (Place(r) - 1) : list'[j] = list[j]
        /\ \A j \in Place(r) .. Len(list) : list'[j + 1] = list[j]
    BY <1>0, <2>1, <2>2, InsertAtProperties
  <2>4. \A w : Requests(list', w) = Requests(list, w) + (IF r.what = w THEN 1 ELSE 0)
    <3> TAKE w
    <3>1. Requests(list', w) = Requests(list, w) + (IF list'[Place(r)].what = w THEN 1 ELSE 0)
      BY <1>0, <2>2, <2>3, OneMore
    <3> QED
      BY <2>3, <3>1
  <2>5. \A w : Requests(list, w) \in Nat
    BY <1>0, RequestsType
  <2>6. r.what \in Timeout
    BY DEF TPRequest
  <2>7. Counts(list') = [Counts(list) EXCEPT ![r.what] = @ + 1]
    BY <2>4, <2>5, <2>6 DEF Counts
  <2>8. Service!Request(r.what)
    BY <1>2, <2>7 DEF Service!Request, Counts, Pending, InsertRequest
  <2> QED
    BY <2>6, <2>8 DEF Service!Next
<1>3. ASSUME NEW w \in Timeout, cancelRequest(w)
      PROVE  [Service!Next]_Service!serviceVars
  <2>1. Leaves(list', w) /\ handed' = handed
    BY <1>0, <1>3, CancelledLeaves DEF cancelRequest
  <2>2. CASE list' = list
    BY <1>1, <2>1, <2>2
  <2>3. CASE Requests(list', w) < Requests(list, w)
    <3>1. Service!Cancel(w)
      BY <1>0, <2>1, <2>3, LeavesIsFewer DEF Service!Cancel
    <3> QED
      BY <3>1 DEF Service!Next
  <2> QED
    BY <2>1, <2>2, <2>3 DEF Leaves
<1>4. CASE TakeDue /\ ~stop
  <2>1. /\ list # <<>> /\ list' = WithoutFirst /\ handed' = {list[1]} /\ pc = "locked"
    BY <1>4 DEF TakeDue, Due
  <2>2. handed = {}
    BY <1>0, <2>1 DEF HandedOK
  <2>3. list[1].what \in Timeout
    <3>1. list[1] \in TPRequest
      BY <1>0, <2>1, EmptySeq, ElementOfSeq
    <3> QED
      BY <3>1 DEF TPRequest
  <2>4. PICK w \in Timeout : w = list[1].what
    BY <2>3
  <2>5. Leaves(list', w) /\ Requests(list', w) < Requests(list, w)
    BY <1>0, <2>1, <2>4, WithoutFirstLeaves
  <2>6. Service!Fewer(w)
    BY <1>0, <2>5, LeavesIsFewer
  <2>7. Service!Expire(w)
    BY <2>1, <2>2, <2>4, <2>6 DEF Service!Expire
  <2> QED
    BY <2>7 DEF Service!Next
<1>5. CASE Deliver
  <2>1. handed # {} /\ handed' = {} /\ list' = list
    BY <1>0, <1>5 DEF Deliver, HandedOK
  <2>2. Service!Deliver
    BY <2>1 DEF Service!Deliver, Pending
  <2> QED
    BY <2>2 DEF Service!Next
<1>6. CASE StopJoin
  <2>1. handed = {} /\ handed' = {} /\ list' = <<>>
    BY <1>0, <1>6 DEF StopJoin, HandedOK
  <2>2. \A w \in Timeout : Requests(list', w) = 0
    BY <2>1, NoRequests
  <2>3. Service!Close
    BY <2>1, <2>2 DEF Service!Close, Pending
  <2> QED
    BY <2>3 DEF Service!Next
<1>7. CASE \/ \E c \in Clients, w \in Timeout, d \in Delays : MakeRequest(c, w, d)
           \/ StopSet \/ StopWake \/ Lock \/ (TakeDue /\ stop) \/ CheckStop \/ Wait
           \/ Relock \/ WakeUp \/ Tick \/ UNCHANGED vars
  <2>1. UNCHANGED <<list, handed>>
    BY <1>7 DEF MakeRequest, StopSet, StopWake, Lock, TakeDue, CheckStop, Wait, Relock,
       WakeUp, Tick, vars
  <2> QED
    BY <1>1, <2>1
<1> QED
  BY <1>2, <1>3, <1>4, <1>5, <1>6, <1>7 DEF Next, Client, Stopper, Running

(* The provider implements the TimeoutService: a request is called or      *)
(* cancelled, and never costs another timeout one of its requests.         *)
THEOREM Implements == Spec => ImplementsService
  BY InitService, NextService, Invariance, PTL
     DEF Spec, ImplementsService, Service!Spec
=============================================================================
