----------------------------- MODULE ServingProofs -----------------------------
(***************************************************************************)
(* The LRU list of the object cache (cache/cache.go): its byte count is     *)
(* exact, it implements ObjectStore, and a pull misses only what the        *)
(* capacity or the ttl took away; for any objects, sizes and capacities.    *)
(***************************************************************************)
EXTENDS Serving, TLAPS

\* Where a step names no prover, Zenon checks it.
USE Zenon

-----------------------------------------------------------------------------
(* Lists without repetition, as the LRU list of a shard and the history of uses are. *)

Lists == {q \in Seq(Key) : IsInjective(q)}

\* Where a list has an element.
LEMMA PlaceOf ==
  ASSUME NEW q \in Lists, NEW i \in DOMAIN q
  PROVE  Place(q, q[i]) = i
<1>1. \A j \in DOMAIN q : q[j] = q[i] => j = i
  BY SMT DEF Lists, IsInjective
<1>2. Place(q, q[i]) \in DOMAIN q /\ q[Place(q, q[i])] = q[i]
  BY DEF Place
<1> QED
  BY <1>1, <1>2

\* An element of a list has a place in it.
LEMMA PlaceIn ==
  ASSUME NEW q \in Lists, NEW k \in Range(q)
  PROVE  Place(q, k) \in DOMAIN q /\ q[Place(q, k)] = k
BY DEF Place, Range

\* A list is a sequence.
LEMMA ListIs ==
  ASSUME NEW q \in Lists
  PROVE  /\ q \in Seq(Key) /\ Len(q) \in Nat /\ DOMAIN q = 1..Len(q)
         /\ \A i, j \in 1..Len(q) : q[i] = q[j] => i = j
         /\ \A i \in 1..Len(q) : q[i] \in Key
         /\ Range(q) \subseteq Key
<1>1. q \in Seq(Key) /\ Len(q) \in Nat /\ DOMAIN q = 1..Len(q)
  BY SMT DEF Lists
<1>2. \A i, j \in 1..Len(q) : q[i] = q[j] => i = j
  BY <1>1 DEF Lists, IsInjective
<1>3. \A i \in 1..Len(q) : q[i] \in Key
  BY SMT, <1>1
<1>4. Range(q) \subseteq Key
  BY <1>1, <1>3 DEF Range
<1> QED
  BY <1>1, <1>2, <1>3, <1>4

\* A sequence of keys without repetition is a list.
LEMMA ListMade ==
  ASSUME NEW q \in Seq(Key), \A i, j \in DOMAIN q : q[i] = q[j] => i = j
  PROVE  q \in Lists
BY DEF Lists, IsInjective

\* PushFront: a new element is the first, and is before all others.
LEMMA PushFront ==
  ASSUME NEW q \in Lists, NEW k \in Key \ Range(q)
  PROVE  /\ <<k>> \o q \in Lists
         /\ Range(<<k>> \o q) = Range(q) \cup {k}
         /\ Upto(<<k>> \o q, k) = {k}
         /\ \A x \in Range(q) : Upto(<<k>> \o q, x) = Upto(q, x) \cup {k}
<1> DEFINE r == <<k>> \o q
           n == Len(q)
<1>1. /\ q \in Seq(Key) /\ n \in Nat /\ DOMAIN q = 1..n
      /\ \A i, j \in 1..n : q[i] = q[j] => i = j
      /\ \A i \in 1..n : q[i] \in Key
  BY ListIs
<1>2. /\ r \in Seq(Key) /\ DOMAIN r = 1..(n + 1) /\ r[1] = k
      /\ \A i \in 1..n : r[i + 1] = q[i]
  BY SMT, <1>1
<1>3. \A i \in 1..n : q[i] # k
  BY <1>1 DEF Range
<1> HIDE DEF r, n
<1>4. \A i \in 2..(n + 1) : i - 1 \in 1..n /\ r[i] = q[i - 1]
  BY SMT, <1>1, <1>2
<1>5. r \in Lists
  <2>1. ASSUME NEW i \in 1..(n + 1), NEW j \in 1..(n + 1), r[i] = r[j] PROVE i = j
    <3>1. CASE i = 1 \/ j = 1
      BY SMT, <1>1, <1>2, <1>3, <1>4, <2>1, <3>1
    <3>2. CASE i # 1 /\ j # 1
      <4>1. i - 1 \in 1..n /\ j - 1 \in 1..n /\ q[i - 1] = q[j - 1]
        BY SMT, <1>1, <1>4, <2>1, <3>2
      <4>2. i - 1 = j - 1
        BY <1>1, <4>1
      <4> QED
        BY SMT, <1>1, <4>2
    <3> QED
      BY <3>1, <3>2
  <2> QED
    BY <1>2, <2>1, ListMade
<1>6. ASSUME NEW m \in 0..n
      PROVE  {r[i] : i \in 1..(m + 1)} = {q[i] : i \in 1..m} \cup {k}
  <2>1. ASSUME NEW x \in {r[i] : i \in 1..(m + 1)} PROVE x \in {q[i] : i \in 1..m} \cup {k}
    <3>1. PICK i \in 1..(m + 1) : x = r[i]
      BY <2>1
    <3>2. i = 1 \/ (i - 1 \in 1..m /\ r[i] = q[i - 1])
      BY SMT, <1>1, <1>4, <3>1
    <3> QED
      BY <1>2, <3>1, <3>2
  <2>2. ASSUME NEW x \in {q[i] : i \in 1..m} \cup {k} PROVE x \in {r[i] : i \in 1..(m + 1)}
    <3>1. CASE x = k
      <4>1. 1 \in 1..(m + 1)
        BY SMT, <1>1
      <4> QED
        BY <1>2, <3>1, <4>1
    <3>2. CASE x # k
      <4>1. PICK i \in 1..m : x = q[i]
        BY <2>2, <3>2
      <4>2. i + 1 \in 1..(m + 1) /\ r[i + 1] = q[i]
        BY SMT, <1>1, <1>2, <4>1
      <4> QED
        BY <4>1, <4>2
    <3> QED
      BY <3>1, <3>2
  <2> QED
    BY <2>1, <2>2
<1>7. Range(r) = Range(q) \cup {k}
  <2>1. n \in 0..n
    BY SMT, <1>1
  <2> QED
    BY <1>1, <1>2, <1>6, <2>1 DEF Range
<1>8. Upto(r, k) = {k}
  <2>1. 1 \in DOMAIN r
    BY SMT, <1>1, <1>2
  <2>2. Place(r, k) = 1
    BY <1>2, <1>5, <2>1, PlaceOf
  <2>3. \A i \in 1..1 : i = 1
    BY SMT
  <2>4. 1 \in 1..1
    BY SMT
  <2> QED
    BY <1>2, <2>2, <2>3, <2>4 DEF Upto
<1>9. ASSUME NEW x \in Range(q) PROVE Upto(r, x) = Upto(q, x) \cup {k}
  <2>1. PICK i \in 1..n : q[i] = x
    BY <1>1 DEF Range
  <2>2. i + 1 \in DOMAIN r /\ r[i + 1] = x /\ i \in 0..n
    BY SMT, <1>1, <1>2, <2>1
  <2>3. Place(q, x) = i /\ Place(r, x) = i + 1
    BY <1>1, <1>5, <2>1, <2>2, PlaceOf
  <2> QED
    BY <1>6, <2>2, <2>3 DEF Upto
<1> QED
  BY <1>5, <1>7, <1>8, <1>9 DEF r

\* list.Remove: the others stay, and stay in order.
LEMMA TakeOut ==
  ASSUME NEW q \in Lists, NEW k \in Range(q)
  PROVE  /\ Without(q, k) \in Lists
         /\ Range(Without(q, k)) = Range(q) \ {k}
         /\ \A x \in Range(q) \ {k} : /\ Upto(Without(q, k), x) \subseteq Upto(q, x)
                                      /\ Upto(q, x) \subseteq Upto(Without(q, k), x) \cup {k}
<1> DEFINE p == Place(q, k)
           n == Len(q)
           r == SubSeq(q, 1, p - 1) \o SubSeq(q, p + 1, n)
<1>1. /\ q \in Seq(Key) /\ n \in Nat /\ DOMAIN q = 1..n
      /\ \A i, j \in 1..n : q[i] = q[j] => i = j
      /\ \A i \in 1..n : q[i] \in Key
  BY ListIs
<1>2. p \in 1..n /\ q[p] = k
  BY <1>1, PlaceIn
<1> HIDE DEF p
<1>3. /\ r \in Seq(Key) /\ DOMAIN r = 1..(n - 1)
      /\ \A i \in 1..(p - 1) : r[i] = q[i]
      /\ \A i \in p..(n - 1) : r[i] = q[i + 1]
  <2> DEFINE a == SubSeq(q, 1, p - 1)
             b == SubSeq(q, p + 1, n)
  <2>1. p - 1 \in 0..n /\ p \in 0..n /\ 1 - 1 \in 0..n /\ p + 1 \in 1..(n + 1) /\ 1 \in 1..(n + 1)
        /\ (p - 1) - 1 + 1 = p - 1 /\ n - (p + 1) + 1 = n - p /\ n \in 0..n
    BY SMT, <1>1, <1>2
  <2>2. /\ a \in Seq(Key) /\ Len(a) = p - 1 /\ \A i \in 1..(p - 1) : a[i] = q[i]
    <3>1. a \in Seq(Key) /\ Len(a) = (p - 1) - 1 + 1 /\ \A i \in 1..((p - 1) - 1 + 1) : a[i] = q[1 + i - 1]
      BY SMT, <1>1, <2>1
    <3> HIDE DEF a
    <3> QED
      BY SMT, <1>1, <1>2, <3>1
  <2>3. /\ b \in Seq(Key) /\ Len(b) = n - p /\ \A i \in 1..(n - p) : b[i] = q[p + i]
    <3> DEFINE m == p + 1
    <3>1. m \in Int /\ m \in 1..(n + 1) /\ m = p + 1
      BY SMT, <1>1, <1>2
    <3> HIDE DEF m
    <3>2. b = SubSeq(q, m, n)
      BY <3>1
    <3> HIDE DEF b
    <3>3. b \in Seq(Key) /\ Len(b) = n - m + 1 /\ \A i \in 1..(n - m + 1) : b[i] = q[m + i - 1]
      BY SMTT(30), <1>1, <3>1, <3>2
    <3>4. n - m + 1 = n - p /\ \A i \in 1..(n - p) : m + i - 1 = p + i
      BY SMTT(30), <1>1, <1>2, <3>1
    <3> QED
      BY ZenonT(60), <3>3, <3>4
  <2>4. r = a \o b
    BY SMT
  <2> HIDE DEF a, b, r, n
  <2>5. r \in Seq(Key)
    BY SMT, <2>2, <2>3, <2>4
  <2>6. Len(r) = n - 1
    BY SMT, <1>1, <1>2, <2>2, <2>3, <2>4
  <2>7. DOMAIN r = 1..(n - 1)
    BY SMT, <2>5, <2>6
  <2>8. ASSUME NEW i \in 1..(p - 1) PROVE r[i] = q[i]
    BY SMT, <1>1, <1>2, <2>2, <2>3, <2>4
  <2>9. ASSUME NEW i \in p..(n - 1) PROVE r[i] = q[i + 1]
    <3>1. r[i] = b[i - (p - 1)]
      BY SMT, <1>1, <1>2, <2>2, <2>3, <2>4
    <3>2. i - (p - 1) \in 1..(n - p) /\ p + (i - (p - 1)) = i + 1
      BY SMT, <1>1, <1>2
    <3> QED
      BY <2>3, <3>1, <3>2
  <2> QED
    BY <2>5, <2>7, <2>8, <2>9
<1> HIDE DEF r, n
<1>4. Without(q, k) = r
  BY DEF Without, r, p, n
\* Where the elements come from, and where they go.
<1>5. ASSUME NEW j \in 1..(n - 1)
      PROVE  \E i \in 1..n \ {p} : /\ r[j] = q[i] /\ (j < p => i = j) /\ (j >= p => i = j + 1)
  <2>1. CASE j < p
    BY SMTT(30), <1>1, <1>2, <1>3, <2>1
  <2>2. CASE j >= p
    <3>1. j + 1 \in 1..n \ {p} /\ r[j] = q[j + 1]
      BY SMTT(30), <1>1, <1>2, <1>3, <2>2
    <3> QED
      BY SMTT(30), <1>2, <2>2, <3>1
  <2> QED
    BY SMT, <1>1, <1>2, <2>1, <2>2
<1>6. ASSUME NEW i \in 1..n \ {p}
      PROVE  \E j \in 1..(n - 1) : /\ r[j] = q[i] /\ (i < p => j = i) /\ (i > p => j = i - 1)
  <2>1. CASE i < p
    BY SMTT(30), <1>1, <1>2, <1>3, <2>1
  <2>2. CASE i > p
    <3>1. i - 1 \in p..(n - 1) /\ i - 1 \in 1..(n - 1) /\ (i - 1) + 1 = i
      BY SMTT(30), <1>1, <1>2, <2>2
    <3>2. r[i - 1] = q[i]
      BY <1>3, <3>1
    <3> QED
      BY SMTT(30), <1>2, <2>2, <3>1, <3>2
  <2> QED
    BY SMT, <1>1, <1>2, <2>1, <2>2
<1>7. r \in Lists
  <2>1. ASSUME NEW i \in 1..(n - 1), NEW j \in 1..(n - 1), r[i] = r[j] PROVE i = j
    <3>1. PICK u \in 1..n \ {p} : r[i] = q[u] /\ (i < p => u = i) /\ (i >= p => u = i + 1)
      BY <1>5
    <3>2. PICK v \in 1..n \ {p} : r[j] = q[v] /\ (j < p => v = j) /\ (j >= p => v = j + 1)
      BY <1>5
    <3>3. u = v
      BY <1>1, <2>1, <3>1, <3>2
    <3> QED
      BY SMT, <1>1, <1>2, <3>1, <3>2, <3>3
  <2> QED
    BY <1>3, <2>1, ListMade
<1>8. Range(r) = Range(q) \ {k}
  <2>1. ASSUME NEW x \in Range(r) PROVE x \in Range(q) \ {k}
    <3>1. PICK j \in 1..(n - 1) : r[j] = x
      BY <1>3 DEF Range
    <3>2. PICK i \in 1..n \ {p} : x = q[i]
      BY <1>5, <3>1
    <3>3. x # k
      BY <1>1, <1>2, <3>2
    <3> QED
      BY <1>1, <3>2, <3>3 DEF Range
  <2>2. ASSUME NEW x \in Range(q) \ {k} PROVE x \in Range(r)
    <3>1. PICK i \in 1..n : q[i] = x
      BY <1>1 DEF Range
    <3>2. i \in 1..n \ {p}
      BY <1>2, <3>1
    <3>3. PICK j \in 1..(n - 1) : r[j] = x
      BY <1>6, <3>1, <3>2
    <3> QED
      BY <1>3, <3>3 DEF Range
  <2> QED
    BY <2>1, <2>2
<1>9. ASSUME NEW x \in Range(q) \ {k}
      PROVE  Upto(r, x) \subseteq Upto(q, x) /\ Upto(q, x) \subseteq Upto(r, x) \cup {k}
  <2>1. PICK i \in 1..n : q[i] = x
    BY <1>1 DEF Range
  <2>2. i \in 1..n \ {p}
    BY <1>2, <2>1
  <2>3. PICK m \in 1..(n - 1) : r[m] = x /\ (i < p => m = i) /\ (i > p => m = i - 1)
    BY <1>6, <2>1, <2>2
  <2>4. Place(q, x) = i /\ Place(r, x) = m
    BY ZenonT(60), <1>1, <1>3, <1>7, <2>1, <2>3, PlaceOf
  <2>5. ASSUME NEW y \in Upto(r, x) PROVE y \in Upto(q, x)
    <3>1. PICK j \in 1..m : y = r[j]
      BY <2>4 DEF Upto
    <3>2. j \in 1..(n - 1)
      BY SMT, <1>1, <2>3, <3>1
    <3>3. PICK u \in 1..n \ {p} : r[j] = q[u] /\ (j < p => u = j) /\ (j >= p => u = j + 1)
      BY <1>5, <3>2
    <3>4. u \in 1..i
      BY SMT, <1>1, <1>2, <2>2, <2>3, <3>1, <3>3
    <3> QED
      BY <2>4, <3>1, <3>3, <3>4 DEF Upto
  <2>6. ASSUME NEW y \in Upto(q, x), y # k PROVE y \in Upto(r, x)
    <3>1. PICK j \in 1..i : y = q[j]
      BY <2>4 DEF Upto
    <3>2. j \in 1..n \ {p}
      <4>1. j \in 1..n
        BY SMT, <1>1, <2>1, <3>1
      <4> QED
        BY <1>2, <2>6, <3>1, <4>1
    <3>3. PICK v \in 1..(n - 1) : r[v] = q[j] /\ (j < p => v = j) /\ (j > p => v = j - 1)
      BY <1>6, <3>2
    <3>4. v \in 1..m
      BY SMT, <1>1, <1>2, <2>2, <2>3, <3>1, <3>2, <3>3
    <3> QED
      BY <2>4, <3>1, <3>3, <3>4 DEF Upto
  <2> QED
    BY <2>5, <2>6
<1> QED
  BY <1>4, <1>7, <1>8, <1>9
\* Both for one use, whether or not the list had the element: it is the first now, and what
\* was before another element still is.
LEMMA Used ==
  ASSUME NEW q \in Lists, NEW k \in Key
  PROVE  /\ ToFront(q, k) \in Lists
         /\ Range(ToFront(q, k)) = Range(q) \cup {k}
         /\ Upto(ToFront(q, k), k) = {k}
         /\ \A x \in Range(q) \ {k} : Upto(ToFront(q, k), x) = Upto(q, x) \cup {k}
<1> DEFINE w == Without(q, k)
<1>1. /\ w \in Lists /\ k \notin Range(w) /\ Range(w) \cup {k} = Range(q) \cup {k}
      /\ Range(w) = Range(q) \ {k}
      /\ \A x \in Range(q) \ {k} : Upto(w, x) \subseteq Upto(q, x) /\ Upto(q, x) \subseteq Upto(w, x) \cup {k}
  <2>1. CASE k \in Range(q)
    <3>1. Range(w) = Range(q) \ {k} /\ w \in Lists
      BY <2>1, TakeOut
    <3>2. \A x \in Range(q) \ {k} : Upto(w, x) \subseteq Upto(q, x) /\ Upto(q, x) \subseteq Upto(w, x) \cup {k}
      BY <2>1, TakeOut
    <3> HIDE DEF w
    <3> QED
      BY <3>1, <3>2
  <2>2. CASE k \notin Range(q)
    <3>1. w = q
      BY <2>2 DEF Without
    <3> HIDE DEF w
    <3> QED
      BY <2>2, <3>1
  <2> QED
    BY <2>1, <2>2
<1>2. ToFront(q, k) = <<k>> \o w
  BY DEF ToFront
<1> HIDE DEF w
<1>3. /\ <<k>> \o w \in Lists
      /\ Range(<<k>> \o w) = Range(w) \cup {k}
      /\ Upto(<<k>> \o w, k) = {k}
      /\ \A x \in Range(w) : Upto(<<k>> \o w, x) = Upto(w, x) \cup {k}
  BY <1>1, PushFront
<1>4. ASSUME NEW x \in Range(q) \ {k}
      PROVE  Upto(ToFront(q, k), x) = Upto(q, x) \cup {k}
  <2>1. Upto(ToFront(q, k), x) = Upto(w, x) \cup {k}
    BY <1>1, <1>2, <1>3
  <2>2. Upto(w, x) \subseteq Upto(q, x) /\ Upto(q, x) \subseteq Upto(w, x) \cup {k}
    BY <1>1
  <2> QED
    BY <2>1, <2>2
<1> QED
  BY <1>1, <1>2, <1>3, <1>4

\* What an eviction leaves of a list is its beginning.
LEMMA Beginning ==
  ASSUME NEW q \in Lists, NEW m \in 0..Len(q)
  PROVE  /\ SubSeq(q, 1, m) \in Lists
         /\ Range(SubSeq(q, 1, m)) = {q[i] : i \in 1..m}
         /\ \A x \in Range(SubSeq(q, 1, m)) : Upto(SubSeq(q, 1, m), x) = Upto(q, x)
<1> DEFINE r == SubSeq(q, 1, m)
           n == Len(q)
<1>1. /\ q \in Seq(Key) /\ n \in Nat /\ DOMAIN q = 1..n /\ \A i, j \in 1..n : q[i] = q[j] => i = j
  BY ListIs
<1>2. r \in Seq(Key) /\ Len(r) = m /\ \A i \in 1..m : r[i] = q[i]
  BY SMT, <1>1
<1> HIDE DEF r
<1>3. DOMAIN r = 1..m /\ m \in Nat /\ m <= n
  BY SMT, <1>1, <1>2
<1>4. \A i \in 1..m : i \in 1..n
  BY SMT, <1>1, <1>3
<1>5. r \in Lists
  BY <1>1, <1>2, <1>3, <1>4, ListMade
<1>6. Range(r) = {q[i] : i \in 1..m}
  BY <1>2, <1>3 DEF Range
<1>7. ASSUME NEW x \in Range(r) PROVE Upto(r, x) = Upto(q, x)
  <2>1. PICK i \in 1..m : r[i] = x
    BY <1>3 DEF Range
  <2>2. Place(r, x) = i /\ Place(q, x) = i
    BY <1>1, <1>2, <1>3, <1>4, <1>5, <2>1, PlaceOf
  <2>3. \A j \in 1..i : r[j] = q[j]
    <3>1. \A j \in 1..i : j \in 1..m
      BY SMT, <1>3, <2>1
    <3> QED
      BY <1>2, <3>1
  <2> QED
    BY <2>2, <2>3 DEF Upto
<1> QED
  BY <1>5, <1>6, <1>7 DEF r

-----------------------------------------------------------------------------
(* The bytes of a set of objects. *)

INSTANCE FiniteSetTheorems

Units(S) == UNION {{k} \X (1..Size[k]) : k \in S}

\* The bytes of one object.
LEMMA OneObject ==
  ASSUME NEW k \in Key
  PROVE  /\ IsFiniteSet({k} \X (1..Size[k]))
         /\ Cardinality({k} \X (1..Size[k])) = Size[k] /\ Size[k] \in Nat
<1>1. Size[k] \in Nat
  BY SMT, ObjectCacheAssumption
<1>2. IsFiniteSet(1..Size[k]) /\ Cardinality(1..Size[k]) = Size[k]
  <2> DEFINE n == Size[k]
  <2>1. n \in Int /\ 1 \in Int /\ (1 > n => n = 0) /\ n - 1 + 1 = n
    BY SMT, <1>1
  <2> HIDE DEF n
  <2>2. IsFiniteSet(1..n) /\ Cardinality(1..n) = IF 1 > n THEN 0 ELSE n - 1 + 1
    BY ZenonT(60), <2>1, FS_Interval
  <2>3. IsFiniteSet(1..n) /\ Cardinality(1..n) = n
    BY ZenonT(60), <2>1, <2>2
  <2> QED
    BY ZenonT(60), <2>3 DEF n
<1>3. IsFiniteSet({k}) /\ Cardinality({k}) = 1
  BY FS_Singleton
<1> DEFINE u == {k} \X (1..Size[k])
<1>4. IsFiniteSet(u) /\ Cardinality(u) = 1 * Cardinality(1..Size[k])
  BY ZenonT(60), <1>2, <1>3, FS_Product
<1> HIDE DEF u
<1>5. Cardinality(u) = Size[k]
  BY SMT, <1>1, <1>2, <1>4
<1> QED
  BY <1>1, <1>4, <1>5 DEF u

\* Objects are finitely many bytes.
LEMMA UnitsFinite ==
  ASSUME NEW S \in SUBSET Key
  PROVE  IsFiniteSet(Units(S)) /\ Bytes(S) \in Nat
<1> DEFINE T == {{k} \X (1..Size[k]) : k \in S}
           f == [k \in S |-> {k} \X (1..Size[k])]
<1>1. IsFiniteSet(S)
  BY ObjectCacheAssumption, FS_Subset
<1>2. f \in Surjection(S, T)
  BY DEF Surjection
<1>3. IsFiniteSet(T)
  BY <1>1, <1>2, FS_Surjection
<1>4. \A U \in T : IsFiniteSet(U)
  BY OneObject
<1>5. IsFiniteSet(Units(S))
  BY <1>3, <1>4, FS_UNION DEF Units
<1> QED
  BY <1>5, FS_CardinalityType DEF Bytes, Units

\* A part has no more bytes than the whole.
LEMMA BytesGrow ==
  ASSUME NEW S \in SUBSET Key, NEW R \in SUBSET S
  PROVE  Bytes(R) <= Bytes(S)
<1>1. Units(R) \subseteq Units(S)
  BY DEF Units
<1>2. IsFiniteSet(Units(S))
  BY UnitsFinite
<1>3. Cardinality(Units(R)) <= Cardinality(Units(S))
  BY <1>1, <1>2, FS_Subset
<1> QED
  BY <1>3 DEF Bytes, Units

\* The bytes of parts that share nothing add up.
LEMMA BytesSum ==
  ASSUME NEW S \in SUBSET Key, NEW R \in SUBSET Key, S \cap R = {}
  PROVE  Bytes(S \cup R) = Bytes(S) + Bytes(R)
<1>1. Units(S \cup R) = Units(S) \cup Units(R)
  <2>1. ASSUME NEW x \in Units(S \cup R) PROVE x \in Units(S) \cup Units(R)
    BY <2>1 DEF Units
  <2>2. ASSUME NEW x \in Units(S) \cup Units(R) PROVE x \in Units(S \cup R)
    BY <2>2 DEF Units
  <2> QED
    BY <2>1, <2>2
<1>2. Units(S) \cap Units(R) = {}
  <2> SUFFICES ASSUME NEW x \in Units(S), x \in Units(R) PROVE FALSE
    OBVIOUS
  <2>1. PICK k \in S : x \in {k} \X (1..Size[k])
    BY DEF Units
  <2>2. PICK l \in R : x \in {l} \X (1..Size[l])
    BY DEF Units
  <2>3. x[1] = k
    BY SMT, <2>1
  <2>4. x[1] = l
    BY SMT, <2>2
  <2> QED
    BY <2>3, <2>4
<1>3. IsFiniteSet(Units(S)) /\ IsFiniteSet(Units(R))
  BY UnitsFinite
<1>4. Cardinality(Units(S) \cup Units(R))
        = Cardinality(Units(S)) + Cardinality(Units(R)) - Cardinality(Units(S) \cap Units(R))
  BY <1>3, FS_Union
<1>5. Cardinality(Units(S) \cap Units(R)) = 0
  BY <1>2, FS_EmptySet
<1>6. /\ Bytes(S) = Cardinality(Units(S)) /\ Bytes(R) = Cardinality(Units(R))
      /\ Bytes(S \cup R) = Cardinality(Units(S \cup R))
  BY DEF Bytes, Units
<1>7. Bytes(S \cup R) = Bytes(S) + Bytes(R) - 0
  BY <1>1, <1>4, <1>5, <1>6
<1>8. Bytes(S) \in Nat /\ Bytes(R) \in Nat
  BY UnitsFinite
<1> QED
  BY SMT, <1>7, <1>8

\* The bytes of a single object.
LEMMA BytesOne ==
  ASSUME NEW k \in Key
  PROVE  Bytes({k}) = Size[k]
<1>1. Units({k}) = {k} \X (1..Size[k])
  BY DEF Units
<1>2. Bytes({k}) = Cardinality(Units({k}))
  BY DEF Bytes, Units
<1> QED
  BY <1>1, <1>2, OneObject

\* No object, no bytes.
LEMMA BytesNone == Bytes({}) = 0
<1>1. Units({}) = {}
  BY DEF Units
<1> QED
  BY <1>1, FS_EmptySet DEF Bytes, Units

-----------------------------------------------------------------------------
(* Eviction. *)

\* A bounded set of numbers has a greatest: the numbers up to some member of it are as
\* many as that member.
LEMMA Greatest ==
  ASSUME NEW n \in Nat, NEW S \in SUBSET (0..n), 0 \in S
  PROVE  Max(S) \in S /\ \A i \in S : i <= Max(S)
<1> DEFINE D == {i \in 1..n : \E j \in S : i <= j}
           c == Cardinality(D)
<1>1. IsFiniteSet(1..n)
  BY SMTT(30), FS_Interval
<1>2. IsFiniteSet(D) /\ c \in Nat
  BY <1>1, FS_Subset, FS_CardinalityType
<1>3. ASSUME NEW i \in D PROVE i <= c
  <2>1. i \in 1..n /\ 1..i \subseteq D
    BY SMTT(30), <1>3
  <2>2. Cardinality(1..i) = i
    BY SMTT(30), <2>1, FS_Interval
  <2>3. Cardinality(1..i) <= c
    BY <1>2, <2>1, FS_Subset
  <2> HIDE DEF D, c
  <2> QED
    BY <2>2, <2>3
<1>4. D = 1..c
  <2>1. D \subseteq 1..c
    <3>1. \A i \in D : i \in Nat /\ i >= 1
      BY SMT
    <3> HIDE DEF D, c
    <3> QED
      BY SMT, <1>2, <1>3, <3>1
  <2>2. IsFiniteSet(1..c) /\ Cardinality(1..c) = c
    <3> HIDE DEF D, c
    <3> QED
      BY SMTT(30), <1>2, FS_Interval
  <2> QED
    BY <1>2, <2>1, <2>2, FS_Subset
<1>5. \A j \in S : j \in Nat /\ (j = 0 \/ j \in D)
  BY SMT
<1>6. \A i \in D : \E j \in S : i <= j
  BY SMT
<1> HIDE DEF D, c
<1>7. c \in S
  <2>1. CASE c = 0
    BY <2>1
  <2>2. CASE c # 0
    <3>1. c \in D
      BY SMT, <1>2, <1>4, <2>2
    <3>2. PICK j \in S : c <= j
      BY <1>6, <3>1
    <3>3. j \in D
      BY SMT, <1>2, <1>5, <2>2, <3>2
    <3>4. j <= c /\ j \in Nat
      BY <1>3, <1>5, <3>3
    <3>5. j = c
      BY SMT, <1>2, <3>2, <3>4
    <3> QED
      BY <3>5
  <2> QED
    BY <2>1, <2>2
<1>8. \A j \in S : c >= j
  BY SMT, <1>2, <1>4, <1>5
<1>9. Max(S) \in S /\ \A j \in S : Max(S) >= j
  BY <1>7, <1>8 DEF Max
<1> QED
  BY SMT, <1>9

\* A shard has a number of bytes.
LEMMA Room == MaxShardBytes \in Nat
<1> DEFINE a == MaxBytes \div Shards
<1>1. a \in Nat
  BY SMT, ObjectCacheAssumption DEF Shards
<1>2. MaxShardBytes = Max({a, 1})
  BY DEF MaxShardBytes
<1> HIDE DEF a
<1>3. \E x \in {a, 1} : \A y \in {a, 1} : x >= y
  BY SMT, <1>1
<1>4. Max({a, 1}) \in {a, 1}
  BY <1>3 DEF Max
<1> QED
  BY SMT, <1>1, <1>2, <1>4

\* The order of three numbers.
LEMMA AtMost ==
  ASSUME NEW a \in Nat, NEW b \in Nat, NEW c \in Nat, a <= b, b <= c
  PROVE  a <= c
BY SMT

\* And its failure.
LEMMA NotAbove ==
  ASSUME NEW a \in Nat, NEW b \in Nat, a > b, a <= b
  PROVE  FALSE
BY SMT

\* What is at the front of a list, and what is behind it.
Front(q, i) == {q[j] : j \in 1..i}

\* Without its back, a list counts the bytes of its front.
LEMMA FrontBytes ==
  ASSUME NEW q \in Lists, NEW i \in 0..Len(q)
  PROVE  /\ Front(q, i) \in SUBSET Key /\ Bytes(Front(q, i)) \in Nat
         /\ Range(q) \ {q[j] : j \in (i + 1)..Len(q)} = Front(q, i)
         /\ Bytes(Range(q)) - Bytes({q[j] : j \in (i + 1)..Len(q)}) = Bytes(Front(q, i))
<1> DEFINE n == Len(q)
           back == {q[j] : j \in (i + 1)..n}
<1>1. /\ n \in Nat /\ DOMAIN q = 1..n /\ \A u, v \in 1..n : q[u] = q[v] => u = v
      /\ \A u \in 1..n : q[u] \in Key
      /\ Range(q) \subseteq Key
  BY ListIs
<1> HIDE DEF n
<1>2. i \in Nat /\ i <= n
  BY SMT, <1>1 DEF n
<1>3. \A j \in 1..n : (j \in 1..i /\ j \notin (i + 1)..n) \/ (j \notin 1..i /\ j \in (i + 1)..n)
  BY SMT, <1>1, <1>2
<1>4. (1..i) \subseteq 1..n /\ ((i + 1)..n) \subseteq 1..n
  BY SMT, <1>1, <1>2
<1>5. Front(q, i) \subseteq Key /\ back \subseteq Key
  <2>1. ASSUME NEW x \in Front(q, i) PROVE x \in Key
    <3>1. PICK j \in 1..i : x = q[j]
      BY DEF Front
    <3> QED
      BY <1>1, <1>4, <3>1
  <2>2. ASSUME NEW x \in back PROVE x \in Key
    <3>1. PICK j \in (i + 1)..n : x = q[j]
      OBVIOUS
    <3> QED
      BY <1>1, <1>4, <3>1
  <2> QED
    BY <2>1, <2>2
<1>6. Front(q, i) \cap back = {}
  <2> SUFFICES ASSUME NEW x \in Front(q, i), x \in back PROVE FALSE
    OBVIOUS
  <2>1. PICK u \in 1..i : x = q[u]
    BY DEF Front
  <2>2. PICK v \in (i + 1)..n : x = q[v]
    OBVIOUS
  <2>3. u = v
    BY ZenonT(60), <1>1, <1>4, <2>1, <2>2
  <2> QED
    BY SMT, <1>2, <2>1, <2>2, <2>3
<1>7. Range(q) = Front(q, i) \cup back
  <2>1. ASSUME NEW x \in Range(q) PROVE x \in Front(q, i) \cup back
    <3>1. PICK j \in 1..n : x = q[j]
      BY <1>1 DEF Range
    <3> QED
      BY <1>3, <3>1 DEF Front
  <2>2. ASSUME NEW x \in Front(q, i) \cup back PROVE x \in Range(q)
    BY <1>1, <1>4 DEF Front, Range
  <2> QED
    BY <2>1, <2>2
<1> HIDE DEF back
<1>8. Bytes(Range(q)) = Bytes(Front(q, i)) + Bytes(back)
  BY <1>5, <1>6, <1>7, BytesSum
<1>9. Bytes(Front(q, i)) \in Nat /\ Bytes(back) \in Nat
  BY <1>5, UnitsFinite
<1>10. Bytes(Range(q)) - Bytes(back) = Bytes(Front(q, i))
  BY SMT, <1>8, <1>9
<1>11. Range(q) \ back = Front(q, i)
  BY <1>6, <1>7
<1> QED
  BY <1>5, <1>9, <1>10, <1>11 DEF back, n

\* evictLocked: what stays fits, and with the next entry it would not.
LEMMA Evicted ==
  ASSUME NEW s, s \in Shard, s.bytes = Bytes(Items(s)), s.old \subseteq Items(s),
         NEW e, e = EvictLocked(s)
  PROVE  \E m \in 0..Len(s.lru) :
           /\ e.lru = SubSeq(s.lru, 1, m) /\ e.old = s.old \cap Front(s.lru, m)
           /\ e.bytes = Bytes(Front(s.lru, m))
           /\ e = [lru |-> e.lru, old |-> e.old, bytes |-> e.bytes]
           /\ Bytes(Front(s.lru, m)) <= MaxShardBytes
           /\ \A i \in (m + 1)..Len(s.lru) : Bytes(Front(s.lru, i)) > MaxShardBytes
<1> DEFINE q == s.lru
           n == Len(q)
           Left(i) == s.bytes - Bytes({q[j] : j \in (i + 1)..n})
           K == {0} \cup {i \in 0..n : Left(i) <= MaxShardBytes}
           m == Max(K)
<1>1. q \in Lists
  BY SMT DEF Shard, Lists
<1>2. Items(s) = Range(q)
  BY DEF Items
<1>3. n \in Nat
  BY <1>1, ListIs
<1>4. ASSUME NEW i \in 0..n
      PROVE  /\ Left(i) = Bytes(Front(q, i)) /\ Bytes(Front(q, i)) \in Nat
             /\ Range(q) \ {q[j] : j \in (i + 1)..n} = Front(q, i)
  BY <1>1, <1>2, FrontBytes
<1>5. EvictLocked(s) = [lru |-> SubSeq(q, 1, m), old |-> s.old \ {q[j] : j \in (m + 1)..n},
                        bytes |-> Left(m)]
  BY DEF EvictLocked
<1>6. Left(0) <= MaxShardBytes
  <2>1. 0 \in 0..n /\ 1..0 = {}
    BY SMT, <1>3
  <2>2. Front(q, 0) = {}
    BY <2>1 DEF Front
  <2>3. Left(0) = 0
    BY ZenonT(60), <1>4, <2>1, <2>2, BytesNone
  <2> HIDE DEF Left
  <2> QED
    BY SMT, <2>3, Room
<1> HIDE DEF Left
<1>7. K \in SUBSET (0..n) /\ 0 \in K /\ \A i \in K : Left(i) <= MaxShardBytes
  BY SMT, <1>3, <1>6
<1>8. m \in K /\ \A i \in K : i <= m
  BY <1>3, <1>7, Greatest
<1>9. \A i \in 0..n : Left(i) <= MaxShardBytes => i \in K
  OBVIOUS
<1> HIDE DEF K, m
<1>10. m \in 0..n /\ Left(m) <= MaxShardBytes
  BY <1>7, <1>8
<1>11. Left(m) = Bytes(Front(q, m)) /\ Range(q) \ {q[j] : j \in (m + 1)..n} = Front(q, m)
  BY <1>4, <1>10
<1>12. s.old \ {q[j] : j \in (m + 1)..n} = s.old \cap Front(q, m)
  <2> DEFINE back == {q[j] : j \in (m + 1)..n}
  <2>1. s.old \subseteq Range(q) /\ Range(q) \ back = Front(q, m)
    BY <1>2, <1>11
  <2> HIDE DEF back
  <2>2. s.old \ back = s.old \cap Front(q, m)
    BY <2>1
  <2> QED
    BY <2>2 DEF back
<1>13. ASSUME NEW i \in (m + 1)..n PROVE Bytes(Front(q, i)) > MaxShardBytes
  <2>1. i \in 0..n /\ ~(i <= m)
    BY SMT, <1>3, <1>10
  <2>2. ~(Left(i) <= MaxShardBytes)
    BY <1>8, <1>9, <2>1
  <2>3. Left(i) = Bytes(Front(q, i)) /\ Bytes(Front(q, i)) \in Nat
    BY <1>4, <2>1
  <2> QED
    BY SMT, <2>2, <2>3, Room
<1> DEFINE r == SubSeq(q, 1, m)
           o == s.old \cap Front(q, m)
           b == Bytes(Front(q, m))
<1>14. e = [lru |-> r, old |-> o, bytes |-> b]
  BY ZenonT(60), <1>5, <1>11, <1>12
<1> HIDE DEF r, o, b
<1>15. e.lru = r /\ e.old = o /\ e.bytes = b /\ e = [lru |-> e.lru, old |-> e.old, bytes |-> e.bytes]
  BY SMTT(30), <1>14
<1> QED
  BY <1>10, <1>11, <1>13, <1>15 DEF r, o, b

-----------------------------------------------------------------------------
(* The invariant. *)

\* The list counts its bytes, and they fit.
Sound(s) ==
  /\ s \in Shard
  /\ s.bytes = Bytes(Items(s))
  /\ s.bytes <= MaxShardBytes
  /\ s.old \subseteq Items(s)

\* What the history, r and l, says of the list: an entry has no more before it than was
\* used since its last use, the entries past their ttl are the lapsed ones, and an object
\* that is gone before its ttl was crowded out by what was used since.
Agrees(s, r, l) ==
  /\ r \in Lists
  /\ Items(s) \subseteq Range(r)
  /\ s.old = Items(s) \cap l
  /\ \A x \in Items(s) : Upto(s.lru, x) \subseteq Upto(r, x)
  /\ \A x \in (Range(r) \ l) \ Items(s) : Bytes(Upto(r, x)) > MaxShardBytes

JobInv ==
  /\ job \in [pc : {"idle", "put", "announce", "told"}, obj : Key \cup {None}]
  /\ job.pc # "idle" => job.obj \in Key

\* A request has its fields, whatever bytes they hold.
Fields == {"pc", "route", "obj", "ids", "todo", "body", "code", "earned"}
Shape(p) == p = [i \in Fields |-> p[i]]

Phases == {"idle", "member", "reply"}
Codes == {0, 200, 400, 404, 500}

Request(p) ==
  /\ Shape(p)
  /\ p.pc \in Phases
  /\ p.route \in Routes /\ p.obj \in Key \cup {None}
  /\ p.code \in Codes
  /\ p.earned

RestInv ==
  /\ plane \in {"off", "listening", "closed", "failed"}
  /\ cancelled \in BOOLEAN
  /\ lane \in {"up", "returned"}

ServeInv == Sound(shard) /\ Agrees(shard, recent, lapsed) /\ JobInv /\ Request(pull) /\ RestInv

-----------------------------------------------------------------------------
(* The operations of the list. *)

\* A shard by its parts.
LEMMA ShardIs ==
  ASSUME NEW s, Sound(s)
  PROVE  /\ s = [lru |-> s.lru, old |-> s.old, bytes |-> s.bytes]
         /\ s.lru \in Lists /\ Items(s) = Range(s.lru) /\ Items(s) \in SUBSET Key
         /\ s.old \in SUBSET Items(s) /\ s.bytes = Bytes(Items(s)) /\ s.bytes \in Nat
         /\ s.bytes <= MaxShardBytes
<1>1. s \in [lru : Lists, old : SUBSET Key, bytes : Nat]
  BY DEF Sound, Shard, Lists
<1>2. s.lru \in Lists /\ s.bytes \in Nat /\ s = [lru |-> s.lru, old |-> s.old, bytes |-> s.bytes]
  BY SMT, <1>1
<1>3. Items(s) = Range(s.lru) /\ Range(s.lru) \subseteq Key
  BY <1>2, ListIs DEF Items
<1> QED
  BY <1>2, <1>3 DEF Sound

\* A shard made of sound parts is sound.
LEMMA ShardMade ==
  ASSUME NEW s, s = [lru |-> s.lru, old |-> s.old, bytes |-> s.bytes], s.lru \in Lists,
         s.old \subseteq Range(s.lru), s.bytes = Bytes(Range(s.lru)), s.bytes <= MaxShardBytes
  PROVE  Sound(s) /\ Items(s) = Range(s.lru)
<1>1. Items(s) = Range(s.lru) /\ Range(s.lru) \subseteq Key
  BY ListIs DEF Items
<1>2. s.bytes \in Nat
  BY ZenonT(60), <1>1, UnitsFinite
<1>3. s \in [lru : Lists, old : SUBSET Key, bytes : Nat]
  BY ZenonT(60), <1>1, <1>2
<1>4. s \in Shard
  BY <1>3 DEF Shard, Lists
<1> QED
  BY <1>1, <1>4 DEF Sound

\* A use of k in a shard, after which o are past their ttl, and k as one more entry of it;
\* below, what these make of the list: k is before all, and nothing else moves.
Refresh(s, k, o) == [lru |-> ToFront(s.lru, k), old |-> o, bytes |-> s.bytes]
Grow(s, k) == [lru |-> <<k>> \o s.lru, old |-> s.old, bytes |-> s.bytes + Size[k]]

Moved(s, k, o, e) ==
  /\ Sound(e) /\ Items(e) = Items(s) /\ e.old = o
  /\ Upto(e.lru, k) = {k}
  /\ \A x \in Items(s) \ {k} : Upto(e.lru, x) = Upto(s.lru, x) \cup {k}

Entered(s, k, e) ==
  /\ Sound(e) /\ Items(e) \subseteq Items(s) \cup {k} /\ e.old = s.old \cap Items(e)
  /\ k \in Items(e) => Upto(e.lru, k) = {k}
  /\ k \notin Items(e) => Size[k] > MaxShardBytes /\ Items(e) = {}
  /\ \A x \in Items(e) \ {k} : Upto(e.lru, x) = Upto(s.lru, x) \cup {k}
  /\ \A x \in Items(s) \ Items(e) : Bytes(Upto(s.lru, x) \cup {k}) > MaxShardBytes

\* Put of an object that is held, and Get of one: the entry is first now.
LEMMA Refreshed ==
  ASSUME NEW s, Sound(s), NEW k \in Items(s), NEW o \in SUBSET s.old,
         NEW e, e = Refresh(s, k, o)
  PROVE  Moved(s, k, o, e)
<1>1. /\ s.lru \in Lists /\ Items(s) = Range(s.lru) /\ Items(s) \in SUBSET Key
      /\ s.old \in SUBSET Items(s) /\ s.bytes = Bytes(Items(s)) /\ s.bytes <= MaxShardBytes
  BY ShardIs
<1> DEFINE q == ToFront(s.lru, k)
<1>2. k \in Key
  BY <1>1
<1>3. /\ q \in Lists /\ Range(q) = Range(s.lru) \cup {k} /\ Upto(q, k) = {k}
      /\ \A x \in Range(s.lru) \ {k} : Upto(q, x) = Upto(s.lru, x) \cup {k}
  BY ZenonT(60), <1>1, <1>2, Used
<1>4. e = [lru |-> q, old |-> o, bytes |-> s.bytes]
  BY DEF Refresh
<1> HIDE DEF q
<1>5. Range(q) = Items(s) /\ o \in SUBSET Range(q)
  BY ZenonT(60), <1>1, <1>3
<1>6. s.bytes = Bytes(Range(q))
  BY <1>1, <1>5
<1>7. q \in Lists /\ s.bytes <= MaxShardBytes
  BY <1>1, <1>3
<1>8. e.lru = q /\ e.old = o /\ e.bytes = s.bytes /\ e = [lru |-> e.lru, old |-> e.old, bytes |-> e.bytes]
  BY SMT, <1>4
<1>9. Sound(e) /\ Items(e) = Range(q)
  BY ZenonT(60), <1>5, <1>6, <1>7, <1>8, ShardMade
<1> QED
  BY ZenonT(60), <1>1, <1>3, <1>5, <1>8, <1>9 DEF Moved

\* Get of an entry past its ttl: it is removed.
LEMMA Dropped ==
  ASSUME NEW s, Sound(s), NEW k \in s.old, NEW e, e = RemoveLocked(s, k)
  PROVE  /\ Sound(e) /\ Items(e) = Items(s) \ {k} /\ e.old = s.old \ {k}
         /\ \A x \in Items(e) : Upto(e.lru, x) \subseteq Upto(s.lru, x)
<1>1. /\ s.lru \in Lists /\ Items(s) = Range(s.lru) /\ Items(s) \in SUBSET Key
      /\ s.old \in SUBSET Items(s) /\ s.bytes = Bytes(Items(s)) /\ s.bytes <= MaxShardBytes
  BY ShardIs
<1> DEFINE q == Without(s.lru, k)
<1>2. k \in Range(s.lru) /\ k \in Key
  BY <1>1
<1>3. /\ q \in Lists /\ Range(q) = Range(s.lru) \ {k}
      /\ \A x \in Range(s.lru) \ {k} : Upto(q, x) \subseteq Upto(s.lru, x)
  BY <1>1, <1>2, TakeOut
<1>4. e = [lru |-> q, old |-> s.old \ {k}, bytes |-> s.bytes - Size[k]]
  BY DEF RemoveLocked
<1> HIDE DEF q
<1>5. Range(q) \in SUBSET Key /\ {k} \in SUBSET Key /\ Range(q) \cap {k} = {} /\ Range(q) \cup {k} = Items(s)
  BY ZenonT(60), <1>1, <1>2, <1>3
<1>6. Bytes(Items(s)) = Bytes(Range(q)) + Bytes({k})
  BY <1>5, BytesSum
<1>7. Bytes({k}) = Size[k] /\ Bytes({k}) \in Nat /\ Bytes(Range(q)) \in Nat
  BY ZenonT(60), <1>2, <1>5, BytesOne, UnitsFinite
<1>8. s.bytes - Size[k] = Bytes(Range(q)) /\ s.bytes - Size[k] <= MaxShardBytes
  BY SMTT(30), <1>1, <1>6, <1>7, Room
<1>9. s.old \ {k} \in SUBSET Range(q)
  BY ZenonT(60), <1>1, <1>3
<1>10. /\ e.lru = q /\ e.old = s.old \ {k} /\ e.bytes = s.bytes - Size[k]
       /\ e = [lru |-> e.lru, old |-> e.old, bytes |-> e.bytes]
  BY SMT, <1>4
<1>11. Sound(e) /\ Items(e) = Range(q)
  BY ZenonT(60), <1>3, <1>8, <1>9, <1>10, ShardMade
<1> QED
  BY ZenonT(60), <1>1, <1>3, <1>10, <1>11

\* Put of an object that is not held: it is first, and what no longer fits is gone, the
\* object itself only if it alone exceeds the shard.
LEMMA Inserted ==
  ASSUME NEW s, Sound(s), NEW k \in Key \ Items(s), NEW e,
         e = EvictLocked(Grow(s, k))
  PROVE  Entered(s, k, e)
<1> DEFINE q == <<k>> \o s.lru
           t == Grow(s, k)
           n == Len(q)
<1>1. /\ s.lru \in Lists /\ Items(s) = Range(s.lru) /\ Items(s) \in SUBSET Key
      /\ s.old \in SUBSET Items(s) /\ s.bytes = Bytes(Items(s)) /\ s.bytes \in Nat
  BY ShardIs
<1>2. /\ q \in Lists /\ Range(q) = Items(s) \cup {k} /\ Upto(q, k) = {k}
      /\ \A x \in Items(s) : Upto(q, x) = Upto(s.lru, x) \cup {k}
  <2>1. k \in Key \ Range(s.lru)
    BY <1>1
  <2>2. /\ q \in Lists /\ Range(q) = Range(s.lru) \cup {k} /\ Upto(q, k) = {k}
        /\ \A x \in Range(s.lru) : Upto(q, x) = Upto(s.lru, x) \cup {k}
    BY ZenonT(60), <1>1, <2>1, PushFront
  <2> HIDE DEF q
  <2> QED
    BY <1>1, <2>2
<1>3. q[1] = k /\ n \in Nat /\ n >= 1 /\ DOMAIN q = 1..n
  <2>1. s.lru \in Seq(Key)
    BY ZenonT(60), <1>1, ListIs
  <2> QED
    BY SMT, <2>1
<1>4. s.bytes + Size[k] = Bytes(Range(q)) /\ s.bytes + Size[k] \in Nat
  <2>1. Items(s) \cap {k} = {} /\ {k} \in SUBSET Key
    OBVIOUS
  <2>2. Bytes(Items(s) \cup {k}) = Bytes(Items(s)) + Bytes({k})
    BY ZenonT(60), <1>1, <2>1, BytesSum
  <2>3. Bytes({k}) = Size[k]
    BY BytesOne
  <2>4. Bytes(Range(q)) = s.bytes + Size[k]
    BY ZenonT(60), <1>1, <1>2, <2>2, <2>3
  <2>5. Size[k] \in Nat
    BY ObjectCacheAssumption
  <2> HIDE DEF q
  <2> QED
    BY SMT, <1>1, <2>4, <2>5
<1> HIDE DEF q
<1>5. PICK m \in 0..n :
        /\ e.lru = SubSeq(q, 1, m) /\ e.old = s.old \cap Front(q, m)
        /\ e.bytes = Bytes(Front(q, m))
        /\ e = [lru |-> e.lru, old |-> e.old, bytes |-> e.bytes]
        /\ Bytes(Front(q, m)) <= MaxShardBytes
        /\ \A i \in (m + 1)..n : Bytes(Front(q, i)) > MaxShardBytes
  <2>1. t = [lru |-> q, old |-> s.old, bytes |-> s.bytes + Size[k]]
    BY DEF q, Grow
  <2>2. t \in [lru : Lists, old : SUBSET Key, bytes : Nat]
    BY SMT, <1>1, <1>2, <1>4, <2>1
  <2>3. t \in Shard
    BY <2>2 DEF Shard, Lists
  <2> HIDE DEF t
  <2>4. t.lru = q /\ t.old = s.old /\ t.bytes = s.bytes + Size[k]
    BY <2>1
  <2>5. Items(t) = Range(q)
    BY <2>4 DEF Items
  <2>6. t.bytes = Bytes(Items(t)) /\ t.old \subseteq Items(t)
    BY ZenonT(60), <1>1, <1>2, <1>4, <2>4, <2>5
  <2>7. e = EvictLocked(t)
    BY DEF t
  <2> QED
    BY ZenonT(60), <2>3, <2>4, <2>6, <2>7, Evicted
<1> HIDE DEF t, n
<1> DEFINE r == SubSeq(q, 1, m)
<1>6. /\ r \in Lists /\ Range(r) = Front(q, m) /\ \A x \in Range(r) : Upto(r, x) = Upto(q, x)
  BY ZenonT(60), <1>2, <1>5, Beginning DEF Front, n
<1>7. /\ e.lru = r /\ e.old = s.old \cap Front(q, m) /\ e.bytes = Bytes(Front(q, m))
      /\ e = [lru |-> e.lru, old |-> e.old, bytes |-> e.bytes]
  BY <1>5
<1> HIDE DEF r
<1>8. Sound(e) /\ Items(e) = Range(r)
  BY ZenonT(60), <1>5, <1>6, <1>7, ShardMade
<1>9. e.old = s.old \cap Items(e)
  BY ZenonT(60), <1>6, <1>7, <1>8
<1>10. Items(e) \subseteq Items(s) \cup {k}
  <2>1. ASSUME NEW x \in Front(q, m) PROVE x \in Range(q)
    <3>1. PICK i \in 1..m : x = q[i]
      BY DEF Front
    <3>2. i \in DOMAIN q
      BY SMT, <1>3, <1>5
    <3> QED
      BY <3>1, <3>2 DEF Range
  <2> QED
    BY ZenonT(60), <1>2, <1>6, <1>8, <2>1
<1>11. ASSUME k \notin Items(e) PROVE Size[k] > MaxShardBytes /\ Items(e) = {}
  <2>1. k \notin Front(q, m)
    BY ZenonT(60), <1>6, <1>8, <1>11
  <2>2. 1 \notin 1..m
    BY ZenonT(60), <1>3, <2>1 DEF Front
  <2>3. m = 0 /\ 1..m = {} /\ 1 \in (m + 1)..n
    BY SMTT(30), <1>3, <1>5, <2>2
  <2>4. Items(e) = {}
    BY ZenonT(60), <1>6, <1>8, <2>3 DEF Front
  <2>5. Front(q, 1) = {k}
    <3>1. \A i \in 1..1 : i = 1
      BY SMT
    <3>2. 1 \in 1..1
      BY SMT
    <3> QED
      BY ZenonT(60), <1>3, <3>1, <3>2 DEF Front
  <2>6. Bytes(Front(q, 1)) > MaxShardBytes
    BY <1>5, <2>3
  <2>7. Bytes({k}) = Size[k]
    BY BytesOne
  <2> QED
    BY ZenonT(60), <2>4, <2>5, <2>6, <2>7
<1>12. ASSUME NEW x \in Items(s) \ Items(e) PROVE Bytes(Upto(s.lru, x) \cup {k}) > MaxShardBytes
  <2>1. x \in Range(q) /\ x \notin Front(q, m)
    BY ZenonT(60), <1>2, <1>6, <1>8
  <2> DEFINE i == Place(q, x)
  <2>2. i \in 1..n /\ q[i] = x
    BY ZenonT(60), <1>2, <1>3, <2>1, PlaceIn
  <2>3. Front(q, i) = Upto(q, x)
    BY DEF Front, Upto
  <2> HIDE DEF i
  <2>4. i \notin 1..m
    BY ZenonT(60), <2>1, <2>2 DEF Front
  <2>5. i \in (m + 1)..n
    BY SMTT(30), <1>3, <1>5, <2>2, <2>4
  <2>6. Bytes(Front(q, i)) > MaxShardBytes
    BY <1>5, <2>5
  <2>7. Upto(q, x) = Upto(s.lru, x) \cup {k}
    BY <1>2
  <2> QED
    BY ZenonT(60), <2>3, <2>6, <2>7
<1>13. ASSUME NEW x \in Items(e) \ {k} PROVE Upto(e.lru, x) = Upto(s.lru, x) \cup {k}
  <2>1. Upto(e.lru, x) = Upto(q, x)
    BY ZenonT(60), <1>6, <1>7, <1>8
  <2>2. x \in Items(s)
    BY <1>10
  <2> QED
    BY ZenonT(60), <1>2, <2>1, <2>2
<1>14. ASSUME k \in Items(e) PROVE Upto(e.lru, k) = {k}
  BY ZenonT(60), <1>2, <1>6, <1>7, <1>8, <1>14
<1> QED
  BY ZenonT(60), <1>8, <1>9, <1>10, <1>11, <1>12, <1>13, <1>14 DEF Entered

-----------------------------------------------------------------------------
(* What the operations leave of the history. *)

\* A list and a set of keys of it.
LEMMA UptoIn ==
  ASSUME NEW q \in Lists, NEW x \in Range(q)
  PROVE  Upto(q, x) \in SUBSET Key
<1> DEFINE n == Len(q)
<1>1. n \in Nat /\ DOMAIN q = 1..n /\ \A i \in 1..n : q[i] \in Key
  BY ListIs
<1>2. Place(q, x) \in 1..n
  BY ZenonT(60), <1>1, PlaceIn
<1> HIDE DEF n
<1>3. \A i \in 1..Place(q, x) : i \in 1..n
  BY SMT, <1>1, <1>2
<1> QED
  BY ZenonT(60), <1>1, <1>3 DEF Upto

\* A use puts more before every other object, so what was crowded out still is.
LEMMA StillCrowded ==
  ASSUME NEW q \in Lists, NEW k \in Key, NEW x \in Range(q) \ {k},
         Bytes(Upto(q, x)) > MaxShardBytes
  PROVE  Bytes(Upto(ToFront(q, k), x)) > MaxShardBytes
<1>1. Upto(ToFront(q, k), x) = Upto(q, x) \cup {k}
  BY Used
<1>2. Upto(q, x) \in SUBSET Key
  BY UptoIn
<1> DEFINE U == Upto(q, x) \cup {k}
<1>3. U \in SUBSET Key /\ Upto(q, x) \in SUBSET U
  BY <1>2
<1> HIDE DEF U
<1>4. Bytes(Upto(q, x)) <= Bytes(U) /\ Bytes(Upto(q, x)) \in Nat /\ Bytes(U) \in Nat
  BY ZenonT(60), <1>2, <1>3, BytesGrow, UnitsFinite
<1>5. Bytes(U) > MaxShardBytes
  BY SMT, <1>4, Room
<1> QED
  BY ZenonT(60), <1>1, <1>5 DEF U

\* A use of an object that is held, by Put or by Get.
LEMMA RefreshTold ==
  ASSUME NEW s, Sound(s), NEW r, NEW l, Agrees(s, r, l), NEW k \in Items(s),
         NEW m \in SUBSET l, l \subseteq m \cup {k},
         NEW e, e = Refresh(s, k, Items(s) \cap m)
  PROVE  Sound(e) /\ Agrees(e, ToFront(r, k), m)
<1>1. /\ r \in Lists /\ Items(s) \subseteq Range(r) /\ s.old = Items(s) \cap l
      /\ \A x \in Items(s) : Upto(s.lru, x) \subseteq Upto(r, x)
      /\ \A x \in (Range(r) \ l) \ Items(s) : Bytes(Upto(r, x)) > MaxShardBytes
  BY DEF Agrees
<1>2. k \in Key /\ k \in Range(r)
  BY ZenonT(60), <1>1, ShardIs
<1> DEFINE t == ToFront(r, k)
           o == Items(s) \cap m
<1>3. /\ t \in Lists /\ Range(t) = Range(r) \cup {k} /\ Upto(t, k) = {k}
      /\ \A x \in Range(r) \ {k} : Upto(t, x) = Upto(r, x) \cup {k}
  BY ZenonT(60), <1>1, <1>2, Used
<1>4. o \in SUBSET s.old
  BY <1>1
<1>5. e = Refresh(s, k, o)
  OBVIOUS
<1> HIDE DEF o
<1>6. /\ Sound(e) /\ Items(e) = Items(s) /\ e.old = o
      /\ Upto(e.lru, k) = {k}
      /\ \A x \in Items(s) \ {k} : Upto(e.lru, x) = Upto(s.lru, x) \cup {k}
  <2>1. Moved(s, k, o, e)
    BY ZenonT(60), <1>4, <1>5, Refreshed
  <2> QED
    BY <2>1 DEF Moved
<1> HIDE DEF t
<1>7. Items(e) \subseteq Range(t)
  BY ZenonT(60), <1>1, <1>3, <1>6
<1>8. ASSUME NEW x \in Items(e) PROVE Upto(e.lru, x) \subseteq Upto(t, x)
  <2>1. CASE x = k
    BY ZenonT(60), <1>3, <1>6, <2>1
  <2>2. CASE x # k
    <3>1. x \in Items(s) \ {k} /\ x \in Range(r) \ {k}
      BY ZenonT(60), <1>1, <1>6, <2>2
    <3>2. Upto(e.lru, x) = Upto(s.lru, x) \cup {k} /\ Upto(t, x) = Upto(r, x) \cup {k}
      BY ZenonT(60), <1>3, <1>6, <3>1
    <3>3. Upto(s.lru, x) \subseteq Upto(r, x)
      BY ZenonT(60), <1>1, <3>1
    <3> QED
      BY ZenonT(60), <3>2, <3>3
  <2> QED
    BY ZenonT(60), <2>1, <2>2
<1>9. ASSUME NEW x \in (Range(t) \ m) \ Items(e) PROVE Bytes(Upto(t, x)) > MaxShardBytes
  <2>1. x # k /\ x \in Range(r) \ {k} /\ x \in (Range(r) \ l) \ Items(s)
    BY ZenonT(60), <1>3, <1>6
  <2>2. Bytes(Upto(r, x)) > MaxShardBytes
    BY ZenonT(60), <1>1, <2>1
  <2> QED
    BY ZenonT(60), <1>1, <1>2, <2>1, <2>2, StillCrowded DEF t
<1>10. Agrees(e, t, m)
  <2>1. e.old = Items(e) \cap m
    BY <1>6 DEF o
  <2> QED
    BY ZenonT(60), <1>3, <1>7, <1>8, <1>9, <2>1 DEF Agrees
<1> QED
  BY ZenonT(60), <1>6, <1>10 DEF t

\* Put of an object that is not held.
LEMMA InsertTold ==
  ASSUME NEW s, Sound(s), NEW r, NEW l, Agrees(s, r, l), NEW k \in Key \ Items(s), NEW e,
         e = EvictLocked(Grow(s, k))
  PROVE  Sound(e) /\ Agrees(e, ToFront(r, k), l \ {k})
<1>1. /\ r \in Lists /\ Items(s) \subseteq Range(r) /\ s.old = Items(s) \cap l
      /\ \A x \in Items(s) : Upto(s.lru, x) \subseteq Upto(r, x)
      /\ \A x \in (Range(r) \ l) \ Items(s) : Bytes(Upto(r, x)) > MaxShardBytes
  BY DEF Agrees
<1> DEFINE t == ToFront(r, k)
<1>2. /\ t \in Lists /\ Range(t) = Range(r) \cup {k} /\ Upto(t, k) = {k}
      /\ \A x \in Range(r) \ {k} : Upto(t, x) = Upto(r, x) \cup {k}
  BY <1>1, Used
<1>3. /\ Sound(e) /\ Items(e) \subseteq Items(s) \cup {k} /\ e.old = s.old \cap Items(e)
      /\ k \in Items(e) => Upto(e.lru, k) = {k}
      /\ k \notin Items(e) => Size[k] > MaxShardBytes /\ Items(e) = {}
      /\ \A x \in Items(e) \ {k} : Upto(e.lru, x) = Upto(s.lru, x) \cup {k}
      /\ \A x \in Items(s) \ Items(e) : Bytes(Upto(s.lru, x) \cup {k}) > MaxShardBytes
  <2>1. Entered(s, k, e)
    BY Inserted
  <2> QED
    BY <2>1 DEF Entered
<1> HIDE DEF t
<1>4. Items(e) \subseteq Range(t) /\ e.old = Items(e) \cap (l \ {k})
  <2>1. Items(e) \subseteq Range(t)
    BY <1>1, <1>2, <1>3
  <2>2. ASSUME NEW x \in e.old PROVE x \in Items(e) \cap (l \ {k})
    BY <1>1, <1>3
  <2>3. ASSUME NEW x \in Items(e) \cap (l \ {k}) PROVE x \in e.old
    BY <1>1, <1>3
  <2> QED
    BY <2>1, <2>2, <2>3
<1>5. ASSUME NEW x \in Items(e) PROVE Upto(e.lru, x) \subseteq Upto(t, x)
  <2>1. CASE x = k
    BY ZenonT(60), <1>2, <1>3, <2>1
  <2>2. CASE x # k
    <3>1. x \in Items(s) /\ x \in Items(e) \ {k} /\ x \in Range(r) \ {k}
      BY ZenonT(60), <1>1, <1>3, <2>2
    <3>2. Upto(e.lru, x) = Upto(s.lru, x) \cup {k} /\ Upto(t, x) = Upto(r, x) \cup {k}
      BY ZenonT(60), <1>2, <1>3, <3>1
    <3>3. Upto(s.lru, x) \subseteq Upto(r, x)
      BY ZenonT(60), <1>1, <3>1
    <3> QED
      BY ZenonT(60), <3>2, <3>3
  <2> QED
    BY <2>1, <2>2
<1>6. ASSUME NEW x \in (Range(t) \ (l \ {k})) \ Items(e) PROVE Bytes(Upto(t, x)) > MaxShardBytes
  <2>1. CASE x = k
    <3>1. Size[k] > MaxShardBytes
      BY ZenonT(60), <1>3, <1>6, <2>1
    <3>2. Bytes({k}) = Size[k]
      BY BytesOne
    <3> QED
      BY ZenonT(60), <1>2, <2>1, <3>1, <3>2
  <2>2. CASE x # k /\ x \in Items(s)
    <3>1. x \in Range(r) \ {k} /\ x \in Items(s) \ Items(e)
      BY ZenonT(60), <1>1, <1>6, <2>2
    <3> DEFINE U == Upto(s.lru, x) \cup {k}
               V == Upto(t, x)
    <3>2. Bytes(U) > MaxShardBytes
      BY ZenonT(60), <1>3, <3>1
    <3>3. U \in SUBSET V
      <4>1. Upto(t, x) = Upto(r, x) \cup {k}
        BY ZenonT(60), <1>2, <3>1
      <4>2. Upto(s.lru, x) \subseteq Upto(r, x)
        BY ZenonT(60), <1>1, <2>2
      <4> QED
        BY ZenonT(60), <4>1, <4>2
    <3>4. V \in SUBSET Key
      BY ZenonT(60), <1>2, <3>1, UptoIn
    <3> HIDE DEF U, V
    <3>5. U \in SUBSET Key
      BY ZenonT(60), <3>3, <3>4
    <3>6. Bytes(U) <= Bytes(V) /\ Bytes(U) \in Nat /\ Bytes(V) \in Nat
      BY ZenonT(60), <3>3, <3>4, <3>5, BytesGrow, UnitsFinite
    <3>7. Bytes(V) > MaxShardBytes
      BY SMTT(30), <3>2, <3>6, Room
    <3> QED
      BY <3>7 DEF V
  <2>3. CASE x # k /\ x \notin Items(s)
    <3>1. x \in Range(r) \ {k} /\ x \in (Range(r) \ l) \ Items(s)
      BY ZenonT(60), <1>2, <1>6, <2>3
    <3>2. Bytes(Upto(r, x)) > MaxShardBytes
      BY <1>1, <3>1
    <3> QED
      BY ZenonT(60), <1>1, <3>1, <3>2, StillCrowded DEF t
  <2> QED
    BY ZenonT(60), <2>1, <2>2, <2>3
<1>7. Agrees(e, t, l \ {k})
  BY ZenonT(60), <1>2, <1>4, <1>5, <1>6 DEF Agrees
<1> QED
  BY <1>3, <1>7 DEF t

\* Get of an entry past its ttl.
LEMMA DropTold ==
  ASSUME NEW s, Sound(s), NEW r, NEW l, Agrees(s, r, l), NEW k \in s.old, NEW e, e = RemoveLocked(s, k)
  PROVE  Sound(e) /\ Agrees(e, r, l)
<1>1. /\ r \in Lists /\ Items(s) \subseteq Range(r) /\ s.old = Items(s) \cap l
      /\ \A x \in Items(s) : Upto(s.lru, x) \subseteq Upto(r, x)
      /\ \A x \in (Range(r) \ l) \ Items(s) : Bytes(Upto(r, x)) > MaxShardBytes
  BY DEF Agrees
<1>2. /\ Sound(e) /\ Items(e) = Items(s) \ {k} /\ e.old = s.old \ {k}
      /\ \A x \in Items(e) : Upto(e.lru, x) \subseteq Upto(s.lru, x)
  BY Dropped
<1>3. Items(e) \subseteq Range(r) /\ e.old = Items(e) \cap l
  <2>1. ASSUME NEW x \in e.old PROVE x \in Items(e) \cap l
    BY <1>1, <1>2
  <2>2. ASSUME NEW x \in Items(e) \cap l PROVE x \in e.old
    BY <1>1, <1>2
  <2>3. Items(e) \subseteq Range(r)
    BY <1>1, <1>2
  <2> QED
    BY ZenonT(60), <2>1, <2>2, <2>3
<1>4. \A x \in Items(e) : Upto(e.lru, x) \subseteq Upto(r, x)
  BY <1>1, <1>2
<1>5. \A x \in (Range(r) \ l) \ Items(e) : Bytes(Upto(r, x)) > MaxShardBytes
  <2> SUFFICES ASSUME NEW x \in (Range(r) \ l) \ Items(e) PROVE Bytes(Upto(r, x)) > MaxShardBytes
    OBVIOUS
  <2>1. k \in l
    BY <1>1
  <2>2. x \in (Range(r) \ l) \ Items(s)
    BY <1>2, <2>1
  <2> QED
    BY <1>1, <2>2
<1> QED
  BY ZenonT(60), <1>1, <1>2, <1>3, <1>4, <1>5 DEF Agrees

\* An entry passes its ttl.
LEMMA LapseTold ==
  ASSUME NEW s, Sound(s), NEW r, NEW l, Agrees(s, r, l), NEW k \in Items(s), NEW e,
         e = [lru |-> s.lru, old |-> s.old \cup {k}, bytes |-> s.bytes]
  PROVE  /\ Sound(e) /\ Agrees(e, r, l \cup {k})
         /\ Items(e) = Items(s) /\ e.old = s.old \cup {k}
<1>1. /\ r \in Lists /\ Items(s) \subseteq Range(r) /\ s.old = Items(s) \cap l
      /\ \A x \in Items(s) : Upto(s.lru, x) \subseteq Upto(r, x)
      /\ \A x \in (Range(r) \ l) \ Items(s) : Bytes(Upto(r, x)) > MaxShardBytes
  BY DEF Agrees
<1>2. /\ s.lru \in Lists /\ Items(s) = Range(s.lru)
      /\ s.old \in SUBSET Items(s) /\ s.bytes = Bytes(Items(s)) /\ s.bytes <= MaxShardBytes
  BY ZenonT(60), ShardIs
<1>3. /\ e.lru = s.lru /\ e.old = s.old \cup {k} /\ e.bytes = s.bytes
      /\ e = [lru |-> e.lru, old |-> e.old, bytes |-> e.bytes]
  BY SMT
<1>4. e.old \subseteq Range(e.lru)
  BY <1>2, <1>3
<1>5. Sound(e) /\ Items(e) = Items(s)
  BY ZenonT(60), <1>2, <1>3, <1>4, ShardMade
<1>6. e.old = Items(e) \cap (l \cup {k})
  <2>1. ASSUME NEW x \in e.old PROVE x \in Items(e) \cap (l \cup {k})
    BY ZenonT(60), <1>1, <1>3, <1>5
  <2>2. ASSUME NEW x \in Items(e) \cap (l \cup {k}) PROVE x \in e.old
    BY ZenonT(60), <1>1, <1>3, <1>5
  <2> QED
    BY <2>1, <2>2
<1>7. \A x \in (Range(r) \ (l \cup {k})) \ Items(e) : Bytes(Upto(r, x)) > MaxShardBytes
  BY <1>1, <1>5
<1>8. \A x \in Items(e) : Upto(e.lru, x) \subseteq Upto(r, x)
  BY ZenonT(60), <1>1, <1>3, <1>5
<1>9. Items(e) \subseteq Range(r)
  BY <1>1, <1>5
<1> QED
  BY ZenonT(60), <1>1, <1>3, <1>5, <1>6, <1>7, <1>8, <1>9 DEF Agrees

-----------------------------------------------------------------------------
(* The steps. *)

\* An announced hash is read back as the one that was announced.
LEMMA Readable ==
  ASSUME NEW k \in Key
  PROVE  ParseDisplay(Display(k)) = k
<1>1. HashLen \in Nat /\ k \in [1..HashLen -> 0..255]
  BY ZenonT(60), ServingAssumption, FramesAssumption DEF Hash, Byte
<1>2. k \in Seq(0..255) /\ Len(k) = HashLen /\ DOMAIN k = 1..HashLen
  BY SMT, <1>1
<1> DEFINE d == Reverse(k)
<1>3. d = [i \in 1..HashLen |-> k[HashLen + 1 - i]]
  BY <1>2 DEF Reverse
<1> HIDE DEF d
<1>4. d \in [1..HashLen -> 0..255]
  <2>1. \A i \in 1..HashLen : HashLen + 1 - i \in 1..HashLen
    BY SMT, <1>1
  <2>2. \A i \in 1..HashLen : k[HashLen + 1 - i] \in 0..255
    BY ZenonT(60), <1>1, <2>1
  <2> QED
    BY ZenonT(60), <1>3, <2>2
<1>5. d \in Seq(0..255) /\ Len(d) = HashLen /\ DOMAIN d = 1..HashLen
  BY SMT, <1>1, <1>4
<1>6. Reverse(d) = [i \in 1..HashLen |-> d[HashLen + 1 - i]]
  BY ZenonT(60), <1>5 DEF Reverse
<1>7. \A i \in 1..HashLen : d[HashLen + 1 - i] = k[i]
  BY SMT, <1>1, <1>3
<1>8. Reverse(d) = k
  BY ZenonT(60), <1>1, <1>6, <1>7
<1> QED
  BY <1>5, <1>8 DEF ParseDisplay, Display, d

\* Put, and what Get leaves, by their cases.
LEMMA Cases ==
  ASSUME NEW s, Sound(s), NEW k \in Key
  PROVE  /\ k \in Items(s) => Put(s, k) = Refresh(s, k, s.old \ {k})
         /\ k \notin Items(s) => Put(s, k) = EvictLocked(Grow(s, k))
         /\ k \notin Items(s) => AfterGet(s, k) = s
         /\ k \in s.old => AfterGet(s, k) = RemoveLocked(s, k)
         /\ k \in Items(s) \ s.old => AfterGet(s, k) = Refresh(s, k, s.old)
<1>1. s.old \subseteq Items(s) /\ s \in [lru : Lists, old : SUBSET Key, bytes : Nat]
  BY DEF Sound, Shard, Lists
<1> DEFINE q == ToFront(s.lru, k)
<1>2. /\ Put(s, k) = IF k \in Items(s) THEN Refresh(s, k, s.old \ {k}) ELSE EvictLocked(Grow(s, k))
      /\ AfterGet(s, k) = IF k \notin Items(s) THEN s
                          ELSE IF k \in s.old THEN RemoveLocked(s, k)
                          ELSE [s EXCEPT !.lru = q]
      /\ Refresh(s, k, s.old) = [lru |-> q, old |-> s.old, bytes |-> s.bytes]
  BY DEF Put, AfterGet, Refresh, Grow
<1> HIDE DEF q
<1>3. [s EXCEPT !.lru = q] = [lru |-> q, old |-> s.old, bytes |-> s.bytes]
  BY SMT, <1>1
<1> QED
  BY ZenonT(60), <1>1, <1>2, <1>3

\* The store counts its bytes as the list does.
LEMMA SameBytes ==
  ASSUME NEW S
  PROVE  StoreView!Bytes(S) = Bytes(S)
BY DEF StoreView!Bytes, Bytes, StoreView!Cardinality, Cardinality

\* What Put may leave of the store, in terms of the list.
LEMMA Outcome ==
  ASSUME NEW S, NEW o, NEW R \in SUBSET (S \cup {o}),
         Bytes(R) <= MaxShardBytes,
         Size[o] > MaxShardBytes => R = {},
         ~(Size[o] > MaxShardBytes) => o \in R,
         o \in S => R = S \cup {o}
  PROVE  R \in StoreView!PutOutcomes(S, o)
<1>1. StoreView!Bytes(R) <= MaxShardBytes
  BY SameBytes
<1> QED
  BY <1>1 DEF StoreView!PutOutcomes

\* Put, of the list, of its history and of the store.
LEMMA PutStep ==
  ASSUME NEW s, Sound(s), NEW r, NEW l, Agrees(s, r, l), NEW k \in Key, NEW e, e = Put(s, k)
  PROVE  /\ Sound(e) /\ Agrees(e, ToFront(r, k), l \ {k})
         /\ Items(e) \ e.old \in StoreView!PutOutcomes(Items(s) \ s.old, k)
<1> DEFINE S == Items(s) \ s.old
           R == Items(e) \ e.old
<1>1. s.old = Items(s) \cap l /\ s.old \subseteq Items(s)
  BY ShardIs DEF Agrees
<1>2. CASE k \in Items(s)
  <2>1. e = Refresh(s, k, s.old \ {k})
    BY <1>2, Cases
  <2>2. s.old \ {k} = Items(s) \cap (l \ {k})
    BY <1>1
  <2>3. l \ {k} \in SUBSET l /\ l \subseteq (l \ {k}) \cup {k}
    OBVIOUS
  <2>4. e = Refresh(s, k, Items(s) \cap (l \ {k}))
    BY ZenonT(60), <2>1, <2>2
  <2>5. /\ Sound(e) /\ Agrees(e, ToFront(r, k), l \ {k})
        /\ Items(e) = Items(s) /\ e.old = s.old \ {k}
    <3> DEFINE m == l \ {k}
               o == s.old \ {k}
    <3>1. m \in SUBSET l /\ l \subseteq m \cup {k} /\ e = Refresh(s, k, Items(s) \cap m)
      BY ZenonT(60), <2>3, <2>4
    <3>2. o \in SUBSET s.old /\ e = Refresh(s, k, o)
      BY <2>1
    <3> HIDE DEF m, o
    <3>3. Moved(s, k, o, e)
      BY ZenonT(60), <1>2, <3>2, Refreshed
    <3>4. Sound(e) /\ Agrees(e, ToFront(r, k), m)
      BY <1>2, <3>1, RefreshTold
    <3> QED
      BY ZenonT(60), <3>3, <3>4 DEF m, o, Moved
  <2>6. R = S \cup {k}
    <3>1. ASSUME NEW x \in R PROVE x \in S \cup {k}
      BY ZenonT(60), <1>1, <2>5
    <3>2. ASSUME NEW x \in S \cup {k} PROVE x \in R
      BY ZenonT(60), <1>1, <1>2, <2>5
    <3> QED
      BY ZenonT(60), <3>1, <3>2
  <2>7. Bytes(R) <= MaxShardBytes /\ Size[k] <= MaxShardBytes /\ Size[k] \in Nat
    <3>1. Items(e) \in SUBSET Key /\ e.bytes = Bytes(Items(e)) /\ e.bytes <= MaxShardBytes
      BY ZenonT(60), <2>5, ShardIs
    <3>2. R \in SUBSET Items(e) /\ {k} \in SUBSET Items(e) /\ R \in SUBSET Key
      BY ZenonT(60), <1>2, <2>5, <3>1
    <3> HIDE DEF R
    <3>3. Bytes(R) <= Bytes(Items(e)) /\ Bytes({k}) <= Bytes(Items(e))
      BY ZenonT(60), <3>1, <3>2, BytesGrow
    <3>4. /\ Bytes(R) \in Nat /\ Bytes(Items(e)) \in Nat /\ Bytes({k}) \in Nat
      BY ZenonT(60), <3>1, <3>2, UnitsFinite
    <3>5. Bytes({k}) = Size[k]
      BY BytesOne
    <3> QED
      BY ZenonT(60), <3>1, <3>3, <3>4, <3>5, Room, AtMost
  <2>8. ~(Size[k] > MaxShardBytes)
    BY SMT, <2>7, Room
  <2> HIDE DEF R, S
  <2>9. R \in StoreView!PutOutcomes(S, k)
    BY ZenonT(60), <2>6, <2>7, <2>8, Outcome
  <2> QED
    BY ZenonT(60), <2>5, <2>9 DEF R, S
<1>3. CASE k \notin Items(s)
  <2>1. e = EvictLocked(Grow(s, k))
    BY <1>3, Cases
  <2>2. k \in Key \ Items(s)
    BY <1>3
  <2>3. Sound(e) /\ Agrees(e, ToFront(r, k), l \ {k})
    BY <2>1, <2>2, InsertTold
  <2>4. Entered(s, k, e)
    BY ZenonT(60), <2>1, <2>2, Inserted
  <2>5. /\ Items(e) \subseteq Items(s) \cup {k} /\ e.old = s.old \cap Items(e)
        /\ k \notin Items(e) => Size[k] > MaxShardBytes /\ Items(e) = {}
    BY <2>4 DEF Entered
  <2>6. R \in SUBSET (S \cup {k}) /\ k \notin S
    BY <1>3, <2>5
  <2>7. Items(e) \in SUBSET Key /\ Bytes(Items(e)) <= MaxShardBytes
    BY <2>3, ShardIs
  <2>8. R \in SUBSET Items(e) /\ R \in SUBSET Key
    BY <2>7
  <2>9. Bytes(R) <= MaxShardBytes
    <3> HIDE DEF R
    <3>1. Bytes(R) <= Bytes(Items(e)) /\ Bytes(R) \in Nat /\ Bytes(Items(e)) \in Nat
      BY ZenonT(60), <2>7, <2>8, BytesGrow, UnitsFinite
    <3> QED
      BY SMT, <2>7, <3>1, Room
  <2>10. ASSUME Size[k] > MaxShardBytes PROVE R = {}
    <3>1. k \notin Items(e)
      <4> SUFFICES ASSUME k \in Items(e) PROVE FALSE
        OBVIOUS
      <4>1. {k} \in SUBSET Items(e) /\ {k} \in SUBSET Key
        OBVIOUS
      <4>2. Bytes({k}) <= Bytes(Items(e)) /\ Bytes({k}) \in Nat /\ Bytes(Items(e)) \in Nat
        BY ZenonT(60), <2>7, <4>1, BytesGrow, UnitsFinite
      <4>3. Bytes({k}) = Size[k]
        BY BytesOne
      <4> QED
        <5>1. Size[k] <= MaxShardBytes /\ Size[k] \in Nat
          BY ZenonT(60), <2>7, <4>2, <4>3, Room, AtMost
        <5> QED
          BY <2>10, <5>1, Room, NotAbove
    <3> QED
      BY ZenonT(60), <2>5, <3>1
  <2>11. ASSUME ~(Size[k] > MaxShardBytes) PROVE k \in R
    <3>1. k \notin s.old
      BY <1>1, <1>3
    <3> QED
      BY ZenonT(60), <2>5, <2>11, <3>1
  <2> HIDE DEF R, S
  <2>12. R \in StoreView!PutOutcomes(S, k)
    BY ZenonT(60), <2>6, <2>9, <2>10, <2>11, Outcome
  <2> QED
    BY <2>3, <2>12 DEF R, S
<1> QED
  BY ZenonT(60), <1>2, <1>3

\* Get, of the list, of its history and of the store.
LEMMA GetStep ==
  ASSUME NEW s, Sound(s), NEW r, NEW l, Agrees(s, r, l), NEW k \in Key, NEW e, e = AfterGet(s, k)
  PROVE  /\ Sound(e) /\ Agrees(e, IF Has(s, k) THEN ToFront(r, k) ELSE r, l)
         /\ Items(e) \ e.old = Items(s) \ s.old
<1>1. s.old = Items(s) \cap l /\ s.old \subseteq Items(s)
  BY ShardIs DEF Agrees
<1>2. CASE k \notin Items(s)
  <2>1. e = s /\ ~Has(s, k)
    BY ZenonT(60), <1>2, Cases DEF Has
  <2> QED
    BY <2>1
<1>3. CASE k \in s.old
  <2>1. e = RemoveLocked(s, k) /\ ~Has(s, k)
    BY <1>3, Cases DEF Has
  <2>2. Sound(e) /\ Agrees(e, r, l)
    BY <1>3, <2>1, DropTold
  <2>3. Items(e) = Items(s) \ {k} /\ e.old = s.old \ {k}
    BY ZenonT(60), <1>3, <2>1, Dropped
  <2>4. Items(e) \ e.old = Items(s) \ s.old
    <3>1. ASSUME NEW x \in Items(e) \ e.old PROVE x \in Items(s) \ s.old
      BY <2>3
    <3>2. ASSUME NEW x \in Items(s) \ s.old PROVE x \in Items(e) \ e.old
      BY ZenonT(60), <1>3, <2>3
    <3> QED
      BY ZenonT(60), <3>1, <3>2
  <2> QED
    BY ZenonT(60), <2>1, <2>2, <2>4
<1>4. CASE k \in Items(s) \ s.old
  <2>1. e = Refresh(s, k, s.old) /\ Has(s, k)
    BY ZenonT(60), <1>4, Cases DEF Has
  <2>2. k \in Items(s) /\ s.old \in SUBSET s.old
    BY <1>4
  <2>3. l \in SUBSET l /\ l \subseteq l \cup {k} /\ e = Refresh(s, k, Items(s) \cap l)
    BY ZenonT(60), <1>1, <2>1
  <2>4. Sound(e) /\ Agrees(e, ToFront(r, k), l)
    BY ZenonT(60), <2>2, <2>3, RefreshTold
  <2>5. Moved(s, k, s.old, e)
    BY ZenonT(60), <2>1, <2>2, Refreshed
  <2>6. Items(e) = Items(s) /\ e.old = s.old
    BY <2>5 DEF Moved
  <2> QED
    BY ZenonT(60), <2>1, <2>4, <2>6
<1> QED
  BY ZenonT(60), <1>2, <1>3, <1>4

\* A miss has its reason.
LEMMA MissEarned ==
  ASSUME Sound(shard), Agrees(shard, recent, lapsed), NEW k, ~Has(shard, k)
  PROVE  MayMiss(k)
<1>1. /\ shard.old = Items(shard) \cap lapsed
      /\ \A x \in (Range(recent) \ lapsed) \ Items(shard) : Bytes(Upto(recent, x)) > MaxShardBytes
  BY DEF Agrees
<1>2. k \notin Items(shard) \/ k \in lapsed
  BY <1>1 DEF Has
<1> QED
  BY ZenonT(60), <1>1, <1>2 DEF MayMiss

-----------------------------------------------------------------------------
(* The request being served. *)

\* What a request has, and the request there is not.
LEMMA ShapeIs ==
  ASSUME NEW p, Shape(p)
  PROVE  DOMAIN p = Fields
BY DEF Shape

\* No request is one.
LEMMA NoRequest == Request(NoPull)
<1>1. Shape(NoPull)
  BY DEF Shape, Fields, NoPull
<1>2. /\ NoPull.pc = "idle" /\ NoPull.route = "other" /\ NoPull.obj = None /\ NoPull.code = 0
      /\ NoPull.earned = TRUE
  BY DEF NoPull
<1>3. "idle" \in Phases /\ 0 \in Codes /\ "other" \in Routes
  BY ZenonT(60) DEF Phases, Codes, Routes
<1> QED
  BY ZenonT(60), <1>1, <1>2, <1>3 DEF Request

\* A request that differs from one in its phase, its code and its bytes.
LEMMA Alike ==
  ASSUME NEW p, Request(p), NEW t, Shape(t), t.pc \in Phases, t.code \in Codes,
         t.route = p.route, t.obj = p.obj, t.earned = p.earned
  PROVE  Request(t)
<1>1. p.route \in Routes /\ p.obj \in Key \cup {None} /\ p.earned
  BY DEF Request
<1>2. t.route \in Routes /\ t.obj \in Key \cup {None} /\ t.earned
  BY <1>1
<1> QED
  BY <1>2 DEF Request

\* The answer, and that for an object which is not found.
Answers == {200, 400, 404, 500}
Answer(p, c) == [p EXCEPT !.pc = "reply", !.code = c]
NotFound(route, k, earned) ==
  [NoPull EXCEPT !.pc = "reply", !.route = route, !.obj = k, !.code = 404, !.earned = earned]

\* An answered request is one.
LEMMA Answered ==
  ASSUME NEW p, Request(p), NEW c \in Answers
  PROVE  Request(Answer(p, c))
<1> DEFINE t == [p EXCEPT !.pc = "reply", !.code = c]
<1>1. Shape(p) /\ DOMAIN p = Fields
  BY ShapeIs DEF Request
<1>2. Shape(t)
  BY <1>1 DEF Shape
<1>3. /\ t.pc = "reply" /\ t.code = c
      /\ t.route = p.route /\ t.obj = p.obj /\ t.earned = p.earned
  BY SMT, <1>1 DEF Fields
<1> HIDE DEF t
<1>4. Request(t)
  <2>1. "reply" \in Phases /\ c \in Codes
    BY SMT DEF Phases, Codes, Answers
  <2>2. t.pc \in Phases /\ t.code \in Codes
    BY ZenonT(60), <1>3, <2>1
  <2> QED
    BY ZenonT(60), <1>2, <1>3, <2>2, Alike
<1> QED
  BY <1>4 DEF t, Answer

\* What is to do and what has been gathered are any bytes.
LEMMA Gathered ==
  ASSUME NEW p, Request(p), NEW c \in Answers, NEW todo, NEW body
  PROVE  /\ Request([p EXCEPT !.todo = todo])
         /\ Request([p EXCEPT !.todo = todo, !.body = body])
         /\ Request([p EXCEPT !.pc = "member", !.todo = todo])
         /\ Request([p EXCEPT !.pc = "reply", !.code = c, !.body = body])
<1> DEFINE t == [p EXCEPT !.todo = todo]
           u == [p EXCEPT !.todo = todo, !.body = body]
           w == [p EXCEPT !.pc = "member", !.todo = todo]
           x == [p EXCEPT !.pc = "reply", !.code = c, !.body = body]
<1>1. Shape(p) /\ DOMAIN p = Fields
  BY ShapeIs DEF Request
<1>2. Shape(t) /\ Shape(u) /\ Shape(w) /\ Shape(x)
  <2>1. Shape(t)
    BY ZenonT(60), <1>1 DEF Shape
  <2>2. Shape(u)
    BY <1>1 DEF Shape
  <2>4. Shape(w)
    BY ZenonT(60), <1>1 DEF Shape
  <2>5. Shape(x)
    BY ZenonT(60), <1>1 DEF Shape
  <2> QED
    BY ZenonT(60), <2>1, <2>2, <2>4, <2>5
<1>3. t.pc = p.pc /\ t.code = p.code /\ t.route = p.route /\ t.obj = p.obj /\ t.earned = p.earned
  BY SMT, <1>1 DEF Fields
<1>4. u.pc = p.pc /\ u.code = p.code /\ u.route = p.route /\ u.obj = p.obj /\ u.earned = p.earned
  BY SMT, <1>1 DEF Fields
<1>6. w.pc = "member" /\ w.code = p.code /\ w.route = p.route /\ w.obj = p.obj /\ w.earned = p.earned
  BY SMT, <1>1 DEF Fields
<1>7. x.pc = "reply" /\ x.code = c /\ x.route = p.route /\ x.obj = p.obj /\ x.earned = p.earned
  BY SMT, <1>1 DEF Fields
<1> HIDE DEF t, u, w, x
<1>8. /\ p.pc \in Phases /\ p.code \in Codes
      /\ "member" \in Phases /\ "reply" \in Phases /\ c \in Codes
  <2>1. "member" \in Phases /\ "reply" \in Phases /\ c \in Codes
    BY SMT DEF Phases, Codes, Answers
  <2> QED
    BY <2>1 DEF Request
<1>9. Request(t)
  <2>1. t.pc \in Phases /\ t.code \in Codes
    BY ZenonT(60), <1>3, <1>8
  <2> QED
    BY ZenonT(60), <1>2, <1>3, <2>1, Alike
<1>10. Request(u)
  <2>1. u.pc \in Phases /\ u.code \in Codes
    BY <1>4, <1>8
  <2> QED
    BY ZenonT(60), <1>2, <1>4, <2>1, Alike
<1>12. Request(w)
  <2>1. w.pc \in Phases /\ w.code \in Codes
    BY <1>6, <1>8
  <2> QED
    BY ZenonT(60), <1>2, <1>6, <2>1, Alike
<1>13. Request(x)
  <2>1. x.pc \in Phases /\ x.code \in Codes
    BY <1>7, <1>8
  <2> QED
    BY ZenonT(60), <1>2, <1>7, <2>1, Alike
<1> QED
  BY ZenonT(60), <1>9, <1>10, <1>12, <1>13 DEF t, u, w, x

\* A new request, found or not.
LEMMA Asked ==
  ASSUME NEW route \in Routes, NEW k \in Key, NEW earned, earned
  PROVE  /\ Request([NoPull EXCEPT !.route = route, !.obj = k])
         /\ Request(NotFound(route, k, earned))
<1> DEFINE t == [NoPull EXCEPT !.route = route, !.obj = k]
           v == [NoPull EXCEPT !.pc = "reply", !.route = route, !.obj = k, !.code = 404,
                               !.earned = earned]
<1>1. Request(NoPull) /\ Shape(NoPull) /\ DOMAIN NoPull = Fields
  BY ZenonT(60), NoRequest, ShapeIs DEF Request
<1>2. Shape(t)
  BY <1>1 DEF Shape
<1>4. Shape(v)
  <2> DEFINE y == [NoPull EXCEPT !.pc = "reply", !.route = route, !.obj = k]
             z == [y EXCEPT !.code = 404, !.earned = earned]
  <2>1. v = z
    BY SMT
  <2>2. Shape(y)
    BY <1>1 DEF Shape
  <2> HIDE DEF y
  <2>3. Shape(z)
    BY ZenonT(60), <2>2, ShapeIs DEF Shape
  <2> HIDE DEF z, v
  <2> QED
    BY ZenonT(60), <2>1, <2>3
<1>5. t.pc = NoPull.pc /\ t.code = NoPull.code /\ t.route = route /\ t.obj = k /\ t.earned = NoPull.earned
  BY SMT, <1>1 DEF Fields
<1>7. v.pc = "reply" /\ v.code = 404 /\ v.route = route /\ v.obj = k /\ v.earned = earned
  BY SMT, <1>1 DEF Fields
<1> HIDE DEF t, v
<1>8. Request(t)
  <2>1. NoPull.pc \in Phases /\ NoPull.code \in Codes /\ NoPull.earned
    BY <1>1 DEF Request
  <2> QED
    BY ZenonT(60), <1>2, <1>5, <2>1 DEF Request
<1>9. Request(v)
  <2>1. "reply" \in Phases /\ 404 \in Codes
    BY ZenonT(60) DEF Phases, Codes
  <2> QED
    BY ZenonT(60), <1>4, <1>7, <2>1 DEF Request
<1> QED
  BY ZenonT(60), <1>8, <1>9 DEF t, v, NotFound

\* A request for the transactions of a list.
LEMMA TxsAsked ==
  ASSUME NEW ids, NEW todo
  PROVE  Request([NoPull EXCEPT !.pc = "member", !.route = "txs", !.ids = ids, !.todo = todo])
<1> DEFINE y == [NoPull EXCEPT !.pc = "member", !.route = "txs"]
           z == [y EXCEPT !.ids = ids, !.todo = todo]
           u == [NoPull EXCEPT !.pc = "member", !.route = "txs", !.ids = ids, !.todo = todo]
<1>1. Request(NoPull) /\ Shape(NoPull) /\ DOMAIN NoPull = Fields
  BY ZenonT(60), NoRequest, ShapeIs DEF Request
<1>2. u = z
  BY SMT
<1>3. Shape(y)
  BY <1>1 DEF Shape
<1>4. /\ u.pc = "member" /\ u.code = NoPull.code /\ u.route = "txs" /\ u.obj = NoPull.obj
      /\ u.earned = NoPull.earned
  BY SMT, <1>1 DEF Fields
<1> HIDE DEF y
<1>5. Shape(z)
  BY ZenonT(60), <1>3, ShapeIs DEF Shape
<1> HIDE DEF z, u
<1>6. /\ "txs" \in Routes /\ "member" \in Phases /\ NoPull.code \in Codes
      /\ NoPull.earned /\ NoPull.obj \in Key \cup {None}
  BY <1>1 DEF Request, Routes, Phases
<1>7. Request(u)
  BY ZenonT(60), <1>2, <1>4, <1>5, <1>6 DEF Request
<1> QED
  BY <1>7 DEF u

\* What a route makes of a frame it has found.
LEMMA FoundRequest ==
  ASSUME NEW route \in Routes, NEW k \in Key
  PROVE  Request(Found(route, k))
<1> DEFINE req == [NoPull EXCEPT !.route = route, !.obj = k]
           nodes == From(FrameOf(k), SubtreeHeader)
           block == ToTeranode(FrameOf(k))
           long == Len(FrameOf(k)) >= SubtreeHeader
<1>1. Request(req)
  BY Asked
<1>2. Found(route, k) = CASE route = "subtree" /\ long ->
             [req EXCEPT !.pc = "reply", !.code = 200, !.body = nodes]
        [] route = "subtree_data" -> [req EXCEPT !.pc = "member", !.todo = nodes]
        [] route = "block" /\ block # Refused ->
             [req EXCEPT !.pc = "reply", !.code = 200, !.body = block]
        [] OTHER -> [req EXCEPT !.pc = "reply", !.code = 500]
  BY DEF Found
<1> HIDE DEF req, nodes, block, long
<1> DEFINE ok == 200
           a == [req EXCEPT !.pc = "reply", !.code = ok, !.body = nodes]
           b == [req EXCEPT !.pc = "member", !.todo = nodes]
           c == [req EXCEPT !.pc = "reply", !.code = ok, !.body = block]
           d == [req EXCEPT !.pc = "reply", !.code = 500]
<1>8. Found(route, k) = CASE route = "subtree" /\ long -> a [] route = "subtree_data" -> b
        [] route = "block" /\ block # Refused -> c [] OTHER -> d
  BY <1>2
<1>3. ok \in Answers
  BY SMT DEF Answers
<1> HIDE DEF ok
<1>4. Request(a)
  BY ZenonT(60), <1>1, <1>3, Gathered
<1>5. Request(b)
  BY ZenonT(60), <1>1, <1>3, Gathered
<1>6. Request(c)
  BY <1>1, <1>3, Gathered
<1>7. Request(d)
  <2> DEFINE n == 500
  <2>1. n \in Answers
    BY SMT DEF Answers
  <2> HIDE DEF n
  <2>2. Request(Answer(req, n))
    BY ZenonT(60), <1>1, <2>1, Answered
  <2> QED
    BY <2>2 DEF n, Answer
<1> HIDE DEF a, b, c, d
<1>9. Found(route, k) \in {a, b, c, d}
  BY ZenonT(60), <1>8
<1> QED
  BY <1>4, <1>5, <1>6, <1>7, <1>9

\* Put by a lane.
LEMMA StoreStep ==
  ASSUME ServeInv, NEW announces \in BOOLEAN, Store(announces)
  PROVE  /\ ServeInv'
         /\ StoreView!Put(job.obj)
<1>1. job.obj \in Key /\ job \in [pc : {"idle", "put", "announce", "told"}, obj : Key \cup {None}]
  BY SMT DEF ServeInv, JobInv, Store
<1>2. /\ shard' = Put(shard, job.obj) /\ recent' = ToFront(recent, job.obj)
      /\ lapsed' = lapsed \ {job.obj}
      /\ UNCHANGED <<pull, group>>
  BY DEF Store, Use
<1>3. Sound(shard) /\ Agrees(shard, recent, lapsed)
  BY DEF ServeInv
<1>4. /\ Sound(shard') /\ Agrees(shard', ToFront(recent, job.obj), lapsed \ {job.obj})
      /\ Items(shard') \ shard'.old \in StoreView!PutOutcomes(Items(shard) \ shard.old, job.obj)
  BY ZenonT(60), <1>1, <1>2, <1>3, PutStep
<1>5. Sound(shard)' /\ Agrees(shard, recent, lapsed)'
  BY ZenonT(60), <1>2, <1>4 DEF Sound, Agrees
<1>6. JobInv'
  <2>1. job' = IF announces THEN [job EXCEPT !.pc = "announce"] ELSE NoJob
    BY DEF Store
  <2> QED
    BY ZenonT(60), <1>1, <2>1 DEF JobInv, NoJob
<1>7. Request(pull)' /\ RestInv'
  BY <1>2 DEF ServeInv, Request, Shape, RestInv, group
<1>8. StoreView!Put(job.obj)
  BY <1>4 DEF StoreView!Put, Items
<1> QED
  BY ZenonT(60), <1>5, <1>6, <1>7, <1>8 DEF ServeInv

\* Get by the retrieval plane.
LEMMA PullStep ==
  ASSUME ServeInv, NEW route \in Routes, NEW k \in Key, Pull(route, k)
  PROVE  /\ ServeInv'
         /\ Items(shard') \ shard'.old = Items(shard) \ shard.old
<1>1. Sound(shard) /\ Agrees(shard, recent, lapsed)
  BY DEF ServeInv
<1> DEFINE hit == Has(shard, k)
           miss == [NoPull EXCEPT !.pc = "reply", !.route = route, !.obj = k,
                                  !.code = 404, !.earned = MayMiss(k)]
<1>2. /\ shard' = AfterGet(shard, k)
      /\ recent' = IF hit THEN ToFront(recent, k) ELSE recent
      /\ pull' = IF hit THEN Found(route, k) ELSE miss
      /\ UNCHANGED <<job, group, lapsed>>
  <2>1. ParseDisplay(Display(k)) = k
    BY Readable
  <2> QED
    BY ZenonT(60), <2>1 DEF Pull
<1>3. /\ Sound(shard') /\ Agrees(shard', IF hit THEN ToFront(recent, k) ELSE recent, lapsed)
      /\ Items(shard') \ shard'.old = Items(shard) \ shard.old
  BY ZenonT(60), <1>1, <1>2, GetStep
<1>4. Sound(shard)' /\ Agrees(shard, recent, lapsed)'
  BY ZenonT(60), <1>2, <1>3 DEF Sound, Agrees
<1>5. Request(pull')
  <2>1. CASE hit
    <3>1. Request(Found(route, k))
      BY FoundRequest
    <3>2. pull' = Found(route, k)
      BY ZenonT(60), <1>2, <2>1
    <3> QED
      BY ZenonT(60), <3>1, <3>2
  <2>2. CASE ~hit
    <3>1. MayMiss(k)
      BY ZenonT(60), <1>1, <2>2, MissEarned
    <3>2. Request(miss)
      <4> DEFINE earned == MayMiss(k)
      <4>1. earned
        BY ZenonT(60), <3>1
      <4> HIDE DEF earned
      <4>2. Request(NotFound(route, k, earned))
        BY ZenonT(60), <4>1, Asked
      <4> QED
        BY ZenonT(60), <4>2 DEF earned, NotFound
    <3>3. pull' = miss
      BY ZenonT(60), <1>2, <2>2
    <3> HIDE DEF miss
    <3> QED
      BY ZenonT(60), <3>2, <3>3
  <2> QED
    BY ZenonT(60), <2>1, <2>2
<1>6. Request(pull)'
  BY <1>5 DEF Request, Shape
<1>7. JobInv' /\ RestInv'
  BY <1>2 DEF ServeInv, JobInv, RestInv, group
<1> QED
  BY ZenonT(60), <1>3, <1>4, <1>6, <1>7 DEF ServeInv

\* An entry passes its ttl.
LEMMA LapseStep ==
  ASSUME ServeInv, NEW k \in Key, Lapse(k)
  PROVE  /\ ServeInv'
         /\ StoreView!Lapse
<1>1. Sound(shard) /\ Agrees(shard, recent, lapsed)
  BY DEF ServeInv
<1>2. /\ k \in Items(shard) /\ shard' = Expire(shard, k) /\ lapsed' = lapsed \cup {k}
      /\ UNCHANGED <<job, pull, group, recent>>
  BY DEF Lapse, Has
<1>3. shard' = [lru |-> shard.lru, old |-> shard.old \cup {k}, bytes |-> shard.bytes]
  <2>1. shard \in [lru : Lists, old : SUBSET Key, bytes : Nat]
    BY ZenonT(60), <1>1 DEF Sound, Shard, Lists
  <2>2. shard' = [shard EXCEPT !.old = shard.old \cup {k}]
    BY ZenonT(60), <1>2 DEF Expire
  <2> QED
    BY ZenonT(60), <2>1, <2>2
<1>4. Sound(shard') /\ Agrees(shard', recent, lapsed \cup {k})
  BY ZenonT(60), <1>1, <1>2, <1>3, LapseTold
<1>5. Items(shard') = Items(shard) /\ shard'.old = shard.old \cup {k}
  <2>1. shard'.lru = shard.lru /\ shard'.old = shard.old \cup {k}
    BY SMT, <1>3
  <2> QED
    BY ZenonT(60), <2>1 DEF Items
<1>6. Sound(shard)' /\ Agrees(shard, recent, lapsed)'
  BY ZenonT(60), <1>2, <1>4 DEF Sound, Agrees
<1>7. JobInv' /\ Request(pull)' /\ RestInv'
  BY ZenonT(60), <1>2 DEF ServeInv, JobInv, Request, Shape, RestInv, group
<1>8. StoreView!Lapse
  BY ZenonT(60), <1>5 DEF StoreView!Lapse, Items
<1> QED
  BY ZenonT(60), <1>6, <1>7, <1>8 DEF ServeInv

\* A step that leaves the list and its history alone.
LEMMA OtherStep ==
  ASSUME ServeInv, UNCHANGED <<shard, history>>, JobInv', Request(pull'), RestInv'
  PROVE  ServeInv'
<1>1. Sound(shard)' /\ Agrees(shard, recent, lapsed)'
  BY DEF ServeInv, Sound, Agrees, history
<1>2. Request(pull)'
  BY DEF Request, Shape
<1> QED
  BY ZenonT(60), <1>1, <1>2 DEF ServeInv

\* The lane's steps but Put.
LEMMA LaneStep ==
  ASSUME ServeInv,
         \/ \E k \in Key : Deliver(k)
         \/ \E ok \in BOOLEAN : Announce(ok)
         \/ Told
  PROVE  ServeInv' /\ UNCHANGED <<shard, history>>
<1>1. /\ job \in [pc : {"idle", "put", "announce", "told"}, obj : Key \cup {None}]
      /\ job.pc # "idle" => job.obj \in Key
      /\ Request(pull) /\ RestInv
  BY DEF ServeInv, JobInv
<1>2. CASE \E k \in Key : Deliver(k)
  <2>1. PICK k \in Key : Deliver(k)
    BY <1>2
  <2>2. job' = [pc |-> "put", obj |-> k] /\ UNCHANGED <<shard, pull, group, history>>
    BY ZenonT(60), <2>1 DEF Deliver
  <2>3. JobInv'
    BY ZenonT(60), <2>1, <2>2 DEF JobInv
  <2>4. Request(pull') /\ RestInv'
    BY ZenonT(60), <1>1, <2>2 DEF RestInv, group
  <2> QED
    BY ZenonT(60), <2>2, <2>3, <2>4, OtherStep
<1>3. CASE \E ok \in BOOLEAN : Announce(ok)
  <2>1. PICK ok \in BOOLEAN : Announce(ok)
    BY ZenonT(60), <1>3
  <2>2. /\ job.pc = "announce" /\ job' = IF ok THEN [job EXCEPT !.pc = "told"] ELSE NoJob
        /\ UNCHANGED <<shard, pull, group, history>>
    BY <2>1 DEF Announce
  <2>3. JobInv'
    BY ZenonT(60), <1>1, <2>2 DEF JobInv, NoJob
  <2>4. Request(pull') /\ RestInv'
    BY ZenonT(60), <1>1, <2>2 DEF RestInv, group
  <2> QED
    BY ZenonT(60), <2>2, <2>3, <2>4, OtherStep
<1>4. CASE Told
  <2>2. job' = NoJob /\ UNCHANGED <<shard, pull, group, history>>
    BY <1>4 DEF Told
  <2>4. JobInv'
    BY SMT, <2>2 DEF JobInv, NoJob
  <2>7. Request(pull') /\ RestInv'
    BY ZenonT(60), <1>1, <2>2 DEF RestInv, group
  <2> QED
    BY ZenonT(60), <2>2, <2>4, <2>7, OtherStep
<1> QED
  BY ZenonT(60), <1>2, <1>3, <1>4

\* The steps of a request but Get.
LEMMA RequestStep ==
  ASSUME ServeInv,
         \/ \E ids \in Batches : PullTxs(ids)
         \/ \E tx \in {"held", "missing", "broken"} : Member(tx)
         \/ \E code \in {400, 404, 500} : Refuse(code)
         \/ MembersDone \/ Written
  PROVE  ServeInv' /\ UNCHANGED <<shard, history>>
<1>1. JobInv /\ Request(pull) /\ RestInv
  BY DEF ServeInv
<1>2. ASSUME NEW code \in Answers, Reply(code) PROVE Request(pull')
  <2>1. pull' = Answer(pull, code)
    BY <1>2 DEF Reply, Answer
  <2>2. Request(Answer(pull, code))
    BY ZenonT(60), <1>1, Answered
  <2> QED
    BY ZenonT(60), <2>1, <2>2
<1>3. 200 \in Answers /\ 404 \in Answers /\ 500 \in Answers /\ {400, 404, 500} \subseteq Answers
  BY SMT DEF Answers
<1>4. UNCHANGED <<shard, job, group, history>>
  BY ZenonT(30) DEF PullTxs, Member, Refuse, MembersDone, Written
<1>5. JobInv' /\ RestInv'
  BY <1>1, <1>4 DEF JobInv, RestInv, group
<1> SUFFICES Request(pull')
  BY <1>4, <1>5, OtherStep
<1>12. Reply(200) \/ Reply(404) \/ Reply(500) => Request(pull')
  BY SMTT(30), <1>2, <1>3
<1>6. CASE \E ids \in Batches : PullTxs(ids)
  <2>1. PICK ids \in Batches : PullTxs(ids)
    BY ZenonT(60), <1>6
  <2> DEFINE todo == Flatten(Limited(ids))
  <2>2. pull' = [NoPull EXCEPT !.pc = "member", !.route = "txs", !.ids = ids, !.todo = todo]
    BY ZenonT(60), <2>1 DEF PullTxs
  <2> HIDE DEF todo
  <2>3. Request([NoPull EXCEPT !.pc = "member", !.route = "txs", !.ids = ids, !.todo = todo])
    BY TxsAsked
  <2> QED
    BY ZenonT(60), <2>2, <2>3
<1>7. CASE \E tx \in {"held", "missing", "broken"} : Member(tx)
  <2>1. PICK tx \in {"held", "missing", "broken"} : Member(tx)
    BY <1>7
  <2> DEFINE id == Slice(pull.todo, 0, HashLen)
             rest == From(pull.todo, HashLen)
             body == Append(pull.body, toStandard(id))
  <2>2. \/ pull' = [pull EXCEPT !.todo = rest]
        \/ pull' = [pull EXCEPT !.todo = rest, !.body = body]
        \/ Reply(404) \/ Reply(500)
    BY ZenonT(60), <2>1 DEF Member
  <2> HIDE DEF rest, body
  <2>3. Request([pull EXCEPT !.todo = rest]) /\ Request([pull EXCEPT !.todo = rest, !.body = body])
    BY ZenonT(60), <1>1, <1>3, Gathered
  <2> DEFINE t == [pull EXCEPT !.todo = rest]
             u == [pull EXCEPT !.todo = rest, !.body = body]
  <2>4. (pull' = t \/ pull' = u \/ Reply(404) \/ Reply(500)) /\ Request(t) /\ Request(u)
    BY ZenonT(60), <2>2, <2>3
  <2> HIDE DEF t, u
  <2> QED
    BY ZenonT(60), <1>12, <2>4
<1>8. CASE \E code \in {400, 404, 500} : Refuse(code)
  <2>1. PICK code \in {400, 404, 500} : Refuse(code)
    BY ZenonT(60), <1>8
  <2>2. code \in Answers
    BY SMT DEF Answers
  <2>3. Reply(code)
    BY ZenonT(60), <2>1 DEF Refuse
  <2> QED
    BY ZenonT(60), <1>2, <2>2, <2>3
<1>9. CASE MembersDone
  BY <1>9, <1>12 DEF MembersDone
<1>11. CASE Written
  BY ZenonT(60), <1>11, NoRequest DEF Written
<1> QED
  BY ZenonT(60), <1>6, <1>7, <1>8, <1>9, <1>11

\* Start and stop.
LEMMA GroupStep ==
  ASSUME ServeInv,
         (\E ok \in BOOLEAN : Listen(ok)) \/ Cancel \/ Shutdown \/ LaneReturns \/ Exit \/ UNCHANGED vars
  PROVE  ServeInv' /\ UNCHANGED <<shard, history>>
<1>1. JobInv /\ Request(pull) /\ RestInv
  BY DEF ServeInv
<1>2. UNCHANGED <<shard, job, pull, history>>
  BY ZenonT(30) DEF Listen, Cancel, Shutdown, LaneReturns, Exit, vars
<1>3. /\ plane' \in {"off", "listening", "closed", "failed"}
      /\ cancelled' \in BOOLEAN
      /\ lane' \in {"up", "returned"}
  BY <1>1 DEF RestInv, Listen, Cancel, Shutdown, LaneReturns, Exit, vars, group
<1>4. JobInv' /\ Request(pull') /\ RestInv'
  BY ZenonT(60), <1>1, <1>2, <1>3 DEF JobInv, RestInv
<1> QED
  BY ZenonT(60), <1>2, <1>4, OtherStep

-----------------------------------------------------------------------------
(* The cache in every state. *)

\* It starts empty, before anything was used.
LEMMA ServeInit ==
  ASSUME Init
  PROVE  ServeInv
<1> DEFINE q == <<>>
<1>1. q \in Seq(Key) /\ DOMAIN q = {}
  BY SMT
<1>2. q \in Lists /\ Range(q) = {}
  <2> HIDE DEF q
  <2>1. \A i, j \in DOMAIN q : q[i] = q[j] => i = j
    BY <1>1
  <2> QED
    BY ZenonT(60), <1>1, <2>1, ListMade DEF Range
<1>3. shard = [lru |-> q, old |-> {}, bytes |-> 0] /\ recent = q /\ lapsed = {}
  BY DEF Init, NewShard
<1> HIDE DEF q
<1>4. /\ shard.lru = q /\ shard.old = {} /\ shard.bytes = 0
      /\ shard = [lru |-> shard.lru, old |-> shard.old, bytes |-> shard.bytes]
  BY ZenonT(60), <1>3
<1>5. Bytes({}) = 0 /\ 0 <= MaxShardBytes
  <2>1. 0 <= MaxShardBytes
    BY SMT, Room
  <2> QED
    BY ZenonT(60), <2>1, BytesNone
<1>6. shard.old \subseteq Range(shard.lru) /\ shard.bytes = Bytes(Range(shard.lru))
  BY ZenonT(60), <1>2, <1>4, <1>5
<1>7. Sound(shard) /\ Items(shard) = {}
  BY ZenonT(60), <1>2, <1>4, <1>5, <1>6, ShardMade
<1>8. Agrees(shard, recent, lapsed)
  BY ZenonT(60), <1>2, <1>3, <1>4, <1>7 DEF Agrees
<1>9. JobInv /\ Request(pull) /\ RestInv
  <2>1. JobInv
    BY SMT DEF Init, JobInv, NoJob
  <2>2. Request(pull)
    BY NoRequest DEF Init
  <2>3. RestInv
    BY DEF Init, RestInv
  <2> QED
    BY ZenonT(60), <2>1, <2>2, <2>3
<1> QED
  BY ZenonT(60), <1>7, <1>8, <1>9 DEF ServeInv

\* The kinds of steps.
LEMMA Kinds ==
  ASSUME [Next]_vars
  PROVE  \/ \E announces \in BOOLEAN : Store(announces)
         \/ \E route \in Routes, k \in Key : Pull(route, k)
         \/ \E k \in Key : Lapse(k)
         \/ \/ \E k \in Key : Deliver(k)
            \/ \E ok \in BOOLEAN : Announce(ok)
            \/ Told
         \/ \/ \E ids \in Batches : PullTxs(ids)
            \/ \E tx \in {"held", "missing", "broken"} : Member(tx)
            \/ \E code \in {400, 404, 500} : Refuse(code)
            \/ MembersDone \/ Written
         \/ (\E ok \in BOOLEAN : Listen(ok)) \/ Cancel \/ Shutdown \/ LaneReturns \/ Exit \/ UNCHANGED vars
BY ZenonT(90) DEF Next

\* A step of the plane keeps the invariant, and is a step of the store or leaves it alone.
LEMMA ServeStep ==
  ASSUME ServeInv, [Next]_vars
  PROVE  ServeInv' /\ [StoreView!Next]_(Items(shard) \ shard.old)
<1>1. CASE \E announces \in BOOLEAN : Store(announces)
  <2>1. PICK announces \in BOOLEAN : Store(announces)
    BY <1>1
  <2>2. ServeInv' /\ StoreView!Put(job.obj)
    BY <2>1, StoreStep
  <2>3. job.obj \in Key
    BY <2>1 DEF ServeInv, JobInv, Store
  <2> QED
    BY <2>2, <2>3 DEF StoreView!Next
<1>2. CASE \E route \in Routes, k \in Key : Pull(route, k)
  <2>1. ServeInv' /\ Items(shard') \ shard'.old = Items(shard) \ shard.old
    BY ZenonT(60), <1>2, PullStep
  <2> QED
    BY <2>1 DEF Items
<1>3. CASE \E k \in Key : Lapse(k)
  <2>1. ServeInv' /\ StoreView!Lapse
    BY ZenonT(60), <1>3, LapseStep
  <2> QED
    BY <2>1 DEF StoreView!Next
<1>4. CASE \/ \E k \in Key : Deliver(k)
           \/ \E ok \in BOOLEAN : Announce(ok)
           \/ Told
  <2>1. ServeInv' /\ UNCHANGED <<shard, history>>
    BY ZenonT(60), <1>4, LaneStep
  <2> QED
    BY ZenonT(60), <2>1 DEF Items
<1>5. CASE \/ \E ids \in Batches : PullTxs(ids)
           \/ \E tx \in {"held", "missing", "broken"} : Member(tx)
           \/ \E code \in {400, 404, 500} : Refuse(code)
           \/ MembersDone \/ Written
  <2>1. ServeInv' /\ UNCHANGED <<shard, history>>
    BY ZenonT(60), <1>5, RequestStep
  <2> QED
    BY <2>1 DEF Items
<1>6. CASE (\E ok \in BOOLEAN : Listen(ok)) \/ Cancel \/ Shutdown \/ LaneReturns \/ Exit \/ UNCHANGED vars
  <2>1. ServeInv' /\ UNCHANGED <<shard, history>>
    BY ZenonT(60), <1>6, GroupStep
  <2> QED
    BY <2>1 DEF Items
<1> QED
  BY SMTT(30), <1>1, <1>2, <1>3, <1>4, <1>5, <1>6, Kinds

\* ServeInv is an invariant.
LEMMA ServeAlways == Spec => []ServeInv
<1>1. Init => ServeInv
  BY ServeInit
<1>2. ServeInv /\ [Next]_vars => ServeInv'
  BY ZenonT(60), ServeStep
<1> QED
  BY <1>1, <1>2, PTL DEF Spec

\* For any objects, sizes and capacity, the shard's count is the bytes of its list, through
\* every refresh, eviction, removal and ttl, and every variable keeps its type.
THEOREM CacheCounts == Spec => []TypeOK
<1>1. ServeInv => TypeOK
  BY ZenonT(60) DEF ServeInv, Sound, JobInv, Request, RestInv, TypeOK, Phases, Codes
<1> QED
  BY <1>1, ServeAlways, PTL

\* A pull is answered 404 only for an object that was never stored, whose ttl has passed, or
\* that the objects used since leave no room, for any objects, sizes and capacity.
THEOREM MissesAreEarned == Spec => []MissIsEarned
<1>1. ServeInv => MissIsEarned
  BY DEF ServeInv, Request, MissIsEarned
<1> QED
  BY <1>1, ServeAlways, PTL

\* The LRU list implements the store of Bridge, and a handler's Put is a Put of the store.
THEOREM CacheIsStore == Spec => ImplementsStore
<1>1. Init => StoreView!Init
  <2> SUFFICES ASSUME Init PROVE Items(shard) \ shard.old = {}
    BY DEF StoreView!Init
  <2>1. shard.lru = <<>>
    BY SMT DEF Init, NewShard
  <2>2. DOMAIN (<<>>) = {}
    BY SMT
  <2>3. Items(shard) = {}
    BY ZenonT(60), <2>1, <2>2 DEF Items, Range
  <2> QED
    BY <2>3
<1>2. ServeInv /\ [Next]_vars => [StoreView!Next]_(Items(shard) \ shard.old)
  BY ServeStep
<1>3. ServeInv /\ [Next]_vars => [job.pc = "put" /\ job'.pc # "put" => StoreView!Put(job.obj)]_vars
  <2> SUFFICES ASSUME ServeInv, [Next]_vars, job.pc = "put", job'.pc # "put"
               PROVE  StoreView!Put(job.obj)
    BY ZenonT(60)
  <2>1. \E announces \in BOOLEAN : Store(announces)
    BY ZenonT(60) DEF Next, vars, Deliver, Lapse, PullTxs, Announce, Listen, Member, Told, Pull,
         Refuse, MembersDone, Written, Cancel, Shutdown, LaneReturns, Exit
  <2> QED
    BY ZenonT(60), <2>1, StoreStep
<1> QED
  BY <1>1, <1>2, <1>3, ServeAlways, PTL DEF Spec, ImplementsStore, StoreView!Spec
================================================================================
