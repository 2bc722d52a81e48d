---------------------------- MODULE Backup_proofs ----------------------------
(***************************************************************************)
(* Proofs about the backups of a table: typing, what a backup holds, what  *)
(* a restore deletes and what it brings back.                              *)
(***************************************************************************)
EXTENDS Backup, FiniteSetTheorems, TLAPS

-----------------------------------------------------------------------------
(* Facts about sequences.                                                  *)

LEMMA FromFacts ==
  ASSUME NEW S, NEW s \in Seq(S), NEW n \in Nat
  PROVE  /\ From(s, n) \in Seq(S)
         /\ Len(From(s, n)) = IF n <= Len(s) THEN Len(s) - n ELSE 0
         /\ \A i \in 1 .. Len(From(s, n)) : From(s, n)[i] = s[n + i]
BY DEF From

LEMMA UpToFacts ==
  ASSUME NEW S, NEW s \in Seq(S), NEW n \in Nat
  PROVE  /\ UpTo(s, n) \in Seq(S)
         /\ Len(UpTo(s, n)) = Min2(n, Len(s))
         /\ \A i \in 1 .. Len(UpTo(s, n)) : UpTo(s, n)[i] = s[i]
BY DEF UpTo, Min2

LEMMA SameSeq ==
  ASSUME NEW S, NEW s \in Seq(S), NEW r \in Seq(S), Len(s) = Len(r),
         \A i \in 1 .. Len(s) : s[i] = r[i]
  PROVE  s = r
OBVIOUS

LEMMA Concat ==
  ASSUME NEW S, NEW s \in Seq(S), NEW r \in Seq(S)
  PROVE  /\ s \o r \in Seq(S)
         /\ Len(s \o r) = Len(s) + Len(r)
         /\ \A i \in 1 .. Len(s) + Len(r) :
              (s \o r)[i] = IF i <= Len(s) THEN s[i] ELSE r[i - Len(s)]
OBVIOUS

LEMMA RangeOf ==
  ASSUME NEW S, NEW s \in Seq(S)
  PROVE  /\ Range(s) = {s[i] : i \in 1 .. Len(s)}
         /\ Range(s) \subseteq S
         /\ DOMAIN s = 1 .. Len(s)
BY DEF Range

LEMMA Split ==
  ASSUME NEW S, NEW s \in Seq(S), NEW n \in Nat
  PROVE  Range(UpTo(s, n)) \cup Range(From(s, n)) = Range(s)
<1>1. /\ UpTo(s, n) \in Seq(S) /\ Len(UpTo(s, n)) = Min2(n, Len(s))
      /\ \A i \in 1 .. Len(UpTo(s, n)) : UpTo(s, n)[i] = s[i]
  BY UpToFacts
<1>2. /\ From(s, n) \in Seq(S)
      /\ Len(From(s, n)) = IF n <= Len(s) THEN Len(s) - n ELSE 0
      /\ \A i \in 1 .. Len(From(s, n)) : From(s, n)[i] = s[n + i]
  BY FromFacts
<1> DEFINE u == UpTo(s, n)
           f == From(s, n)
<1>3. /\ Range(u) = {u[i] : i \in 1 .. Len(u)} /\ Range(f) = {f[i] : i \in 1 .. Len(f)}
      /\ Range(s) = {s[i] : i \in 1 .. Len(s)} /\ Len(s) \in Nat
  BY <1>1, <1>2, RangeOf
<1>4. /\ Len(u) = Min2(n, Len(s)) /\ \A i \in 1 .. Len(u) : u[i] = s[i]
      /\ Len(f) = IF n <= Len(s) THEN Len(s) - n ELSE 0
      /\ \A i \in 1 .. Len(f) : f[i] = s[n + i]
  BY <1>1, <1>2
<1> HIDE DEF u, f
<1>5. ASSUME NEW x \in Range(s) PROVE x \in Range(u) \cup Range(f)
  <2>1. PICK i \in 1 .. Len(s) : x = s[i]
    BY <1>3
  <2>2. CASE i <= n
    BY <2>1, <2>2, <1>3, <1>4 DEF Min2
  <2>3. CASE i > n
    <3>1. i - n \in 1 .. Len(f) /\ f[i - n] = s[i]
      BY <2>1, <2>3, <1>3, <1>4
    <3> QED
      BY <3>1, <2>1, <1>3
  <2> QED
    BY <2>1, <2>2, <2>3, <1>3
<1>6. ASSUME NEW x \in Range(u) PROVE x \in Range(s)
  BY <1>3, <1>4 DEF Min2
<1>7. ASSUME NEW x \in Range(f) PROVE x \in Range(s)
  <2>1. PICK i \in 1 .. Len(f) : x = f[i]
    BY <1>3
  <2>2. n + i \in 1 .. Len(s) /\ x = s[n + i]
    BY <2>1, <1>3, <1>4
  <2> QED
    BY <2>2, <1>3
<1> QED
  BY <1>5, <1>6, <1>7 DEF u, f

\* The blocks of a table that stays the same follow each other.
LEMMA NextBlock ==
  ASSUME NEW S, NEW s \in Seq(S), NEW n \in Nat, NEW m \in Nat, n <= Len(s)
  PROVE  UpTo(s, n) \o UpTo(From(s, n), m) = UpTo(s, n + m)
<1> DEFINE u == UpTo(s, n)
           f == From(s, n)
           b == UpTo(f, m)
           w == UpTo(s, n + m)
<1>1. /\ u \in Seq(S) /\ Len(u) = n
      /\ \A i \in 1 .. Len(u) : u[i] = s[i]
  BY UpToFacts DEF Min2
<1>2. /\ f \in Seq(S) /\ Len(f) = Len(s) - n
      /\ \A i \in 1 .. Len(f) : f[i] = s[n + i]
  BY FromFacts
<1> HIDE DEF f
<1>3. /\ b \in Seq(S) /\ Len(b) = Min2(m, Len(f))
      /\ \A i \in 1 .. Len(b) : b[i] = f[i]
  BY <1>2, UpToFacts
<1>4. /\ w \in Seq(S) /\ Len(w) = Min2(n + m, Len(s))
      /\ \A i \in 1 .. Len(w) : w[i] = s[i]
  BY UpToFacts
<1> HIDE DEF u, b, w
<1> DEFINE c == u \o b
<1>5. /\ c \in Seq(S) /\ Len(c) = Len(u) + Len(b)
      /\ \A i \in 1 .. Len(u) + Len(b) : c[i] = IF i <= Len(u) THEN u[i] ELSE b[i - Len(u)]
  BY <1>1, <1>3, Concat
<1> HIDE DEF c
<1>6. Len(c) = Len(w)
  BY <1>1, <1>2, <1>3, <1>4, <1>5 DEF Min2
<1>7. ASSUME NEW i \in 1 .. Len(w) PROVE c[i] = w[i]
  <2>1. i \in 1 .. Len(u) + Len(b) /\ i \in Nat
    BY <1>1, <1>3, <1>5, <1>6
  <2>2. CASE i <= n
    BY <2>1, <2>2, <1>1, <1>4, <1>5, <1>6
  <2>3. CASE i > n
    <3>1. i - n \in 1 .. Len(b)
      BY <2>1, <2>3, <1>1, <1>3
    <3>2. b[i - n] = f[i - n] /\ i - n \in 1 .. Len(f)
      BY <3>1, <1>2, <1>3 DEF Min2
    <3>3. f[i - n] = s[i]
      BY <3>2, <1>2
    <3> QED
      BY <2>1, <2>3, <3>2, <3>3, <1>1, <1>4, <1>5
  <2> QED
    BY <2>1, <2>2, <2>3
<1>8. c = w
  BY <1>4, <1>5, <1>6, <1>7, SameSeq
<1> QED
  BY <1>8 DEF u, b, w, f, c

LEMMA AllOf ==
  ASSUME NEW S, NEW s \in Seq(S), NEW n \in Nat, n >= Len(s)
  PROVE  UpTo(s, n) = s
<1>1. /\ UpTo(s, n) \in Seq(S) /\ Len(UpTo(s, n)) = Len(s)
      /\ \A i \in 1 .. Len(UpTo(s, n)) : UpTo(s, n)[i] = s[i]
  BY UpToFacts DEF Min2
<1> QED
  BY <1>1, SameSeq

\* UniqueIds in terms of positions.
LEMMA Unique ==
  ASSUME NEW s \in Seq(Row)
  PROVE  UniqueIds(s) <=> \A i, j \in 1 .. Len(s) : s[i].id = s[j].id => i = j
BY DEF UniqueIds

LEMMA UniqueFrom ==
  ASSUME NEW s \in Seq(Row), NEW n \in Nat, UniqueIds(s)
  PROVE  UniqueIds(From(s, n))
<1> DEFINE f == From(s, n)
<1>1. /\ f \in Seq(Row) /\ Len(f) = IF n <= Len(s) THEN Len(s) - n ELSE 0
      /\ \A i \in 1 .. Len(f) : f[i] = s[n + i]
  BY FromFacts
<1> HIDE DEF f
<1>2. ASSUME NEW i \in 1 .. Len(f), NEW j \in 1 .. Len(f), f[i].id = f[j].id PROVE i = j
  <2>1. n + i \in 1 .. Len(s) /\ n + j \in 1 .. Len(s) /\ f[i] = s[n + i] /\ f[j] = s[n + j]
    BY <1>1
  <2>2. n + i = n + j
    BY <2>1, <1>2, Unique
  <2> QED
    BY <2>2
<1>3. UniqueIds(f)
  BY <1>1, <1>2, Unique
<1> QED
  BY <1>3 DEF f

LEMMA UniqueUpTo ==
  ASSUME NEW s \in Seq(Row), NEW n \in Nat, UniqueIds(s)
  PROVE  UniqueIds(UpTo(s, n))
<1> DEFINE f == UpTo(s, n)
<1>1. /\ f \in Seq(Row) /\ Len(f) = Min2(n, Len(s))
      /\ \A i \in 1 .. Len(f) : f[i] = s[i]
  BY UpToFacts
<1> HIDE DEF f
<1>2. ASSUME NEW i \in 1 .. Len(f), NEW j \in 1 .. Len(f), f[i].id = f[j].id PROVE i = j
  <2>1. i \in 1 .. Len(s) /\ j \in 1 .. Len(s) /\ f[i] = s[i] /\ f[j] = s[j]
    BY <1>1 DEF Min2
  <2> QED
    BY <2>1, <1>2, Unique
<1>3. UniqueIds(f)
  BY <1>1, <1>2, Unique
<1> QED
  BY <1>3 DEF f

-----------------------------------------------------------------------------
(* What the writes make of the table.                                      *)

LEMMA PlaceFacts ==
  ASSUME NEW s \in Seq(Row), NEW n \in 0 .. Len(s), NEW r \in Row
  PROVE  /\ Place(s, n, r) \in Seq(Row)
         /\ Len(Place(s, n, r)) = Len(s) + 1
         /\ \A i \in 1 .. Len(s) + 1 :
              Place(s, n, r)[i] = IF i <= n THEN s[i] ELSE IF i = n + 1 THEN r ELSE s[i - 1]
<1> DEFINE u == SubSeq(s, 1, n)
           v == Append(u, r)
           f == From(s, n)
           c == v \o f
<1>1. /\ u \in Seq(Row) /\ Len(u) = n
      /\ \A i \in 1 .. n : u[i] = s[i]
  OBVIOUS
<1> HIDE DEF u
<1>2. /\ v \in Seq(Row) /\ Len(v) = n + 1
      /\ \A i \in 1 .. n + 1 : v[i] = IF i <= n THEN s[i] ELSE r
  BY <1>1
<1>3. /\ f \in Seq(Row) /\ Len(f) = Len(s) - n
      /\ \A i \in 1 .. Len(f) : f[i] = s[n + i]
  BY FromFacts
<1> HIDE DEF v, f
<1>4. /\ c \in Seq(Row) /\ Len(c) = Len(v) + Len(f)
      /\ \A i \in 1 .. Len(v) + Len(f) : c[i] = IF i <= Len(v) THEN v[i] ELSE f[i - Len(v)]
  BY <1>2, <1>3, Concat
<1> HIDE DEF c
<1>5. Len(c) = Len(s) + 1 /\ Len(s) \in Nat
  BY <1>2, <1>3, <1>4
<1>6. ASSUME NEW i \in 1 .. Len(s) + 1
      PROVE  c[i] = IF i <= n THEN s[i] ELSE IF i = n + 1 THEN r ELSE s[i - 1]
  <2>1. i \in Nat /\ i \in 1 .. Len(v) + Len(f)
    BY <1>2, <1>3, <1>5
  <2>2. CASE i <= n + 1
    BY <2>1, <2>2, <1>2, <1>4
  <2>3. CASE i > n + 1
    <3>0. n \in Nat /\ Len(s) \in Nat /\ i <= Len(s) + 1
      BY <1>5
    <3>1. i - (n + 1) \in 1 .. Len(f) /\ n + (i - (n + 1)) = i - 1
      <4>1. Len(f) = Len(s) - n
        BY <1>3
      <4> QED
        BY <4>1, <3>0, <2>1, <2>3
    <3>2. c[i] = f[i - (n + 1)]
      BY <2>1, <2>3, <1>2, <1>4
    <3>3. f[i - (n + 1)] = s[i - 1]
      BY <3>1, <1>3
    <3> QED
      BY <2>1, <2>3, <3>2, <3>3
  <2> QED
    BY <2>1, <2>2, <2>3
<1>7. Place(s, n, r) = c
  BY DEF Place, c, v, u, f
<1> QED
  BY <1>4, <1>5, <1>6, <1>7

LEMMA CutFacts ==
  ASSUME NEW s \in Seq(Row), NEW p \in 1 .. Len(s)
  PROVE  /\ Cut(s, p) \in Seq(Row)
         /\ Len(Cut(s, p)) = Len(s) - 1
         /\ \A i \in 1 .. Len(s) - 1 : Cut(s, p)[i] = IF i < p THEN s[i] ELSE s[i + 1]
<1> DEFINE u == SubSeq(s, 1, p - 1)
           f == From(s, p)
           c == u \o f
<1>1. /\ u \in Seq(Row) /\ Len(u) = p - 1
      /\ \A i \in 1 .. p - 1 : u[i] = s[i]
  OBVIOUS
<1>2. /\ f \in Seq(Row) /\ Len(f) = Len(s) - p
      /\ \A i \in 1 .. Len(f) : f[i] = s[p + i]
  BY FromFacts
<1> HIDE DEF u, f
<1>3. /\ c \in Seq(Row) /\ Len(c) = Len(u) + Len(f)
      /\ \A i \in 1 .. Len(u) + Len(f) : c[i] = IF i <= Len(u) THEN u[i] ELSE f[i - Len(u)]
  BY <1>1, <1>2, Concat
<1> HIDE DEF c
<1>4. Len(c) = Len(s) - 1 /\ Len(s) \in Nat
  BY <1>1, <1>2, <1>3
<1>5. ASSUME NEW i \in 1 .. Len(s) - 1 PROVE c[i] = IF i < p THEN s[i] ELSE s[i + 1]
  <2>1. i \in Nat /\ i \in 1 .. Len(u) + Len(f)
    BY <1>1, <1>2, <1>4
  <2>2. CASE i < p
    BY <2>1, <2>2, <1>1, <1>3
  <2>3. CASE i >= p
    <3>1. i - (p - 1) \in 1 .. Len(f) /\ p + (i - (p - 1)) = i + 1
      BY <2>1, <2>3, <1>2, <1>4
    <3>2. c[i] = f[i - (p - 1)]
      BY <2>1, <2>3, <1>1, <1>3
    <3>3. f[i - (p - 1)] = s[i + 1]
      BY <3>1, <1>2
    <3> QED
      BY <2>1, <2>3, <3>2, <3>3
  <2> QED
    BY <2>1, <2>2, <2>3
<1>6. Cut(s, p) = c
  BY DEF Cut, c, u, f
<1> QED
  BY <1>3, <1>4, <1>5, <1>6

LEMMA PlaceUnique ==
  ASSUME NEW s \in Seq(Row), UniqueIds(s), NEW n \in 0 .. Len(s), NEW r \in Row,
         r.id \notin IdsOf(s)
  PROVE  UniqueIds(Place(s, n, r))
<1> DEFINE c == Place(s, n, r)
<1>1. /\ c \in Seq(Row) /\ Len(c) = Len(s) + 1
      /\ \A i \in 1 .. Len(s) + 1 :
           c[i] = IF i <= n THEN s[i] ELSE IF i = n + 1 THEN r ELSE s[i - 1]
  BY PlaceFacts
<1> HIDE DEF c
<1>2. \A i \in 1 .. Len(s) : s[i].id # r.id
  BY RangeOf DEF IdsOf
<1>3. \A i, j \in 1 .. Len(s) : s[i].id = s[j].id => i = j
  BY Unique
<1>4. ASSUME NEW i \in 1 .. Len(c), NEW j \in 1 .. Len(c), c[i].id = c[j].id PROVE i = j
  <2> DEFINE at(k) == IF k <= n THEN k ELSE k - 1
  <2>1. i \in Nat /\ j \in Nat /\ Len(s) \in Nat /\ i \in 1 .. Len(s) + 1 /\ j \in 1 .. Len(s) + 1
    BY <1>1
  <2>2. CASE i = n + 1 /\ j = n + 1
    BY <2>2
  <2>3. CASE i = n + 1 /\ j # n + 1
    <3>1. c[i] = r /\ c[j] = s[at(j)] /\ at(j) \in 1 .. Len(s)
      BY <2>1, <2>3, <1>1
    <3> QED
      BY <3>1, <1>2, <1>4
  <2>4. CASE i # n + 1 /\ j = n + 1
    <3>1. c[j] = r /\ c[i] = s[at(i)] /\ at(i) \in 1 .. Len(s)
      BY <2>1, <2>4, <1>1
    <3> QED
      BY <3>1, <1>2, <1>4
  <2>5. CASE i # n + 1 /\ j # n + 1
    <3>1. /\ c[i] = s[at(i)] /\ at(i) \in 1 .. Len(s)
          /\ c[j] = s[at(j)] /\ at(j) \in 1 .. Len(s)
      BY <2>1, <2>5, <1>1
    <3>2. at(i) = at(j)
      BY <3>1, <1>3, <1>4
    <3> QED
      BY <3>2, <2>1, <2>5
  <2> QED
    BY <2>2, <2>3, <2>4, <2>5
<1>5. UniqueIds(c)
  BY <1>1, <1>4, Unique
<1> QED
  BY <1>5 DEF c

LEMMA CutUnique ==
  ASSUME NEW s \in Seq(Row), UniqueIds(s), NEW p \in 1 .. Len(s)
  PROVE  UniqueIds(Cut(s, p)) /\ s[p].id \notin IdsOf(Cut(s, p))
<1> DEFINE c == Cut(s, p)
           at(k) == IF k < p THEN k ELSE k + 1
<1>1. /\ c \in Seq(Row) /\ Len(c) = Len(s) - 1
      /\ \A i \in 1 .. Len(s) - 1 : c[i] = IF i < p THEN s[i] ELSE s[i + 1]
  BY CutFacts
<1> HIDE DEF c
<1>2. \A i, j \in 1 .. Len(s) : s[i].id = s[j].id => i = j
  BY Unique
<1>3. ASSUME NEW i \in 1 .. Len(c) PROVE c[i] = s[at(i)] /\ at(i) \in 1 .. Len(s) /\ at(i) # p
  BY <1>1
<1>4. ASSUME NEW i \in 1 .. Len(c), NEW j \in 1 .. Len(c), c[i].id = c[j].id PROVE i = j
  <2>1. at(i) = at(j)
    BY <1>2, <1>3, <1>4
  <2>2. i \in Nat /\ j \in Nat
    BY <1>1
  <2> QED
    BY <2>1, <2>2
<1>5. UniqueIds(c)
  BY <1>1, <1>4, Unique
<1>6. ASSUME NEW i \in 1 .. Len(c) PROVE c[i].id # s[p].id
  BY <1>2, <1>3
<1>7. s[p].id \notin IdsOf(c)
  BY <1>1, <1>6, RangeOf DEF IdsOf
<1> QED
  BY <1>5, <1>7 DEF c

\* What a batch adds: new rows, one for each id, in some order.
LEMMA Batch ==
  ASSUME NEW s \in Seq(Row), UniqueIds(s), NEW batch \in Seq(Row),
         NEW new \in Arrangements(NewRows(s, batch))
  PROVE  /\ s \o new \in Seq(Row)
         /\ UniqueIds(s \o new)
         /\ Range(s \o new) = Range(s) \cup NewRows(s, batch)
<1> DEFINE N == NewRows(s, batch)
           c == s \o new
<1>1. N \subseteq Range(batch) /\ N \subseteq Row
  <2>1. DOMAIN batch = 1 .. Len(batch) /\ Range(batch) = {batch[i] : i \in 1 .. Len(batch)}
        /\ Range(batch) \subseteq Row
    BY RangeOf
  <2> QED
    BY <2>1 DEF NewRows
<1>2. \A r, q \in N : r.id = q.id => r = q
  <2> SUFFICES ASSUME NEW r \in N, NEW q \in N, r.id = q.id PROVE r = q
    OBVIOUS
  <2>1. PICK m \in DOMAIN batch : r = batch[m] /\ \A k \in 1 .. m - 1 : batch[k].id # batch[m].id
    BY DEF NewRows
  <2>2. PICK n \in DOMAIN batch : q = batch[n] /\ \A k \in 1 .. n - 1 : batch[k].id # batch[n].id
    BY DEF NewRows
  <2>3. m \in 1 .. Len(batch) /\ n \in 1 .. Len(batch) /\ Len(batch) \in Nat
    BY RangeOf
  <2>4. ~(m < n) /\ ~(n < m)
    BY <2>1, <2>2, <2>3
  <2> QED
    BY <2>1, <2>2, <2>3, <2>4
<1>3. \A r \in N : r.id \notin IdsOf(s)
  BY DEF NewRows
<1>4. Cardinality(N) \in Nat
  <2>1. IsFiniteSet(1 .. Len(batch))
    BY FS_Interval
  <2>2. batch \in Surjection(1 .. Len(batch), Range(batch))
    <3>1. batch \in [1 .. Len(batch) -> Range(batch)]
      BY DEF Range
    <3> QED
      BY <3>1, RangeOf DEF Surjection
  <2>3. IsFiniteSet(Range(batch))
    BY <2>1, <2>2, FS_Surjection
  <2>4. IsFiniteSet(N)
    BY <2>3, <1>1, FS_Subset
  <2> QED
    BY <2>4, FS_CardinalityType
<1> DEFINE K == Cardinality(N)
<1>5. /\ new \in [1 .. K -> N]
      /\ \A x \in N : \E i \in 1 .. K : new[i] = x
      /\ \A i, j \in 1 .. K : new[i] = new[j] => i = j
  BY DEF Arrangements, Bijection, Injection, Surjection, IsInjective
<1> HIDE DEF N, K
<1>6. new \in Seq(Row) /\ Len(new) = K /\ K \in Nat
  <2>1. K \in Nat
    BY <1>4 DEF K
  <2>2. new \in [1 .. K -> Row]
    BY <1>1, <1>5
  <2> QED
    BY <2>1, <2>2
<1>7. /\ c \in Seq(Row) /\ Len(c) = Len(s) + K
      /\ \A i \in 1 .. Len(s) + K : c[i] = IF i <= Len(s) THEN s[i] ELSE new[i - Len(s)]
  BY <1>6, Concat
<1> HIDE DEF c
<1>8. ASSUME NEW i \in 1 .. Len(c), NEW j \in 1 .. Len(c), c[i].id = c[j].id PROVE i = j
  <2>1. i \in Nat /\ j \in Nat /\ Len(s) \in Nat /\ i \in 1 .. Len(s) + K /\ j \in 1 .. Len(s) + K
    BY <1>6, <1>7
  <2>2. \A k \in 1 .. Len(s) : s[k].id \in IdsOf(s)
    BY RangeOf DEF IdsOf
  <2>3. CASE i <= Len(s) /\ j <= Len(s)
    BY <2>1, <2>3, <1>7, <1>8, Unique
  <2>4. CASE i <= Len(s) /\ j > Len(s)
    <3>1. c[i].id \in IdsOf(s) /\ c[j] = new[j - Len(s)] /\ j - Len(s) \in 1 .. K
      BY <2>1, <2>2, <2>4, <1>7, <1>6
    <3>2. c[j] \in N
      BY <3>1, <1>5
    <3> QED
      BY <3>1, <3>2, <1>3, <1>8
  <2>5. CASE i > Len(s) /\ j <= Len(s)
    <3>1. c[j].id \in IdsOf(s) /\ c[i] = new[i - Len(s)] /\ i - Len(s) \in 1 .. K
      BY <2>1, <2>2, <2>5, <1>7, <1>6
    <3>2. c[i] \in N
      BY <3>1, <1>5
    <3> QED
      BY <3>1, <3>2, <1>3, <1>8
  <2>6. CASE i > Len(s) /\ j > Len(s)
    <3>1. /\ c[i] = new[i - Len(s)] /\ i - Len(s) \in 1 .. K
          /\ c[j] = new[j - Len(s)] /\ j - Len(s) \in 1 .. K
      BY <2>1, <2>6, <1>7, <1>6
    <3>2. c[i] = c[j]
      BY <3>1, <1>5, <1>2, <1>8
    <3>3. i - Len(s) = j - Len(s)
      BY <3>1, <3>2, <1>5
    <3> QED
      BY <3>3, <2>1
  <2> QED
    BY <2>1, <2>3, <2>4, <2>5, <2>6
<1>9. UniqueIds(c)
  BY <1>7, <1>8, Unique
<1>10. Range(c) = Range(s) \cup N
  <2>1. /\ Range(c) = {c[i] : i \in 1 .. Len(c)} /\ Range(s) = {s[i] : i \in 1 .. Len(s)}
        /\ Len(s) \in Nat
    BY <1>7, RangeOf
  <2>2. ASSUME NEW x \in Range(c) PROVE x \in Range(s) \cup N
    <3>1. PICK i \in 1 .. Len(s) + K : x = c[i]
      BY <2>1, <1>7
    <3>2. CASE i <= Len(s)
      BY <3>1, <3>2, <2>1, <1>6, <1>7
    <3>3. CASE i > Len(s)
      <4>1. i - Len(s) \in 1 .. K /\ x = new[i - Len(s)]
        BY <3>1, <3>3, <2>1, <1>6, <1>7
      <4> QED
        BY <4>1, <1>5
    <3> QED
      BY <3>1, <3>2, <3>3, <2>1, <1>6
  <2>3. ASSUME NEW x \in Range(s) PROVE x \in Range(c)
    <3>1. PICK i \in 1 .. Len(s) : x = s[i]
      BY <2>1
    <3>2. i \in 1 .. Len(c) /\ c[i] = x
      BY <3>1, <2>1, <1>6, <1>7
    <3> QED
      BY <3>2, <2>1
  <2>4. ASSUME NEW x \in N PROVE x \in Range(c)
    <3>1. PICK i \in 1 .. K : x = new[i]
      BY <1>5
    <3>2. Len(s) + i \in 1 .. Len(s) + K /\ ~(Len(s) + i <= Len(s)) /\ Len(s) + i - Len(s) = i
      BY <3>1, <2>1, <1>6
    <3>3. c[Len(s) + i] = x /\ Len(s) + i \in 1 .. Len(c)
      BY <3>1, <3>2, <1>7
    <3> QED
      BY <3>3, <2>1
  <2> QED
    BY <2>2, <2>3, <2>4
<1> QED
  BY <1>7, <1>9, <1>10 DEF c, N

-----------------------------------------------------------------------------
(* The inductive invariant, over the call c of a task, whether nobody else *)
(* wrote since it counted or deleted (q), the table s and the objects fs.  *)

Objects == [Keys -> Object \cup {Absent}]

FileInv(f) == f.calm => Range(f.data) = f.of /\ UniqueIds(f.data)

Sourced(c, fs) ==
  c.source # Absent =>
    /\ fs[c.source] # Absent
    /\ fs[c.source].calm => UniqueIds(c.rest)
    /\ c.step # "insert" => c.rest = fs[c.source].data

Counted(c, q, s) ==
  /\ c.step = "count" => c.data = <<>> /\ c.skip = 0
  /\ c.step = "fetch" /\ q => c.total = Len(s) /\ c.data = UpTo(s, c.skip)

Kept(c, q, s, fs) ==
  c.step = "delete" /\ c.snapshot # Absent /\ q =>
    fs[c.snapshot] # Absent /\ Range(fs[c.snapshot].data) = Range(s)

Restored(c, q, s, fs) ==
  /\ c.step \in {"delete", "insert"} => c.source # Absent
  /\ c.step = "insert" /\ q /\ fs[c.source].calm =>
       Range(s) \cup Range(c.rest) = fs[c.source].of

CallInv(c, q, s, fs) ==
  /\ c \in Calls
  /\ Sourced(c, fs) /\ Counted(c, q, s) /\ Kept(c, q, s, fs) /\ Restored(c, q, s, fs)

TableInv == rows \in Seq(Row) /\ UniqueIds(rows)
FilesInv == files \in Objects /\ \A k \in Keys : files[k] # Absent => FileInv(files[k])
TaskInv == /\ task \in [Tasks -> Calls] /\ calm \in [Tasks -> BOOLEAN]
           /\ \A t \in Tasks : CallInv(task[t], calm[t], rows, files)
BoundInv == writes \in 0 .. MaxWrites /\ calls \in 0 .. MaxCalls
Inv == TableInv /\ FilesInv /\ TaskInv /\ BoundInv

LEMMA IdleInv ==
  ASSUME NEW q \in BOOLEAN, NEW s, NEW fs
  PROVE  CallInv(Idle, q, s, fs) /\ Idle \in Calls
<1>1. Idle \in Calls
  BY DEF Idle, Call, Calls
<1>2. Idle.step = "idle" /\ Idle.source = Absent
  BY DEF Idle, Call
<1> QED
  BY <1>1, <1>2 DEF CallInv, Sourced, Counted, Kept, Restored

\* Another object appears.
LEMMA NewObject ==
  ASSUME NEW c, NEW q, NEW s, NEW fs \in Objects, CallInv(c, q, s, fs),
         NEW k \in Keys, fs[k] = Absent, NEW f \in Object
  PROVE  CallInv(c, q, s, [fs EXCEPT ![k] = f])
<1> DEFINE gs == [fs EXCEPT ![k] = f]
<1>1. \A j \in Keys : fs[j] # Absent => gs[j] = fs[j] /\ gs[j] # Absent
  BY DEF Objects
<1>2. c \in Calls /\ Sourced(c, fs) /\ Counted(c, q, s) /\ Kept(c, q, s, fs) /\ Restored(c, q, s, fs)
  BY DEF CallInv
<1> HIDE DEF gs
<1>3. c.source \in Keys \cup {Absent} /\ c.snapshot \in Keys \cup {Absent}
  BY <1>2 DEF Calls
<1>4. Sourced(c, gs)
  BY <1>1, <1>2, <1>3 DEF Sourced
<1>5. Kept(c, q, s, gs)
  BY <1>1, <1>2, <1>3 DEF Kept
<1>6. Restored(c, q, s, gs)
  BY <1>1, <1>2, <1>3 DEF Restored, Sourced
<1> QED
  BY <1>2, <1>4, <1>5, <1>6 DEF CallInv, gs

\* Somebody else writes the table.
LEMMA Disturbed ==
  ASSUME NEW c, NEW q, NEW s, NEW r, NEW fs, CallInv(c, q, s, fs)
  PROVE  CallInv(c, FALSE, r, fs)
BY DEF CallInv, Sourced, Counted, Kept, Restored

\* What a state needs to be in Inv', given the calls that stay as they are.
LEMMA FrameCalls ==
  ASSUME Inv, NEW t \in Tasks, UNCHANGED <<rows, files>>,
         NEW c \in Calls, NEW q \in BOOLEAN, CallInv(c, q, rows, files),
         task' = [task EXCEPT ![t] = c], calm' = [calm EXCEPT ![t] = q],
         writes' \in 0 .. MaxWrites, calls' \in 0 .. MaxCalls
  PROVE  Inv'
<1>1. TableInv' /\ FilesInv' /\ BoundInv'
  BY DEF Inv, TableInv, FilesInv, BoundInv
<1>2. task \in [Tasks -> Calls] /\ calm \in [Tasks -> BOOLEAN]
  BY DEF Inv, TaskInv
<1>3. task' \in [Tasks -> Calls] /\ calm' \in [Tasks -> BOOLEAN]
  BY <1>2
<1>4. ASSUME NEW u \in Tasks PROVE CallInv(task'[u], calm'[u], rows, files)
  <2>1. CASE u = t
    BY <2>1, <1>2
  <2>2. CASE u # t
    BY <2>2, <1>2 DEF Inv, TaskInv
  <2> QED
    BY <2>1, <2>2
<1>5. TaskInv'
  BY <1>3, <1>4 DEF TaskInv
<1> QED
  BY <1>1, <1>5 DEF Inv

-----------------------------------------------------------------------------
(* The steps.                                                              *)

LEMMA CallFields ==
  ASSUME NEW c \in Calls
  PROVE  /\ c.step \in {"idle", "count", "fetch", "delete", "insert"}
         /\ c.source \in Keys \cup {Absent} /\ c.snapshot \in Keys \cup {Absent}
         /\ c.total \in Nat /\ c.data \in Seq(Row) /\ c.skip \in Nat /\ c.rest \in Seq(Row)
BY DEF Calls

LEMMA InvFacts ==
  ASSUME Inv, NEW t \in Tasks
  PROVE  /\ task[t] \in Calls /\ calm[t] \in BOOLEAN /\ CallInv(task[t], calm[t], rows, files)
         /\ rows \in Seq(Row) /\ UniqueIds(rows) /\ files \in Objects
         /\ task \in [Tasks -> Calls] /\ calm \in [Tasks -> BOOLEAN]
BY DEF Inv, TableInv, FilesInv, TaskInv

LEMMA BackupTableStep == ASSUME Inv, NEW t \in Tasks, BackupTable(t) PROVE Inv'
<1> DEFINE c == [Idle EXCEPT !.step = "count"]
<1>1. c = Call("count", Absent, Absent, 0, <<>>, 0, <<>>)
  BY DEF Idle, Call
<1> HIDE DEF c
<1>2. /\ c.step = "count" /\ c.source = Absent /\ c.snapshot = Absent
      /\ c.data = <<>> /\ c.skip = 0 /\ c \in Calls
  BY <1>1 DEF Call, Calls
<1>3. CallInv(c, calm[t], rows, files)
  BY <1>2 DEF CallInv, Sourced, Counted, Kept, Restored
<1>4. calm' = [calm EXCEPT ![t] = calm[t]]
  BY InvFacts DEF BackupTable
<1>5. writes' \in 0 .. MaxWrites /\ calls' \in 0 .. MaxCalls
  BY BoundsAssumption DEF BackupTable, Inv, BoundInv
<1>6. task' = [task EXCEPT ![t] = c] /\ UNCHANGED <<rows, files>> /\ calm[t] \in BOOLEAN
  BY InvFacts DEF BackupTable, c
<1> QED
  BY <1>2, <1>3, <1>4, <1>5, <1>6, FrameCalls

LEMMA CountStep == ASSUME Inv, NEW t \in Tasks, Count(t) PROVE Inv'
<1> DEFINE d == task[t]
           c == [d EXCEPT !.step = "fetch", !.total = Len(rows)]
<1>1. d \in Calls /\ rows \in Seq(Row) /\ CallInv(d, calm[t], rows, files) /\ d.step = "count"
  BY InvFacts DEF Count
<1>2. task' = [task EXCEPT ![t] = c]
  BY InvFacts DEF Count
<1> HIDE DEF d
<1>0. Len(rows) \in Nat
  BY <1>1
<1>3. /\ c \in Calls /\ c.step = "fetch" /\ c.total = Len(rows)
      /\ c.source = d.source /\ c.data = d.data /\ c.skip = d.skip /\ c.rest = d.rest
  BY <1>0, <1>1 DEF Calls
<1> HIDE DEF c
<1>4. Counted(c, TRUE, rows)
  <2>1. c.data = <<>> /\ c.skip = 0
    BY <1>1, <1>3 DEF CallInv, Counted
  <2>2. UpTo(rows, 0) = <<>>
    BY <1>1 DEF UpTo, Min2
  <2> QED
    BY <2>1, <2>2, <1>3 DEF Counted
<1>5. Sourced(c, files)
  BY <1>1, <1>3 DEF CallInv, Sourced
<1>6. CallInv(c, TRUE, rows, files)
  BY <1>3, <1>4, <1>5 DEF CallInv, Kept, Restored
<1>7. UNCHANGED <<rows, files, writes, calls>> /\ calm' = [calm EXCEPT ![t] = TRUE]
  BY DEF Count
<1>8. writes' \in 0 .. MaxWrites /\ calls' \in 0 .. MaxCalls
  BY <1>7 DEF Inv, BoundInv
<1> QED
  BY <1>2, <1>3, <1>6, <1>7, <1>8, FrameCalls

LEMMA FetchBatchStep == ASSUME Inv, NEW t \in Tasks, FetchBatch(t) PROVE Inv'
<1> DEFINE d == task[t]
           c == [d EXCEPT !.data = @ \o Block(d.skip), !.skip = @ + Fetched]
<1>1. /\ d \in Calls /\ rows \in Seq(Row) /\ CallInv(d, calm[t], rows, files)
      /\ d.step = "fetch" /\ d.skip < d.total
  BY InvFacts, CallFields DEF FetchBatch, AllRead
<1>2. task' = [task EXCEPT ![t] = c]
  BY InvFacts DEF FetchBatch
<1> HIDE DEF d
<1>3. d.skip \in Nat /\ d.data \in Seq(Row) /\ d.total \in Nat /\ Fetched \in Nat
  BY <1>1, CallFields, BatchAssumption
<1>4. Block(d.skip) \in Seq(Row)
  BY <1>1, <1>3, FromFacts, UpToFacts DEF Block
<1>5. d.data \o Block(d.skip) \in Seq(Row) /\ d.skip + Fetched \in Nat
  BY <1>3, <1>4
<1>6. /\ c \in Calls /\ c.step = "fetch" /\ c.total = d.total
      /\ c.source = d.source /\ c.rest = d.rest
      /\ c.data = d.data \o Block(d.skip) /\ c.skip = d.skip + Fetched
  BY <1>1, <1>5 DEF Calls
<1> HIDE DEF c
<1>7. Counted(c, calm[t], rows)
  <2> SUFFICES ASSUME calm[t] PROVE c.total = Len(rows) /\ c.data = UpTo(rows, c.skip)
    BY <1>6 DEF Counted
  <2>1. d.total = Len(rows) /\ d.data = UpTo(rows, d.skip)
    BY <1>1 DEF CallInv, Counted
  <2>2. UpTo(rows, d.skip) \o UpTo(From(rows, d.skip), Fetched) = UpTo(rows, d.skip + Fetched)
    <3>1. d.skip <= Len(rows)
      BY <2>1, <1>1, <1>3
    <3> QED
      BY <3>1, <1>1, <1>3, NextBlock
  <2> QED
    BY <2>1, <2>2, <1>6 DEF Block
<1>8. Sourced(c, files)
  BY <1>1, <1>6 DEF CallInv, Sourced
<1>9. CallInv(c, calm[t], rows, files)
  BY <1>6, <1>7, <1>8 DEF CallInv, Kept, Restored
<1>10. UNCHANGED <<rows, files, writes, calls>> /\ calm' = [calm EXCEPT ![t] = calm[t]]
  BY InvFacts DEF FetchBatch
<1>11. writes' \in 0 .. MaxWrites /\ calls' \in 0 .. MaxCalls
  BY <1>10 DEF Inv, BoundInv
<1> QED
  BY <1>2, <1>6, <1>9, <1>10, <1>11, InvFacts, FrameCalls

\* The call that goes on after its backup, done under key or failed.
LEMMA ResumeInv ==
  ASSUME NEW d \in Calls, NEW q \in BOOLEAN, NEW s \in Seq(Row), NEW fs \in Objects,
         Sourced(d, fs), d.step \in {"count", "fetch"},
         NEW key \in Keys \cup {Absent},
         key # Absent /\ q => fs[key] # Absent /\ Range(fs[key].data) = Range(s)
  PROVE  CallInv(Resume(d, key), q, s, fs) /\ Resume(d, key) \in Calls
<1>1. CASE d.source = Absent
  BY <1>1, IdleInv DEF Resume
<1>2. CASE d.source # Absent
  <2> DEFINE c == Call("delete", d.source, key, 0, <<>>, 0, d.rest)
  <2>1. Resume(d, key) = c
    BY <1>2 DEF Resume
  <2>2. d.source \in Keys /\ d.rest \in Seq(Row)
    BY <1>2, CallFields
  <2>3. /\ c \in Calls /\ c.step = "delete" /\ c.source = d.source /\ c.snapshot = key
        /\ c.rest = d.rest
    BY <2>2 DEF Call, Calls
  <2> HIDE DEF c
  <2>4. Sourced(c, fs)
    BY <2>3 DEF Sourced
  <2>5. CallInv(c, q, s, fs)
    BY <2>3, <2>4, <1>2 DEF CallInv, Counted, Kept, Restored
  <2> QED
    BY <2>1, <2>3, <2>5
<1> QED
  BY <1>1, <1>2

LEMMA BackupFailsStep == ASSUME Inv, NEW t \in Tasks, BackupFails(t) PROVE Inv'
<1>1. /\ task[t] \in Calls /\ task[t].step \in {"count", "fetch"} /\ Sourced(task[t], files)
      /\ rows \in Seq(Row) /\ files \in Objects /\ calm[t] \in BOOLEAN
  BY InvFacts DEF BackupFails, CallInv
<1>2. CallInv(Resume(task[t], Absent), calm[t], rows, files) /\ Resume(task[t], Absent) \in Calls
  BY <1>1, ResumeInv
<1>3. /\ UNCHANGED <<rows, files, writes, calls>> /\ calm' = [calm EXCEPT ![t] = calm[t]]
      /\ task' = [task EXCEPT ![t] = Resume(task[t], Absent)]
  BY InvFacts DEF BackupFails
<1>4. writes' \in 0 .. MaxWrites /\ calls' \in 0 .. MaxCalls
  BY <1>3 DEF Inv, BoundInv
<1> QED
  BY <1>1, <1>2, <1>3, <1>4, FrameCalls

LEMMA EndUploadStep == ASSUME Inv, NEW t \in Tasks, NEW k \in Keys, EndUpload(t, k) PROVE Inv'
<1> DEFINE d == task[t]
           f == [data |-> d.data, of |-> Range(rows), calm |-> calm[t]]
           gs == [files EXCEPT ![k] = f]
<1>1. /\ d \in Calls /\ d.step = "fetch" /\ d.skip >= d.total /\ files[k] = Absent
      /\ rows \in Seq(Row) /\ UniqueIds(rows) /\ files \in Objects /\ calm[t] \in BOOLEAN
      /\ CallInv(d, calm[t], rows, files)
  BY InvFacts, CallFields DEF EndUpload, AllRead
<1>2. /\ files' = gs /\ task' = [task EXCEPT ![t] = Resume(d, k)] /\ rows' = rows /\ calm' = calm
      /\ writes' = writes /\ calls' = calls
  BY DEF EndUpload
<1> HIDE DEF d
<1>3. d.data \in Seq(Row) /\ d.skip \in Nat /\ d.total \in Nat
  BY <1>1, CallFields
<1>4. f \in Object
  BY <1>1, <1>3, RangeOf DEF Object
<1>5. calm[t] => d.data = rows
  <2> SUFFICES ASSUME calm[t] PROVE d.data = rows
    OBVIOUS
  <2>1. d.total = Len(rows) /\ d.data = UpTo(rows, d.skip)
    BY <1>1 DEF CallInv, Counted
  <2> QED
    BY <2>1, <1>1, <1>3, AllOf
<1>6. f.data = d.data /\ f.of = Range(rows) /\ f.calm = calm[t]
  OBVIOUS
<1> HIDE DEF f
<1>7. FileInv(f)
  BY <1>1, <1>5, <1>6 DEF FileInv
<1>8. f # Absent
  BY <1>4, AbsentAssumption
<1>9. gs \in Objects /\ gs[k] = f /\ \A j \in Keys : j # k => gs[j] = files[j]
  BY <1>1, <1>4 DEF Objects
<1>10. CallInv(d, calm[t], rows, gs)
  BY <1>1, <1>4, NewObject
<1> HIDE DEF gs
<1>11. k # Absent /\ k \in Keys \cup {Absent}
  BY AbsentAssumption
<1>12. CallInv(Resume(d, k), calm[t], rows, gs) /\ Resume(d, k) \in Calls
  <2>1. Sourced(d, gs)
    BY <1>10 DEF CallInv
  <2>2. calm[t] => gs[k] # Absent /\ Range(gs[k].data) = Range(rows)
    BY <1>5, <1>6, <1>8, <1>9
  <2> QED
    BY <2>1, <2>2, <1>1, <1>9, <1>11, ResumeInv
<1>13. ASSUME NEW u \in Tasks, u # t PROVE CallInv(task[u], calm[u], rows, gs)
  <2>1. CallInv(task[u], calm[u], rows, files)
    BY InvFacts
  <2> QED
    BY <2>1, <1>1, <1>4, NewObject DEF gs
<1>14. task \in [Tasks -> Calls] /\ calm \in [Tasks -> BOOLEAN]
  BY InvFacts
<1>15. TaskInv'
  <2>1. task' \in [Tasks -> Calls] /\ calm' \in [Tasks -> BOOLEAN]
    BY <1>2, <1>12, <1>14
  <2>2. ASSUME NEW u \in Tasks PROVE CallInv(task'[u], calm[u], rows, gs)
    <3>1. CASE u = t
      BY <3>1, <1>2, <1>12, <1>14
    <3>2. CASE u # t
      BY <3>2, <1>2, <1>13, <1>14
    <3> QED
      BY <3>1, <3>2
  <2> QED
    BY <2>1, <2>2, <1>2 DEF TaskInv
<1>16. FilesInv'
  BY <1>2, <1>7, <1>9 DEF FilesInv, Inv
<1>17. TableInv' /\ BoundInv'
  BY <1>2 DEF Inv, TableInv, BoundInv
<1> QED
  BY <1>15, <1>16, <1>17 DEF Inv

LEMMA RestoreFromBackupStep ==
  ASSUME Inv, NEW t \in Tasks, NEW k \in Keys, RestoreFromBackup(t, k) PROVE Inv'
<1> DEFINE c == Call("count", k, Absent, 0, <<>>, 0, files[k].data)
<1>1. files[k] # Absent /\ task' = [task EXCEPT ![t] = c] /\ UNCHANGED <<rows, files, calm, writes>>
      /\ calls < MaxCalls /\ calls' = calls + 1
  BY DEF RestoreFromBackup
<1>2. files[k].data \in Seq(Row) /\ FileInv(files[k])
  BY <1>1 DEF Inv, FilesInv, Objects, Object
<1>3. /\ c \in Calls /\ c.step = "count" /\ c.source = k /\ c.data = <<>> /\ c.skip = 0
      /\ c.rest = files[k].data /\ c.snapshot = Absent
  BY <1>2 DEF Call, Calls
<1> HIDE DEF c
<1>4. CallInv(c, calm[t], rows, files)
  BY <1>1, <1>2, <1>3 DEF CallInv, Sourced, Counted, Kept, Restored, FileInv
<1>5. calm' = [calm EXCEPT ![t] = calm[t]]
  BY <1>1, InvFacts
<1>6. writes' \in 0 .. MaxWrites /\ calls' \in 0 .. MaxCalls
  BY <1>1, BoundsAssumption DEF Inv, BoundInv
<1>7. UNCHANGED <<rows, files>> /\ task' = [task EXCEPT ![t] = c] /\ calm[t] \in BOOLEAN
  BY <1>1, InvFacts
<1> QED
  BY <1>3, <1>4, <1>5, <1>6, <1>7, FrameCalls

\* A call that ends, however.
LEMMA EndStep ==
  ASSUME Inv, NEW t \in Tasks, task' = [task EXCEPT ![t] = Idle],
         UNCHANGED <<rows, files, calm, writes, calls>>
  PROVE  Inv'
<1>1. calm' = [calm EXCEPT ![t] = calm[t]] /\ calm[t] \in BOOLEAN
  BY InvFacts
<1>2. CallInv(Idle, calm[t], rows, files) /\ Idle \in Calls
  BY <1>1, IdleInv
<1>3. writes' \in 0 .. MaxWrites /\ calls' \in 0 .. MaxCalls
  BY DEF Inv, BoundInv
<1> QED
  BY <1>1, <1>2, <1>3, FrameCalls

LEMMA CrashStep == ASSUME Inv, Crash PROVE Inv'
<1>1. /\ UNCHANGED <<rows, files, calm, writes, calls>> /\ task' = [t \in Tasks |-> Idle]
      /\ calm \in [Tasks -> BOOLEAN]
  BY DEF Crash, Inv, TaskInv
<1>2. \A t \in Tasks : CallInv(Idle, calm[t], rows, files) /\ Idle \in Calls
  BY <1>1, IdleInv
<1>3. TaskInv'
  BY <1>1, <1>2 DEF TaskInv
<1> QED
  BY <1>1, <1>3 DEF Inv, TableInv, FilesInv, BoundInv

\* Somebody writes the table: the call t, or a synchronisation when calm' is FALSE throughout.
LEMMA WriteStep ==
  ASSUME Inv, NEW s, rows' = s, s \in Seq(Row), UniqueIds(s), files' = files,
         writes' \in 0 .. MaxWrites, calls' \in 0 .. MaxCalls,
         NEW ts \in [Tasks -> Calls], task' = ts, NEW qs \in [Tasks -> BOOLEAN], calm' = qs,
         \A u \in Tasks : \/ ts[u] = task[u] /\ qs[u] = FALSE
                         \/ CallInv(ts[u], qs[u], s, files)
  PROVE  Inv'
<1>1. ASSUME NEW u \in Tasks PROVE CallInv(ts[u], qs[u], s, files)
  <2>1. CASE ts[u] = task[u] /\ qs[u] = FALSE
    <3>1. CallInv(task[u], calm[u], rows, files)
      BY InvFacts
    <3>2. CallInv(task[u], FALSE, s, files)
      BY <3>1, Disturbed
    <3> QED
      BY <2>1, <3>2
  <2>2. CASE CallInv(ts[u], qs[u], s, files)
    BY <2>2
  <2> QED
    BY <2>1, <2>2
<1>2. TaskInv'
  BY <1>1 DEF TaskInv
<1>3. TableInv' /\ FilesInv' /\ BoundInv'
  BY DEF Inv, TableInv, FilesInv, BoundInv
<1> QED
  BY <1>2, <1>3 DEF Inv

LEMMA SyncStep == ASSUME Inv, SyncWrites PROVE Inv'
<1>0. rows \in Seq(Row) /\ UniqueIds(rows) /\ task \in [Tasks -> Calls]
  BY DEF Inv, TableInv, TaskInv
<1>1. ASSUME NEW s \in Seq(Row), UniqueIds(s), Write(s) PROVE Inv'
  <2> DEFINE qs == [t \in Tasks |-> FALSE]
  <2>1. /\ rows' = s /\ files' = files /\ task' = task /\ calm' = qs /\ qs \in [Tasks -> BOOLEAN]
        /\ \A u \in Tasks : qs[u] = FALSE
    BY <1>1 DEF Write
  <2>2. writes' \in 0 .. MaxWrites /\ calls' \in 0 .. MaxCalls
    BY <1>1, BoundsAssumption DEF Write, Inv, BoundInv
  <2> HIDE DEF qs
  <2> QED
    BY <1>0, <1>1, <2>1, <2>2, WriteStep
<1>2. ASSUME NEW r \in Row, Insert(r) PROVE Inv'
  <2>1. PICK n \in 0 .. Len(rows) : Write(Place(rows, n, r))
    BY <1>2 DEF Insert
  <2>2. r.id \notin IdsOf(rows)
    BY <1>2 DEF Insert
  <2>3. Place(rows, n, r) \in Seq(Row) /\ UniqueIds(Place(rows, n, r))
    BY <1>0, <2>2, PlaceFacts, PlaceUnique
  <2> QED
    BY <1>1, <2>1, <2>3
<1>3. ASSUME NEW p \in DOMAIN rows, Remove(p) PROVE Inv'
  <2>1. p \in 1 .. Len(rows)
    BY <1>0, RangeOf
  <2>2. Cut(rows, p) \in Seq(Row) /\ UniqueIds(Cut(rows, p))
    BY <1>0, <2>1, CutFacts, CutUnique
  <2> QED
    BY <1>1, <1>3, <2>2 DEF Remove
<1>4. ASSUME NEW p \in DOMAIN rows, NEW v \in Versions, Update(p, v) PROVE Inv'
  <2> DEFINE c == Cut(rows, p)
             r == [rows[p] EXCEPT !.version = v]
  <2>1. p \in 1 .. Len(rows) /\ rows[p] \in Row
    BY <1>0, RangeOf
  <2>2. c \in Seq(Row) /\ UniqueIds(c) /\ Len(c) = Len(rows) - 1 /\ rows[p].id \notin IdsOf(c)
    BY <1>0, <2>1, CutFacts, CutUnique
  <2>3. r \in Row /\ r.id = rows[p].id
    BY <2>1 DEF Row
  <2>4. PICK n \in 0 .. Len(rows) - 1 : Write(Place(c, n, r))
    BY <1>4 DEF Update
  <2> HIDE DEF c, r
  <2>5. Place(c, n, r) \in Seq(Row) /\ UniqueIds(Place(c, n, r))
    BY <2>2, <2>3, PlaceFacts, PlaceUnique
  <2> QED
    BY <1>1, <2>4, <2>5
<1> QED
  BY <1>2, <1>3, <1>4 DEF SyncWrites

LEMMA DeleteManyStep == ASSUME Inv, NEW t \in Tasks, DeleteMany(t) PROVE Inv'
<1> DEFINE d == task[t]
           c == [d EXCEPT !.step = "insert"]
           ts == [task EXCEPT ![t] = c]
           qs == [u \in Tasks |-> u = t]
<1>1. /\ d \in Calls /\ CallInv(d, calm[t], rows, files) /\ d.step = "delete"
      /\ files \in Objects /\ task \in [Tasks -> Calls]
  BY InvFacts DEF DeleteMany
<1>2. /\ rows' = <<>> /\ files' = files /\ calm' = qs /\ qs \in [Tasks -> BOOLEAN]
      /\ writes' = writes /\ calls' = calls
  BY DEF DeleteMany
<1>3. task' = ts
  BY <1>1 DEF DeleteMany
<1>4. \A u \in Tasks : u # t => ts[u] = task[u] /\ qs[u] = FALSE
  BY <1>1
<1>5. ts[t] = c /\ qs[t] = TRUE
  BY <1>1
<1> HIDE DEF d
<1>6. c \in Calls /\ c.step = "insert" /\ c.source = d.source /\ c.rest = d.rest
  BY <1>1 DEF Calls
<1> HIDE DEF c
<1>7. /\ d.source \in Keys /\ files[d.source] # Absent /\ d.rest = files[d.source].data
      /\ files[d.source].calm => UniqueIds(d.rest)
  BY <1>1, CallFields DEF CallInv, Sourced, Restored
<1>8. CallInv(c, TRUE, <<>>, files)
  <2>1. Sourced(c, files) /\ Counted(c, TRUE, <<>>) /\ Kept(c, TRUE, <<>>, files)
    BY <1>6, <1>7 DEF Sourced, Counted, Kept
  <2>2. FileInv(files[d.source])
    BY <1>7 DEF Inv, FilesInv
  <2>3. files[d.source].calm => Range(<<>>) \cup Range(c.rest) = files[c.source].of
    BY <2>2, <1>6, <1>7 DEF FileInv, Range
  <2>4. Restored(c, TRUE, <<>>, files)
    BY <2>3, <1>6, <1>7, AbsentAssumption DEF Restored
  <2> QED
    BY <2>1, <2>4, <1>6 DEF CallInv
<1>9. writes' \in 0 .. MaxWrites /\ calls' \in 0 .. MaxCalls
  BY <1>2 DEF Inv, BoundInv
<1>10. ts \in [Tasks -> Calls]
  BY <1>1, <1>6
<1> HIDE DEF ts, qs
<1>11. \A u \in Tasks : \/ ts[u] = task[u] /\ qs[u] = FALSE
                       \/ CallInv(ts[u], qs[u], <<>>, files)
  BY <1>4, <1>5, <1>8
<1>12. <<>> \in Seq(Row) /\ UniqueIds(<<>>)
  BY DEF UniqueIds
<1> QED
  BY <1>2, <1>3, <1>9, <1>10, <1>11, <1>12, WriteStep

LEMMA InsertBatchStep == ASSUME Inv, NEW t \in Tasks, InsertBatch(t) PROVE Inv'
<1> DEFINE d == task[t]
           batch == UpTo(d.rest, Inserted)
           c == [d EXCEPT !.rest = From(@, Inserted)]
           ts == [task EXCEPT ![t] = c]
           qs == [u \in Tasks |-> calm[u] /\ u = t]
<1>1. /\ d \in Calls /\ CallInv(d, calm[t], rows, files) /\ d.step = "insert"
      /\ files \in Objects /\ task \in [Tasks -> Calls] /\ rows \in Seq(Row) /\ UniqueIds(rows)
      /\ calm \in [Tasks -> BOOLEAN]
  BY InvFacts DEF InsertBatch
<1>2. PICK new \in Arrangements(NewRows(rows, batch)) : rows' = rows \o new
  BY DEF InsertBatch
<1>3. /\ files' = files /\ calm' = qs /\ qs \in [Tasks -> BOOLEAN] /\ task' = ts
      /\ writes' = writes /\ calls' = calls
  BY <1>1 DEF InsertBatch
<1>4. \A u \in Tasks : u # t => ts[u] = task[u] /\ qs[u] = FALSE
  BY <1>1
<1>5. ts[t] = c /\ qs[t] = calm[t] /\ calm[t] \in BOOLEAN
  BY <1>1
<1> HIDE DEF d
<1>6. d.rest \in Seq(Row) /\ Inserted \in Nat
  BY <1>1, CallFields, BatchAssumption
<1>7. batch \in Seq(Row) /\ From(d.rest, Inserted) \in Seq(Row)
  BY <1>6, UpToFacts, FromFacts
<1>8. /\ c \in Calls /\ c.step = "insert" /\ c.source = d.source
      /\ c.rest = From(d.rest, Inserted)
  BY <1>1, <1>7 DEF Calls
<1>9. Range(batch) \cup Range(c.rest) = Range(d.rest)
  BY <1>6, <1>8, Split
<1>10. UniqueIds(d.rest) => UniqueIds(batch) /\ UniqueIds(c.rest)
  BY <1>6, <1>8, UniqueUpTo, UniqueFrom
<1> HIDE DEF c, batch
<1>11. /\ rows' \in Seq(Row) /\ UniqueIds(rows')
       /\ Range(rows') = Range(rows) \cup NewRows(rows, batch)
  BY <1>1, <1>2, <1>7, Batch
<1>12. /\ d.source \in Keys /\ files[d.source] # Absent
       /\ files[d.source].calm => UniqueIds(d.rest)
       /\ calm[t] /\ files[d.source].calm => Range(rows) \cup Range(d.rest) = files[d.source].of
  BY <1>1, CallFields DEF CallInv, Sourced, Restored
<1>13. ASSUME calm[t], files[d.source].calm
       PROVE  Range(rows') \cup Range(c.rest) = files[c.source].of
  <2> DEFINE of == files[d.source].of
  <2>1. UniqueIds(batch) /\ Range(rows) \cup Range(d.rest) = of
    BY <1>10, <1>12, <1>13
  <2>2. FileInv(files[d.source])
    BY <1>12 DEF Inv, FilesInv
  <2>3. PICK data \in Seq(Row) : Range(data) = of /\ UniqueIds(data)
    <3>1. files[d.source].data \in Seq(Row)
      BY <1>1, <1>12 DEF Objects, Object
    <3> QED
      BY <3>1, <2>2, <1>13 DEF FileInv
  <2> HIDE DEF of
  <2>4. \A r, q \in of : r.id = q.id => r = q
    <3>1. of = {data[i] : i \in 1 .. Len(data)}
      BY <2>3, RangeOf
    <3>2. \A i, j \in 1 .. Len(data) : data[i].id = data[j].id => i = j
      BY <2>3, Unique
    <3> QED
      BY <3>1, <3>2
  <2>5. ASSUME NEW x \in Range(batch) PROVE x \in Range(rows) \cup NewRows(rows, batch)
    <3>1. PICK n \in 1 .. Len(batch) : x = batch[n]
      BY <1>7, RangeOf
    <3>2. CASE x.id \in IdsOf(rows)
      <4>1. PICK r \in Range(rows) : r.id = x.id
        BY <3>2 DEF IdsOf
      <4>2. r \in of /\ x \in of
        BY <2>1, <1>9
      <4> QED
        BY <4>1, <4>2, <2>4
    <3>3. CASE x.id \notin IdsOf(rows)
      <4>1. ASSUME NEW m \in 1 .. n - 1 PROVE batch[m].id # batch[n].id
        <5>1. m \in 1 .. Len(batch) /\ m # n
          BY <1>7
        <5> QED
          BY <5>1, <2>1, <1>7, Unique
      <4>2. n \in DOMAIN batch
        BY <1>7, RangeOf
      <4> QED
        BY <4>1, <4>2, <3>1, <3>3 DEF NewRows
    <3> QED
      BY <3>2, <3>3
  <2>6. NewRows(rows, batch) \subseteq Range(batch)
    BY DEF NewRows, Range
  <2>7. Range(rows) \cup NewRows(rows, batch) = Range(rows) \cup Range(batch)
    BY <2>5, <2>6
  <2>8. Range(rows') \cup Range(c.rest) = Range(rows) \cup Range(d.rest)
    BY <2>7, <1>9, <1>11
  <2> QED
    BY <2>1, <2>8, <1>8 DEF of
<1>14. CallInv(c, calm[t], rows', files)
  <2>1. Sourced(c, files) /\ Counted(c, calm[t], rows') /\ Kept(c, calm[t], rows', files)
    BY <1>8, <1>10, <1>12 DEF Sourced, Counted, Kept
  <2>2. Restored(c, calm[t], rows', files)
    BY <1>8, <1>12, <1>13, AbsentAssumption DEF Restored
  <2> QED
    BY <2>1, <2>2, <1>8 DEF CallInv
<1>15. writes' \in 0 .. MaxWrites /\ calls' \in 0 .. MaxCalls
  BY <1>3 DEF Inv, BoundInv
<1>16. ts \in [Tasks -> Calls]
  BY <1>1, <1>8
<1> HIDE DEF ts, qs
<1>17. \A u \in Tasks : \/ ts[u] = task[u] /\ qs[u] = FALSE
                       \/ CallInv(ts[u], qs[u], rows', files)
  BY <1>4, <1>5, <1>14
<1> DEFINE s == rows \o new
<1>18. rows' = s
  BY <1>2
<1> HIDE DEF s
<1>19. s \in Seq(Row) /\ UniqueIds(s)
  BY <1>11, <1>18
<1>20. \A u \in Tasks : \/ ts[u] = task[u] /\ qs[u] = FALSE
                       \/ CallInv(ts[u], qs[u], s, files)
  BY <1>17, <1>18
<1> QED
  BY <1>3, <1>15, <1>16, <1>18, <1>19, <1>20, WriteStep

-----------------------------------------------------------------------------
(* The theorems.                                                           *)

LEMMA Initially == ASSUME Init PROVE Inv
<1>1. TableInv
  BY StoredAssumption DEF Init, TableInv
<1>2. FilesInv
  BY DEF Init, FilesInv, Objects
<1>3. TaskInv
  <2>1. \A t \in Tasks : CallInv(Idle, FALSE, rows, files) /\ Idle \in Calls
    BY IdleInv
  <2> QED
    BY <2>1 DEF Init, TaskInv
<1>4. BoundInv
  BY BoundsAssumption DEF Init, BoundInv
<1> QED
  BY <1>1, <1>2, <1>3, <1>4 DEF Inv

LEMMA NextInv == ASSUME Inv, [Next]_vars PROVE Inv'
<1>1. CASE SyncWrites
  BY <1>1, SyncStep
<1>2. CASE Crash
  BY <1>2, CrashStep
<1>3. ASSUME NEW t \in Tasks, BackupTable(t) PROVE Inv'
  BY <1>3, BackupTableStep
<1>4. ASSUME NEW t \in Tasks, NEW k \in Keys, RestoreFromBackup(t, k) PROVE Inv'
  BY <1>4, RestoreFromBackupStep
<1>5. ASSUME NEW t \in Tasks, Step(t) PROVE Inv'
  <2>1. ASSUME RestoreEnds(t) \/ RestoreFails(t) PROVE Inv'
    BY <2>1, EndStep DEF RestoreEnds, RestoreFails
  <2>2. ASSUME NEW k \in Keys, EndUpload(t, k) PROVE Inv'
    BY <2>2, EndUploadStep
  <2> QED
    BY <1>5, <2>1, <2>2, CountStep, FetchBatchStep, DeleteManyStep, InsertBatchStep, BackupFailsStep
       DEF Step
<1>6. CASE UNCHANGED vars
  BY <1>6 DEF vars, Inv, TableInv, FilesInv, TaskInv, BoundInv
<1> QED
  BY <1>1, <1>2, <1>3, <1>4, <1>5, <1>6 DEF Next

LEMMA Invariance == Spec => []Inv
BY Initially, NextInv, PTL DEF Spec

LEMMA InvGivesType == ASSUME Inv PROVE TypeOK
BY DEF Inv, TableInv, FilesInv, TaskInv, BoundInv, Objects, TypeOK

LEMMA InvGivesComplete == ASSUME Inv PROVE BackupIsComplete
BY DEF Inv, FilesInv, FileInv, BackupIsComplete

LEMMA InvGivesKept == ASSUME Inv PROVE DeletedIsKept
BY InvFacts DEF CallInv, Kept, DeletedIsKept

LEMMA InvGivesRoundTrip == ASSUME Inv PROVE RoundTrip
<1> SUFFICES ASSUME NEW t \in Tasks, task[t].step = "insert", task[t].rest = <<>>, calm[t],
                    files[task[t].source].calm
             PROVE  Range(rows) = files[task[t].source].of
  BY DEF RoundTrip
<1>1. Range(rows) \cup Range(task[t].rest) = files[task[t].source].of
  BY InvFacts DEF CallInv, Restored
<1>2. Range(<<>>) = {}
  BY DEF Range
<1> QED
  BY <1>1, <1>2

\* Every variable keeps its type; in particular no id is twice in the table,
\* whatever restores and synchronisations write between each other.
THEOREM BackupTypeCorrect == Spec => []TypeOK
BY Invariance, InvGivesType, PTL

\* A backup that nothing disturbed is complete, for every size of the blocks.
THEOREM BackupsAreComplete == Spec => []BackupIsComplete
BY Invariance, InvGivesComplete, PTL

\* What a restore deletes is in its snapshot, unless that failed or was disturbed.
THEOREM DeletedRowsAreKept == Spec => []DeletedIsKept
BY Invariance, InvGivesKept, PTL

\* An undisturbed restore of an undisturbed backup brings the table back.
THEOREM RestoreIsRoundTrip == Spec => []RoundTrip
BY Invariance, InvGivesRoundTrip, PTL
=============================================================================
