--------------------------- MODULE HashTableProofs ---------------------------
(***************************************************************************)
(* Proofs about the hash table, for every set of entries, every hash value *)
(* of theirs and every size of the array that is a power of two: the table *)
(* is sound, an iteration is complete, and the table implements a set.     *)
(***************************************************************************)
EXTENDS HashTable, FiniteSetTheorems, SequenceTheorems, WellFoundedInduction, TLAPS

-----------------------------------------------------------------------------
(***************************************************************************)
(* The inductive invariant                                                 *)
(***************************************************************************)

\* The bucket an entry belongs to.
BucketOf(e) == HashTableGetBucketIndex(Masked(HashValue[e]))

\* x is on the chain s behind position k.
Within(s, k, x) == \E j \in 1 .. Len(s) : j > k /\ s[j] = x

\* No entry is on the chain twice.
Once(s) == \A j, k \in 1 .. Len(s) : s[j] = s[k] => j = k

\* Every entry is on the chain its key leads to.
Homed ==
  \A i \in DOMAIN Buckets : \A x \in Entry : Within(Buckets[i], 0, x) => BucketOf(x) = i

Distinct == \A i \in DOMAIN Buckets : Once(Buckets[i])

Counted == IsFiniteSet(Members) /\ ItemCount = Cardinality(Members)

At == Position(Buckets[iter.Bucket], iter.HashEntry)

\* An iterator stands at a bucket, at its head or at an entry of its chain.
Placed ==
  iter.state # "none" =>
    /\ iter.Bucket \in DOMAIN Buckets
    /\ At \in 0 .. Len(Buckets[iter.Bucket])
    /\ At # 0 => Buckets[iter.Bucket][At] = iter.HashEntry
    /\ At = 0 => iter.HashEntry = AtHead

\* The iterator will come to x.
ToCome(x) ==
  \/ Within(Buckets[iter.Bucket], At, x)
  \/ \E i \in DOMAIN Buckets : i > iter.Bucket /\ Within(Buckets[i], 0, x)

\* IterationComplete in these terms.
Complete ==
  iter.state # "none" =>
    /\ \A x \in due : x \in visited \/ ToCome(x)
    /\ \A x \in visited : ~ToCome(x)

Inv ==
  /\ TypeOK
  /\ Homed
  /\ Distinct
  /\ Counted
  /\ BucketsInArray
  /\ Placed
  /\ Complete

-----------------------------------------------------------------------------
(***************************************************************************)
(* Numbers and chains                                                      *)
(***************************************************************************)

\* A set of natural numbers that has a member has a least one.
LEMMA LeastNatural ==
  ASSUME NEW S \in SUBSET Nat, S # {}
  PROVE  Least(S) \in S /\ \A j \in S : Least(S) <= j
<1> DEFINE R == {ss \in Nat \X Nat : ss[1] < ss[2]}
<1>1. IsWellFoundedOn(R, Nat)
  BY NatLessThanWellFounded DEF OpToRel
<1> HIDE DEF R
<1>2. PICK p \in S : \A q \in S : ~(<<q, p>> \in R)
  BY <1>1, WFMin
<1>3. ASSUME NEW q \in S PROVE p <= q
  <2>1. q \in Nat /\ p \in Nat
    OBVIOUS
  <2>2. <<q, p>> \in Nat \X Nat /\ <<q, p>>[1] = q /\ <<q, p>>[2] = p
    BY <2>1
  <2>3. ~(q < p)
    BY <1>2, <2>2 DEF R
  <2>4. QED BY <2>1, <2>3
<1>4. \E i \in S : \A j \in S : i <= j
  BY <1>3
<1>5. QED BY <1>4 DEF Least

\* A hash is an index of the bucket array.
LEMMA HashInRange ==
  ASSUME NEW value \in Nat, NEW modulus \in Nat \ {0}
  PROVE  HashUlongPtr(value, modulus) \in 0 .. modulus - 1
<1> DEFINE Pair == [hashCode : Nat, value : Nat]
           Small == [hashCode : 0 .. modulus - 1, value : Nat]
           init == [hashCode |-> 314159, value |-> value]
<1>1. ASSUME NEW s \in Pair PROVE HashByte(s, modulus) \in Small
  <2>1. s.value % 256 \in Nat /\ s.value \div 256 \in Nat /\ s.hashCode \in Nat
    OBVIOUS
  <2> DEFINE sum == (s.value % 256) + 37 * s.hashCode
  <2>2. sum \in Nat
    BY <2>1
  <2> HIDE DEF sum
  <2>3. sum % modulus \in 0 .. modulus - 1
    BY <2>2
  <2>4. QED BY <2>1, <2>3 DEF HashByte, sum
<1>2. Small \subseteq Pair
  OBVIOUS
<1>3. init \in Pair
  OBVIOUS
<1>4. \A s \in Small : s.hashCode \in 0 .. modulus - 1
  OBVIOUS
<1>5. HashUlongPtr(value, modulus) = HashFourBytes(HashFourBytes(init, modulus), modulus).hashCode
  BY SMT DEF HashUlongPtr
<1> HIDE DEF Pair, Small, init
<1>6. ASSUME NEW s \in Pair PROVE HashTwoBytes(s, modulus) \in Small
  BY <1>1, <1>2 DEF HashTwoBytes
<1>7. ASSUME NEW s \in Pair PROVE HashFourBytes(s, modulus) \in Small
  BY <1>2, <1>6 DEF HashFourBytes
<1>8. HashFourBytes(HashFourBytes(init, modulus), modulus) \in Small
  BY <1>2, <1>3, <1>7
<1>9. QED BY <1>4, <1>5, <1>8

\* An entry belongs to a bucket of the table.
LEMMA BucketOfType ==
  ASSUME BucketCount \in Nat, BucketCount # 0, Flags \in Shifts, NEW v \in Nat
  PROVE  /\ Masked(v) \in Nat
         /\ HashTableGetBucketIndex(Masked(v)) \in 0 .. BucketCount - 1
<1> DEFINE d == 2 ^ Flags
<1>1. d \in Nat \ {0}
  BY TableAssumption
<1> HIDE DEF d
<1>2. v \div d \in Nat
  BY <1>1
<1> DEFINE q == v \div d
<1> HIDE DEF q
<1>3. q * d \in Nat
  BY <1>1, <1>2 DEF q
<1>4. Masked(v) \in Nat
  BY <1>3 DEF Masked, q, d
<1>5. QED BY <1>4, HashInRange DEF HashTableGetBucketIndex

\* PushEntryList: the entry is first and the chain follows.
LEMMA Pushed ==
  ASSUME NEW s \in Seq(Entry), NEW e \in Entry
  PROVE  /\ <<e>> \o s \in Seq(Entry)
         /\ Len(<<e>> \o s) = Len(s) + 1
         /\ DOMAIN (<<e>> \o s) = 1 .. Len(s) + 1
         /\ (<<e>> \o s)[1] = e
         /\ \A j \in 1 .. Len(s) : (<<e>> \o s)[j + 1] = s[j]
<1>1. <<e>> \in Seq(Entry) /\ Len(<<e>>) = 1 /\ <<e>>[1] = e
  OBVIOUS
<1>2. /\ <<e>> \o s \in Seq(Entry)
      /\ Len(<<e>> \o s) = 1 + Len(s)
      /\ \A i \in 1 .. 1 + Len(s) :
           (<<e>> \o s)[i] = IF i <= 1 THEN <<e>>[i] ELSE s[i - 1]
  BY <1>1, ConcatProperties
<1> DEFINE c == <<e>> \o s
<1> HIDE DEF c
<1>3. c \in Seq(Entry) /\ Len(c) = 1 + Len(s)
  BY <1>2 DEF c
<1>4. Len(s) \in Nat
  OBVIOUS
<1>5. c[1] = e
  BY <1>1, <1>2, <1>4 DEF c
<1>6. ASSUME NEW j \in 1 .. Len(s) PROVE c[j + 1] = s[j]
  <2>1. j + 1 \in 1 .. 1 + Len(s) /\ ~(j + 1 <= 1) /\ (j + 1) - 1 = j
    BY <1>4
  <2>2. QED BY <1>2, <2>1 DEF c
<1>7. DOMAIN c = 1 .. Len(s) + 1 /\ Len(c) = Len(s) + 1
  BY <1>3, <1>4
<1>8. QED BY <1>3, <1>5, <1>6, <1>7 DEF c

\* Unlinking the entry at a position: the ones behind it move up.
LEMMA Unlinked ==
  ASSUME NEW s \in Seq(Entry), NEW i \in 1 .. Len(s)
  PROVE  /\ RemoveAt(s, i) \in Seq(Entry)
         /\ Len(RemoveAt(s, i)) = Len(s) - 1
         /\ DOMAIN RemoveAt(s, i) = 1 .. Len(s) - 1
         /\ \A j \in 1 .. Len(s) - 1 :
              RemoveAt(s, i)[j] = IF j < i THEN s[j] ELSE s[j + 1]
<1> DEFINE n == Len(s)
           a == SubSeq(s, 1, i - 1)
           b == SubSeq(s, i + 1, n)
           c == RemoveAt(s, i)
<1>1. n \in Nat /\ i \in Int /\ 1 <= i /\ i <= n
  OBVIOUS
<1>2. \A k \in 1 .. n : s[k] \in Entry
  OBVIOUS
<1>3. c = a \o b
  BY DEF RemoveAt
<1> HIDE DEF n, a, b, c
<1>4. a \in Seq(Entry) /\ Len(a) = i - 1 /\ \A k \in 1 .. i - 1 : a[k] = s[k]
  <2>1. \A k \in 1 .. i - 1 : s[k] \in Entry
    BY <1>1, <1>2
  <2>2. /\ a \in Seq(Entry)
        /\ Len(a) = IF 1 <= i - 1 THEN i - 1 - 1 + 1 ELSE 0
        /\ \A k \in 1 .. i - 1 - 1 + 1 : a[k] = s[1 + k - 1]
    BY <1>1, <2>1, SubSeqProperties DEF a
  <2>3. Len(a) = i - 1
    BY <1>1, <2>2
  <2>4. ASSUME NEW k \in 1 .. i - 1 PROVE a[k] = s[k]
    <3>1. k \in 1 .. i - 1 - 1 + 1 /\ 1 + k - 1 = k
      BY <1>1
    <3>2. QED BY <2>2, <3>1
  <2>5. QED BY <2>2, <2>3, <2>4
<1>5. b \in Seq(Entry) /\ Len(b) = n - i /\ \A k \in 1 .. n - i : b[k] = s[i + k]
  <2>1. \A k \in i + 1 .. n : s[k] \in Entry
    BY <1>1, <1>2
  <2>2. /\ b \in Seq(Entry)
        /\ Len(b) = IF i + 1 <= n THEN n - (i + 1) + 1 ELSE 0
        /\ \A k \in 1 .. n - (i + 1) + 1 : b[k] = s[(i + 1) + k - 1]
    BY <1>1, <2>1, SubSeqProperties DEF b
  <2>3. Len(b) = n - i
    BY <1>1, <2>2
  <2>4. ASSUME NEW k \in 1 .. n - i PROVE b[k] = s[i + k]
    <3>1. k \in 1 .. n - (i + 1) + 1 /\ (i + 1) + k - 1 = i + k
      BY <1>1
    <3>2. QED BY <2>2, <3>1
  <2>5. QED BY <2>2, <2>3, <2>4
<1>6. /\ c \in Seq(Entry)
      /\ Len(c) = (i - 1) + (n - i)
      /\ \A k \in 1 .. (i - 1) + (n - i) :
           c[k] = IF k <= i - 1 THEN a[k] ELSE b[k - (i - 1)]
  BY <1>3, <1>4, <1>5, ConcatProperties
<1>7. Len(c) = n - 1
  BY <1>1, <1>6
<1>8. DOMAIN c = 1 .. n - 1
  BY <1>6, <1>7
<1>9. ASSUME NEW j \in 1 .. n - 1 PROVE c[j] = IF j < i THEN s[j] ELSE s[j + 1]
  <2>1. j \in 1 .. (i - 1) + (n - i)
    BY <1>1
  <2>2. CASE j < i
    <3>1. j <= i - 1 /\ j \in 1 .. i - 1
      BY <1>1, <2>2
    <3>2. QED BY <1>4, <1>6, <2>1, <2>2, <3>1
  <2>3. CASE ~(j < i)
    <3>1. ~(j <= i - 1) /\ j - (i - 1) \in 1 .. n - i /\ i + (j - (i - 1)) = j + 1
      BY <1>1, <2>3
    <3>2. QED BY <1>5, <1>6, <2>1, <2>3, <3>1
  <2>4. QED BY <2>2, <2>3
<1>10. QED BY <1>6, <1>7, <1>8, <1>9 DEF n, c

\* Position finds an entry of a chain that holds it once.
LEMMA PositionOf ==
  ASSUME NEW s \in Seq(Entry), NEW j \in 1 .. Len(s),
         \A k \in 1 .. Len(s) : s[k] = s[j] => k = j
  PROVE  s[j] # AtHead /\ Position(s, s[j]) = j
<1>1. s[j] \in Entry
  OBVIOUS
<1>2. s[j] # AtHead
  BY <1>1, EntryAssumption
<1>3. DOMAIN s = 1 .. Len(s)
  OBVIOUS
<1>4. (CHOOSE i \in DOMAIN s : s[i] = s[j]) = j
  BY <1>3
<1>5. QED BY <1>2, <1>4, Zenon DEF Position

\* The head is before the first position.
LEMMA PositionOfHead == ASSUME NEW s PROVE Position(s, AtHead) = 0
BY DEF Position

LEMMA ContainsIsWithin ==
  ASSUME NEW s \in Seq(Entry), NEW x
  PROVE  Contains(s, x) <=> Within(s, 0, x)
BY DEF Contains, Within

LEMMA NothingWithin == ASSUME NEW k, NEW x PROVE ~Within(<<>>, k, x)
BY DEF Within

\* Only entries are on a chain.
LEMMA WithinEntry ==
  ASSUME NEW s \in Seq(Entry), NEW k, NEW x, Within(s, k, x)
  PROVE  x \in Entry
BY DEF Within

\* The next entry of a chain is all that a step forward passes.
LEMMA StepForward ==
  ASSUME NEW s \in Seq(Entry), Once(s), NEW k \in 0 .. Len(s), k < Len(s)
  PROVE  /\ s[k + 1] \in Entry
         /\ Position(s, s[k + 1]) = k + 1
         /\ \A x : Within(s, k, x) <=> x = s[k + 1] \/ Within(s, k + 1, x)
         /\ ~Within(s, k + 1, s[k + 1])
<1>1. Len(s) \in Nat /\ k + 1 \in 1 .. Len(s)
  OBVIOUS
<1>2. s[k + 1] \in Entry
  BY <1>1
<1>3. Position(s, s[k + 1]) = k + 1
  BY <1>1, PositionOf DEF Once
<1>4. ASSUME NEW x PROVE Within(s, k, x) <=> x = s[k + 1] \/ Within(s, k + 1, x)
  <2>1. ASSUME Within(s, k, x), x # s[k + 1] PROVE Within(s, k + 1, x)
    BY <1>1, <2>1 DEF Within
  <2>2. ASSUME Within(s, k + 1, x) PROVE Within(s, k, x)
    BY <1>1, <2>2 DEF Within
  <2>3. Within(s, k, s[k + 1])
    BY <1>1 DEF Within
  <2>4. QED BY <2>1, <2>2, <2>3
<1>5. ~Within(s, k + 1, s[k + 1])
  BY <1>1 DEF Within, Once
<1>6. QED BY <1>2, <1>3, <1>4, <1>5

\* At the end of a chain nothing is ahead.
LEMMA EndOfChain ==
  ASSUME NEW s \in Seq(Entry), NEW x
  PROVE  ~Within(s, Len(s), x)
BY DEF Within

\* A chain with an entry pushed on it, seen through Within.
LEMMA PushedWithin ==
  ASSUME NEW s \in Seq(Entry), NEW e \in Entry
  PROVE  /\ \A x : Within(<<e>> \o s, 0, x) <=> x = e \/ Within(s, 0, x)
         /\ \A k \in Nat : \A x : Within(<<e>> \o s, k + 1, x) <=> Within(s, k, x)
<1> DEFINE c == <<e>> \o s
<1>1. /\ c \in Seq(Entry)
      /\ Len(c) = Len(s) + 1
      /\ c[1] = e
      /\ \A j \in 1 .. Len(s) : c[j + 1] = s[j]
  BY Pushed
<1>2. Len(s) \in Nat
  OBVIOUS
<1> HIDE DEF c
<1>3. ASSUME NEW k \in Nat, NEW x PROVE Within(c, k + 1, x) <=> Within(s, k, x)
  <2>1. ASSUME Within(s, k, x) PROVE Within(c, k + 1, x)
    <3>1. PICK j \in 1 .. Len(s) : j > k /\ s[j] = x
      BY <2>1 DEF Within
    <3>2. j + 1 \in 1 .. Len(c) /\ j + 1 > k + 1 /\ c[j + 1] = x
      BY <1>1, <1>2, <3>1
    <3>3. QED BY <3>2 DEF Within
  <2>2. ASSUME Within(c, k + 1, x) PROVE Within(s, k, x)
    <3>1. PICK j \in 1 .. Len(c) : j > k + 1 /\ c[j] = x
      BY <2>2 DEF Within
    <3>2. j - 1 \in 1 .. Len(s) /\ j - 1 > k /\ (j - 1) + 1 = j
      BY <1>1, <1>2, <3>1
    <3>3. s[j - 1] = x
      BY <1>1, <3>1, <3>2
    <3>4. QED BY <3>2, <3>3 DEF Within
  <2>3. QED BY <2>1, <2>2
<1>4. ASSUME NEW x PROVE Within(c, 0, x) <=> x = e \/ Within(s, 0, x)
  <2>1. Within(c, 0, x) <=> x = e \/ Within(c, 1, x)
    <3>1. 1 \in 1 .. Len(c)
      BY <1>1, <1>2
    <3>2. QED BY <1>1, <3>1 DEF Within
  <2>2. Within(c, 0 + 1, x) <=> Within(s, 0, x)
    BY <1>3
  <2>3. QED BY <2>1, <2>2
<1>5. QED BY <1>3, <1>4 DEF c

LEMMA PushedOnce ==
  ASSUME NEW s \in Seq(Entry), NEW e \in Entry, Once(s), ~Within(s, 0, e)
  PROVE  Once(<<e>> \o s)
<1> DEFINE c == <<e>> \o s
<1>1. /\ c \in Seq(Entry)
      /\ Len(c) = Len(s) + 1
      /\ c[1] = e
      /\ \A j \in 1 .. Len(s) : c[j + 1] = s[j]
  BY Pushed
<1>2. Len(s) \in Nat
  OBVIOUS
<1> HIDE DEF c
<1>3. ASSUME NEW j \in 1 .. Len(c), j # 1
      PROVE  j - 1 \in 1 .. Len(s) /\ c[j] = s[j - 1]
  <2>1. j - 1 \in 1 .. Len(s) /\ (j - 1) + 1 = j
    BY <1>1, <1>2, <1>3
  <2>2. QED BY <1>1, <2>1
<1>4. ASSUME NEW j \in 1 .. Len(c), j # 1 PROVE c[j] # e
  <2>1. j - 1 > 0
    BY <1>4
  <2>2. QED BY <1>3, <1>4, <2>1 DEF Within
<1>5. ASSUME NEW j \in 1 .. Len(c), NEW k \in 1 .. Len(c), c[j] = c[k] PROVE j = k
  <2>1. CASE j = 1 \/ k = 1
    BY <1>1, <1>4, <1>5, <2>1
  <2>2. CASE j # 1 /\ k # 1
    <3>1. s[j - 1] = s[k - 1] /\ j - 1 \in 1 .. Len(s) /\ k - 1 \in 1 .. Len(s)
      BY <1>3, <1>5, <2>2
    <3>2. j - 1 = k - 1
      BY <3>1 DEF Once
    <3>3. QED BY <3>2
  <2>3. QED BY <2>1, <2>2
<1>6. QED BY <1>5 DEF Once, c

\* A chain without the entry at a position, seen through Within.
LEMMA UnlinkedWithin ==
  ASSUME NEW s \in Seq(Entry), Once(s), NEW i \in 1 .. Len(s)
  PROVE  /\ \A x : Within(RemoveAt(s, i), 0, x) <=> Within(s, 0, x) /\ x # s[i]
         /\ \A x : Within(RemoveAt(s, i), i - 1, x) <=> Within(s, i, x)
         /\ Once(RemoveAt(s, i))
<1> DEFINE c == RemoveAt(s, i)
<1>1. /\ c \in Seq(Entry)
      /\ Len(c) = Len(s) - 1
      /\ \A j \in 1 .. Len(s) - 1 : c[j] = IF j < i THEN s[j] ELSE s[j + 1]
  BY Unlinked
<1>2. Len(s) \in Nat
  OBVIOUS
<1> HIDE DEF c
<1> DEFINE up(j) == IF j < i THEN j ELSE j + 1
           down(j) == IF j < i THEN j ELSE j - 1
<1>3. ASSUME NEW j \in 1 .. Len(c)
      PROVE  up(j) \in 1 .. Len(s) /\ up(j) # i /\ s[up(j)] = c[j]
  BY <1>1, <1>2
<1>4. ASSUME NEW j \in 1 .. Len(s), j # i
      PROVE  down(j) \in 1 .. Len(c) /\ c[down(j)] = s[j]
  <2>1. down(j) \in 1 .. Len(c) /\ up(down(j)) = j
    BY <1>1, <1>2, <1>4
  <2>2. QED BY <1>3, <2>1
<1>5. ASSUME NEW j \in 1 .. Len(c), NEW k \in 1 .. Len(c), c[j] = c[k] PROVE j = k
  <2>1. up(j) = up(k)
    BY <1>3, <1>5 DEF Once
  <2>2. QED BY <2>1
<1>6. ASSUME NEW x PROVE Within(c, 0, x) <=> Within(s, 0, x) /\ x # s[i]
  <2>1. ASSUME Within(c, 0, x) PROVE Within(s, 0, x) /\ x # s[i]
    <3>1. PICK j \in 1 .. Len(c) : c[j] = x
      BY <2>1 DEF Within
    <3>2. up(j) \in 1 .. Len(s) /\ up(j) # i /\ s[up(j)] = x
      BY <1>3, <3>1
    <3>3. up(j) > 0
      OBVIOUS
    <3> HIDE DEF up
    <3>4. QED BY <3>2, <3>3 DEF Within, Once
  <2>2. ASSUME Within(s, 0, x), x # s[i] PROVE Within(c, 0, x)
    <3>1. PICK j \in 1 .. Len(s) : s[j] = x
      BY <2>2 DEF Within
    <3>2. j # i
      BY <2>2, <3>1
    <3>3. down(j) \in 1 .. Len(c) /\ c[down(j)] = x
      BY <1>4, <3>1, <3>2
    <3> HIDE DEF down
    <3>4. down(j) > 0
      BY <3>3
    <3>5. QED BY <3>3, <3>4 DEF Within
  <2>3. QED BY <2>1, <2>2
<1>7. ASSUME NEW x PROVE Within(c, i - 1, x) <=> Within(s, i, x)
  <2>1. ASSUME Within(c, i - 1, x) PROVE Within(s, i, x)
    <3>1. PICK j \in 1 .. Len(c) : j > i - 1 /\ c[j] = x
      BY <2>1 DEF Within
    <3>2. up(j) = j + 1
      BY <3>1
    <3>3. j + 1 \in 1 .. Len(s) /\ s[j + 1] = x
      BY <1>3, <3>1, <3>2
    <3>4. j + 1 > i
      BY <3>1
    <3>5. QED BY <3>3, <3>4 DEF Within
  <2>2. ASSUME Within(s, i, x) PROVE Within(c, i - 1, x)
    <3>1. PICK j \in 1 .. Len(s) : j > i /\ s[j] = x
      BY <2>2 DEF Within
    <3>2. down(j) = j - 1 /\ j # i
      BY <3>1
    <3>3. j - 1 \in 1 .. Len(c) /\ c[j - 1] = x
      BY <1>4, <3>1, <3>2
    <3>4. j - 1 > i - 1
      BY <3>1
    <3>5. QED BY <3>3, <3>4 DEF Within
  <2>3. QED BY <2>1, <2>2
<1>8. Once(c)
  BY <1>5 DEF Once
<1>9. QED BY <1>6, <1>7, <1>8 DEF c

\* Where the iterator stands after a removal.
LEMMA PredecessorPosition ==
  ASSUME NEW s \in Seq(Entry), Once(s), NEW i \in 1 .. Len(s)
  PROVE  LET c == RemoveAt(s, i)
         IN  /\ Position(c, Predecessor(s, i)) = i - 1
             /\ i - 1 \in 0 .. Len(c)
             /\ i # 1 => /\ c[i - 1] = Predecessor(s, i)
                         /\ Predecessor(s, i) \in Entry
             /\ i = 1 => Predecessor(s, i) = AtHead
<1> DEFINE c == RemoveAt(s, i)
<1>1. /\ c \in Seq(Entry)
      /\ Len(c) = Len(s) - 1
      /\ \A j \in 1 .. Len(s) - 1 : c[j] = IF j < i THEN s[j] ELSE s[j + 1]
  BY Unlinked
<1>2. Once(c)
  BY UnlinkedWithin
<1>3. Len(s) \in Nat
  OBVIOUS
<1> HIDE DEF c
<1>4. CASE i = 1
  <2>1. Predecessor(s, i) = AtHead
    BY <1>4 DEF Predecessor
  <2>2. i - 1 \in 0 .. Len(c) /\ i - 1 = 0
    BY <1>1, <1>3, <1>4
  <2>3. QED BY <1>4, <2>1, <2>2, PositionOfHead DEF c
<1>5. CASE i # 1
  <2>1. i - 1 \in 1 .. Len(c) /\ i - 1 < i /\ i - 1 \in 1 .. Len(s) - 1
    BY <1>1, <1>3, <1>5
  <2>2. c[i - 1] = s[i - 1]
    BY <1>1, <2>1
  <2>3. Predecessor(s, i) = c[i - 1]
    BY <1>5, <2>2 DEF Predecessor
  <2>4. Position(c, c[i - 1]) = i - 1
    BY <1>1, <1>2, <2>1, PositionOf DEF Once
  <2>5. c[i - 1] \in Entry
    BY <1>1, <2>1
  <2>6. i - 1 \in 0 .. Len(c)
    BY <2>1
  <2>7. QED BY <1>5, <2>3, <2>4, <2>5, <2>6 DEF c
<1>6. QED BY <1>4, <1>5

-----------------------------------------------------------------------------
(***************************************************************************)
(* The invariant is inductive                                              *)
(***************************************************************************)

\* The chains of a table.
Chains ==
  /\ DOMAIN Buckets = 0 .. BucketCount - 1
  /\ \A i \in DOMAIN Buckets :
       /\ Buckets[i] \in Seq(Entry)
       /\ Len(Buckets[i]) \in Nat
       /\ DOMAIN Buckets[i] = 1 .. Len(Buckets[i])

\* The entries of the table are those on its chains.
MembersOnChains ==
  \A x : x \in Members <=> \E i \in DOMAIN Buckets : Within(Buckets[i], 0, x)

LEMMA ChainsType == TypeOK => Chains
BY DEF TypeOK, Chains

LEMMA MembersAre == TypeOK => MembersOnChains
<1> SUFFICES ASSUME TypeOK PROVE MembersOnChains
  OBVIOUS
<1>1. Chains
  BY ChainsType
<1>2. ASSUME NEW i \in DOMAIN Buckets, NEW x
      PROVE  /\ Contains(Buckets[i], x) <=> Within(Buckets[i], 0, x)
             /\ Within(Buckets[i], 0, x) => x \in Entry
  <2>1. Buckets[i] \in Seq(Entry)
    BY <1>1 DEF Chains
  <2>2. QED BY <2>1, ContainsIsWithin, WithinEntry
<1>3. QED BY <1>2 DEF MembersOnChains, Members, InTable

LEMMA MembersArePrimed == TypeOK' => MembersOnChains'
BY MembersAre, PTL

LEMMA ChainsTypePrimed == TypeOK' => Chains'
BY ChainsType, PTL

\* A table none of whose chains holds anything has no entries.
LEMMA EmptyTable ==
  ASSUME TypeOK, \A i \in DOMAIN Buckets : Buckets[i] = <<>>, ItemCount = 0,
         iter.state = "none"
  PROVE  /\ Members = {}
         /\ Homed /\ Distinct /\ Counted /\ Placed /\ Complete
<1>1. MembersOnChains
  BY MembersAre
<1>2. \A i \in DOMAIN Buckets : \A x : ~Within(Buckets[i], 0, x)
  BY NothingWithin
<1>3. Members = {}
  BY <1>1, <1>2 DEF MembersOnChains
<1>4. Homed
  BY <1>2 DEF Homed
<1>5. Distinct
  BY DEF Distinct, Once
<1>6. Counted
  BY <1>3, FS_EmptySet DEF Counted
<1>7. Placed /\ Complete
  BY DEF Placed, Complete
<1>8. QED BY <1>3, <1>4, <1>5, <1>6, <1>7

\* The same for the table a step leaves.
Empty ==
  /\ TypeOK
  /\ \A i \in DOMAIN Buckets : Buckets[i] = <<>>
  /\ ItemCount = 0
  /\ iter.state = "none"

LEMMA EmptyIsFine ==
  Empty => Members = {} /\ Homed /\ Distinct /\ Counted /\ Placed /\ Complete
BY EmptyTable DEF Empty

LEMMA EmptyIsFinePrimed ==
  Empty' => Members' = {} /\ Homed' /\ Distinct' /\ Counted' /\ Placed' /\ Complete'
<1> DEFINE None == Members = {}
<1>1. Empty => None /\ Homed /\ Distinct /\ Counted /\ Placed /\ Complete
  BY EmptyIsFine
<1> HIDE DEF None
<1>2. Empty' => None' /\ Homed' /\ Distinct' /\ Counted' /\ Placed' /\ Complete'
  BY <1>1, PTL
<1>3. QED BY <1>2 DEF None

LEMMA NoIterType ==
  /\ NoIter \in [state : {"none", "walking", "done"}, Bucket : Nat,
                 HashEntry : Entry \cup {AtHead}]
  /\ NoIter.state = "none"
BY DEF NoIter

LEMMA InitInv == Init => Inv /\ Members = {}
<1> SUFFICES ASSUME Init PROVE Inv /\ Members = {}
  OBVIOUS
<1>1. Buckets \in [0 .. BucketCount - 1 -> Seq(Entry)] /\ DOMAIN Buckets = {}
  <2>1. DOMAIN Buckets = {} /\ BucketCount = 0
    BY DEF Init
  <2>2. 0 .. BucketCount - 1 = {}
    BY <2>1
  <2>3. QED BY <2>1, <2>2 DEF Init
<1>2. TypeOK
  BY <1>1, NoIterType DEF Init, TypeOK
<1>3. Empty
  BY <1>1, <1>2, NoIterType DEF Empty, Init
<1>4. BucketsInArray
  BY DEF BucketsInArray, Init
<1>5. QED BY <1>2, <1>3, <1>4, EmptyIsFine DEF Inv

\* A size that is a power of two is not rounded, so the buckets fit.
LEMMA SizeFits ==
  ASSUME NEW alloc \in Allocs
  PROVE  LET rounded == RoundToPowerOfTwo(alloc)
             count == IF rounded > 2 ^ 26 THEN 2 ^ 26 ELSE rounded
         IN  alloc \in Nat /\ count \in Nat \ {0} /\ count <= alloc
<1>1. alloc \in Nat \ {0} /\ alloc \in {2 ^ i : i \in 0 .. 30}
  BY TableAssumption
<1>2. IsPowerOfTwo(alloc)
  BY <1>1, Zenon DEF IsPowerOfTwo
<1>3. RoundToPowerOfTwo(alloc) = alloc
  BY <1>2, Zenon DEF RoundToPowerOfTwo
<1>4. 2 ^ 26 \in Nat \ {0}
  BY SMT
<1>5. QED BY <1>1, <1>3, <1>4

LEMMA CreateStep ==
  ASSUME Inv, NEW alloc \in Allocs, kvm_mmu_create(alloc)
  PROVE  Inv' /\ Members' = {}
<1>1. PICK count \in Nat \ {0} :
        /\ count <= alloc
        /\ alloc \in Nat
        /\ Buckets' = [i \in 0 .. count - 1 |-> <<>>]
        /\ BucketCount' = count
  BY SizeFits DEF kvm_mmu_create, HashTableChangeTable
<1>2. /\ Flags' = Flags /\ length' = alloc /\ ItemCount' = 0
      /\ iter' = NoIter /\ due' = {} /\ visited' = {}
  BY DEF kvm_mmu_create, HashTableInitialize, HashTableChangeTable
<1>3. /\ Buckets' \in [0 .. count - 1 -> Seq(Entry)]
      /\ \A i \in DOMAIN Buckets' : Buckets'[i] = <<>>
  BY <1>1
<1>4. TypeOK'
  BY <1>1, <1>2, <1>3, NoIterType DEF TypeOK, Inv
<1>5. Empty'
  BY <1>2, <1>3, <1>4, NoIterType DEF Empty
<1>6. BucketsInArray'
  BY <1>1, <1>2 DEF BucketsInArray
<1>7. QED BY <1>4, <1>5, <1>6, EmptyIsFinePrimed DEF Inv

\* A failed allocation leaves a table without buckets, as at the start.
LEMMA CreateFailsStep ==
  ASSUME Inv, kvm_mmu_create_fails
  PROVE  Inv' /\ Members' = {}
<1>1. /\ Flags' = Flags /\ length' = 0 /\ ItemCount' = 0 /\ BucketCount' = 0
      /\ iter' = NoIter /\ due' = {} /\ visited' = {}
  BY DEF kvm_mmu_create_fails, HashTableInitialize
<1>2. Buckets' \in [0 .. BucketCount' - 1 -> Seq(Entry)] /\ DOMAIN Buckets' = {}
  <2>1. DOMAIN Buckets' = {}
    BY DEF kvm_mmu_create_fails
  <2>2. 0 .. BucketCount' - 1 = {}
    BY <1>1
  <2>3. QED BY <2>1, <2>2 DEF kvm_mmu_create_fails
<1>3. TypeOK'
  BY <1>1, <1>2, NoIterType DEF TypeOK, Inv
<1>4. Empty'
  BY <1>1, <1>2, <1>3, NoIterType DEF Empty
<1>5. BucketsInArray'
  BY <1>1 DEF BucketsInArray
<1>6. QED BY <1>3, <1>4, <1>5, EmptyIsFinePrimed DEF Inv

\* HashTableInsert puts an entry that is on no chain at the head of its own.
LEMMA InsertStep ==
  ASSUME Inv, NEW e \in Entry, HashTableInsert(e)
  PROVE  Inv' /\ e \notin Members /\ Members' = Members \cup {e}
<1> DEFINE idx == BucketOf(e)
           C == Buckets[idx]
           D == <<e>> \o C
<1>1. TypeOK /\ Chains /\ MembersOnChains
  BY MembersAre, ChainsType DEF Inv
<1>2. /\ BucketCount # 0 /\ ~InTable(e)
      /\ Buckets' = [Buckets EXCEPT ![idx] = D]
      /\ ItemCount' = ItemCount + 1
      /\ due' = due \ {e} /\ visited' = visited \ {e}
      /\ BucketCount' = BucketCount /\ Flags' = Flags /\ length' = length
      /\ iter' = iter
  BY DEF HashTableInsert, BucketOf
<1>3. idx \in DOMAIN Buckets
  <2>1. HashValue[e] \in Nat
    BY EntryAssumption
  <2>2. idx \in 0 .. BucketCount - 1
    BY <1>1, <1>2, <2>1, BucketOfType DEF TypeOK, BucketOf
  <2>3. QED BY <1>1, <2>2 DEF Chains
<1> HIDE DEF idx
<1>4. C \in Seq(Entry) /\ Len(C) \in Nat
  BY <1>1, <1>3 DEF Chains
<1>5. /\ D \in Seq(Entry) /\ Len(D) = Len(C) + 1
      /\ \A j \in 1 .. Len(C) : D[j + 1] = C[j]
  BY <1>4, Pushed
<1>6. /\ \A x : Within(D, 0, x) <=> x = e \/ Within(C, 0, x)
      /\ \A k \in Nat : \A x : Within(D, k + 1, x) <=> Within(C, k, x)
  BY <1>4, PushedWithin
<1> HIDE DEF D
<1>7. /\ DOMAIN Buckets' = DOMAIN Buckets
      /\ Buckets'[idx] = D
      /\ \A i \in DOMAIN Buckets \ {idx} : Buckets'[i] = Buckets[i]
  BY <1>1, <1>2, <1>3 DEF TypeOK
<1> HIDE DEF C
<1>8. TypeOK'
  <2>1. Buckets' \in [0 .. BucketCount - 1 -> Seq(Entry)]
    BY <1>1, <1>2, <1>5 DEF TypeOK
  <2>2. QED BY <1>1, <1>2, <2>1 DEF TypeOK
<1>9. e \notin Members
  BY <1>2 DEF Members
<1>10. \A i \in DOMAIN Buckets : ~Within(Buckets[i], 0, e)
  BY <1>1, <1>9 DEF MembersOnChains
<1>11. ASSUME NEW i \in DOMAIN Buckets, NEW x
       PROVE  Within(Buckets'[i], 0, x) <=> Within(Buckets[i], 0, x) \/ (i = idx /\ x = e)
  BY <1>6, <1>7 DEF C
<1>12. Members' = Members \cup {e}
  <2>1. MembersOnChains'
    BY <1>8, MembersArePrimed
  <2>2. \A x : x \in Members' <=> \E i \in DOMAIN Buckets : Within(Buckets'[i], 0, x)
    BY <1>7, <2>1 DEF MembersOnChains
  <2>3. \A x : x \in Members' <=> x \in Members \/ x = e
    BY <1>1, <1>3, <1>11, <2>2 DEF MembersOnChains
  <2>4. QED BY <2>3
<1>13. Homed'
  <2>1. \A x : BucketOf(x)' = BucketOf(x)
    BY <1>2 DEF BucketOf, HashTableGetBucketIndex, Masked
  <2>2. ASSUME NEW i \in DOMAIN Buckets, NEW x \in Entry, Within(Buckets'[i], 0, x)
        PROVE  BucketOf(x) = i
    <3>1. CASE i = idx /\ x = e
      BY <3>1 DEF idx
    <3>2. CASE Within(Buckets[i], 0, x)
      BY <3>2 DEF Inv, Homed
    <3>3. QED BY <1>11, <2>2, <3>1, <3>2
  <2>3. QED BY <1>7, <2>1, <2>2 DEF Homed
<1>14. Distinct'
  <2>1. Once(D)
    BY <1>3, <1>4, <1>10, PushedOnce DEF D, C, Inv, Distinct
  <2>2. QED BY <1>7, <2>1 DEF Inv, Distinct
<1>15. Counted'
  <2>1. IsFiniteSet(Members) /\ ItemCount = Cardinality(Members)
    BY DEF Inv, Counted
  <2>2. IsFiniteSet(Members \cup {e}) /\ Cardinality(Members \cup {e}) = Cardinality(Members) + 1
    BY <1>9, <2>1, FS_AddElement
  <2>3. QED BY <1>2, <1>12, <2>1, <2>2 DEF Counted
<1>16. BucketsInArray'
  BY <1>2 DEF Inv, BucketsInArray
<1>17. ASSUME iter.state # "none"
       PROVE  /\ iter.Bucket \in DOMAIN Buckets
              /\ At' \in 0 .. Len(Buckets'[iter.Bucket])
              /\ At' # 0 => Buckets'[iter.Bucket][At'] = iter.HashEntry
              /\ At' = 0 => iter.HashEntry = AtHead
              /\ \A x : x # e =>
                   (Within(Buckets'[iter.Bucket], At', x) <=> Within(Buckets[iter.Bucket], At, x))
  <2> DEFINE b == iter.Bucket
  <2>1. /\ b \in DOMAIN Buckets
        /\ At \in 0 .. Len(Buckets[b])
        /\ At # 0 => Buckets[b][At] = iter.HashEntry
        /\ At = 0 => iter.HashEntry = AtHead
    BY <1>17 DEF Inv, Placed
  <2>2. At' = Position(Buckets'[b], iter.HashEntry)
    BY <1>2 DEF At
  <2>3. CASE b # idx
    <3>1. Buckets'[b] = Buckets[b]
      BY <1>7, <2>1, <2>3
    <3>2. At' = At
      BY <2>2, <3>1 DEF At
    <3>3. QED BY <2>1, <3>1, <3>2
  <2>4. CASE b = idx /\ At = 0
    <3>1. iter.HashEntry = AtHead
      BY <2>1, <2>4
    <3>2. At' = 0
      BY <2>2, <3>1, PositionOfHead
    <3>3. QED BY <1>5, <1>4, <1>6, <1>7, <2>1, <2>4, <3>1, <3>2 DEF C
  <2>5. CASE b = idx /\ At # 0
    <3>1. /\ Buckets[b] = C /\ Buckets'[b] = D /\ At \in 1 .. Len(C)
          /\ At + 1 \in 1 .. Len(D) /\ At \in Nat
      BY <1>4, <1>5, <1>7, <2>1, <2>5 DEF C
    <3>2. D[At + 1] = iter.HashEntry
      BY <1>5, <2>1, <2>5, <3>1
    <3>3. Once(D)
      BY <1>3, <1>7, <1>14 DEF Distinct
    <3>4. Position(D, D[At + 1]) = At + 1
      BY <1>5, <3>1, <3>3, PositionOf DEF Once
    <3>5. At' = At + 1
      BY <2>2, <3>1, <3>2, <3>4
    <3>6. \A x : Within(D, At + 1, x) <=> Within(C, At, x)
      BY <1>6, <3>1
    <3>7. At + 1 \in 0 .. Len(D) /\ At + 1 # 0
      BY <3>1
    <3>8. QED BY <2>1, <3>1, <3>2, <3>5, <3>6, <3>7
  <2>6. QED BY <2>3, <2>4, <2>5
<1>18. Placed'
  BY <1>2, <1>7, <1>17 DEF Placed
<1>19. ASSUME iter.state # "none", NEW x, x # e PROVE ToCome(x)' <=> ToCome(x)
  <2>1. Within(Buckets'[iter.Bucket], At', x) <=> Within(Buckets[iter.Bucket], At, x)
    BY <1>17, <1>19
  <2>2. \A i \in DOMAIN Buckets : Within(Buckets'[i], 0, x) <=> Within(Buckets[i], 0, x)
    BY <1>11, <1>19
  <2>3. ToCome(x)' <=> \/ Within(Buckets'[iter.Bucket], At', x)
                      \/ \E i \in DOMAIN Buckets : i > iter.Bucket /\ Within(Buckets'[i], 0, x)
    BY <1>2, <1>7 DEF ToCome
  <2>4. QED BY <2>1, <2>2, <2>3 DEF ToCome
<1>20. Complete'
  BY <1>2, <1>19 DEF Inv, Complete
<1>21. QED
  BY <1>8, <1>9, <1>12, <1>13, <1>14, <1>15, <1>16, <1>18, <1>20 DEF Inv

\* A step of the iterator leaves the table as it is.
LEMMA TableKept ==
  ASSUME Inv, UNCHANGED tableVars
  PROVE  /\ Homed' /\ Distinct' /\ Counted' /\ BucketsInArray'
         /\ Members' = Members
<1>1. /\ Buckets' = Buckets /\ BucketCount' = BucketCount /\ Flags' = Flags
      /\ length' = length /\ ItemCount' = ItemCount
  BY DEF tableVars
<1>2. Members' = Members
  BY <1>1 DEF Members, InTable
<1>3. Homed'
  BY <1>1 DEF Inv, Homed, BucketOf, HashTableGetBucketIndex, Masked
<1>4. Distinct' /\ Counted' /\ BucketsInArray'
  BY <1>1, <1>2 DEF Inv, Distinct, Counted, BucketsInArray
<1>5. QED BY <1>2, <1>3, <1>4

\* HashTableIterInit: everything is still to come.
LEMMA IterInitStep ==
  ASSUME Inv, HashTableIterInit
  PROVE  Inv' /\ Members' = Members
<1>1. TypeOK /\ Chains /\ MembersOnChains
  BY MembersAre, ChainsType DEF Inv
<1>2. /\ BucketCount # 0
      /\ iter' = [state |-> "walking", Bucket |-> 0, HashEntry |-> AtHead]
      /\ due' = Members /\ visited' = {}
      /\ UNCHANGED tableVars
  BY DEF HashTableIterInit
<1>3. /\ Buckets' = Buckets /\ BucketCount' = BucketCount /\ Flags' = Flags
      /\ length' = length /\ ItemCount' = ItemCount
  BY <1>2 DEF tableVars
<1>4. iter'.Bucket = 0 /\ iter'.HashEntry = AtHead /\ iter'.state = "walking"
  BY <1>2
<1>5. TypeOK'
  BY <1>1, <1>2, <1>3 DEF TypeOK, Members
<1>6. 0 \in DOMAIN Buckets /\ \A i \in DOMAIN Buckets : i = 0 \/ i > 0
  BY <1>1, <1>2 DEF Chains, TypeOK
<1>7. At' = 0
  BY <1>3, <1>4, PositionOfHead DEF At
<1>8. Placed'
  <2>1. 0 \in 0 .. Len(Buckets[0])
    BY <1>1, <1>6 DEF Chains
  <2>2. QED BY <1>3, <1>4, <1>6, <1>7, <2>1 DEF Placed
<1>9. ASSUME NEW x \in Members PROVE ToCome(x)'
  <2>1. PICK i \in DOMAIN Buckets : Within(Buckets[i], 0, x)
    BY <1>1 DEF MembersOnChains
  <2>2. QED BY <1>3, <1>4, <1>6, <1>7, <2>1 DEF ToCome
<1>10. Complete'
  BY <1>2, <1>9 DEF Complete
<1>11. QED BY <1>2, <1>5, <1>8, <1>10, TableKept DEF Inv

\* What a walking iterator may rely on.
LEMMA Walking ==
  ASSUME Inv, iter.state = "walking"
  PROVE  /\ iter.Bucket \in DOMAIN Buckets
         /\ iter.Bucket \in Nat
         /\ Buckets[iter.Bucket] \in Seq(Entry)
         /\ Once(Buckets[iter.Bucket])
         /\ At \in 0 .. Len(Buckets[iter.Bucket])
         /\ At # 0 => Buckets[iter.Bucket][At] = iter.HashEntry
         /\ At = 0 => iter.HashEntry = AtHead
<1>1. /\ iter.Bucket \in DOMAIN Buckets
      /\ At \in 0 .. Len(Buckets[iter.Bucket])
      /\ At # 0 => Buckets[iter.Bucket][At] = iter.HashEntry
      /\ At = 0 => iter.HashEntry = AtHead
  BY DEF Inv, Placed
<1>2. Chains
  BY ChainsType DEF Inv
<1>3. QED BY <1>1, <1>2 DEF Chains, Inv, Distinct, TypeOK

\* A step of the iterator to position k + 1 of bucket b, when the entry there
\* was to come and is all that is passed.
LEMMA Advance ==
  ASSUME Inv, iter.state = "walking", UNCHANGED <<tableVars, due>>,
         NEW b \in DOMAIN Buckets, b \in Nat,
         NEW k \in 0 .. Len(Buckets[b]), k < Len(Buckets[b]),
         iter' = [iter EXCEPT !.Bucket = b, !.HashEntry = Buckets[b][k + 1]],
         visited' = visited \cup {Buckets[b][k + 1]},
         \A x : ToCome(x) <=> \/ Within(Buckets[b], k, x)
                            \/ \E i \in DOMAIN Buckets : i > b /\ Within(Buckets[i], 0, x)
  PROVE  Inv' /\ Members' = Members
<1> DEFINE s == Buckets[b]
           next == s[k + 1]
<1>1. TypeOK /\ Chains
  BY ChainsType DEF Inv
<1>2. s \in Seq(Entry) /\ Once(s) /\ Len(s) \in Nat
  BY <1>1 DEF Chains, Inv, Distinct
<1>3. /\ Buckets' = Buckets /\ BucketCount' = BucketCount /\ Flags' = Flags
      /\ length' = length /\ ItemCount' = ItemCount /\ due' = due
  BY DEF tableVars
<1>4. /\ next \in Entry
      /\ Position(s, next) = k + 1
      /\ \A x : Within(s, k, x) <=> x = next \/ Within(s, k + 1, x)
      /\ ~Within(s, k + 1, next)
  BY <1>2, StepForward
<1>5. iter'.Bucket = b /\ iter'.HashEntry = next /\ iter'.state = "walking"
  BY <1>1 DEF TypeOK
<1>6. At' = k + 1
  BY <1>3, <1>4, <1>5 DEF At
<1>7. TypeOK'
  <2>1. iter' \in [state : {"none", "walking", "done"}, Bucket : Nat,
                   HashEntry : Entry \cup {AtHead}]
    BY <1>1, <1>4 DEF TypeOK
  <2>2. QED BY <1>1, <1>3, <1>4, <2>1 DEF TypeOK
<1>8. Placed'
  <2>1. k + 1 \in 0 .. Len(s) /\ k + 1 # 0
    BY <1>2
  <2>2. QED BY <1>3, <1>5, <1>6, <2>1 DEF Placed
<1>9. ASSUME NEW x
      PROVE  /\ ToCome(x) <=> x = next \/ ToCome(x)'
             /\ x = next => ~ToCome(x)'
  <2>1. ToCome(x)' <=> \/ Within(s, k + 1, x)
                      \/ \E i \in DOMAIN Buckets : i > b /\ Within(Buckets[i], 0, x)
    BY <1>3, <1>5, <1>6 DEF ToCome
  <2>2. ASSUME NEW i \in DOMAIN Buckets, i > b PROVE ~Within(Buckets[i], 0, next)
    <3>1. Within(s, 0, next)
      <4>1. k + 1 \in 1 .. Len(s) /\ k + 1 > 0
        BY <1>2
      <4>2. QED BY <4>1 DEF Within
    <3>2. BucketOf(next) = b
      BY <1>4, <3>1 DEF Inv, Homed
    <3>3. i # b
      BY <1>1, <2>2 DEF Chains, TypeOK
    <3>4. QED BY <1>4, <3>2, <3>3 DEF Inv, Homed
  <2>3. QED BY <1>4, <2>1, <2>2
<1>10. Complete'
  <2>1. /\ \A x \in due : x \in visited \/ ToCome(x)
        /\ \A x \in visited : ~ToCome(x)
    BY DEF Inv, Complete
  <2>2. \A x \in due' : x \in visited' \/ ToCome(x)'
    BY <1>3, <1>9, <2>1
  <2>3. \A x \in visited' : ~ToCome(x)'
    BY <1>9, <2>1
  <2>4. QED BY <2>2, <2>3 DEF Complete
<1>11. QED BY <1>7, <1>8, <1>10, TableKept DEF Inv

\* HashTableIterGetNext: along the chain, or to the next bucket that has one.
LEMMA GetNextStep ==
  ASSUME Inv, HashTableIterGetNext
  PROVE  Inv' /\ Members' = Members
<1> DEFINE chain == Buckets[iter.Bucket]
           bucket == IF At < Len(chain) THEN iter.Bucket ELSE Least(SkipEmpty)
           next == Buckets[bucket][IF At < Len(chain) THEN At + 1 ELSE 1]
<1>1. /\ iter.state = "walking"
      /\ IF At = Len(chain) /\ SkipEmpty = {}
         THEN /\ iter' = [iter EXCEPT !.state = "done"]
              /\ UNCHANGED visited
         ELSE /\ iter' = [iter EXCEPT !.Bucket = bucket, !.HashEntry = next]
              /\ visited' = visited \cup {next}
      /\ UNCHANGED <<tableVars, due>>
  BY DEF HashTableIterGetNext, At
<1>2. /\ iter.Bucket \in DOMAIN Buckets /\ iter.Bucket \in Nat
      /\ chain \in Seq(Entry)
      /\ Once(chain)
      /\ At \in 0 .. Len(chain)
      /\ Len(chain) \in Nat
  BY <1>1, Walking
<1>3. TypeOK /\ Chains
  BY ChainsType DEF Inv
<1>4. CASE At < Len(chain)
  <2>1. bucket = iter.Bucket /\ next = Buckets[iter.Bucket][At + 1] /\ At # Len(chain)
    BY <1>2, <1>4
  <2>2. /\ iter' = [iter EXCEPT !.Bucket = iter.Bucket,
                               !.HashEntry = Buckets[iter.Bucket][At + 1]]
        /\ visited' = visited \cup {Buckets[iter.Bucket][At + 1]}
    BY <1>1, <2>1
  <2>3. \A x : ToCome(x) <=>
          \/ Within(Buckets[iter.Bucket], At, x)
          \/ \E i \in DOMAIN Buckets : i > iter.Bucket /\ Within(Buckets[i], 0, x)
    BY DEF ToCome
  <2>4. QED BY <1>1, <1>2, <1>4, <2>2, <2>3, Advance
<1>5. CASE At = Len(chain) /\ SkipEmpty # {}
  <2>1. SkipEmpty \in SUBSET Nat
    BY <1>3 DEF SkipEmpty, Chains, TypeOK
  <2>2. Least(SkipEmpty) \in SkipEmpty /\ \A j \in SkipEmpty : Least(SkipEmpty) <= j
    BY <1>5, <2>1, LeastNatural
  <2>3. bucket = Least(SkipEmpty) /\ next = Buckets[bucket][1]
    BY <1>2, <1>5
  <2>4. /\ bucket \in DOMAIN Buckets /\ bucket \in Nat
        /\ bucket > iter.Bucket /\ Buckets[bucket] # <<>>
        /\ \A j \in SkipEmpty : bucket <= j
    BY <2>1, <2>2, <2>3 DEF SkipEmpty
  <2>5. iter' = [iter EXCEPT !.Bucket = bucket, !.HashEntry = next]
        /\ visited' = visited \cup {next}
    BY <1>1, <1>5
  <2> HIDE DEF bucket, next
  <2>6. Buckets[bucket] \in Seq(Entry) /\ 0 < Len(Buckets[bucket]) /\ 0 \in 0 .. Len(Buckets[bucket])
    <3>1. Buckets[bucket] \in Seq(Entry) /\ Len(Buckets[bucket]) \in Nat
      BY <1>3, <2>4 DEF Chains
    <3>2. Len(Buckets[bucket]) # 0
      BY <2>4, <3>1
    <3>3. QED BY <3>1, <3>2
  <2>7. next = Buckets[bucket][0 + 1]
    BY <2>3
  <2>8. ASSUME NEW x
        PROVE  ToCome(x) <=>
                 \/ Within(Buckets[bucket], 0, x)
                 \/ \E i \in DOMAIN Buckets : i > bucket /\ Within(Buckets[i], 0, x)
    <3>1. ~Within(chain, At, x)
      BY <1>2, <1>5, EndOfChain
    <3>2. ASSUME NEW i \in DOMAIN Buckets, i > iter.Bucket, Within(Buckets[i], 0, x)
          PROVE  i = bucket \/ i > bucket
      <4>1. Buckets[i] # <<>>
        BY <3>2, NothingWithin
      <4>2. i \in SkipEmpty /\ i \in Nat
        BY <2>1, <3>2, <4>1 DEF SkipEmpty
      <4>3. bucket <= i
        BY <2>4, <4>2
      <4>4. QED BY <2>4, <4>2, <4>3
    <3>3. ASSUME NEW i \in DOMAIN Buckets, i > bucket PROVE i > iter.Bucket
      BY <1>2, <1>3, <2>4, <3>3 DEF Chains, TypeOK
    <3>4. QED BY <2>4, <3>1, <3>2, <3>3 DEF ToCome
  <2>9. QED BY <1>1, <2>4, <2>5, <2>6, <2>7, <2>8, Advance
<1>6. CASE At = Len(chain) /\ SkipEmpty = {}
  <2>1. iter' = [iter EXCEPT !.state = "done"] /\ visited' = visited
    BY <1>1, <1>6
  <2>2. /\ Buckets' = Buckets /\ BucketCount' = BucketCount /\ Flags' = Flags
        /\ length' = length /\ ItemCount' = ItemCount /\ due' = due
    BY <1>1 DEF tableVars
  <2>3. /\ iter'.Bucket = iter.Bucket /\ iter'.HashEntry = iter.HashEntry
        /\ iter' \in [state : {"none", "walking", "done"}, Bucket : Nat,
                     HashEntry : Entry \cup {AtHead}]
    BY <1>3, <2>1 DEF TypeOK
  <2>4. TypeOK'
    BY <1>3, <2>1, <2>2, <2>3 DEF TypeOK
  <2>5. At' = At
    BY <2>2, <2>3 DEF At
  <2>6. \A x : ToCome(x)' <=> ToCome(x)
    BY <2>2, <2>3, <2>5 DEF ToCome
  <2>7. Placed'
    BY <1>1, <2>2, <2>3, <2>5 DEF Inv, Placed
  <2>8. Complete'
    BY <1>1, <2>1, <2>2, <2>6 DEF Inv, Complete
  <2>9. QED BY <1>1, <2>4, <2>7, <2>8, TableKept DEF Inv
<1>7. QED BY <1>2, <1>4, <1>5, <1>6

\* HashTableIterRemove: the iterator steps back, so what was ahead still is.
LEMMA RemoveStep ==
  ASSUME Inv, HashTableIterRemove
  PROVE  /\ Inv'
         /\ iter.HashEntry \in Members
         /\ Members' = Members \ {iter.HashEntry}
<1> DEFINE b == iter.Bucket
           s == Buckets[b]
           e == iter.HashEntry
           c == RemoveAt(s, At)
<1>1. /\ iter.state = "walking" /\ Contains(s, e)
      /\ Buckets' = [Buckets EXCEPT ![b] = c]
      /\ ItemCount' = ItemCount - 1
      /\ iter' = [iter EXCEPT !.HashEntry = Predecessor(s, At)]
      /\ BucketCount' = BucketCount /\ Flags' = Flags /\ length' = length
      /\ due' = due /\ visited' = visited
  BY DEF HashTableIterRemove, At
<1>2. TypeOK /\ Chains /\ MembersOnChains
  BY MembersAre, ChainsType DEF Inv
<1>3. /\ b \in DOMAIN Buckets /\ s \in Seq(Entry) /\ Once(s) /\ Len(s) \in Nat
      /\ At \in 0 .. Len(s)
      /\ At # 0 => s[At] = e
      /\ At = 0 => e = AtHead
  BY <1>1, Walking
<1>4. Within(s, 0, e) /\ e \in Entry
  BY <1>1, <1>3, ContainsIsWithin, WithinEntry
<1>5. At \in 1 .. Len(s) /\ s[At] = e
  BY <1>3, <1>4, EntryAssumption
<1>6. /\ \A x : Within(c, 0, x) <=> Within(s, 0, x) /\ x # e
      /\ \A x : Within(c, At - 1, x) <=> Within(s, At, x)
      /\ Once(c) /\ c \in Seq(Entry)
  BY <1>3, <1>5, UnlinkedWithin, Unlinked
<1>7. /\ Position(c, Predecessor(s, At)) = At - 1
      /\ At - 1 \in 0 .. Len(c)
      /\ At # 1 => c[At - 1] = Predecessor(s, At) /\ Predecessor(s, At) \in Entry
      /\ At = 1 => Predecessor(s, At) = AtHead
  BY <1>3, <1>5, PredecessorPosition
<1> HIDE DEF c
<1>8. /\ DOMAIN Buckets' = DOMAIN Buckets
      /\ Buckets'[b] = c
      /\ \A i \in DOMAIN Buckets \ {b} : Buckets'[i] = Buckets[i]
  BY <1>1, <1>2, <1>3 DEF TypeOK
<1>9. iter'.Bucket = b /\ iter'.HashEntry = Predecessor(s, At) /\ iter'.state = "walking"
  BY <1>1, <1>2 DEF TypeOK
<1>10. At' = At - 1
  BY <1>7, <1>8, <1>9 DEF At
<1>11. ASSUME NEW i \in DOMAIN Buckets, NEW x
       PROVE  Within(Buckets'[i], 0, x) <=> Within(Buckets[i], 0, x) /\ ~(i = b /\ x = e)
  BY <1>6, <1>8
<1>12. \A i \in DOMAIN Buckets : Within(Buckets[i], 0, e) => i = b
  BY <1>3, <1>4 DEF Inv, Homed
<1>13. ItemCount' \in Nat /\ Counted' /\ e \in Members /\ Members' = Members \ {e} /\ TypeOK'
  <2>1. e \in Members
    BY <1>2, <1>3, <1>4 DEF MembersOnChains
  <2>2. IsFiniteSet(Members) /\ ItemCount = Cardinality(Members)
    BY DEF Inv, Counted
  <2>3. /\ IsFiniteSet(Members \ {e})
        /\ Cardinality(Members \ {e}) = Cardinality(Members) - 1
        /\ Cardinality(Members \ {e}) \in Nat
    BY <2>1, <2>2, FS_RemoveElement, FS_CardinalityType
  <2>4. ItemCount' \in Nat
    BY <1>1, <2>2, <2>3
  <2>5. Buckets' \in [0 .. BucketCount - 1 -> Seq(Entry)]
    BY <1>1, <1>2, <1>6 DEF TypeOK
  <2>6. iter' \in [state : {"none", "walking", "done"}, Bucket : Nat,
                   HashEntry : Entry \cup {AtHead}]
    <3>1. Predecessor(s, At) \in Entry \cup {AtHead}
      BY <1>7
    <3> HIDE DEF s
    <3>2. QED BY <1>1, <1>2, <3>1 DEF TypeOK
  <2>7. TypeOK'
    BY <1>1, <1>2, <2>4, <2>5, <2>6 DEF TypeOK
  <2>8. MembersOnChains'
    BY <2>7, MembersArePrimed
  <2>9. \A x : x \in Members' <=> \E i \in DOMAIN Buckets : Within(Buckets'[i], 0, x)
    BY <1>8, <2>8 DEF MembersOnChains
  <2>10. \A x : x \in Members' <=> x \in Members /\ x # e
    BY <1>2, <1>11, <1>12, <2>9 DEF MembersOnChains
  <2>11. Members' = Members \ {e}
    BY <2>10
  <2>12. QED BY <1>1, <2>1, <2>2, <2>3, <2>4, <2>7, <2>11 DEF Counted
<1>14. Homed'
  <2>1. \A x : BucketOf(x)' = BucketOf(x)
    BY <1>1 DEF BucketOf, HashTableGetBucketIndex, Masked
  <2>2. QED BY <1>8, <1>11, <2>1 DEF Inv, Homed
<1>15. Distinct'
  BY <1>6, <1>8 DEF Inv, Distinct
<1>16. BucketsInArray'
  BY <1>1 DEF Inv, BucketsInArray
<1>17. Placed'
  <2>1. At - 1 # 0 <=> At # 1
    BY <1>5
  <2>2. QED BY <1>3, <1>7, <1>8, <1>9, <1>10, <2>1 DEF Placed
<1>18. ASSUME NEW x PROVE ToCome(x)' <=> ToCome(x)
  <2>1. ToCome(x)' <=> \/ Within(c, At - 1, x)
                      \/ \E i \in DOMAIN Buckets : i > b /\ Within(Buckets'[i], 0, x)
    BY <1>8, <1>9, <1>10 DEF ToCome
  <2>2. \A i \in DOMAIN Buckets : i > b => i # b
    BY <1>2 DEF Chains, TypeOK
  <2>3. \A i \in DOMAIN Buckets : i > b => (Within(Buckets'[i], 0, x) <=> Within(Buckets[i], 0, x))
    BY <1>11, <2>2
  <2>4. QED BY <1>6, <2>1, <2>3 DEF ToCome
<1>19. Complete'
  BY <1>1, <1>18 DEF Inv, Complete
<1>20. QED
  BY <1>13, <1>14, <1>15, <1>16, <1>17, <1>19 DEF Inv

LEMMA Stutter ==
  ASSUME Inv, UNCHANGED vars
  PROVE  Inv' /\ Members' = Members
<1>1. UNCHANGED tableVars /\ iter' = iter /\ due' = due /\ visited' = visited
  BY DEF vars, iterVars
<1>2. /\ Buckets' = Buckets /\ BucketCount' = BucketCount /\ Flags' = Flags
      /\ length' = length /\ ItemCount' = ItemCount
  BY <1>1 DEF tableVars
<1>3. TypeOK'
  BY <1>1, <1>2 DEF Inv, TypeOK
<1>4. Placed' /\ Complete'
  BY <1>1, <1>2 DEF Inv, Placed, Complete, At, ToCome
<1>5. QED BY <1>1, <1>3, <1>4, TableKept DEF Inv

-----------------------------------------------------------------------------
(***************************************************************************)
(* Look-ups                                                                *)
(***************************************************************************)

\* A set of positions that has a member has a last one.
LEMMA LastPosition ==
  ASSUME NEW m \in Nat, NEW P \in SUBSET (0 .. m), P # {}
  PROVE  \E p \in P : \A q \in P : q <= p
<1> DEFINE D == {m - p : p \in P}
<1>1. D \in SUBSET Nat /\ D # {}
  <2>1. ASSUME NEW p \in P PROVE m - p \in Nat
    OBVIOUS
  <2>2. \A d \in D : d \in Nat
    BY <2>1
  <2>3. PICK p \in P : TRUE
    OBVIOUS
  <2>4. m - p \in D
    BY <2>3
  <2>5. QED BY <2>2, <2>4
<1>2. Least(D) \in D /\ \A d \in D : Least(D) <= d
  BY <1>1, LeastNatural
<1>3. PICK p \in P : Least(D) = m - p
  BY <1>2
<1>4. ASSUME NEW q \in P PROVE q <= p
  <2>1. m - q \in D
    OBVIOUS
  <2>2. m - p <= m - q
    BY <1>2, <1>3, <2>1
  <2>3. p \in Int /\ q \in Int
    OBVIOUS
  <2>4. QED BY <2>2, <2>3
<1>5. QED BY <1>4

\* The first of the positions behind p, on chain s, that hold the key.
NextHit(s, hits, p) ==
  LET behind == {i \in hits : i > p}
  IN  IF behind = {} THEN NULL ELSE s[Least(behind)]

\* Following the answers from the first one reaches every hit.
LEMMA AnswersReachHits ==
  ASSUME NEW s \in Seq(Entry), NEW hits \in SUBSET (1 .. Len(s)), NEW S,
         NEW m \in hits,
         NextHit(s, hits, 0) \in S \cup {NULL},
         \A j \in hits : s[j] \in S => NextHit(s, hits, j) \in S \cup {NULL}
  PROVE  s[m] \in S
<1> SUFFICES ASSUME s[m] \notin S PROVE FALSE
  OBVIOUS
<1> DEFINE Bad == {i \in hits : s[i] \notin S}
<1>0. Len(s) \in Nat /\ \A i \in hits : i \in Nat /\ i \in 1 .. Len(s)
  OBVIOUS
<1>1. Bad \in SUBSET Nat /\ Bad # {}
  <2>1. m \in Bad
    OBVIOUS
  <2>2. \A i \in Bad : i \in Nat
    BY <1>0
  <2>3. QED BY <2>1, <2>2
<1>2. PICK b \in Bad : \A i \in Bad : b <= i
  BY <1>1, LeastNatural
<1>3. b \in hits /\ b \in Nat /\ b \in 1 .. Len(s) /\ s[b] \notin S
  BY <1>0, <1>2
<1>4. s[b] \in Entry /\ s[b] # NULL
  BY <1>3, EntryAssumption
<1> DEFINE Earlier == {j \in hits : j < b}
<1>5. ASSUME NEW p \in Nat, p < b, \A i \in hits : i > p => b <= i,
             NextHit(s, hits, p) \in S \cup {NULL}
      PROVE  FALSE
  <2> DEFINE behind == {i \in hits : i > p}
  <2>1. b \in behind /\ behind # {}
    BY <1>3, <1>5
  <2>2. behind \in SUBSET Nat
    <3>1. \A i \in behind : i \in Nat
      BY <1>0
    <3>2. QED BY <3>1
  <2>3. Least(behind) \in behind /\ \A i \in behind : Least(behind) <= i
    BY <2>1, <2>2, LeastNatural
  <2>4. Least(behind) = b
    <3>1. Least(behind) <= b /\ b <= Least(behind) /\ Least(behind) \in Nat
      BY <1>5, <2>1, <2>2, <2>3
    <3> HIDE DEF behind
    <3>2. QED BY <1>3, <3>1
  <2>5. NextHit(s, hits, p) = s[b]
    BY <2>1, <2>4 DEF NextHit
  <2>6. QED BY <1>3, <1>4, <1>5, <2>5
<1>6. CASE Earlier = {}
  <2>1. 0 < b /\ 0 \in Nat
    BY <1>3
  <2>2. \A i \in hits : i > 0 => b <= i
    BY <1>0, <1>3, <1>6
  <2>3. QED BY <1>5, <2>1, <2>2
<1>7. CASE Earlier # {}
  <2>1. Earlier \in SUBSET (0 .. b)
    <3>1. \A i \in Earlier : i \in 0 .. b
      BY <1>0, <1>3
    <3>2. QED BY <3>1
  <2>2. PICK p \in Earlier : \A q \in Earlier : q <= p
    BY <1>3, <1>7, <2>1, LastPosition
  <2>3. p \in hits /\ p < b /\ p \in Nat
    BY <2>1, <2>2
  <2>4. s[p] \in S
    <3>1. ~(b <= p)
      BY <1>3, <2>3
    <3>2. QED BY <1>2, <2>3, <3>1
  <2>5. NextHit(s, hits, p) \in S \cup {NULL}
    BY <2>3, <2>4
  <2>6. ASSUME NEW i \in hits, i > p PROVE b <= i
    <3>1. i \in Nat
      BY <1>0
    <3>2. ~(i < b)
      BY <2>2, <2>3, <2>6, <3>1
    <3>3. QED BY <1>3, <3>1, <3>2
  <2>7. QED BY <1>5, <2>3, <2>5, <2>6
<1>8. QED BY <1>6, <1>7

\* The answers are entries with the key.
LEMMA AnswersAreHits ==
  ASSUME NEW s \in Seq(Entry), NEW hits \in SUBSET (1 .. Len(s)), NEW p
  PROVE  NextHit(s, hits, p) \in {s[i] : i \in hits} \cup {NULL}
<1> DEFINE behind == {i \in hits : i > p}
<1>1. CASE behind = {}
  BY <1>1 DEF NextHit
<1>2. CASE behind # {}
  <2>1. behind \in SUBSET Nat
    <3>1. \A i \in behind : i \in Nat
      OBVIOUS
    <3>2. QED BY <3>1
  <2>2. Least(behind) \in behind
    BY <1>2, <2>1, LeastNatural
  <2>3. NextHit(s, hits, p) = s[Least(behind)]
    BY <1>2 DEF NextHit
  <2>4. QED BY <2>2, <2>3
<1>3. QED BY <1>1, <1>2

\* A look-up returns the entries with the key of the value, and no others.
LEMMA LookUp == Inv => FindReturnsTheKey
<1> SUFFICES ASSUME Inv, BucketCount # 0,
                    NEW value \in {HashValue[e] : e \in Entry}
             PROVE  FoundFor(value) = {e \in Members : Masked(HashValue[e]) = Masked(value)}
  BY DEF FindReturnsTheKey
<1> DEFINE K == Masked(value)
           idx == HashTableGetBucketIndex(K)
           s == Buckets[idx]
           hits == {i \in 1 .. Len(s) : Masked(HashValue[s[i]]) = K}
           T == {e \in Members : Masked(HashValue[e]) = K}
           chain == ToSet(ChainOf(K))
           answer == [link \in chain \cup {NULL} |-> HashTableFindNext(value, link)]
           Closed(S) == \A link \in S \cup {NULL} : answer[link] \in S \cup {NULL}
<1>1. TypeOK /\ Chains /\ MembersOnChains
  BY MembersAre, ChainsType DEF Inv
<1>2. value \in Nat
  BY EntryAssumption
<1>3. idx \in DOMAIN Buckets
  <2>1. idx \in 0 .. BucketCount - 1
    BY <1>1, <1>2, BucketOfType DEF TypeOK
  <2>2. QED BY <1>1, <2>1 DEF Chains
<1>4. /\ s \in Seq(Entry) /\ Once(s) /\ Len(s) \in Nat /\ DOMAIN s = 1 .. Len(s)
      /\ ChainOf(K) = s
  BY <1>1, <1>3 DEF Chains, Inv, Distinct, ChainOf
<1>5. FoundFor(value) = {e \in chain : \A S \in SUBSET chain : Closed(S) => e \in S}
  BY DEF FoundFor
<1>6. \A e \in Entry : Masked(HashValue[e]) = K => BucketOf(e) = idx
  BY DEF BucketOf
<1>7. NULL \notin Entry /\ AtHead \notin Entry
  BY EntryAssumption
<1>8. ASSUME NEW link
      PROVE  HashTableFindNext(value, link) =
               NextHit(s, hits, Position(s, IF link = NULL THEN AtHead ELSE link))
  <2> DEFINE q == Position(s, IF link = NULL THEN AtHead ELSE link)
             behind == {i \in DOMAIN s : i > q /\ Masked(HashValue[s[i]]) = K}
  <2>1. behind = {i \in hits : i > q}
    BY <1>4
  <2>2. HashTableFindNext(value, link) = IF behind = {} THEN NULL ELSE s[Least(behind)]
    BY <1>4 DEF HashTableFindNext
  <2> HIDE DEF q, behind, hits, s
  <2>3. QED BY <2>1, <2>2 DEF NextHit, q
<1> HIDE DEF K, idx
<1>9. chain = {s[i] : i \in 1 .. Len(s)}
  BY <1>4 DEF ToSet
<1>10. T = {s[i] : i \in hits}
  <2>1. ASSUME NEW e \in T PROVE e \in {s[i] : i \in hits}
    <3>1. PICK i \in DOMAIN Buckets : Within(Buckets[i], 0, e)
      BY <1>1 DEF MembersOnChains
    <3>2. e \in Entry /\ BucketOf(e) = idx
      BY <1>6 DEF Members
    <3>3. Within(s, 0, e)
      BY <3>1, <3>2 DEF Inv, Homed
    <3>4. QED BY <3>3 DEF Within
  <2>2. ASSUME NEW i \in hits PROVE s[i] \in T
    <3>1. i > 0 /\ i \in 1 .. Len(s)
      BY <1>4
    <3>2. Within(s, 0, s[i])
      BY <3>1 DEF Within
    <3>3. QED BY <1>1, <1>3, <3>2 DEF MembersOnChains
  <2>3. QED BY <2>1, <2>2
<1>11. T \in SUBSET chain
  BY <1>9, <1>10
<1>12. ASSUME NEW j \in 1 .. Len(s) PROVE s[j] # NULL /\ Position(s, s[j]) = j /\ s[j] \in chain
  BY <1>4, <1>7, <1>9, PositionOf DEF Once
<1>13. answer[NULL] = NextHit(s, hits, 0)
  <2>1. answer[NULL] = HashTableFindNext(value, NULL)
    OBVIOUS
  <2>2. HashTableFindNext(value, NULL) = NextHit(s, hits, Position(s, AtHead))
    BY <1>8
  <2>3. QED BY <2>1, <2>2, PositionOfHead
<1>14. ASSUME NEW j \in 1 .. Len(s) PROVE answer[s[j]] = NextHit(s, hits, j)
  <2>1. answer[s[j]] = HashTableFindNext(value, s[j])
    BY <1>12
  <2>2. HashTableFindNext(value, s[j]) = NextHit(s, hits, Position(s, s[j]))
    BY <1>8, <1>12
  <2>3. QED BY <1>12, <2>1, <2>2
<1> HIDE DEF answer, s
<1>15. hits \in SUBSET (1 .. Len(s))
  OBVIOUS
<1> HIDE DEF hits, T, chain
<1>16. Closed(T)
  <2>1. ASSUME NEW p PROVE NextHit(s, hits, p) \in T \cup {NULL}
    BY <1>4, <1>10, <1>15, AnswersAreHits
  <2>2. answer[NULL] \in T \cup {NULL}
    BY <1>13, <2>1
  <2>3. ASSUME NEW e \in T PROVE answer[e] \in T \cup {NULL}
    <3>1. PICK i \in hits : e = s[i]
      BY <1>10
    <3>2. QED BY <1>14, <1>15, <2>1, <3>1
  <2>4. QED BY <2>2, <2>3
<1>17. ASSUME NEW S \in SUBSET chain, Closed(S), NEW e \in T PROVE e \in S
  <2>1. PICK m \in hits : e = s[m]
    BY <1>10
  <2>2. NextHit(s, hits, 0) \in S \cup {NULL}
    BY <1>13, <1>17
  <2>3. ASSUME NEW j \in hits, s[j] \in S PROVE NextHit(s, hits, j) \in S \cup {NULL}
    BY <1>14, <1>15, <1>17, <2>3
  <2>4. QED BY <1>4, <1>15, <2>1, <2>2, <2>3, AnswersReachHits
<1>18. FoundFor(value) = T
  BY <1>5, <1>11, <1>16, <1>17
<1>19. QED BY <1>18 DEF T, K

-----------------------------------------------------------------------------
(***************************************************************************)
(* Theorems                                                                *)
(***************************************************************************)
LEMMA NextInv == Inv /\ [Next]_vars => Inv'
<1> SUFFICES ASSUME Inv, [Next]_vars PROVE Inv'
  OBVIOUS
<1>1. ASSUME NEW alloc \in Allocs, kvm_mmu_create(alloc) PROVE Inv'
  BY <1>1, CreateStep
<1>2. ASSUME NEW e \in Entry, HashTableInsert(e) PROVE Inv'
  BY <1>2, InsertStep
<1>3. CASE HashTableIterInit
  BY <1>3, IterInitStep
<1>4. CASE HashTableIterGetNext
  BY <1>4, GetNextStep
<1>5. CASE HashTableIterRemove
  BY <1>5, RemoveStep
<1>6. CASE UNCHANGED vars
  BY <1>6, Stutter
<1>7. CASE kvm_mmu_create_fails
  BY <1>7, CreateFailsStep
<1>8. QED BY <1>1, <1>2, <1>3, <1>4, <1>5, <1>6, <1>7 DEF Next

THEOREM Invariance == Spec => []Inv
<1>1. Init => Inv
  BY InitInv
<1>2. QED BY <1>1, NextInv, PTL DEF Spec

\* Every variable of the table keeps its type: chains hold entries, and the
\* iterator stands at a bucket number and an entry or a head.
THEOREM TypeCorrect == Spec => []TypeOK
<1>1. Inv => TypeOK
  BY DEF Inv
<1>2. QED BY <1>1, Invariance, PTL

\* Whatever is inserted and removed, the buckets lie in the allocated array,
\* ItemCount is the number of entries, none of which is linked twice, and
\* HashTableFindNext, called again and again, returns the entries with the key.
THEOREM Sound == Spec => []TableSound
<1>1. Inv => TableSound
  <2> SUFFICES ASSUME Inv PROVE TableSound
    OBVIOUS
  <2>1. Chains
    BY ChainsType DEF Inv
  <2>2. BucketsInArray /\ ItemCount = Cardinality(Members)
    BY DEF Inv, Counted
  <2>3. ASSUME NEW i \in DOMAIN Buckets, NEW k \in DOMAIN Buckets,
               NEW j \in DOMAIN Buckets[i], NEW l \in DOMAIN Buckets[k],
               Buckets[i][j] = Buckets[k][l]
        PROVE  i = k /\ j = l
    <3> DEFINE x == Buckets[i][j]
    <3>1. /\ j \in 1 .. Len(Buckets[i]) /\ l \in 1 .. Len(Buckets[k])
          /\ Buckets[i] \in Seq(Entry) /\ j > 0 /\ l > 0
      BY <2>1 DEF Chains
    <3>2. x \in Entry
      BY <3>1
    <3>3. Within(Buckets[i], 0, x) /\ Within(Buckets[k], 0, x)
      BY <2>3, <3>1 DEF Within
    <3>4. i = k
      BY <3>2, <3>3 DEF Inv, Homed
    <3>5. QED BY <2>3, <3>1, <3>4 DEF Inv, Distinct, Once
  <2>4. CountAgrees
    BY <2>2, <2>3 DEF CountAgrees
  <2>5. QED BY <2>2, <2>4, LookUp DEF TableSound
<1>2. QED BY <1>1, Invariance, PTL

\* Whatever is inserted meanwhile or removed through the iterator, an iteration
\* loses no entry that was there when it began and returns none twice.
THEOREM IterationIsComplete == Spec => []IterationComplete
<1>1. Inv => IterationComplete
  <2> SUFFICES ASSUME Inv, iter.state # "none"
               PROVE  due \subseteq visited \cup Ahead /\ visited \cap Ahead = {}
    BY DEF IterationComplete
  <2>1. Chains
    BY ChainsType DEF Inv
  <2>2. iter.Bucket \in DOMAIN Buckets
    BY DEF Inv, Placed
  <2>3. ASSUME NEW x PROVE x \in Ahead <=> ToCome(x)
    <3> DEFINE s == Buckets[iter.Bucket]
    <3>1. DOMAIN s = 1 .. Len(s)
      BY <2>1, <2>2 DEF Chains
    <3>2. x \in {s[j] : j \in {k \in DOMAIN s : k > At}} <=> Within(s, At, x)
      BY <3>1 DEF Within
    <3>3. ASSUME NEW i \in DOMAIN Buckets
          PROVE  x \in ToSet(Buckets[i]) <=> Within(Buckets[i], 0, x)
      <4>1. DOMAIN Buckets[i] = 1 .. Len(Buckets[i]) /\ Len(Buckets[i]) \in Nat
        BY <2>1 DEF Chains
      <4>2. QED BY <4>1 DEF ToSet, Within
    <3>4. \A i \in DOMAIN Buckets : Within(Buckets[i], 0, x) => Buckets[i] # <<>>
      BY NothingWithin
    <3>5. x \in UNION {ToSet(Buckets[i]) : i \in SkipEmpty}
            <=> \E i \in DOMAIN Buckets : i > iter.Bucket /\ Within(Buckets[i], 0, x)
      BY <3>3, <3>4 DEF SkipEmpty
    <3>6. QED BY <3>2, <3>5 DEF Ahead, ToCome, At
  <2>4. QED BY <2>3 DEF Inv, Complete
<1>2. QED BY <1>1, Invariance, PTL

\* The table implements a set of entries: kvm_mmu_create empties it, insertion
\* adds the entry it is given, removal through an iterator takes out the entry
\* it stands at, and no other step changes what is in the table.
THEOREM Refinement == Spec => ImplementsEntrySet
<1>1. Init => Abstract!Init
  BY InitInv DEF Abstract!Init
<1>2. Inv /\ [Next]_vars => [Abstract!Next]_Members
  <2> SUFFICES ASSUME Inv, [Next]_vars PROVE Abstract!Next \/ Members' = Members
    OBVIOUS
  <2>1. ASSUME NEW alloc \in Allocs, kvm_mmu_create(alloc) PROVE Abstract!Next
    BY <2>1, CreateStep DEF Abstract!Next, Abstract!Clear
  <2>2. ASSUME NEW e \in Entry, HashTableInsert(e) PROVE Abstract!Next
    BY <2>2, InsertStep DEF Abstract!Next, Abstract!Insert
  <2>3. CASE HashTableIterInit
    BY <2>3, IterInitStep
  <2>4. CASE HashTableIterGetNext
    BY <2>4, GetNextStep
  <2>5. CASE HashTableIterRemove
    <3>1. iter.HashEntry \in Members /\ Members' = Members \ {iter.HashEntry}
      BY <2>5, RemoveStep
    <3>2. iter.HashEntry \in Entry
      BY <3>1 DEF Members
    <3>3. QED BY <3>1, <3>2 DEF Abstract!Next, Abstract!Remove
  <2>6. CASE UNCHANGED vars
    BY <2>6, Stutter
  <2>7. CASE kvm_mmu_create_fails
    BY <2>7, CreateFailsStep DEF Abstract!Next, Abstract!Clear
  <2>8. QED BY <2>1, <2>2, <2>3, <2>4, <2>5, <2>6, <2>7 DEF Next
<1>3. QED
  BY <1>1, <1>2, Invariance, PTL DEF Spec, ImplementsEntrySet, Abstract!Spec

=============================================================================
