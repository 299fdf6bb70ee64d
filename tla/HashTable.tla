------------------------------ MODULE HashTable ------------------------------
(***************************************************************************)
(* The chained hash table of mphashtable.c, as g_Table uses it: it maps    *)
(* shadow page tables to their struct kvm_mmu_page.                        *)
(*                                                                         *)
(* A chain is the sequence of entries between a bucket head and the marked *)
(* link that ends it.  kvm_mmu_create initialises the one global table and *)
(* gives it its buckets, for every vCPU again.                             *)
(*                                                                         *)
(* HashTableRemoveKey, which no code calls, is left out.                   *)
(***************************************************************************)
EXTENDS Integers, FiniteSets, Sequences, SequencesExt

CONSTANTS
  Entry,       \* HASH_BUCKETs
  HashValue,   \* of each entry
  Allocs,      \* sizes of the bucket array (the code's is 512)
  Shifts,      \* flags: how many low bits of a HashValue are ignored
  NULL

\* The bucket head, where an iterator starts.
AtHead == "head"

ASSUME EntryAssumption ==
  /\ NULL \notin Entry
  /\ AtHead \notin Entry
  /\ HashValue \in [Entry -> Nat]

\* kvm_mmu_create allocates 512 buckets, a power of two.
ASSUME TableAssumption ==
  /\ Allocs \subseteq (Nat \ {0}) \cap {2 ^ i : i \in 0 .. 30}
  /\ Shifts \subseteq 0 .. 31
  /\ \A flags \in Shifts : 2 ^ flags \in Nat \ {0}

VARIABLES
  Buckets,      \* the chain of each bucket
  BucketCount,  \* the bucket count and the flags share a word in the code
  Flags,
  length,       \* entries of the array that was allocated
  ItemCount,
  iter,         \* HASH_TABLE_ITERATOR: bucket and entry, or its head
  due,          \* history: entries that were there at HashTableIterInit
  visited       \* history: entries the iteration returned (not those inserted since)

tableVars == <<Buckets, BucketCount, Flags, length, ItemCount>>
iterVars == <<iter, due, visited>>
vars == <<tableVars, iterVars>>

NoIter == [state |-> "none", Bucket |-> 0, HashEntry |-> AtHead]

TypeOK ==
  /\ BucketCount \in Nat
  /\ Buckets \in [0 .. BucketCount - 1 -> Seq(Entry)]
  /\ Flags \in Shifts
  /\ length \in Allocs \cup {0}
  /\ ItemCount \in Nat
  /\ iter \in [state : {"none", "walking", "done"}, Bucket : Nat,
               HashEntry : Entry \cup {AtHead}]
  /\ due \subseteq Entry
  /\ visited \subseteq Entry

-----------------------------------------------------------------------------
(***************************************************************************)
(* Sizes and hashes                                                        *)
(***************************************************************************)
IsPowerOfTwo(x) == \E i \in 0 .. 30 : x = 2 ^ i

\* The number of bits of value.
GetHighestBitIndex(value) ==
  LET Bits[v \in Nat] == IF v = 0 THEN 0 ELSE 1 + Bits[v \div 2] IN Bits[value]

RoundToPowerOfTwo(value) ==
  IF value = 0 \/ IsPowerOfTwo(value) THEN value ELSE 2 ^ GetHighestBitIndex(value)

\* One byte of HashBytesGeneric, the lowest of value.  Only the bits below a
\* power of two are used, so the hash code is kept modulo it.
HashByte(s, modulus) ==
  [hashCode |-> ((s.value % 256) + 37 * s.hashCode) % modulus,
   value |-> s.value \div 256]

HashTwoBytes(s, modulus) == HashByte(HashByte(s, modulus), modulus)

HashFourBytes(s, modulus) == HashTwoBytes(HashTwoBytes(s, modulus), modulus)

\* HashBytes over the eight bytes of value.
HashUlongPtr(value, modulus) ==
  LET s == [hashCode |-> 314159, value |-> value]
  IN  HashFourBytes(HashFourBytes(s, modulus), modulus).hashCode

\* MAXULONG_PTR << flags, applied to a hash value.
Masked(value) == (value \div 2 ^ Flags) * 2 ^ Flags

HashTableGetBucketIndex(key) == HashUlongPtr(key, BucketCount)

ChainOf(key) == Buckets[HashTableGetBucketIndex(key)]

-----------------------------------------------------------------------------
(***************************************************************************)
(* Operations                                                              *)
(***************************************************************************)
Init ==
  /\ Buckets = [i \in {} |-> <<>>]
  /\ BucketCount = 0
  /\ Flags \in Shifts
  /\ length = 0
  /\ ItemCount = 0
  /\ iter = NoIter
  /\ due = {}
  /\ visited = {}

\* HashTableChangeTable: the number of buckets is rounded up and capped.  The
\* loop that moves entries finds none: the only caller has just initialised the
\* table without buckets.
HashTableChangeTable(alloc) ==
  LET rounded == RoundToPowerOfTwo(alloc)
      count == IF rounded > 2 ^ 26 THEN 2 ^ 26 ELSE rounded
  IN  /\ Buckets' = [i \in 0 .. count - 1 |-> <<>>]
      /\ BucketCount' = count
      /\ length' = alloc

\* HashTableInitialize, without buckets: what the table held is forgotten.
HashTableInitialize ==
  /\ ItemCount' = 0
  /\ iter' = NoIter
  /\ due' = {}
  /\ visited' = {}
  /\ UNCHANGED Flags

\* HashTableInitialize, then the buckets.
kvm_mmu_create(alloc) == HashTableInitialize /\ HashTableChangeTable(alloc)

\* kvm_mmu_create when the buckets cannot be allocated: the table was
\* initialised already and stays without any.
kvm_mmu_create_fails ==
  /\ HashTableInitialize
  /\ Buckets' = [i \in {} |-> <<>>]
  /\ BucketCount' = 0
  /\ length' = 0

InTable(e) == \E i \in DOMAIN Buckets : Contains(Buckets[i], e)

\* The entries of the table.
Members == {e \in Entry : InTable(e)}

\* A table without buckets (kvm_mmu_create failed) can be given no entry: the
\* code would write through its NULL Buckets.
HashTableInsert(e) ==
  LET idx == HashTableGetBucketIndex(Masked(HashValue[e]))
  IN  /\ BucketCount # 0
      /\ ~InTable(e)
      /\ Buckets' = [Buckets EXCEPT ![idx] = <<e>> \o @]
      /\ ItemCount' = ItemCount + 1
      /\ due' = due \ {e}
      /\ visited' = visited \ {e}
      /\ UNCHANGED <<BucketCount, Flags, length, iter>>

\* The position of an entry on its chain; the head is before the first.
Position(chain, e) ==
  IF e = AtHead THEN 0 ELSE CHOOSE i \in DOMAIN chain : chain[i] = e

Least(positions) == CHOOSE i \in positions : \A j \in positions : i <= j

\* Mutant: entries are compared with the value as it was given.
FindNextUnmasked(value, pLink) ==
  LET chain == ChainOf(Masked(value))
      p == Position(chain, IF pLink = NULL THEN AtHead ELSE pLink)
      hits == {i \in DOMAIN chain : i > p /\ HashValue[chain[i]] = value}
  IN  IF BucketCount = 0 \/ hits = {} THEN NULL ELSE chain[Least(hits)]

\* HashTableFindNext: the first entry with the key of value behind pLink, or on
\* its whole chain.
HashTableFindNext(value, pLink) ==
  LET chain == ChainOf(Masked(value))
      p == Position(chain, IF pLink = NULL THEN AtHead ELSE pLink)
      hits == {i \in DOMAIN chain : i > p /\ Masked(HashValue[chain[i]]) = Masked(value)}
  IN  IF BucketCount = 0 \/ hits = {} THEN NULL ELSE chain[Least(hits)]

HashTableIterInit ==
  /\ BucketCount # 0
  /\ iter' = [state |-> "walking", Bucket |-> 0, HashEntry |-> AtHead]
  /\ due' = Members
  /\ visited' = {}
  /\ UNCHANGED tableVars

\* The buckets behind the iterator's that hold an entry.
SkipEmpty == {i \in DOMAIN Buckets : i > iter.Bucket /\ Buckets[i] # <<>>}

HashTableIterGetNext ==
  LET chain == Buckets[iter.Bucket]
      at == Position(chain, iter.HashEntry)
      bucket == IF at < Len(chain) THEN iter.Bucket ELSE Least(SkipEmpty)
      next == Buckets[bucket][IF at < Len(chain) THEN at + 1 ELSE 1]
  IN  /\ iter.state = "walking"
      /\ IF at = Len(chain) /\ SkipEmpty = {}
         THEN /\ iter' = [iter EXCEPT !.state = "done"]
              /\ UNCHANGED visited
         ELSE /\ iter' = [iter EXCEPT !.Bucket = bucket, !.HashEntry = next]
              /\ visited' = visited \cup {next}
      /\ UNCHANGED <<tableVars, due>>

\* Mutant: the iterator is left at the entry after the removed one.
Behind(chain, i) == IF i < Len(chain) THEN chain[i + 1] ELSE AtHead

\* Where the iterator stands after its entry was taken out of the chain.
Predecessor(chain, i) == IF i = 1 THEN AtHead ELSE chain[i - 1]

\* Mutant: what follows the removed entry goes with it.
RemoveRestOfChain ==
  LET chain == Buckets[iter.Bucket]
      i == Position(chain, iter.HashEntry)
  IN  /\ iter.state = "walking"
      /\ Contains(chain, iter.HashEntry)
      /\ Buckets' = [Buckets EXCEPT ![iter.Bucket] = SubSeq(chain, 1, i - 1)]
      /\ ItemCount' = ItemCount - 1
      /\ iter' = [iter EXCEPT !.HashEntry = Predecessor(chain, i)]
      /\ UNCHANGED <<BucketCount, Flags, length, due, visited>>

HashTableIterRemove ==
  LET chain == Buckets[iter.Bucket]
      i == Position(chain, iter.HashEntry)
  IN  /\ iter.state = "walking"
      /\ Contains(chain, iter.HashEntry)
      /\ Buckets' = [Buckets EXCEPT ![iter.Bucket] = RemoveAt(chain, i)]
      /\ ItemCount' = ItemCount - 1
      /\ iter' = [iter EXCEPT !.HashEntry = Predecessor(chain, i)]
      /\ UNCHANGED <<BucketCount, Flags, length, due, visited>>

Next ==
  \/ \E alloc \in Allocs : kvm_mmu_create(alloc)
  \/ kvm_mmu_create_fails
  \/ \E e \in Entry : HashTableInsert(e)
  \/ HashTableIterInit
  \/ HashTableIterGetNext
  \/ HashTableIterRemove

Spec == Init /\ [][Next]_vars

-----------------------------------------------------------------------------
(***************************************************************************)
(* Properties                                                              *)
(***************************************************************************)

\* No bucket lies outside the array kvm_mmu_create allocated, although
\* HashTableChangeTable rounds its size up.
BucketsInArray == BucketCount <= length

\* What repeated calls of HashTableFindNext for a hash value return, the way
\* sptep_to_sp and HashTableGetTable call it: the least set that holds the
\* first answer and the answer after each of its entries.
FoundFor(value) ==
  LET chain == ToSet(ChainOf(Masked(value)))
      answer == [link \in chain \cup {NULL} |-> HashTableFindNext(value, link)]
      Closed(S) == \A link \in S \cup {NULL} : answer[link] \in S \cup {NULL}
  IN  {e \in chain : \A S \in SUBSET chain : Closed(S) => e \in S}

\* A look-up returns all the entries of the table whose hash value agrees with
\* the given one in the bits that count, and no others.
FindReturnsTheKey ==
  BucketCount # 0 =>
    \A value \in {HashValue[e] : e \in Entry} :
      FoundFor(value) = {e \in Members : Masked(HashValue[e]) = Masked(value)}

\* ItemCount is the number of entries of the table, and no entry is on the
\* chains twice.
CountAgrees ==
  /\ ItemCount = Cardinality(Members)
  /\ \A i, k \in DOMAIN Buckets :
       \A j \in DOMAIN Buckets[i], l \in DOMAIN Buckets[k] :
         Buckets[i][j] = Buckets[k][l] => i = k /\ j = l

\* The table is sound: its buckets lie in their array, it counts its entries,
\* and a look-up returns those with the value it is given.
TableSound == BucketsInArray /\ CountAgrees /\ FindReturnsTheKey

\* The entries the iterator has still to return.
Ahead ==
  LET chain == Buckets[iter.Bucket]
      at == Position(chain, iter.HashEntry)
  IN  {chain[j] : j \in {k \in DOMAIN chain : k > at}}
        \cup UNION {ToSet(Buckets[i]) : i \in SkipEmpty}

\* An iteration returns no entry twice, and every entry that was there when it
\* began and is not removed behind its back is returned or still ahead,
\* whatever is removed through it or inserted meanwhile.
IterationComplete ==
  iter.state # "none" => /\ due \subseteq visited \cup Ahead
                         /\ visited \cap Ahead = {}

Abstract == INSTANCE EntrySet WITH members <- Members

\* The entries of the table, which by TableSound are those a look-up finds, are
\* a set that insertion extends by the entry given and removal through an
\* iterator shrinks by the entry it stands at.
ImplementsEntrySet == Abstract!Spec

=============================================================================
