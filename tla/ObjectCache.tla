------------------------------ MODULE ObjectCache ------------------------------
(* A shard of the object cache (cache/cache.go): an LRU list bounded in bytes,     *)
(* whose entries are not found once their ttl has passed but stay in the list, and *)
(* count, until a Get meets them or they are evicted.  Every operation runs under  *)
(* the shard's lock.                                                               *)
EXTENDS Integers, Sequences, Functions, FiniteSetsExt

CONSTANTS
  Key,      \* objects, by hash
  Size,     \* [Key -> Nat]: frame bytes
  MaxBytes  \* Options.MaxBytes, over all shards

ASSUME ObjectCacheAssumption ==
  /\ IsFiniteSet(Key)
  /\ Size \in [Key -> Nat]
  /\ MaxBytes \in Nat \ {0}

Shards == 64
MaxShardBytes == Max({MaxBytes \div Shards, 1})

\* lru: the list, most recent first; old: its entries past their ttl.
Shard == [lru : {q \in Seq(Key) : IsInjective(q)}, old : SUBSET Key, bytes : Nat]

NewShard == [lru |-> <<>>, old |-> {}, bytes |-> 0]

\* The bytes of a set of objects, counted one by one.
Bytes(S) == Cardinality(UNION {{k} \X (1..Size[k]) : k \in S})
Items(s) == Range(s.lru)

\* Has, and whether Get finds it.
Has(s, k) == k \in Items(s) \ s.old

\* Where a list has k, the list without it, and with k at its front.
Place(q, k) == CHOOSE i \in DOMAIN q : q[i] = k
Without(q, k) ==
  IF k \in Range(q)
  THEN SubSeq(q, 1, Place(q, k) - 1) \o SubSeq(q, Place(q, k) + 1, Len(q))
  ELSE q
ToFront(q, k) == <<k>> \o Without(q, k)

\* Mutant: the bytes of a removed entry stay counted.
RemoveLockedKeepsBytes(s, k) ==
  [lru |-> Without(s.lru, k), old |-> s.old \ {k}, bytes |-> s.bytes]

RemoveLocked(s, k) ==
  [lru |-> Without(s.lru, k), old |-> s.old \ {k}, bytes |-> s.bytes - Size[k]]

\* Mutant: the most recent entries are evicted.
EvictLockedFront(s) ==
  LET n == Len(s.lru)
      Left(i) == s.bytes - Bytes({s.lru[j] : j \in 1..(n - i)})
      kept == Max({0} \cup {i \in 0..n : Left(i) <= MaxShardBytes})
  IN  [lru |-> SubSeq(s.lru, n - kept + 1, n),
       old |-> s.old \ {s.lru[j] : j \in 1..(n - kept)}, bytes |-> Left(kept)]

\* The back of the list goes until the rest fits.
EvictLocked(s) ==
  LET n == Len(s.lru)
      Left(i) == s.bytes - Bytes({s.lru[j] : j \in (i + 1)..n})
      kept == Max({0} \cup {i \in 0..n : Left(i) <= MaxShardBytes})
  IN  [lru |-> SubSeq(s.lru, 1, kept),
       old |-> s.old \ {s.lru[j] : j \in (kept + 1)..n}, bytes |-> Left(kept)]

\* An object already held, expired or not, is refreshed and keeps its bytes.
Put(s, k) ==
  IF k \in Items(s)
  THEN [lru |-> ToFront(s.lru, k), old |-> s.old \ {k}, bytes |-> s.bytes]
  ELSE EvictLocked([lru |-> <<k>> \o s.lru, old |-> s.old, bytes |-> s.bytes + Size[k]])

\* Mutant: a hit is not a use.
AfterGetUnmoved(s, k) ==
  IF k \in s.old THEN RemoveLocked(s, k) ELSE s

\* What Get leaves behind: a hit is moved to the front, its ttl is not refreshed; an
\* expired entry is removed.
AfterGet(s, k) ==
  IF k \notin Items(s) THEN s
  ELSE IF k \in s.old THEN RemoveLocked(s, k)
  ELSE [s EXCEPT !.lru = ToFront(@, k)]

Expire(s, k) == [s EXCEPT !.old = @ \cup {k}]
================================================================================
