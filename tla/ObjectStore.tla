------------------------------ MODULE ObjectStore ------------------------------
(* What the bridge relies on of its object cache: a set of objects that Get would *)
(* return, which grows by Put only, stays within its bytes, and holds an object   *)
(* right after its Put unless the object alone exceeds them.  Bridge works with   *)
(* this set; ObjectCache is the list that implements it.                          *)
EXTENDS Integers, FiniteSetsExt

CONSTANTS
  Key,         \* objects, by hash
  Size,        \* [Key -> Nat]: frame bytes
  CacheBytes,  \* the bytes of a shard
  Ageing       \* BOOLEAN: the cache's ttl may run out

VARIABLE objects

\* The bytes of a set of objects, counted one by one.
Bytes(S) == Cardinality(UNION {{k} \X (1..Size[k]) : k \in S})

\* What Put(o) may leave of a cache holding S.  It evicts from the back of the LRU
\* list, where o comes last, until the rest fits.  Entries past their ttl are no
\* longer in S but still in the list, and take room until they are evicted or met.
PutOutcomes(S, o) ==
  LET all == S \cup {o}
      Fits(R) == Bytes(R) <= CacheBytes
      Kept(R) == IF Size[o] > CacheBytes THEN R = {} ELSE o \in R
      Needed(R) == \E last \in all \ R : ~Fits(R \cup {last})
  IN  IF o \in S \/ (Fits(all) /\ ~Ageing) THEN {all}
      ELSE {R \in SUBSET all : Fits(R) /\ Kept(R) /\ (Ageing \/ Needed(R))}

Init == objects = {}

Put(o) == objects' \in PutOutcomes(objects, o)

\* Objects pass their ttl.
Lapse ==
  /\ Ageing
  /\ objects' \in SUBSET objects

\* The process is restarted.
Clear == objects' = {}

Next == (\E o \in Key : Put(o)) \/ Lapse \/ Clear

Spec == Init /\ [][Next]_objects
================================================================================
