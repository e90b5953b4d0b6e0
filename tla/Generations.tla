------------------------------ MODULE Generations ------------------------------
(***************************************************************************)
(* The two-generation map of registry/registry.go, as operators on a value. *)
(* One value stands for ONE shard (rshard): the 64 shards never interact,   *)
(* so the keys of a model are keys that fall into the same shard.           *)
(*                                                                          *)
(* A shard is a record [cur, prev] of total functions; None marks a key the *)
(* Go map does not hold.  Whether ttl/2 has passed since the last rotation  *)
(* is a parameter (elapsed): Registry derives it from a clock, Bridge from  *)
(* an environment step.                                                     *)
(***************************************************************************)
EXTENDS FiniteSets, Integers

CONSTANTS
  Key,        \* the hashes of one shard
  MaxEntries  \* registry.New's maxEntries, after its default is applied

ASSUME KeyAssumption == IsFiniteSet(Key)
ASSUME MaxEntriesAssumption == MaxEntries \in Nat \ {0}

Shards == 64

Delivered == "delivered"
Submitted == "submitted"
None      == "none"
Direction == {Delivered, Submitted}

Table == [Key -> Direction \cup {None}]
Shard == [cur : Table, prev : Table]

NoKeys == [k \in Key |-> None]

\* registry.New: a share per shard, halved so that cur+prev stay under it.
Cap == LET per == (MaxEntries \div Shards) \div 2
       IN  IF per > 0 THEN per ELSE 1

NewShard == [cur |-> NoKeys, prev |-> NoKeys]

\* len(m) counts Held(m).
Held(m) == {k \in Key : m[k] # None}

Rotate(s) == [cur |-> NoKeys, prev |-> s.cur]

\* Mutant: the length check lets one entry too many in.
RotationDueLate(s, elapsed) == elapsed \/ Cardinality(Held(s.cur)) > Cap

RotationDue(s, elapsed) == elapsed \/ Cardinality(Held(s.cur)) >= Cap

MaybeRotate(s, elapsed) == IF RotationDue(s, elapsed) THEN Rotate(s) ELSE s

\* Lookup never rotates and never looks at the age of an entry.
Lookup(s, k) == IF s.cur[k] # None THEN s.cur[k] ELSE s.prev[k]

Known(s, k) == Lookup(s, k) # None

\* Mutants of Record: the last direction wins; a hit in prev is not promoted.
RecordLastWins(s, k, dir) == [s EXCEPT !.cur[k] = dir]

RecordNoRefresh(s, k, dir) ==
  IF Known(s, k) THEN s ELSE [s EXCEPT !.cur[k] = dir]

\* The part of Mark after the rotation: a hit keeps the direction and is (re)put
\* into cur, a miss inserts dir.
Record(s, k, dir) ==
  [cur |-> [s.cur EXCEPT ![k] = IF Known(s, k) THEN Lookup(s, k) ELSE dir],
   prev |-> s.prev]

\* Mark's effect, and what it answers: the direction the key was known in, None
\* for "not known".  The rotation comes FIRST, so the answer is about the shard
\* after it.
Mark(s, k, dir, elapsed) == Record(MaybeRotate(s, elapsed), k, dir)
MarkAnswer(s, k, elapsed) == Lookup(MaybeRotate(s, elapsed), k)
================================================================================
