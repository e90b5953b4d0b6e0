-------------------------------- MODULE Registry --------------------------------
(***************************************************************************)
(* registry/registry.go: one shard of a Registry under a clock.  Callers    *)
(* (the lane handlers and the reverse path) only ever Mark and Lookup, each *)
(* atomic under the shard's mutex; Lookup changes nothing, so the steps are *)
(* Mark and the passing of time.                                            *)
(***************************************************************************)
EXTENDS Generations

CONSTANT TTL   \* registry.New's ttl, in ticks of the model's clock

ASSUME TTLAssumption == TTL \in Nat \ {0}

VARIABLES
  shard,   \* [cur, prev]
  since,   \* ticks since the last rotation, saturating at HalfTTL
  age,     \* history: ticks since the last Mark of each key, saturating at Old
  writes   \* history: writes of other keys into cur since that Mark, saturating

vars == <<shard, since, age, writes>>

HalfTTL == TTL \div 2
Old     == TTL + 1      \* bound of age
Many    == Cap + 1      \* bound of writes

Saturate(n, bound) == IF n < bound THEN n + 1 ELSE bound

Init ==
  /\ shard = NewShard
  /\ since = 0
  /\ age = [k \in Key |-> Old]
  /\ writes = [k \in Key |-> Many]

Elapsed == since >= HalfTTL

\* Mark writes cur[k] unless the shard did not rotate and cur already holds k.
WritesCur(k) == RotationDue(shard, Elapsed) \/ shard.cur[k] = None

MarkKey(k, dir) ==
  /\ shard' = Mark(shard, k, dir, Elapsed)
  /\ since' = IF RotationDue(shard, Elapsed) THEN 0 ELSE since
  /\ age' = [age EXCEPT ![k] = 0]
  /\ writes' = [j \in Key |-> IF j = k THEN 0
                              ELSE IF WritesCur(k) THEN Saturate(writes[j], Many)
                              ELSE writes[j]]

\* time.Now advances; only the differences the code compares are kept.
Tick ==
  /\ since' = IF since < HalfTTL THEN since + 1 ELSE since
  /\ age' = [k \in Key |-> Saturate(age[k], Old)]
  /\ UNCHANGED <<shard, writes>>

Next == Tick \/ \E k \in Key, dir \in Direction : MarkKey(k, dir)

Spec == Init /\ [][Next]_vars

--------------------------------------------------------------------------------
\* Every variable keeps its type.
TypeOK ==
  /\ shard \in Shard
  /\ since \in 0..HalfTTL
  /\ age \in [Key -> 0..Old]
  /\ writes \in [Key -> 0..Many]

\* The ceiling of registry.New ("live set <= 2 x cap"): neither generation ever
\* exceeds cap, although a Mark may insert after the length check.
LiveBound ==
  /\ Cardinality(Held(shard.cur)) <= Cap
  /\ Cardinality(Held(shard.prev)) <= Cap

\* A key held by both generations has one direction: promoting an entry (the
\* refresh in Mark) never lets Lookup answer differently from what prev holds.
OneDirection ==
  \A k \in Key : shard.cur[k] # None /\ shard.prev[k] # None
                   => shard.cur[k] = shard.prev[k]

\* The floor of the ageing contract ("an entry survives between ttl/2 and ttl,
\* or less under capacity pressure"): a key marked less than ttl/2 ago is still
\* known unless more than cap other keys were written to its shard since.
SurvivesHalfTTL ==
  \A k \in Key : age[k] < HalfTTL /\ writes[k] <= Cap => Known(shard, k)

\* What a caller may rely on between its Lookup and its Mark: a key marked less
\* than ttl/2 ago, with fewer than cap other keys written since, is answered in
\* the same direction after any call, its own Mark that rotates first included
\* (the rotation precedes the lookup in Mark and may drop what Lookup just saw).
RecentKeepsDirection ==
  [][\A k \in Key : age[k] < HalfTTL /\ writes[k] < Cap
                      => Lookup(shard', k) = Lookup(shard, k)]_vars
================================================================================
