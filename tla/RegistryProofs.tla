----------------------------- MODULE RegistryProofs -----------------------------
(***************************************************************************)
(* Registry's invariants for every set of keys, capacity and ttl.           *)
(***************************************************************************)
EXTENDS Registry, FiniteSetTheorems, TLAPS

-----------------------------------------------------------------------------
(* The operators of Generations. *)

\* registry.New never makes a shard of capacity zero.
LEMMA CapType == Cap \in Nat \ {0}
BY MaxEntriesAssumption DEF Cap, Shards

\* A generation is a finite map, so len() of it is a natural number.
LEMMA HeldFinite ==
  ASSUME NEW m
  PROVE  IsFiniteSet(Held(m)) /\ Cardinality(Held(m)) \in Nat
<1>1. Held(m) \in SUBSET Key
  BY DEF Held
<1> QED
  BY <1>1, KeyAssumption, FS_Subset, FS_CardinalityType

\* A fresh generation (make(map[Key]Direction)) holds nothing.
LEMMA HeldNoKeys == NoKeys \in Table /\ Held(NoKeys) = {} /\ Cardinality(Held(NoKeys)) = 0
<1>1. NoKeys \in Table /\ Held(NoKeys) = {}
  BY DEF NoKeys, Table, Held
<1> QED
  BY <1>1, FS_EmptySet

\* Writing a direction under a key adds that key and no other.
LEMMA HeldWrite ==
  ASSUME NEW m \in Table, NEW k \in Key, NEW d \in Direction
  PROVE  /\ [m EXCEPT ![k] = d] \in Table
         /\ Held([m EXCEPT ![k] = d]) = Held(m) \cup {k}
         /\ Cardinality(Held([m EXCEPT ![k] = d])) =
              IF m[k] # None THEN Cardinality(Held(m)) ELSE Cardinality(Held(m)) + 1
<1>1. [m EXCEPT ![k] = d] \in Table
  BY DEF Table
<1>2. Held([m EXCEPT ![k] = d]) = Held(m) \cup {k}
  BY DEF Held, Table, Direction, None, Delivered, Submitted
<1>3. k \in Held(m) <=> m[k] # None
  BY DEF Held
<1> QED
  BY Zenon, <1>1, <1>2, <1>3, HeldFinite, FS_AddElement

\* A rotation keeps the type and leaves an empty current generation.
LEMMA MaybeRotateType ==
  ASSUME NEW s \in Shard, NEW e
  PROVE  MaybeRotate(s, e) \in Shard
BY HeldNoKeys DEF MaybeRotate, Rotate, Shard

\* What Lookup answers is a direction exactly when the key is known.
LEMMA LookupType ==
  ASSUME NEW s \in Shard, NEW k \in Key
  PROVE  /\ Lookup(s, k) \in Direction \cup {None}
         /\ Known(s, k) => Lookup(s, k) \in Direction
BY DEF Lookup, Known, Shard, Table

\* Mark stays within the type.
LEMMA MarkType ==
  ASSUME NEW s \in Shard, NEW k \in Key, NEW d \in Direction, NEW e
  PROVE  Mark(s, k, d, e) \in Shard
<1> DEFINE t == MaybeRotate(s, e)
<1>1. t \in Shard
  BY MaybeRotateType
<1>2. (IF Known(t, k) THEN Lookup(t, k) ELSE d) \in Direction
  BY <1>1, LookupType
<1> QED
  BY <1>1, <1>2, HeldWrite DEF Mark, Record, Shard

-----------------------------------------------------------------------------
(* The inductive invariant. *)

\* Why a marked key survives: it is in cur, or it is in prev and then the
\* entries of cur and the time since the rotation all came after its last Mark.
Kept(k) ==
  \/ shard.cur[k] # None
  \/ /\ shard.prev[k] # None
     /\ writes[k] >= Cardinality(Held(shard.cur))
     /\ age[k] >= since
  \/ writes[k] > Cap
  \/ age[k] >= HalfTTL

IInv ==
  /\ TypeOK
  /\ LiveBound
  /\ OneDirection
  /\ \A k \in Key : Kept(k)

\* The bounds of the clock and of the history counters are natural numbers.
LEMMA ConstantTypes == HalfTTL \in Nat /\ HalfTTL <= Old /\ Old \in Nat /\ Many \in Nat
BY TTLAssumption, CapType DEF HalfTTL, Old, Many

\* The history counters only grow, and stay below their bound.
LEMMA SaturateFacts ==
  ASSUME NEW b \in Nat, NEW n \in 0..b
  PROVE  /\ Saturate(n, b) \in 0..b
         /\ Saturate(n, b) >= n
         /\ Saturate(n, b) = b \/ Saturate(n, b) = n + 1
BY DEF Saturate

\* A new registry satisfies the invariant.
LEMMA InitIInv == Init => IInv
<1> SUFFICES ASSUME Init PROVE IInv
  OBVIOUS
<1>1. TypeOK
  BY HeldNoKeys, ConstantTypes DEF Init, TypeOK, NewShard, Shard
<1>2. LiveBound
  BY HeldNoKeys, CapType DEF Init, LiveBound, NewShard
<1>3. OneDirection
  BY DEF Init, OneDirection, NewShard, NoKeys
<1>4. \A k \in Key : Kept(k)
  BY CapType DEF Init, Kept, Many
<1> QED
  BY <1>1, <1>2, <1>3, <1>4 DEF IInv

\* Time passing moves no entry.
LEMMA TickIInv == IInv /\ Tick => IInv'
<1> SUFFICES ASSUME IInv, Tick PROVE IInv'
  OBVIOUS
<1>1. TypeOK'
  BY ConstantTypes, SaturateFacts DEF IInv, TypeOK, Tick
<1>2. LiveBound' /\ OneDirection'
  BY DEF IInv, LiveBound, OneDirection, Tick
<1>3. ASSUME NEW k \in Key PROVE Kept(k)'
  <2>1. age[k] \in 0..Old /\ since \in 0..HalfTTL
    BY DEF IInv, TypeOK
  <2>2. age'[k] = Saturate(age[k], Old) /\ UNCHANGED <<shard, writes>>
    BY DEF Tick
  <2>3. since' \in Nat /\ since' <= since + 1 /\ since' <= HalfTTL
    BY <2>1, ConstantTypes DEF Tick
  <2>4. age'[k] >= age[k] /\ (age'[k] = Old \/ age'[k] = age[k] + 1) /\ age'[k] \in Nat
    BY <2>1, <2>2, ConstantTypes, SaturateFacts
  <2>5. age[k] >= since => age'[k] >= since'
    BY <2>1, <2>3, <2>4, ConstantTypes
  <2>6. age[k] >= HalfTTL => age'[k] >= HalfTTL
    BY <2>1, <2>4, ConstantTypes
  <2> QED
    BY <1>3, <2>2, <2>5, <2>6 DEF IInv, Kept
<1> QED
  BY <1>1, <1>2, <1>3 DEF IInv

\* What one Mark does to the shard, by whether it rotates.
LEMMA MarkShape ==
  ASSUME IInv, NEW k \in Key, NEW dir \in Direction, MarkKey(k, dir)
  PROVE  /\ shard' \in Shard
         /\ \E d \in Direction :
              IF RotationDue(shard, Elapsed)
              THEN /\ shard'.cur = [NoKeys EXCEPT ![k] = d]
                   /\ shard'.prev = shard.cur
                   /\ shard.cur[k] # None => d = shard.cur[k]
              ELSE /\ shard'.cur = [shard.cur EXCEPT ![k] = d]
                   /\ shard'.prev = shard.prev
                   /\ shard.cur[k] # None => d = shard.cur[k]
                   /\ shard.cur[k] = None /\ shard.prev[k] # None => d = shard.prev[k]
<1> DEFINE t == MaybeRotate(shard, Elapsed)
<1> DEFINE d == IF Known(t, k) THEN Lookup(t, k) ELSE dir
<1>1. shard \in Shard /\ t \in Shard
  BY MaybeRotateType DEF IInv, TypeOK
<1>2. d \in Direction
  BY <1>1, LookupType
<1>3. shard' = [cur |-> [t.cur EXCEPT ![k] = d], prev |-> t.prev]
  BY DEF MarkKey, Mark, Record
<1>4. shard' \in Shard
  BY <1>1, MarkType DEF MarkKey
<1>5. CASE RotationDue(shard, Elapsed)
  <2>1. t.cur = NoKeys /\ t.prev = shard.cur
    BY <1>5 DEF MaybeRotate, Rotate
  <2>2. NoKeys[k] = None
    BY DEF NoKeys
  <2>3. shard.cur[k] # None => d = shard.cur[k]
    BY <2>1, <2>2 DEF Known, Lookup
  <2> QED
    BY Zenon, <1>2, <1>3, <1>4, <1>5, <2>1, <2>3
<1>6. CASE ~RotationDue(shard, Elapsed)
  <2>1. t = shard
    BY <1>6 DEF MaybeRotate
  <2>2. /\ shard.cur[k] # None => d = shard.cur[k]
        /\ shard.cur[k] = None /\ shard.prev[k] # None => d = shard.prev[k]
    BY <2>1 DEF Known, Lookup
  <2> QED
    BY <1>2, <1>3, <1>4, <1>6, <2>1, <2>2
<1> QED
  BY Zenon, <1>5, <1>6

\* A Mark, whether it rotates or not, keeps the invariant.
LEMMA MarkIInv ==
  ASSUME IInv, NEW k \in Key, NEW dir \in Direction, MarkKey(k, dir)
  PROVE  IInv'
<1>1. PICK d \in Direction :
              IF RotationDue(shard, Elapsed)
              THEN /\ shard'.cur = [NoKeys EXCEPT ![k] = d]
                   /\ shard'.prev = shard.cur
                   /\ shard.cur[k] # None => d = shard.cur[k]
              ELSE /\ shard'.cur = [shard.cur EXCEPT ![k] = d]
                   /\ shard'.prev = shard.prev
                   /\ shard.cur[k] # None => d = shard.cur[k]
                   /\ shard.cur[k] = None /\ shard.prev[k] # None => d = shard.prev[k]
  BY MarkShape
<1>2. shard' \in Shard
  BY MarkShape
<1>3. /\ shard.cur \in Table /\ shard.prev \in Table
      /\ since \in 0..HalfTTL /\ age \in [Key -> 0..Old] /\ writes \in [Key -> 0..Many]
  BY DEF IInv, TypeOK, Shard
<1>4. d # None
  BY DEF Direction, Delivered, Submitted, None
<1> DEFINE n == Cardinality(Held(shard.cur))
<1>5. n \in Nat /\ n <= Cap /\ Cap \in Nat \ {0}
  BY HeldFinite, CapType DEF IInv, LiveBound
<1>6. TypeOK'
  <2>1. since' \in 0..HalfTTL /\ age' \in [Key -> 0..Old]
    BY <1>3, ConstantTypes DEF MarkKey
  <2>2. writes' \in [Key -> 0..Many]
    BY <1>3, ConstantTypes, SaturateFacts DEF MarkKey
  <2> QED
    BY <1>2, <2>1, <2>2 DEF TypeOK
<1>7. CASE RotationDue(shard, Elapsed)
  <2>1. Cardinality(Held(shard'.cur)) = 1 /\ n >= 0
    BY <1>1, <1>7, HeldNoKeys, HeldWrite, <1>5 DEF NoKeys
  <2>2. LiveBound'
    BY <1>1, <1>5, <1>7, <2>1 DEF IInv, LiveBound
  <2>3. OneDirection'
    BY <1>1, <1>7 DEF OneDirection, NoKeys
  <2>4. ASSUME NEW j \in Key PROVE Kept(j)'
    <3>1. since' = 0
      BY <1>7 DEF MarkKey
    <3>2. CASE j = k
      BY Zenon, <1>1, <1>4, <1>7, <3>2, HeldNoKeys DEF Kept, Table
    <3>3. CASE j # k
      <4>1. writes'[j] = Saturate(writes[j], Many) /\ age'[j] = age[j]
        BY <1>3, <1>7, <3>3 DEF MarkKey, WritesCur
      <4>2. writes'[j] >= 1 /\ writes'[j] \in Nat /\ (writes[j] >= Cap => writes'[j] > Cap)
        BY <1>3, <1>5, <4>1 DEF Saturate, Many
      <4>3. age[j] \in Nat /\ writes[j] \in Nat
        BY <1>3
      <4>4. CASE shard.cur[j] # None
        BY <1>1, <1>7, <2>1, <3>1, <4>1, <4>2, <4>3, <4>4 DEF Kept
      <4>5. CASE shard.cur[j] = None
        <5>1. writes[j] >= n \/ writes[j] > Cap \/ age[j] >= HalfTTL
          BY <4>5 DEF IInv, Kept
        <5>2. age[j] >= since \/ writes[j] > Cap \/ age[j] >= HalfTTL
          BY <4>5 DEF IInv, Kept
        <5>3. since >= HalfTTL \/ n >= Cap
          BY <1>7 DEF RotationDue, Elapsed
        <5>4. writes'[j] > Cap \/ age'[j] >= HalfTTL
          BY <1>3, <1>5, <4>1, <4>2, <4>3, <5>1, <5>2, <5>3, ConstantTypes
        <5> QED
          BY <5>4 DEF Kept
      <4> QED
        BY <4>4, <4>5
    <3> QED
      BY <3>2, <3>3
  <2> QED
    BY <1>6, <2>2, <2>3, <2>4 DEF IInv
<1>8. CASE ~RotationDue(shard, Elapsed)
  <2>1. n < Cap
    BY <1>5, <1>8 DEF RotationDue
  <2>2. Cardinality(Held(shard'.cur)) = IF shard.cur[k] # None THEN n ELSE n + 1
    BY <1>1, <1>3, <1>8, HeldWrite
  <2>3. LiveBound'
    BY <1>1, <1>5, <1>8, <2>1, <2>2 DEF IInv, LiveBound
  <2>4. OneDirection'
    BY <1>1, <1>3, <1>8 DEF IInv, OneDirection, Table
  <2>5. ASSUME NEW j \in Key PROVE Kept(j)'
    <3>1. CASE j = k
      BY <1>1, <1>3, <1>4, <1>8, <3>1 DEF Kept, Table
    <3>2. CASE j # k
      <4>1. shard'.cur[j] = shard.cur[j] /\ shard'.prev[j] = shard.prev[j]
        BY <1>1, <1>3, <1>8, <3>2 DEF Table
      <4>2. since' = since /\ age'[j] = age[j]
        BY <1>3, <1>8, <3>2 DEF MarkKey
      <4>3. writes'[j] = IF shard.cur[k] = None THEN Saturate(writes[j], Many) ELSE writes[j]
        BY <1>3, <1>8, <3>2 DEF MarkKey, WritesCur
      <4>4. writes[j] \in 0..Many /\ age[j] \in Nat
        BY <1>3
      <4>5. /\ writes[j] >= n => (writes'[j] > Cap \/ writes'[j] >= Cardinality(Held(shard'.cur)))
            /\ writes[j] > Cap => writes'[j] > Cap
        BY <1>5, <2>2, <4>3, <4>4 DEF Saturate, Many
      <4> QED
        BY <4>1, <4>2, <4>5 DEF IInv, Kept
    <3> QED
      BY <3>1, <3>2
  <2> QED
    BY <1>6, <2>3, <2>4, <2>5 DEF IInv
<1> QED
  BY <1>7, <1>8

\* The inductive invariant, from which the others are read off.
THEOREM Inductive == Spec => []IInv
<1>1. IInv /\ [Next]_vars => IInv'
  <2> SUFFICES ASSUME IInv, [Next]_vars PROVE IInv'
    OBVIOUS
  <2>1. CASE Tick
    BY <2>1, TickIInv
  <2>2. CASE \E k \in Key, dir \in Direction : MarkKey(k, dir)
    BY <2>2, MarkIInv
  <2>3. CASE UNCHANGED vars
    BY <2>3 DEF vars, IInv, TypeOK, LiveBound, OneDirection, Kept
  <2> QED
    BY <2>1, <2>2, <2>3 DEF Next
<1> QED
  BY InitIInv, <1>1, PTL DEF Spec

\* Type correctness of the registry shard (rshard and its clock).
THEOREM TypeCorrect == Spec => []TypeOK
BY Inductive, PTL DEF IInv

\* The ceiling of registry.New: at most 2 x cap entries per shard, whatever the
\* order of calls.
THEOREM LiveBounded == Spec => []LiveBound
BY Inductive, PTL DEF IInv

\* cur and prev never disagree on a direction.
THEOREM DirectionAgrees == Spec => []OneDirection
BY Inductive, PTL DEF IInv

\* A key marked less than ttl/2 ago, with at most cap other writes since, is
\* still known: the duplicate-suppression window Mark promises.
THEOREM Retention == Spec => []SurvivesHalfTTL
<1>1. IInv => SurvivesHalfTTL
  <2> SUFFICES ASSUME IInv, NEW k \in Key, age[k] < HalfTTL, writes[k] <= Cap
               PROVE  Known(shard, k)
    BY DEF SurvivesHalfTTL
  <2>1. ~(writes[k] > Cap) /\ ~(age[k] >= HalfTTL)
    BY ConstantTypes, CapType DEF IInv, TypeOK
  <2> QED
    BY <2>1 DEF IInv, Kept, Known, Lookup
<1> QED
  BY Inductive, <1>1, PTL

\* No call forgets or redirects a key marked less than ttl/2 ago with fewer than
\* cap other keys written since, not even the key's own Mark when it rotates: such
\* a key is in cur, or it is in prev and neither reason to rotate can hold.
THEOREM RecentKept == Spec => RecentKeepsDirection
<1>1. IInv /\ [Next]_vars =>
        [\A k \in Key : age[k] < HalfTTL /\ writes[k] < Cap
                          => Lookup(shard', k) = Lookup(shard, k)]_vars
  <2> SUFFICES ASSUME IInv, [Next]_vars, NEW k \in Key, age[k] < HalfTTL, writes[k] < Cap
               PROVE  Lookup(shard', k) = Lookup(shard, k)
    BY DEF vars
  <2>0. shard.cur \in Table /\ shard.prev \in Table
    BY DEF IInv, TypeOK, Shard
  <2> DEFINE n == Cardinality(Held(shard.cur))
  <2>1. CASE Tick \/ UNCHANGED vars
    BY <2>1 DEF Tick, vars, Lookup
  <2>2. ~(writes[k] > Cap) /\ ~(age[k] >= HalfTTL)
    BY ConstantTypes, CapType DEF IInv, TypeOK
  <2>3. shard.cur[k] # None \/ (shard.prev[k] # None /\ writes[k] >= n /\ age[k] >= since)
    BY <2>2 DEF IInv, Kept
  <2>4. RotationDue(shard, Elapsed) => shard.cur[k] # None
    <3> SUFFICES ASSUME RotationDue(shard, Elapsed), shard.cur[k] = None PROVE FALSE
      OBVIOUS
    <3>1. writes[k] >= n /\ age[k] >= since
      BY <2>3
    <3>2. since >= HalfTTL \/ n >= Cap
      BY DEF RotationDue, Elapsed
    <3>3. writes[k] \in Nat /\ age[k] \in Nat /\ since \in Nat /\ n \in Nat
      BY HeldFinite, ConstantTypes DEF IInv, TypeOK
    <3> QED
      BY <3>1, <3>2, <3>3, ConstantTypes, CapType
  <2>5. ASSUME NEW j \in Key, NEW dir \in Direction, MarkKey(j, dir)
        PROVE  Lookup(shard', k) = Lookup(shard, k)
    <3>0. \A d \in Direction : d # None
      BY DEF Direction, Delivered, Submitted, None
    <3>1. CASE RotationDue(shard, Elapsed)
      BY Zenon, <2>0, <2>4, <2>5, <3>0, <3>1, MarkShape DEF Lookup, NoKeys
    <3>2. CASE ~RotationDue(shard, Elapsed)
      BY Zenon, <2>0, <2>3, <2>5, <3>0, <3>2, MarkShape DEF Lookup, Table
    <3> QED
      BY <3>1, <3>2
  <2> QED
    BY <2>1, <2>5 DEF Next
<1> QED
  BY Inductive, <1>1, PTL DEF Spec, RecentKeepsDirection
================================================================================
