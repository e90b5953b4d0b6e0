-------------------------------- MODULE TxCache --------------------------------
(***************************************************************************)
(* One shard of the transaction cache of cache/generational.go: two          *)
(* generations of transactions with their byte counts, aged by rotation.     *)
(* Admit is also the lane's re-delivery check.  The shards never interact.   *)
(* A nil cache (-tx-cache-bytes 0, the default of -mode tx) is a shard with   *)
(* the field nil set: it admits everything and holds nothing.                *)
(***************************************************************************)
EXTENDS Integers, FiniteSets

CONSTANTS
  Tx,          \* transaction ids
  TxBytes,     \* [Tx -> Nat]
  MaxBytes     \* gshard.maxBytes: a generation that has reached it is rotated

ASSUME TxCacheAssumption ==
  /\ IsFiniteSet(Tx)
  /\ TxBytes \in [Tx -> Nat]
  /\ MaxBytes \in Nat \ {0}

Shard == [nil : BOOLEAN, cur : SUBSET Tx, prev : SUBSET Tx, curBytes : Nat, prevBytes : Nat]

EmptyShard(nil) == [nil |-> nil, cur |-> {}, prev |-> {}, curBytes |-> 0, prevBytes |-> 0]

Has(s, t) == t \in s.cur \/ t \in s.prev

\* Mutant: the byte count is not reset.
RotateKeepsBytes(s) ==
  [nil |-> s.nil, cur |-> {}, prev |-> s.cur, curBytes |-> s.curBytes, prevBytes |-> s.curBytes]

RotateLocked(s) ==
  [nil |-> s.nil, cur |-> {}, prev |-> s.cur, curBytes |-> 0, prevBytes |-> s.curBytes]

\* due: ttl/2 has passed since the last rotation.
Aged(s, due) == IF due \/ s.curBytes >= MaxBytes THEN RotateLocked(s) ELSE s

\* Mutant: only the current generation is asked.
FreshInCurrent(s, t, due) == s.nil \/ t \notin Aged(s, due).cur

\* What Admit returns.
Fresh(s, t, due) == s.nil \/ ~Has(Aged(s, due), t)

\* What Admit leaves: a duplicate is neither moved nor counted, and a nil cache is left
\* alone.
Admit(s, t, due) ==
  LET a == Aged(s, due)
  IN  IF s.nil THEN s
      ELSE IF Fresh(s, t, due)
      THEN [a EXCEPT !.cur = @ \cup {t}, !.curBytes = @ + TxBytes[t]]
      ELSE a
================================================================================
