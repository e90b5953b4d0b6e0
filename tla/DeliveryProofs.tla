---------------------------- MODULE DeliveryProofs ----------------------------
(***************************************************************************)
(* Theorems about Delivery: what a connection has read to its end reaches   *)
(* the pipe, no transaction reaches it twice, nothing is sent to a stopped  *)
(* pipe, and the byte counts of the cache are exact, for any transactions,  *)
(* connections, feeds and limits.                                           *)
(***************************************************************************)
EXTENDS Delivery, FiniteSetTheorems, TLAPS

Resting == {"none", "queued", "closed"}

\* The pipe has the transaction, or a connection or the queue does.
InHands(t) == taken[t] > 0 \/ Waiting(t)

Types ==
  /\ {draining, cancelled, listening, broken} \subseteq BOOLEAN
  /\ lane \in {"accept", "wait", "returned"}
  /\ pc \in [Conn -> {"none", "queued", "loop", "next", "read", "full", "end", "closed"}]
  /\ wire \in [Conn -> Seq(Object)]
  /\ held \in [Conn -> Seq(Object)]
  /\ run \in [Conn -> Seq(Tx)]
  /\ peerClosed \in [Conn -> BOOLEAN]
  /\ txs \in Shard
  /\ queue \in Seq(Seq(Tx))
  /\ pipe \in {"run", "drain", "done"}
  /\ taken \in [Tx -> Nat]
  /\ wrote \in [Conn -> Nat] /\ \A c \in Conn : wrote[c] <= Len(Feed[c])
  /\ ended \in [Conn -> {"no", "eof", "cut", "lost", "fault"}]

\* A connection at rest has an empty run, and one that ended well has read everything.
Flushed(c) ==
  /\ pc[c] \in Resting => run[c] = <<>>
  /\ pc[c] = "read" => held[c] = <<>>
  /\ ended[c] # "no" => pc[c] \in {"end", "closed"}
  /\ ended[c] = "eof" => peerClosed[c] /\ wire[c] = <<>> /\ held[c] = <<>>

\* Lane and pipe stop in this order.
StopOrder ==
  /\ lane = "returned" /\ ~broken => \A c \in Conn : pc[c] \in Resting
  /\ pipe # "run" => lane = "returned"
  /\ pipe = "done" /\ ~broken => queue = <<>>

\* What the edge wrote on a connection that has not failed is still to be handled, or
\* has been handed on.
Accounted(c) ==
  ended[c] \in {"no", "eof"} =>
    \A i \in 1..wrote[c] : IsEF(Feed[c][i]) =>
      Feed[c][i] \in Range(wire[c]) \cup Range(held[c]) \/ InHands(Feed[c][i][1])

\* What the cache holds is in hands.
CachedInHands == \A t \in Tx : Has(txs, t) => InHands(t)

\* The inductive invariant.
Inv ==
  /\ Types
  /\ \A c \in Conn : Flushed(c) /\ Accounted(c)
  /\ StopOrder
  /\ CachedInHands

-----------------------------------------------------------------------------
(* Sequences. *)

\* The elements of a sequence that Append extends.
LEMMA RangeAppend ==
  ASSUME NEW S, NEW s \in Seq(S), NEW x \in S
  PROVE  Append(s, x) \in Seq(S) /\ Range(Append(s, x)) = Range(s) \cup {x}
<1>1. /\ Append(s, x) \in Seq(S)
      /\ DOMAIN Append(s, x) = 1..(Len(s) + 1)
      /\ DOMAIN s = 1..Len(s)
      /\ \A i \in 1..Len(s) : Append(s, x)[i] = s[i]
      /\ Append(s, x)[Len(s) + 1] = x
      /\ Len(s) \in Nat
  OBVIOUS
<1>2. \A i \in 1..(Len(s) + 1) : i \in 1..Len(s) \/ i = Len(s) + 1
  BY <1>1
<1>3. 1..Len(s) \subseteq 1..(Len(s) + 1) /\ Len(s) + 1 \in 1..(Len(s) + 1)
  BY <1>1
<1> QED
  BY Zenon, <1>1, <1>2, <1>3 DEF Range

\* The elements of a sequence without its head.
LEMMA RangeTail ==
  ASSUME NEW S, NEW s \in Seq(S), s # <<>>
  PROVE  /\ Tail(s) \in Seq(S) /\ Head(s) \in S
         /\ Range(s) = Range(Tail(s)) \cup {Head(s)}
<1>1. /\ Tail(s) \in Seq(S) /\ Head(s) \in S
      /\ Len(s) \in Nat \ {0}
      /\ DOMAIN Tail(s) = 1..(Len(s) - 1)
      /\ DOMAIN s = 1..Len(s)
      /\ \A i \in 1..(Len(s) - 1) : Tail(s)[i] = s[i + 1]
      /\ Head(s) = s[1]
  OBVIOUS
<1>2. ASSUME NEW x \in Range(s) PROVE x \in Range(Tail(s)) \cup {Head(s)}
  <2>1. PICK i \in 1..Len(s) : s[i] = x
    BY <1>1 DEF Range
  <2>2. CASE i = 1
    BY <1>1, <2>1, <2>2
  <2>3. CASE i # 1
    <3>1. i - 1 \in 1..(Len(s) - 1) /\ Tail(s)[i - 1] = x
      BY <1>1, <2>1, <2>3
    <3> QED
      BY Zenon, <1>1, <3>1 DEF Range
  <2> QED
    BY <2>2, <2>3
<1>3. ASSUME NEW x \in Range(Tail(s)) PROVE x \in Range(s)
  <2>1. PICK i \in 1..(Len(s) - 1) : Tail(s)[i] = x
    BY <1>1 DEF Range
  <2>2. i + 1 \in 1..Len(s) /\ s[i + 1] = x
    BY <1>1, <2>1
  <2> QED
    BY Zenon, <1>1, <2>2 DEF Range
<1>4. Head(s) \in Range(s)
  <2>1. 1 \in 1..Len(s)
    BY <1>1
  <2> QED
    BY Zenon, <1>1, <2>1 DEF Range
<1> QED
  BY <1>1, <1>2, <1>3, <1>4

\* Splitting a sequence loses no element.
LEMMA RangeSplit ==
  ASSUME NEW S, NEW s \in Seq(S), NEW n \in 1..Len(s)
  PROVE  /\ SubSeq(s, 1, n) \in Seq(S) /\ SubSeq(s, n + 1, Len(s)) \in Seq(S)
         /\ Range(s) \subseteq Range(SubSeq(s, 1, n)) \cup Range(SubSeq(s, n + 1, Len(s)))
<1> DEFINE a == SubSeq(s, 1, n)
           b == SubSeq(s, n + 1, Len(s))
<1>1. /\ a \in Seq(S) /\ b \in Seq(S)
      /\ Len(s) \in Nat /\ DOMAIN s = 1..Len(s)
      /\ DOMAIN a = 1..n
      /\ DOMAIN b = 1..(Len(s) - n)
      /\ \A i \in 1..n : a[i] = s[i]
      /\ \A i \in 1..(Len(s) - n) : b[i] = s[n + i]
  BY SMTT(30)
<1> HIDE DEF a, b
<1>2. ASSUME NEW x \in Range(s) PROVE x \in Range(a) \cup Range(b)
  <2>1. PICK i \in 1..Len(s) : s[i] = x
    BY <1>1 DEF Range
  <2>2. CASE i <= n
    <3>1. i \in 1..n /\ a[i] = x
      BY <1>1, <2>1, <2>2
    <3> QED
      BY Zenon, <1>1, <3>1 DEF Range
  <2>3. CASE ~(i <= n)
    <3>1. i - n \in 1..(Len(s) - n) /\ b[i - n] = x
      BY <1>1, <2>1, <2>3
    <3> QED
      BY Zenon, <1>1, <3>1 DEF Range
  <2> QED
    BY <2>2, <2>3
<1> QED
  BY <1>1, <1>2 DEF a, b

\* An element occurs at least once in a sequence.
LEMMA Occurs ==
  ASSUME NEW s \in Seq(Tx), NEW t \in Tx
  PROVE  Occurrences(s, t) \in Nat /\ (t \in Range(s) => Occurrences(s, t) > 0)
<1> DEFINE I == {i \in DOMAIN s : s[i] = t}
<1>1. DOMAIN s = 1..Len(s) /\ Len(s) \in Nat
  OBVIOUS
<1>2. IsFiniteSet(1..Len(s))
  BY <1>1, FS_Interval
<1>3. IsFiniteSet(I)
  BY <1>1, <1>2, FS_Subset
<1>4. Cardinality(I) \in Nat
  BY <1>3, FS_CardinalityType
<1>5. t \in Range(s) => I # {}
  BY Zenon DEF Range
<1>6. I # {} => Cardinality(I) # 0
  BY <1>3, FS_EmptySet
<1> HIDE DEF I
<1>7. Occurrences(s, t) = Cardinality(I)
  BY DEF Occurrences, I
<1> QED
  BY <1>4, <1>5, <1>6, <1>7

-----------------------------------------------------------------------------
(* How transactions move. *)

\* An extended-format object carries a transaction.
LEMMA Carries ==
  ASSUME NEW o \in Object, IsEF(o)
  PROVE  o[1] \in Tx
BY DEF Object, IsEF

\* Where nothing moves everything stays in hands.
LEMMA StillInHands ==
  ASSUME UNCHANGED <<run, queue, taken>>, NEW t, InHands(t)
  PROVE  InHands(t)'
BY Zenon DEF InHands, Waiting

\* Batch.Flush moves a run from the session to the queue.
LEMMA FlushMoves ==
  ASSUME Types, NEW c \in Conn, Flush(c), taken' = taken
  PROVE  /\ run' \in [Conn -> Seq(Tx)]
         /\ queue' \in Seq(Seq(Tx))
         /\ run'[c] = <<>> /\ \A d \in Conn \ {c} : run'[d] = run[d]
         /\ \A t \in Tx : InHands(t) => InHands(t)'
<1>1. CASE run[c] = <<>>
  <2>1. UNCHANGED <<run, queue>>
    BY <1>1 DEF Flush
  <2>2. \A t \in Tx : InHands(t) => InHands(t)'
    BY Zenon, <2>1, StillInHands
  <2> QED
    BY <1>1, <2>1, <2>2 DEF Types
<1>2. CASE run[c] # <<>>
  <2>1. queue' = Append(queue, run[c]) /\ run' = [run EXCEPT ![c] = <<>>]
    BY <1>2 DEF Flush
  <2>2. /\ run \in [Conn -> Seq(Tx)] /\ run[c] \in Seq(Tx)
        /\ queue \in Seq(Seq(Tx)) /\ Len(queue) \in Nat
    BY DEF Types
  <2>3. /\ run' \in [Conn -> Seq(Tx)]
        /\ run'[c] = <<>> /\ \A d \in Conn \ {c} : run'[d] = run[d]
    BY <2>1, <2>2
  <2>4. /\ queue' \in Seq(Seq(Tx))
        /\ DOMAIN queue' = 1..(Len(queue) + 1) /\ DOMAIN queue = 1..Len(queue)
        /\ \A i \in 1..Len(queue) : queue'[i] = queue[i]
        /\ queue'[Len(queue) + 1] = run[c]
    BY <2>1, <2>2
  <2>5. /\ Len(queue) + 1 \in DOMAIN queue'
        /\ \A i \in DOMAIN queue : i \in DOMAIN queue'
    BY <2>2, <2>4
  <2>6. ASSUME NEW t \in Tx, InHands(t) PROVE InHands(t)'
    <3>1. CASE taken[t] > 0
      BY <3>1 DEF InHands
    <3>2. CASE \E d \in Conn : t \in Range(run[d])
      <4>1. PICK d \in Conn : t \in Range(run[d])
        BY <3>2
      <4>2. CASE d = c
        BY Zenon, <2>4, <2>5, <4>1, <4>2 DEF InHands, Waiting
      <4>3. CASE d # c
        BY Zenon, <2>3, <4>1, <4>3 DEF InHands, Waiting
      <4> QED
        BY <4>2, <4>3
    <3>3. CASE \E i \in DOMAIN queue : t \in Range(queue[i])
      BY Zenon, <2>4, <2>5, <3>3 DEF InHands, Waiting
    <3> QED
      BY <2>6, <3>1, <3>2, <3>3 DEF InHands, Waiting
  <2> QED
    BY <2>3, <2>4, <2>6
<1> QED
  BY <1>1, <1>2

\* The pipe takes the run at the head of its queue.
LEMMA TakeMoves ==
  ASSUME Types, Take
  PROVE  /\ taken' \in [Tx -> Nat]
         /\ queue' \in Seq(Seq(Tx))
         /\ \A t \in Tx : InHands(t) => InHands(t)'
<1>1. /\ taken' = [t \in Tx |-> taken[t] + Occurrences(Head(queue), t)]
      /\ queue' = Tail(queue) /\ queue # <<>> /\ run' = run
  BY DEF Take
<1>2. taken \in [Tx -> Nat] /\ queue \in Seq(Seq(Tx))
  BY DEF Types
<1>3. /\ Head(queue) \in Seq(Tx)
      /\ Tail(queue) \in Seq(Seq(Tx))
      /\ Len(queue) \in Nat \ {0}
      /\ DOMAIN queue = 1..Len(queue)
      /\ DOMAIN Tail(queue) = 1..(Len(queue) - 1)
      /\ Head(queue) = queue[1]
      /\ \A i \in 1..(Len(queue) - 1) : Tail(queue)[i] = queue[i + 1]
  BY <1>1, <1>2
<1>4. \A t \in Tx : /\ Occurrences(Head(queue), t) \in Nat
                    /\ t \in Range(Head(queue)) => Occurrences(Head(queue), t) > 0
  BY <1>3, Occurs
<1>5. taken' \in [Tx -> Nat]
  BY <1>1, <1>2, <1>4
<1>6. ASSUME NEW t \in Tx, InHands(t) PROVE InHands(t)'
  <2>1. taken'[t] = taken[t] + Occurrences(Head(queue), t) /\ taken[t] \in Nat
    BY <1>1, <1>2
  <2>2. CASE taken[t] > 0
    <3>1. taken'[t] > 0
      BY <1>4, <2>1, <2>2
    <3> QED
      BY <3>1 DEF InHands
  <2>3. CASE \E d \in Conn : t \in Range(run[d])
    BY Zenon, <1>1, <2>3 DEF InHands, Waiting
  <2>4. CASE \E i \in DOMAIN queue : t \in Range(queue[i])
    <3>1. PICK i \in 1..Len(queue) : t \in Range(queue[i])
      BY <1>3, <2>4
    <3>2. CASE i = 1
      <4>1. Occurrences(Head(queue), t) > 0
        BY <1>3, <1>4, <3>1, <3>2
      <4>2. taken'[t] > 0
        BY <1>4, <2>1, <4>1
      <4> QED
        BY <4>2 DEF InHands
    <3>3. CASE i # 1
      <4>1. i - 1 \in DOMAIN queue' /\ queue'[i - 1] = queue[i]
        BY <1>1, <1>3, <3>3
      <4> QED
        BY Zenon, <3>1, <4>1 DEF InHands, Waiting
    <3> QED
      BY <3>2, <3>3
  <2> QED
    BY <1>6, <2>2, <2>3, <2>4 DEF InHands, Waiting
<1> QED
  BY <1>1, <1>3, <1>5, <1>6

\* Admit leaves in the cache nothing but what was there and the transaction, which it
\* calls a duplicate only when it was there.
LEMMA AdmitHolds ==
  ASSUME txs \in Shard, NEW t \in Tx, NEW due \in BOOLEAN
  PROVE  /\ Admit(txs, t, due) \in Shard
         /\ \A u \in Tx : Has(Admit(txs, t, due), u) => Has(txs, u) \/ u = t
         /\ ~Fresh(txs, t, due) => Has(txs, t)
<1>1. /\ Aged(txs, due) \in Shard
      /\ \A u \in Tx : Has(Aged(txs, due), u) => Has(txs, u)
  BY DEF Aged, RotateLocked, Shard, Has
<1>2. TxBytes[t] \in Nat
  BY TxCacheAssumption
<1> DEFINE a == Aged(txs, due)
<1>3. CASE ~txs.nil /\ Fresh(txs, t, due)
  <2>1. Admit(txs, t, due) = [a EXCEPT !.cur = @ \cup {t}, !.curBytes = @ + TxBytes[t]]
    BY <1>3 DEF Admit
  <2>2. a \in Shard /\ \A u \in Tx : Has(a, u) => Has(txs, u)
    BY <1>1
  <2> HIDE DEF a
  <2>3. Admit(txs, t, due) = [nil |-> a.nil, cur |-> a.cur \cup {t}, prev |-> a.prev,
                              curBytes |-> a.curBytes + TxBytes[t], prevBytes |-> a.prevBytes]
    BY Zenon, <2>1, <2>2 DEF Shard
  <2>4. Admit(txs, t, due) \in Shard
    <3>1. /\ a.nil \in BOOLEAN /\ a.cur \cup {t} \in SUBSET Tx /\ a.prev \in SUBSET Tx
          /\ a.curBytes + TxBytes[t] \in Nat /\ a.prevBytes \in Nat
      BY <1>2, <2>2 DEF Shard
    <3>2. \A e \in BOOLEAN, p, q \in SUBSET Tx, m, n \in Nat :
            [nil |-> e, cur |-> p, prev |-> q, curBytes |-> m, prevBytes |-> n] \in Shard
      BY DEF Shard
    <3> QED
      BY ZenonT(40), <2>3, <3>1, <3>2
  <2> QED
    BY <1>3, <2>2, <2>3, <2>4 DEF Has
<1>4. CASE ~txs.nil /\ ~Fresh(txs, t, due)
  BY <1>1, <1>4 DEF Admit, Fresh
<1>5. CASE txs.nil
  BY Zenon, <1>5 DEF Admit, Fresh
<1> QED
  BY Zenon, <1>3, <1>4, <1>5

\* An admitted transaction is in hands: it is in the run, or was before.
LEMMA AdmitMoves ==
  ASSUME Types, CachedInHands,
         NEW c \in Conn, NEW t \in Tx, AdmitTx(c, t, TRUE), UNCHANGED <<queue, taken>>
  PROVE  /\ run' \in [Conn -> Seq(Tx)] /\ txs' \in Shard
         /\ \A d \in Conn \ {c} : run'[d] = run[d]
         /\ pc' \in {[pc EXCEPT ![c] = "full"], [pc EXCEPT ![c] = "loop"]}
         /\ \A u \in Tx : InHands(u) => InHands(u)'
         /\ InHands(t)'
         /\ CachedInHands'
<1>1. PICK due \in BOOLEAN :
        /\ txs' = Admit(txs, t, due)
        /\ run' = IF Fresh(txs, t, due) THEN [run EXCEPT ![c] = Append(@, t)] ELSE run
        /\ pc' = [pc EXCEPT ![c] = IF Len(run'[c]) >= RunCap THEN "full" ELSE "loop"]
  BY DEF AdmitTx
<1>2. /\ txs' \in Shard
      /\ \A u \in Tx : Has(txs', u) => Has(txs, u) \/ u = t
      /\ ~Fresh(txs, t, due) => Has(txs, t)
  BY <1>1, AdmitHolds DEF Types
<1>3. run \in [Conn -> Seq(Tx)] /\ run[c] \in Seq(Tx)
  BY DEF Types
<1>4. Append(run[c], t) \in Seq(Tx) /\ Range(Append(run[c], t)) = Range(run[c]) \cup {t}
  BY <1>3, RangeAppend
<1>5. pc' \in {[pc EXCEPT ![c] = "full"], [pc EXCEPT ![c] = "loop"]}
  BY Zenon, <1>1
<1>6. CASE Fresh(txs, t, due)
  <2>1. /\ run' \in [Conn -> Seq(Tx)] /\ run'[c] = Append(run[c], t)
        /\ \A d \in Conn \ {c} : run'[d] = run[d]
    BY <1>1, <1>3, <1>4, <1>6
  <2>2. \A d \in Conn : Range(run[d]) \subseteq Range(run'[d])
    <3> SUFFICES ASSUME NEW d \in Conn PROVE Range(run[d]) \subseteq Range(run'[d])
      OBVIOUS
    <3>1. CASE d = c
      BY Zenon, <1>4, <2>1, <3>1
    <3>2. CASE d # c
      BY Zenon, <2>1, <3>2
    <3> QED
      BY <3>1, <3>2
  <2>3. \A u \in Tx : InHands(u) => InHands(u)'
    BY Zenon, <2>2 DEF InHands, Waiting
  <2>4. InHands(t)'
    BY Zenon, <1>4, <2>1 DEF InHands, Waiting
  <2> QED
    BY Zenon, <1>2, <1>5, <2>1, <2>3, <2>4 DEF CachedInHands
<1>7. CASE ~Fresh(txs, t, due)
  <2>1. run' = run
    BY <1>1, <1>7
  <2>2. \A u \in Tx : InHands(u) => InHands(u)'
    BY Zenon, <2>1, StillInHands
  <2> QED
    BY Zenon, <1>2, <1>3, <1>5, <1>7, <2>1, <2>2 DEF CachedInHands
<1> QED
  BY <1>6, <1>7

-----------------------------------------------------------------------------
(* One step. *)

\* A step of connection c, of its edge or of the goroutines that serve it.
ConnStep(c) ==
  \/ Connect(c) \/ Write(c) \/ PeerClose(c) \/ PeerReset(c)
  \/ Accept(c) \/ Closer(c) \/ Deadline(c) \/ ServeConn(c)

\* A step of Serve, or of nothing.
LaneStep == Cancel \/ CloseListener \/ AcceptFails \/ ServeReturns \/ Exit \/ UNCHANGED vars

\* Whatever was in hands stays in hands.
HandsKept == \A t \in Tx : InHands(t) => InHands(t)'

\* The three kinds of steps.
LEMMA Kinds ==
  ASSUME [Next]_vars
  PROVE  LaneStep \/ (\E c \in Conn : ConnStep(c)) \/ Take \/ StopPipe
BY Zenon DEF Next, LaneStep, ConnStep

\* A flush in the loop, after a full run or among the deferred calls.
LEMMA FlushStep ==
  ASSUME Inv, NEW c \in Conn, FlushThenRead(c) \/ HandleFlushes(c) \/ CloseConn(c)
  PROVE  /\ run' \in [Conn -> Seq(Tx)] /\ queue' \in Seq(Seq(Tx))
         /\ taken' = taken /\ txs' = txs
         /\ run'[c] = <<>> /\ \A d \in Conn \ {c} : run'[d] = run[d]
         /\ HandsKept /\ CachedInHands'
<1>1. Flush(c) /\ taken' = taken /\ txs' = txs
  BY Zenon DEF FlushThenRead, HandleFlushes, CloseConn, cache
<1>2. /\ run' \in [Conn -> Seq(Tx)] /\ queue' \in Seq(Seq(Tx))
      /\ run'[c] = <<>> /\ \A d \in Conn \ {c} : run'[d] = run[d]
      /\ HandsKept
  BY Zenon, <1>1, FlushMoves DEF Inv, HandsKept
<1>3. CachedInHands'
  BY Zenon, <1>1, <1>2 DEF Inv, CachedInHands, HandsKept
<1> QED
  BY Zenon, <1>1, <1>2, <1>3

\* Handle removes the head of what is held; if that is an extended-format transaction
\* it is in hands.
LEMMA HandleStep ==
  ASSUME Inv, NEW c \in Conn, Handle(c)
  PROVE  /\ run' \in [Conn -> Seq(Tx)] /\ txs' \in Shard
         /\ UNCHANGED <<queue, taken>>
         /\ \A d \in Conn \ {c} : run'[d] = run[d]
         /\ pc' \in {[pc EXCEPT ![c] = "full"], [pc EXCEPT ![c] = "loop"]}
         /\ HandsKept /\ CachedInHands'
         /\ \A t \in Tx : IsEF(Head(held[c])) /\ t = Head(held[c])[1] => InHands(t)'
<1>1. UNCHANGED <<queue, taken>> /\ held[c] # <<>> /\ held[c] \in Seq(Object)
  BY DEF Handle, toPipe, Inv, Types
<1>2. Head(held[c]) \in Object
  BY <1>1
<1>3. CASE IsEF(Head(held[c]))
  <2>1. PICK t \in Tx : t = Head(held[c])[1] /\ AdmitTx(c, t, TRUE)
    BY Zenon, <1>2, <1>3, Carries DEF Handle
  <2> QED
    BY Zenon, <1>1, <2>1, AdmitMoves DEF Inv, HandsKept, CachedInHands
<1>4. CASE ~IsEF(Head(held[c]))
  <2>1. pc' = [pc EXCEPT ![c] = "loop"] /\ UNCHANGED <<txs, run>>
    BY Zenon, <1>4 DEF Handle, cache
  <2>2. HandsKept
    BY Zenon, <1>1, <2>1, StillInHands DEF HandsKept
  <2>3. CachedInHands'
    BY Zenon, <2>1, <2>2 DEF Inv, CachedInHands, HandsKept
  <2> QED
    BY ZenonT(40), <1>1, <1>4, <2>1, <2>2, <2>3 DEF Inv, Types
<1> QED
  BY ZenonT(60), <1>3, <1>4

\* Every step keeps what is in hands, and the types of what moves.
LEMMA Moved ==
  ASSUME Inv, [Next]_vars
  PROVE  /\ run' \in [Conn -> Seq(Tx)] /\ queue' \in Seq(Seq(Tx))
         /\ taken' \in [Tx -> Nat] /\ txs' \in Shard
         /\ HandsKept /\ CachedInHands'
<1>0. Types /\ CachedInHands
  BY Zenon DEF Inv, CachedInHands
<1>1. ASSUME UNCHANGED <<run, queue, taken, txs>>
      PROVE  HandsKept /\ CachedInHands'
  <2>1. HandsKept
    BY Zenon, <1>1, StillInHands DEF HandsKept
  <2> QED
    BY Zenon, <1>0, <1>1, <2>1 DEF CachedInHands, HandsKept
<1>2. CASE LaneStep \/ StopPipe
  <2>1. UNCHANGED <<run, queue, taken, txs>>
    BY <1>2 DEF LaneStep, Cancel, CloseListener, AcceptFails, ServeReturns, Exit, vars,
       StopPipe, cache, toPipe
  <2> QED
    BY Zenon, <1>0, <1>1, <2>1 DEF Types
<1>3. CASE Take
  <2>1. txs' = txs /\ run' = run
    BY <1>3 DEF Take, cache
  <2>2. taken' \in [Tx -> Nat] /\ queue' \in Seq(Seq(Tx)) /\ HandsKept
    BY Zenon, <1>0, <1>3, TakeMoves DEF HandsKept
  <2> QED
    BY Zenon, <1>0, <2>1, <2>2 DEF Types, CachedInHands, HandsKept
<1>4. ASSUME NEW c \in Conn, ConnStep(c)
      PROVE  /\ run' \in [Conn -> Seq(Tx)] /\ queue' \in Seq(Seq(Tx))
             /\ taken' \in [Tx -> Nat] /\ txs' \in Shard
             /\ HandsKept /\ CachedInHands'
  <2>1. CASE FlushThenRead(c) \/ HandleFlushes(c) \/ CloseConn(c)
    BY Zenon, <1>0, <2>1, FlushStep DEF Types
  <2>2. CASE Handle(c)
    BY Zenon, <1>0, <2>2, HandleStep DEF Types
  <2>3. CASE ~(FlushThenRead(c) \/ HandleFlushes(c) \/ CloseConn(c) \/ Handle(c))
    <3>1. UNCHANGED <<run, queue, taken, txs>>
      BY Zenon, <1>4, <2>3 DEF ConnStep, ServeConn, Connect, Write, PeerClose, PeerReset, Accept,
         Closer, Deadline, LoopReturns, Read, ReadEnds, Fault, cache, toPipe
    <3> QED
      BY Zenon, <1>0, <1>1, <3>1 DEF Types
  <2> QED
    BY <2>1, <2>2, <2>3
<1> QED
  BY Zenon, <1>2, <1>3, <1>4, Kinds

\* Every step keeps the types.
LEMMA TypesStep ==
  ASSUME Inv, [Next]_vars
  PROVE  Types'
<1> DEFINE Rest ==
      /\ {draining, cancelled, listening, broken} \subseteq BOOLEAN
      /\ lane \in {"accept", "wait", "returned"}
      /\ pc \in [Conn -> {"none", "queued", "loop", "next", "read", "full", "end", "closed"}]
      /\ wire \in [Conn -> Seq(Object)]
      /\ held \in [Conn -> Seq(Object)]
      /\ peerClosed \in [Conn -> BOOLEAN]
      /\ pipe \in {"run", "drain", "done"}
      /\ wrote \in [Conn -> Nat] /\ \A c \in Conn : wrote[c] <= Len(Feed[c])
      /\ ended \in [Conn -> {"no", "eof", "cut", "lost", "fault"}]
<1>0. Rest
  BY Zenon DEF Inv, Types
<1>1. ASSUME LaneStep \/ StopPipe \/ Take PROVE Rest'
  <2>1. UNCHANGED <<draining, pc, wire, held, peerClosed, wrote, ended>>
    BY Zenon, <1>1 DEF LaneStep, Cancel, CloseListener, AcceptFails, ServeReturns, Exit, vars,
       StopPipe, Take, edge
  <2>2. CASE Cancel \/ CloseListener
    BY Zenon, <1>0, <2>1, <2>2 DEF Cancel, CloseListener, toPipe
  <2>3. CASE AcceptFails
    BY Zenon, <1>0, <2>1, <2>3 DEF AcceptFails, toPipe
  <2>4. CASE ServeReturns
    BY <1>0, <2>1, <2>4 DEF ServeReturns, toPipe
  <2>5. CASE StopPipe
    BY <1>0, <2>1, <2>5 DEF StopPipe, group
  <2>6. CASE Take \/ Exit \/ UNCHANGED vars
    BY Zenon, <1>0, <2>1, <2>6 DEF Take, Exit, vars, group, toPipe
  <2> QED
    BY Zenon, <1>1, <2>2, <2>3, <2>4, <2>5, <2>6 DEF LaneStep
<1>2. ASSUME NEW c \in Conn, ConnStep(c) PROVE Rest'
  <2>1. CASE Connect(c) \/ Accept(c) \/ Closer(c) \/ Deadline(c)
    BY Zenon, <1>0, <2>1 DEF Connect, Accept, Closer, Deadline, group, edge, toPipe
  <2>2. CASE Write(c)
    <3>1. Feed[c] \in Seq(Object) /\ wrote[c] \in Nat /\ wrote[c] < Len(Feed[c])
      BY Zenon, <1>0, <2>2, DeliveryAssumption DEF Write
    <3>2. Feed[c][wrote[c] + 1] \in Object
      BY <3>1
    <3>3. Append(wire[c], Feed[c][wrote[c] + 1]) \in Seq(Object)
      BY <1>0, <3>2
    <3>4. wire' \in [Conn -> Seq(Object)]
      BY ZenonT(60), <1>0, <2>2, <3>3 DEF Write
    <3>5. wrote' \in [Conn -> Nat] /\ \A d \in Conn : wrote'[d] <= Len(Feed[d])
      BY SMTT(30), <1>0, <2>2, <3>1 DEF Write
    <3> QED
      BY <1>0, <2>2, <3>4, <3>5 DEF Write, group, toPipe
  <2>3. CASE PeerClose(c) \/ PeerReset(c)
    BY Zenon, <1>0, <2>3 DEF PeerClose, PeerReset, group, edge, toPipe
  <2>4. CASE LoopReturns(c) \/ ReadEnds(c) \/ Fault(c)
    BY Zenon, <1>0, <2>4 DEF LoopReturns, ReadEnds, Fault, group, edge, toPipe
  <2>5. CASE FlushThenRead(c) \/ HandleFlushes(c) \/ CloseConn(c)
    BY Zenon, <1>0, <2>5 DEF FlushThenRead, HandleFlushes, CloseConn, group, edge
  <2>6. CASE Read(c)
    <3>1. PICK n \in 1..Len(wire[c]) :
            /\ held' = [held EXCEPT ![c] = SubSeq(wire[c], 1, n)]
            /\ wire' = [wire EXCEPT ![c] = SubSeq(wire[c], n + 1, Len(wire[c]))]
      BY Zenon, <2>6 DEF Read
    <3>2. SubSeq(wire[c], 1, n) \in Seq(Object)
          /\ SubSeq(wire[c], n + 1, Len(wire[c])) \in Seq(Object)
      BY Zenon, <1>0, <3>1, RangeSplit
    <3>3. held' \in [Conn -> Seq(Object)] /\ wire' \in [Conn -> Seq(Object)]
      BY <1>0, <3>1, <3>2
    <3> QED
      BY <1>0, <2>6, <3>3 DEF Read, group, toPipe
  <2>7. CASE Handle(c)
    <3>1. pc' \in {[pc EXCEPT ![c] = "full"], [pc EXCEPT ![c] = "loop"]}
      BY Zenon, <2>7, HandleStep
    <3>2. held' = [held EXCEPT ![c] = Tail(held[c])] /\ held[c] # <<>>
      BY ZenonT(60), <2>7 DEF Handle
    <3>3. held' \in [Conn -> Seq(Object)]
      BY <1>0, <3>2, RangeTail
    <3> QED
      BY Zenon, <1>0, <2>7, <3>1, <3>3 DEF Handle, group, edge, toPipe
  <2> QED
    BY ZenonT(40), <1>2, <2>1, <2>2, <2>3, <2>4, <2>5, <2>6, <2>7 DEF ConnStep, ServeConn
<1>3. Rest'
  BY Zenon, <1>1, <1>2, Kinds
<1> QED
  BY Zenon, <1>3, Moved DEF Types

\* A step of one connection leaves the others alone.
LEMMA OthersAlone ==
  ASSUME Inv, NEW c \in Conn, ConnStep(c), NEW d \in Conn \ {c}
  PROVE  /\ pc'[d] = pc[d] /\ wire'[d] = wire[d] /\ held'[d] = held[d] /\ run'[d] = run[d]
         /\ peerClosed'[d] = peerClosed[d] /\ wrote'[d] = wrote[d] /\ ended'[d] = ended[d]
<1>0. Types
  BY ZenonT(60) DEF Inv
<1>1. CASE Connect(c) \/ Accept(c) \/ Closer(c) \/ Deadline(c)
  BY ZenonT(60), <1>0, <1>1 DEF Connect, Accept, Closer, Deadline, edge, Types
<1>2. CASE Write(c) \/ PeerClose(c) \/ PeerReset(c)
  BY ZenonT(60), <1>0, <1>2 DEF Write, PeerClose, PeerReset, edge, Types
<1>3. CASE LoopReturns(c) \/ ReadEnds(c) \/ Fault(c) \/ Read(c)
  BY ZenonT(60), <1>0, <1>3 DEF LoopReturns, ReadEnds, Fault, Read, edge, Types
<1>4. CASE FlushThenRead(c) \/ HandleFlushes(c) \/ CloseConn(c)
  <2>1. run'[d] = run[d]
    BY Zenon, <1>4, FlushStep
  <2> QED
    BY <1>0, <1>4, <2>1 DEF FlushThenRead, HandleFlushes, CloseConn, edge, Types
<1>5. CASE Handle(c)
  <2>1. run'[d] = run[d] /\ pc' \in {[pc EXCEPT ![c] = "full"], [pc EXCEPT ![c] = "loop"]}
    BY Zenon, <1>5, HandleStep
  <2>2. held' = [held EXCEPT ![c] = Tail(held[c])] /\ UNCHANGED <<edge, ended>>
    BY <1>5 DEF Handle
  <2> QED
    BY <1>0, <2>1, <2>2 DEF edge, Types
<1> QED
  BY Zenon, <1>1, <1>2, <1>3, <1>4, <1>5 DEF ConnStep, ServeConn

\* Every step keeps Flushed: a run is empty when its connection comes to rest, because
\* the deferred flush is its last call.
LEMMA FlushedStep ==
  ASSUME Inv, [Next]_vars, NEW d \in Conn
  PROVE  Flushed(d)'
<1>0. Types /\ Flushed(d)
  BY DEF Inv
<1>1. CASE LaneStep \/ StopPipe \/ Take
  <2>1. UNCHANGED <<pc, wire, peerClosed, held, run, ended>>
    BY Zenon, <1>1 DEF LaneStep, Cancel, CloseListener, AcceptFails, ServeReturns, Exit, vars,
       StopPipe, Take, edge
  <2> QED
    BY Zenon, <1>0, <2>1 DEF Flushed
<1>2. ASSUME NEW c \in Conn, ConnStep(c), c # d PROVE Flushed(d)'
  BY ZenonT(40), <1>0, <1>2, OthersAlone DEF Flushed
<1>3. CASE ConnStep(d)
  <2>1. CASE Connect(d) \/ Accept(d) \/ Closer(d) \/ Deadline(d)
    BY ZenonT(60), <1>0, <2>1 DEF Connect, Accept, Closer, Deadline, edge, Flushed, Types, Resting
  <2>2. CASE Write(d) \/ PeerClose(d)
    BY ZenonT(60), <1>0, <2>2 DEF Write, PeerClose, Flushed, Types, Resting
  <2>3. CASE PeerReset(d) \/ LoopReturns(d) \/ ReadEnds(d) \/ Fault(d)
    BY ZenonT(60), <1>0, <2>3 DEF PeerReset, LoopReturns, ReadEnds, Fault, Going, edge, Flushed, Types, Resting
  <2>4. CASE FlushThenRead(d) \/ HandleFlushes(d) \/ CloseConn(d)
    <3>1. run'[d] = <<>>
      BY ZenonT(40), <2>4, FlushStep
    <3> QED
      BY SMTT(30), <1>0, <2>4, <3>1 DEF FlushThenRead, HandleFlushes, CloseConn, Going, edge,
         Flushed, Types
  <2>5. CASE Read(d)
    <3>1. pc[d] = "read" /\ pc' = [pc EXCEPT ![d] = "next"] /\ ended' = ended
      BY Zenon, <2>5 DEF Read
    <3>2. pc'[d] = "next"
      BY Zenon, <1>0, <3>1 DEF Types
    <3>3. ended'[d] = "no"
      BY Zenon, <1>0, <3>1 DEF Flushed
    <3> QED
      BY ZenonT(60), <3>2, <3>3 DEF Flushed, Resting
  <2>6. CASE Handle(d)
    <3>1. pc'[d] \in {"full", "loop"}
      BY ZenonT(60), <1>0, <2>6, HandleStep DEF Types
    <3>2. ended'[d] = "no"
      BY <1>0, <2>6 DEF Handle, Going, Flushed, Types
    <3> QED
      BY ZenonT(60), <3>1, <3>2 DEF Flushed, Resting
  <2> QED
    BY Zenon, <1>3, <2>1, <2>2, <2>3, <2>4, <2>5, <2>6 DEF ConnStep, ServeConn
<1> QED
  BY Zenon, <1>1, <1>2, <1>3, Kinds

\* A connection whose buffers lose nothing but what is in hands stays accounted for.
LEMMA StillAccounted ==
  ASSUME Inv, [Next]_vars, NEW d \in Conn, wrote'[d] = wrote[d],
         ended'[d] \in {"no", "eof"} => ended[d] \in {"no", "eof"},
         \A o \in Range(wire[d]) \cup Range(held[d]) :
           IsEF(o) => o \in Range(wire'[d]) \cup Range(held'[d]) \/ InHands(o[1])'
  PROVE  Accounted(d)'
<1> SUFFICES ASSUME ended'[d] \in {"no", "eof"}, NEW i \in 1..wrote'[d], IsEF(Feed[d][i])
             PROVE  \/ Feed[d][i] \in Range(wire'[d]) \cup Range(held'[d])
                    \/ InHands(Feed[d][i][1])'
  BY Zenon DEF Accounted
<1>1. i \in 1..wrote[d] /\ i \in 1..Len(Feed[d]) /\ Feed[d] \in Seq(Object)
  BY SMTT(30), DeliveryAssumption DEF Inv, Types
<1>2. Feed[d][i] \in Object
  BY <1>1
<1>3. Feed[d][i][1] \in Tx
  BY Zenon, <1>2, Carries
<1>4. Feed[d][i] \in Range(wire[d]) \cup Range(held[d]) \/ InHands(Feed[d][i][1])
  BY Zenon, <1>1 DEF Inv, Accounted
<1>5. HandsKept
  BY Zenon, Moved
<1>6. InHands(Feed[d][i][1]) => InHands(Feed[d][i][1])'
  BY Zenon, <1>3, <1>5 DEF HandsKept
<1> QED
  BY Zenon, <1>4, <1>6

\* Every step keeps Accounted.
LEMMA AccountedStep ==
  ASSUME Inv, [Next]_vars, NEW d \in Conn
  PROVE  Accounted(d)'
<1>0. Types /\ Flushed(d) /\ Accounted(d)
  BY DEF Inv
<1>1. ASSUME wire'[d] = wire[d], held'[d] = held[d], wrote'[d] = wrote[d],
             ended'[d] \in {"no", "eof"} => ended[d] \in {"no", "eof"}
      PROVE  Accounted(d)'
  BY Zenon, <1>1, StillAccounted
<1>2. CASE LaneStep \/ StopPipe \/ Take
  <2>1. UNCHANGED <<wire, held, wrote, ended>>
    BY Zenon, <1>2 DEF LaneStep, Cancel, CloseListener, AcceptFails, ServeReturns, Exit, vars,
       StopPipe, Take, edge
  <2> QED
    BY Zenon, <1>1, <2>1
<1>3. ASSUME NEW c \in Conn, ConnStep(c), c # d PROVE Accounted(d)'
  BY ZenonT(40), <1>1, <1>3, OthersAlone
<1>4. CASE ConnStep(d)
  <2>1. CASE \/ Connect(d) \/ Accept(d) \/ Closer(d) \/ Deadline(d) \/ PeerClose(d)
             \/ FlushThenRead(d) \/ HandleFlushes(d) \/ CloseConn(d)
    <3>1. UNCHANGED <<wire, held, wrote, ended>>
      BY Zenon, <2>1 DEF Connect, Accept, Closer, Deadline, PeerClose, FlushThenRead,
         HandleFlushes, CloseConn, edge
    <3> QED
      BY Zenon, <1>1, <3>1
  <2>2. CASE PeerReset(d) \/ LoopReturns(d) \/ Fault(d)
    <3>1. ended'[d] \in {"lost", "cut", "fault"}
      BY <1>0, <2>2 DEF PeerReset, LoopReturns, Fault, Types
    <3> QED
      BY ZenonT(60), <3>1 DEF Accounted
  <2>3. CASE ReadEnds(d)
    <3>1. UNCHANGED <<wire, held, wrote>> /\ ended[d] = "no"
      BY <1>0, <2>3 DEF ReadEnds, edge, Flushed, Types
    <3> QED
      BY ZenonT(40), <1>1, <3>1
  <2>4. CASE Write(d)
    <3>1. /\ wrote'[d] = wrote[d] + 1 /\ held' = held /\ ended' = ended
          /\ wire'[d] = Append(wire[d], Feed[d][wrote[d] + 1])
          /\ wrote[d] \in Nat /\ wrote[d] < Len(Feed[d])
      BY <1>0, <2>4 DEF Write, Types
    <3>2. Feed[d] \in Seq(Object)
      BY ZenonT(60), DeliveryAssumption
    <3>3. Feed[d][wrote[d] + 1] \in Object /\ wire[d] \in Seq(Object)
      BY SMTT(30), <1>0, <3>1, <3>2 DEF Types
    <3>4. Range(wire'[d]) = Range(wire[d]) \cup {Feed[d][wrote[d] + 1]}
      <4>1. PICK o \in Object : o = Feed[d][wrote[d] + 1]
        BY ZenonT(60), <3>3
      <4>2. Range(Append(wire[d], o)) = Range(wire[d]) \cup {o}
        BY SMTT(30), <3>3, RangeAppend
      <4> QED
        BY Zenon, <3>1, <4>1, <4>2
    <3>5. ASSUME ended'[d] \in {"no", "eof"}, NEW i \in 1..wrote'[d], IsEF(Feed[d][i])
          PROVE  \/ Feed[d][i] \in Range(wire'[d]) \cup Range(held'[d])
                 \/ InHands(Feed[d][i][1])'
      <4>1. CASE i = wrote[d] + 1
        BY Zenon, <3>4, <4>1
      <4>2. CASE i # wrote[d] + 1
        <5>1. i \in 1..wrote[d]
          BY <3>1, <4>2
        <5>2. Feed[d][i] \in Range(wire[d]) \cup Range(held[d]) \/ InHands(Feed[d][i][1])
          BY Zenon, <1>0, <3>1, <3>5, <5>1 DEF Accounted
        <5>3. UNCHANGED <<run, queue, taken>>
          BY <2>4 DEF Write, toPipe
        <5> QED
          BY Zenon, <3>1, <3>4, <5>2, <5>3, StillInHands
      <4> QED
        BY <4>1, <4>2
    <3> QED
      BY ZenonT(40), <3>5 DEF Accounted
  <2>5. CASE Read(d)
    <3>1. PICK n \in 1..Len(wire[d]) :
            /\ held'[d] = SubSeq(wire[d], 1, n)
            /\ wire'[d] = SubSeq(wire[d], n + 1, Len(wire[d]))
      BY ZenonT(60), <1>0, <2>5 DEF Read, Types
    <3>2. UNCHANGED <<wrote, ended>> /\ held[d] = <<>> /\ wire[d] \in Seq(Object)
      BY <1>0, <2>5 DEF Read, Flushed, Types
    <3>3. Range(wire[d]) \subseteq Range(held'[d]) \cup Range(wire'[d])
      BY Zenon, <3>1, <3>2, RangeSplit
    <3>4. Range(held[d]) = {}
      BY <3>2 DEF Range
    <3>5. \A o \in Range(wire[d]) \cup Range(held[d]) : o \in Range(wire'[d]) \cup Range(held'[d])
      BY Zenon, <3>3, <3>4
    <3> QED
      BY ZenonT(40), <3>2, <3>5, StillAccounted
  <2>6. CASE Handle(d)
    <3>1. /\ UNCHANGED <<wire, wrote, ended>> /\ held[d] # <<>> /\ held[d] \in Seq(Object)
          /\ held'[d] = Tail(held[d])
      BY <1>0, <2>6 DEF Handle, edge, Types
    <3>2. Range(held[d]) = Range(held'[d]) \cup {Head(held[d])} /\ Head(held[d]) \in Object
      BY Zenon, <3>1, RangeTail
    <3>3. ASSUME NEW o \in Range(wire[d]) \cup Range(held[d]), IsEF(o)
          PROVE  o \in Range(wire'[d]) \cup Range(held'[d]) \/ InHands(o[1])'
      <4>1. CASE o = Head(held[d])
        <5>1. o[1] \in Tx
          BY Zenon, <3>2, <3>3, <4>1, Carries
        <5> QED
          BY Zenon, <2>6, <3>3, <4>1, <5>1, HandleStep
      <4>2. CASE o # Head(held[d])
        BY Zenon, <3>1, <3>2, <4>2
      <4> QED
        BY <4>1, <4>2
    <3> QED
      BY ZenonT(40), <3>1, <3>3, StillAccounted
  <2> QED
    BY Zenon, <1>4, <2>1, <2>2, <2>3, <2>4, <2>5, <2>6 DEF ConnStep, ServeConn
<1> QED
  BY Zenon, <1>2, <1>3, <1>4, Kinds

\* Every step keeps the order in which lane and pipe stop.
LEMMA StopOrderStep ==
  ASSUME Inv, [Next]_vars
  PROVE  StopOrder'
<1>0. Types /\ StopOrder
  BY SMTT(30) DEF Inv
<1>1. CASE LaneStep
  <2>1. UNCHANGED <<pc, pipe, queue>>
    BY Zenon, <1>1 DEF LaneStep, Cancel, CloseListener, AcceptFails, ServeReturns, Exit, vars, toPipe
  <2>2. CASE AcceptFails
    BY ZenonT(60), <1>0, <2>1, <2>2 DEF AcceptFails, StopOrder
  <2>3. CASE ServeReturns
    BY <1>0, <2>1, <2>3 DEF ServeReturns, StopOrder, Resting
  <2>4. CASE ~(AcceptFails \/ ServeReturns)
    <3>1. UNCHANGED <<lane, broken>>
      BY Zenon, <1>1, <2>4 DEF LaneStep, Cancel, CloseListener, Exit, vars, group
    <3> QED
      BY Zenon, <1>0, <2>1, <3>1 DEF StopOrder
  <2> QED
    BY <2>2, <2>3, <2>4
<1>2. CASE StopPipe \/ Take
  BY SMTT(30), <1>0, <1>2 DEF StopPipe, Take, group, StopOrder, Types
<1>3. ASSUME NEW c \in Conn, ConnStep(c) PROVE StopOrder'
  <2>1. UNCHANGED <<lane, broken, pipe>>
    BY Zenon, <1>3 DEF ConnStep, ServeConn, Connect, Write, PeerClose, PeerReset, Accept,
       Closer, Deadline, LoopReturns, FlushThenRead, Read, ReadEnds, Fault, Handle,
       HandleFlushes, CloseConn, group, toPipe
  <2>2. CASE lane = "returned" /\ ~broken
    <3>1. pc[c] \notin {"loop", "next", "read", "full", "end"} /\ lane # "accept"
      BY <1>0, <2>2 DEF StopOrder, Resting
    <3>2. Connect(c) \/ Write(c) \/ PeerClose(c) \/ Closer(c) \/ Deadline(c)
      BY Zenon, <1>3, <3>1 DEF ConnStep, ServeConn, PeerReset, Accept, LoopReturns,
         FlushThenRead, Read, ReadEnds, Fault, Handle, HandleFlushes, CloseConn, Going
    <3>3. queue' = queue /\ (pc' = pc \/ pc' = [pc EXCEPT ![c] = "queued"])
      BY ZenonT(40), <3>2 DEF Connect, Write, PeerClose, Closer, Deadline, toPipe
    <3>4. \A d \in Conn : pc'[d] \in Resting
      BY ZenonT(60), <1>0, <2>2, <3>3 DEF StopOrder, Resting, Types
    <3> QED
      BY Zenon, <1>0, <2>1, <3>3, <3>4 DEF StopOrder
  <2>3. CASE ~(lane = "returned" /\ ~broken)
    BY <1>0, <2>1, <2>3 DEF StopOrder
  <2> QED
    BY <2>2, <2>3
<1> QED
  BY Zenon, <1>1, <1>2, <1>3, Kinds

-----------------------------------------------------------------------------
(* The theorems. *)

\* Inv is inductive.
LEMMA InvInductive == Inv /\ [Next]_vars => Inv'
<1> SUFFICES ASSUME Inv, [Next]_vars PROVE Inv'
  OBVIOUS
<1>1. CachedInHands'
  BY Zenon, Moved
<1>2. \A d \in Conn : Flushed(d)' /\ Accounted(d)'
  BY Zenon, FlushedStep, AccountedStep
<1> QED
  BY Zenon, <1>1, <1>2, TypesStep, StopOrderStep DEF Inv, CachedInHands

\* Nothing has been written, and nothing is cached, when the bridge starts.
LEMMA InitInv == Init => Inv
<1> SUFFICES ASSUME Init PROVE Inv
  OBVIOUS
<1>1. Types
  <2>1. draining \in BOOLEAN
    BY ZenonT(60), DeliveryAssumption DEF Init
  <2>2. \A c \in Conn : wrote[c] <= Len(Feed[c])
    BY DeliveryAssumption DEF Init
  <2>3. txs \in Shard
    BY DeliveryAssumption DEF Init, EmptyShard, Shard
  <2>4. <<>> \in Seq(Object) /\ <<>> \in Seq(Tx) /\ <<>> \in Seq(Seq(Tx)) /\ 0 \in Nat
    OBVIOUS
  <2> QED
    BY Zenon, <2>1, <2>2, <2>3, <2>4 DEF Init, Types
<1>2. \A c \in Conn : Flushed(c) /\ Accounted(c)
  BY DEF Init, Flushed, Accounted
<1>3. StopOrder
  BY DEF Init, StopOrder
<1>4. \A t \in Tx : ~Has(txs, t)
  BY DEF Init, EmptyShard, Has
<1> QED
  BY Zenon, <1>1, <1>2, <1>3, <1>4 DEF Inv, CachedInHands

\* The inductive invariant holds in every reachable state.
LEMMA Invariant == Spec => []Inv
BY InitInv, InvInductive, PTL DEF Spec

\* For any connections, feeds and limits: main stops the pipe only after every
\* connection has handed over its run, unless Serve has left on an accept error.
THEOREM NothingIsSentLate == Spec => []NothingSentLate
<1>1. Inv => NothingSentLate
  BY DEF Inv, StopOrder, Flushed, NothingSentLate, Resting
<1> QED
  BY <1>1, Invariant, PTL

\* Unless Serve has left on an accept error, nothing waits once the pipe is done.
LEMMA DoneIsEmpty ==
  ASSUME Inv, pipe = "done", ~broken, NEW t
  PROVE  ~Waiting(t)
<1>1. queue = <<>> /\ \A c \in Conn : run[c] = <<>>
  BY DEF Inv, StopOrder, Flushed
<1>2. Range(<<>>) = {} /\ DOMAIN <<>> = {}
  BY DEF Range
<1> QED
  BY Zenon, <1>1, <1>2 DEF Waiting

\* For any connections, feeds and limits: whatever Admit answers "duplicate" for is with
\* the pipe or on its way there, and the lane may drop the copy.
THEOREM DuplicatesMayBeDropped == Spec => []DuplicateIsInGoodHands
<1>1. Inv => DuplicateIsInGoodHands
  <2> SUFFICES ASSUME Inv, NEW t \in txs.cur \cup txs.prev
               PROVE  taken[t] > 0 \/ (Waiting(t) /\ (pipe # "done" \/ broken))
    BY ZenonT(60) DEF DuplicateIsInGoodHands
  <2>1. t \in Tx /\ Has(txs, t)
    BY DEF Inv, Types, Shard, Has
  <2>2. InHands(t)
    BY Zenon, <2>1 DEF Inv, CachedInHands
  <2> QED
    BY Zenon, <2>2, DoneIsEmpty DEF InHands
<1> QED
  BY <1>1, Invariant, PTL

\* For any connections, feeds and limits: once the pipe is done it has been given every
\* extended-format transaction of every connection that was read to its end.
THEOREM DrainIsLossless == Spec => []Lossless
<1>1. Inv => Lossless
  <2> SUFFICES ASSUME Inv, ~broken, pipe = "done", NEW c \in Conn, ended[c] = "eof",
                      NEW i \in 1..wrote[c], IsEF(Feed[c][i])
               PROVE  taken[Feed[c][i][1]] > 0
    BY Zenon DEF Lossless, LosslessAlways
  <2>1. wire[c] = <<>> /\ held[c] = <<>>
    BY ZenonT(60) DEF Inv, Flushed
  <2>2. Range(wire[c]) = {} /\ Range(held[c]) = {}
    BY SMTT(30), <2>1 DEF Range
  <2>3. ended[c] \in {"no", "eof"}
    OBVIOUS
  <2>4. InHands(Feed[c][i][1])
    BY Zenon, <2>2, <2>3 DEF Inv, Accounted
  <2> QED
    BY Zenon, <2>4, DoneIsEmpty DEF InHands
<1> QED
  BY <1>1, Invariant, PTL

-----------------------------------------------------------------------------
(* How much is held, and how often.                                              *)

\* A run is full only where its flush is next, and only full runs and shorter ones are
\* queued.
Sized ==
  /\ \A c \in Conn : /\ Len(run[c]) <= RunCap
                     /\ pc[c] \in {"loop", "next", "read"} => Len(run[c]) < RunCap
  /\ Len(queue) <= QueueRuns
  /\ \A i \in DOMAIN queue : Len(queue[i]) <= RunCap

\* The byte counts of the cache.
Counted(s) ==
  s.curBytes = Bytes(s.cur) /\ s.prevBytes = Bytes(s.prev)

\* A transaction is in one place, and while it is anywhere the cache knows it.
Lone(t) ==
  /\ taken[t] <= 1
  /\ \A p, q \in Spots(run, t) : p = q
  /\ \A p, q \in Spots(queue, t) : p = q
  /\ Spots(run, t) = {} \/ Spots(queue, t) = {}
  /\ taken[t] > 0 => Spots(run, t) = {} /\ Spots(queue, t) = {}
  /\ ~Has(txs, t) => taken[t] = 0 /\ Spots(run, t) = {} /\ Spots(queue, t) = {}

\* The second inductive invariant: with the cache enabled, that of a transaction no
\* rotation has dropped.
OnceInv ==
  /\ closing \in [Conn -> BOOLEAN] /\ expired \in [Conn -> BOOLEAN]
  /\ forgotten \subseteq Tx
  /\ Sized
  /\ Counted(txs)
  /\ ~txs.nil => \A t \in Tx \ forgotten : Lone(t)

\* What is found at a place of a transaction in a family of runs.
LEMMA SpotIs ==
  ASSUME NEW q, NEW t, NEW p \in Spots(q, t)
  PROVE  /\ p[1] \in DOMAIN q /\ p[2] \in 1..RunCap /\ p = <<p[1], p[2]>>
         /\ p[2] \in DOMAIN q[p[1]] /\ q[p[1]][p[2]] = t
BY SMTT(30) DEF Spots

\* Where a transaction is found it has a place.
LEMMA SpotAt ==
  ASSUME NEW q, NEW t, NEW k \in DOMAIN q, NEW i \in 1..RunCap, i \in DOMAIN q[k], q[k][i] = t
  PROVE  <<k, i>> \in Spots(q, t)
BY SMTT(30) DEF Spots

\* The bytes of one transaction more.
LEMMA BytesAdd ==
  ASSUME NEW ts \in SUBSET Tx, NEW t \in Tx \ ts
  PROVE  Bytes(ts) \in Nat /\ Bytes(ts \cup {t}) = Bytes(ts) + TxBytes[t]
<1> DEFINE Unit(u) == {u} \X (1..TxBytes[u])
           All(us) == UNION {Unit(u) : u \in us}
<1>1. ASSUME NEW u \in Tx
      PROVE  IsFiniteSet(Unit(u)) /\ Cardinality(Unit(u)) = TxBytes[u]
  <2>1. TxBytes[u] \in Nat
    BY TxCacheAssumption
  <2>2. IsFiniteSet(1..TxBytes[u]) /\ Cardinality(1..TxBytes[u]) = TxBytes[u]
    <3> DEFINE n == TxBytes[u]
    <3>1. n \in Int /\ 1 \in Int /\ (1 > n => n = 0) /\ n - 1 + 1 = n
      BY SMTT(30), <2>1
    <3> HIDE DEF n
    <3>2. IsFiniteSet(1..n) /\ Cardinality(1..n) = IF 1 > n THEN 0 ELSE n - 1 + 1
      BY ZenonT(60), <3>1, FS_Interval
    <3>3. IsFiniteSet(1..n) /\ Cardinality(1..n) = n
      BY ZenonT(60), <3>1, <3>2
    <3> QED
      BY ZenonT(60), <3>3 DEF n
  <2>3. IsFiniteSet({u}) /\ Cardinality({u}) = 1
    BY Zenon, FS_Singleton
  <2>4. IsFiniteSet(Unit(u)) /\ Cardinality(Unit(u)) = 1 * Cardinality(1..TxBytes[u])
    BY Zenon, <2>2, <2>3, FS_Product
  <2> HIDE DEF Unit
  <2> QED
    BY <2>1, <2>2, <2>4
<1>2. IsFiniteSet(All(ts))
  <2> DEFINE T == {Unit(u) : u \in ts}
             f == [u \in ts |-> Unit(u)]
  <2>1. IsFiniteSet(ts)
    BY Zenon, TxCacheAssumption, FS_Subset
  <2>2. f \in Surjection(ts, T)
    BY Zenon DEF Surjection
  <2>3. IsFiniteSet(T)
    BY Zenon, <2>1, <2>2, FS_Surjection
  <2>4. \A S \in T : IsFiniteSet(S)
    BY Zenon, <1>1
  <2> QED
    BY Zenon, <2>3, <2>4, FS_UNION
<1>3. All(ts \cup {t}) = All(ts) \cup Unit(t)
  <2>1. ASSUME NEW x \in All(ts \cup {t}) PROVE x \in All(ts) \cup Unit(t)
    BY Zenon, <2>1
  <2>2. ASSUME NEW x \in All(ts) \cup Unit(t) PROVE x \in All(ts \cup {t})
    BY Zenon, <2>2
  <2> QED
    BY Zenon, <2>1, <2>2
<1>4. All(ts) \cap Unit(t) = {}
  <2> SUFFICES ASSUME NEW x \in All(ts), x \in Unit(t) PROVE FALSE
    BY Zenon
  <2>1. PICK u \in ts : x \in Unit(u)
    BY Zenon
  <2>2. x[1] = u /\ x[1] = t
    BY <2>1
  <2> QED
    BY <2>2
<1>5. Bytes(ts) = Cardinality(All(ts)) /\ Bytes(ts \cup {t}) = Cardinality(All(ts \cup {t}))
  BY Zenon DEF Bytes
<1>6. IsFiniteSet(Unit(t)) /\ Cardinality(Unit(t)) = TxBytes[t] /\ TxBytes[t] \in Nat
  BY Zenon, <1>1, TxCacheAssumption
<1> HIDE DEF Unit, All
<1>7. Cardinality(All(ts) \cup Unit(t))
        = Cardinality(All(ts)) + Cardinality(Unit(t)) - Cardinality(All(ts) \cap Unit(t))
  BY Zenon, <1>2, <1>6, FS_Union
<1>8. Cardinality(All(ts)) \in Nat
  BY Zenon, <1>2, FS_CardinalityType
<1>9. Cardinality(All(ts) \cap Unit(t)) = 0
  BY Zenon, <1>4, FS_EmptySet
<1>10. Bytes(ts \cup {t}) = Bytes(ts) + TxBytes[t] - 0
  BY Zenon, <1>3, <1>5, <1>6, <1>7, <1>9
<1>11. Bytes(ts) \in Nat
  BY Zenon, <1>5, <1>8
<1> QED
  BY <1>6, <1>10, <1>11

\* An empty generation counts no bytes.
LEMMA BytesNone == Bytes({}) = 0
<1>1. UNION {{t} \X (1..TxBytes[t]) : t \in {}} = {}
  BY Zenon
<1> QED
  BY Zenon, <1>1, FS_EmptySet DEF Bytes

\* A rotation moves the count with the generation, and an admission adds what it stores.
LEMMA AdmitCounts ==
  ASSUME NEW s \in Shard, Counted(s), NEW t \in Tx, NEW due \in BOOLEAN
  PROVE  Counted(Admit(s, t, due))
<1> DEFINE a == Aged(s, due)
<1>1. a \in Shard /\ Counted(a)
  <2>2. CASE due \/ s.curBytes >= MaxBytes
    <3>1. a = [nil |-> s.nil, cur |-> {}, prev |-> s.cur, curBytes |-> 0,
               prevBytes |-> s.curBytes]
      BY ZenonT(60), <2>2 DEF Aged, RotateLocked
    <3>2. a \in Shard
      BY <3>1 DEF Shard
    <3>4. a.curBytes = Bytes(a.cur)
      BY <3>1, BytesNone
    <3>5. a.prevBytes = Bytes(a.prev)
      BY <3>1 DEF Counted
    <3> QED
      BY Zenon, <3>2, <3>4, <3>5 DEF Counted
  <2>3. CASE ~(due \/ s.curBytes >= MaxBytes)
    <3>1. a = s
      BY Zenon, <2>3 DEF Aged
    <3> QED
      BY Zenon, <3>1
  <2> QED
    BY Zenon, <2>2, <2>3
<1> HIDE DEF a
<1>2. CASE ~s.nil /\ Fresh(s, t, due)
  <2>1. Admit(s, t, due) = [a EXCEPT !.cur = a.cur \cup {t}, !.curBytes = a.curBytes + TxBytes[t]]
    BY ZenonT(60), <1>2 DEF Admit, a
  <2>2. t \notin a.cur /\ a.cur \in SUBSET Tx
    BY <1>1, <1>2 DEF Fresh, Has, a, Shard
  <2>3. a.curBytes + TxBytes[t] = Bytes(a.cur \cup {t})
    BY Zenon, <1>1, <2>2, BytesAdd DEF Counted
  <2>5. Admit(s, t, due) = [nil |-> a.nil, cur |-> a.cur \cup {t}, prev |-> a.prev,
                            curBytes |-> a.curBytes + TxBytes[t], prevBytes |-> a.prevBytes]
    BY Zenon, <1>1, <2>1 DEF Shard
  <2> QED
    BY <1>1, <2>3, <2>5 DEF Counted
<1>3. CASE ~s.nil /\ ~Fresh(s, t, due)
  BY <1>1, <1>3 DEF Admit, a
<1>4. CASE s.nil
  BY Zenon, <1>4 DEF Admit
<1> QED
  BY ZenonT(60), <1>2, <1>3, <1>4

-----------------------------------------------------------------------------
(* Once. *)

\* A set of which any two elements are equal has at most one.
LEMMA AtMostOne ==
  ASSUME NEW S, \A x, y \in S : x = y
  PROVE  Cardinality(S) \in {0, 1} /\ (S = {} => Cardinality(S) = 0)
<1>1. CASE S = {}
  BY Zenon, <1>1, FS_EmptySet
<1>2. CASE S # {}
  <2>1. PICK x \in S : TRUE
    BY Zenon, <1>2
  <2>2. S = {x}
    BY Zenon, <2>1
  <2> QED
    BY Zenon, <1>2, <2>2, FS_Singleton
<1> QED
  BY Zenon, <1>1, <1>2

\* Batch.Flush takes a run's places from the session to the end of the queue.
LEMMA FlushSpots ==
  ASSUME Types, NEW c \in Conn, run[c] # <<>>,
         queue' = Append(queue, run[c]), run' = [run EXCEPT ![c] = <<>>], NEW t
  PROVE  /\ \A p \in Spots(run', t) : p \in Spots(run, t) /\ p[1] # c
         /\ \A p \in Spots(queue', t) :
              \/ p \in Spots(queue, t)
              \/ p[1] = Len(queue) + 1 /\ <<c, p[2]>> \in Spots(run, t)
<1>1. /\ run \in [Conn -> Seq(Tx)] /\ run[c] \in Seq(Tx)
      /\ queue \in Seq(Seq(Tx)) /\ Len(queue) \in Nat
  BY DEF Types
<1>2. /\ DOMAIN run' = Conn /\ DOMAIN run = Conn
      /\ run'[c] = <<>> /\ \A d \in Conn \ {c} : run'[d] = run[d]
  BY ZenonT(60), <1>1
<1>3. /\ DOMAIN queue' = 1..(Len(queue) + 1) /\ DOMAIN queue = 1..Len(queue)
      /\ \A i \in 1..Len(queue) : queue'[i] = queue[i]
      /\ queue'[Len(queue) + 1] = run[c]
  BY <1>1
<1>4. ASSUME NEW p \in Spots(run', t) PROVE p \in Spots(run, t) /\ p[1] # c
  <2>0. /\ p[1] \in DOMAIN run' /\ p[2] \in 1..RunCap /\ p = <<p[1], p[2]>>
        /\ p[2] \in DOMAIN run'[p[1]] /\ run'[p[1]][p[2]] = t
    BY Zenon, SpotIs
  <2>1. /\ p[1] \in Conn /\ p[2] \in 1..RunCap /\ p = <<p[1], p[2]>>
        /\ p[2] \in DOMAIN run'[p[1]] /\ run'[p[1]][p[2]] = t
    BY Zenon, <1>2, <2>0
  <2>2. p[1] # c
    <3>1. DOMAIN <<>> = {}
      OBVIOUS
    <3> QED
      BY Zenon, <1>2, <2>1, <3>1
  <2>3. run'[p[1]] = run[p[1]]
    BY Zenon, <1>2, <2>1, <2>2
  <2>4. <<p[1], p[2]>> \in Spots(run, t)
    BY Zenon, <1>2, <2>1, <2>3, SpotAt
  <2> QED
    BY Zenon, <2>1, <2>2, <2>4
<1>5. ASSUME NEW p \in Spots(queue', t)
      PROVE  \/ p \in Spots(queue, t)
             \/ p[1] = Len(queue) + 1 /\ <<c, p[2]>> \in Spots(run, t)
  <2>1. /\ p[1] \in DOMAIN queue' /\ p[2] \in 1..RunCap /\ p = <<p[1], p[2]>>
        /\ p[2] \in DOMAIN queue'[p[1]] /\ queue'[p[1]][p[2]] = t
    BY Zenon, SpotIs
  <2>2. CASE p[1] = Len(queue) + 1
    <3>1. <<c, p[2]>> \in Spots(run, t)
      BY Zenon, <1>2, <1>3, <2>1, <2>2, SpotAt
    <3> QED
      BY Zenon, <2>2, <3>1
  <2>3. CASE p[1] # Len(queue) + 1
    <3>1. p[1] \in 1..Len(queue)
      BY <1>1, <1>3, <2>1, <2>3
    <3>2. <<p[1], p[2]>> \in Spots(queue, t)
      BY Zenon, <1>3, <2>1, <3>1, SpotAt
    <3> QED
      BY Zenon, <2>1, <3>2
  <2> QED
    BY Zenon, <2>2, <2>3
<1> QED
  BY Zenon, <1>4, <1>5

\* A flush takes no transaction to a second place.
LEMMA FlushLone ==
  ASSUME Types, NEW c \in Conn, Flush(c), UNCHANGED <<taken, txs>>, NEW t \in Tx, Lone(t)
  PROVE  Lone(t)'
<1>1. CASE run[c] = <<>>
  <2>1. UNCHANGED <<run, queue>>
    BY <1>1 DEF Flush
  <2> QED
    BY Zenon, <2>1 DEF Lone
<1>2. CASE run[c] # <<>>
  <2>1. queue' = Append(queue, run[c]) /\ run' = [run EXCEPT ![c] = <<>>]
    BY <1>2 DEF Flush
  <2> DEFINE R == Spots(run, t)
             Q == Spots(queue, t)
             Rn == Spots(run', t)
             Qn == Spots(queue', t)
             n == Len(queue) + 1
  <2>2. /\ \A p \in Rn : p \in R /\ p[1] # c
        /\ \A p \in Qn : p \in Q \/ (p[1] = n /\ <<c, p[2]>> \in R)
    BY Zenon, <1>2, <2>1, FlushSpots
  <2>3. \A p \in Qn : p = <<p[1], p[2]>>
    BY Zenon, SpotIs
  <2>4. /\ taken'[t] <= 1 /\ taken'[t] = taken[t]
        /\ \A p, q \in R : p = q
        /\ \A p, q \in Q : p = q
        /\ R = {} \/ Q = {}
        /\ taken[t] > 0 => R = {} /\ Q = {}
        /\ ~Has(txs', t) => taken[t] = 0 /\ R = {} /\ Q = {}
    BY Zenon DEF Lone
  <2> HIDE DEF R, Q, Rn, Qn, n
  <2>5. \A p, q \in Rn : p = q
    BY Zenon, <2>2, <2>4
  <2>6. ASSUME NEW p \in Qn, NEW q \in Qn PROVE p = q
    <3>1. CASE p \in Q /\ q \in Q
      BY Zenon, <2>4, <3>1
    <3>2. CASE ~(p \in Q /\ q \in Q)
      <4>1. Q = {}
        BY Zenon, <2>2, <2>4, <3>2
      <4>2. p[1] = n /\ <<c, p[2]>> \in R /\ q[1] = n /\ <<c, q[2]>> \in R
        BY Zenon, <2>2, <4>1
      <4>3. <<c, p[2]>> = <<c, q[2]>>
        BY Zenon, <2>4, <4>2
      <4>4. p[2] = q[2]
        BY <4>3
      <4> QED
        BY Zenon, <2>3, <4>2, <4>4
    <3> QED
      BY Zenon, <3>1, <3>2
  <2>7. Rn = {} \/ Qn = {}
    <3> SUFFICES ASSUME NEW p \in Rn, NEW q \in Qn PROVE FALSE
      BY Zenon
    <3>1. p \in R /\ p[1] # c
      BY Zenon, <2>2
    <3>2. <<c, q[2]>> \in R
      BY Zenon, <2>2, <2>4, <3>1
    <3>3. p = <<c, q[2]>>
      BY Zenon, <2>4, <3>1, <3>2
    <3> QED
      BY <3>1, <3>3
  <2>8. R = {} /\ Q = {} => Rn = {} /\ Qn = {}
    BY Zenon, <2>2
  <2> QED
    BY Zenon, <2>4, <2>5, <2>6, <2>7, <2>8 DEF Lone, Rn, Qn
<1> QED
  BY Zenon, <1>1, <1>2

\* The run the pipe takes leaves the queue with all its places.
LEMMA TakeLone ==
  ASSUME Types, Sized, Take, NEW t \in Tx, Lone(t)
  PROVE  Lone(t)'
<1> DEFINE h == Head(queue)
           O == {i \in DOMAIN h : h[i] = t}
           Q == Spots(queue, t)
           Qn == Spots(queue', t)
<1>1. /\ queue # <<>> /\ queue' = Tail(queue) /\ UNCHANGED <<run, txs>>
      /\ taken' = [u \in Tx |-> taken[u] + Occurrences(h, u)]
  BY ZenonT(60) DEF Take, cache
<1>2. /\ queue \in Seq(Seq(Tx)) /\ Len(queue) \in Nat \ {0}
      /\ DOMAIN queue = 1..Len(queue) /\ 1 \in DOMAIN queue
      /\ h = queue[1] /\ h \in Seq(Tx) /\ DOMAIN h = 1..Len(h) /\ Len(h) \in Nat
      /\ DOMAIN queue' = 1..(Len(queue) - 1)
      /\ \A i \in 1..(Len(queue) - 1) : queue'[i] = queue[i + 1] /\ i + 1 \in DOMAIN queue
  BY <1>1 DEF Types
<1>3. taken[t] \in Nat /\ taken'[t] = taken[t] + Cardinality(O)
  BY <1>1 DEF Types, Occurrences
<1>4. /\ taken[t] <= 1
      /\ \A p, q \in Q : p = q
      /\ Spots(run', t) = {} \/ Q = {}
      /\ taken[t] > 0 => Spots(run', t) = {} /\ Q = {}
      /\ ~Has(txs', t) => taken[t] = 0 /\ Spots(run', t) = {} /\ Q = {}
      /\ \A p, q \in Spots(run', t) : p = q
  BY Zenon, <1>1 DEF Lone
<1>5. ASSUME NEW i \in O PROVE <<1, i>> \in Q
  <2>1. Len(h) <= RunCap /\ RunCap \in Nat
    BY Zenon, <1>2, DeliveryAssumption DEF Sized
  <2>2. i \in 1..RunCap /\ i \in DOMAIN h /\ h[i] = t
    BY <1>2, <2>1
  <2> QED
    BY Zenon, <1>2, <2>2, SpotAt
<1>6. ASSUME NEW p \in Qn
      PROVE  /\ <<p[1] + 1, p[2]>> \in Q /\ p = <<p[1], p[2]>>
             /\ p[1] \in 1..(Len(queue) - 1)
  <2>1. /\ p[1] \in DOMAIN queue' /\ p[2] \in 1..RunCap /\ p = <<p[1], p[2]>>
        /\ p[2] \in DOMAIN queue'[p[1]] /\ queue'[p[1]][p[2]] = t
    BY Zenon, SpotIs
  <2>2. /\ p[1] \in 1..(Len(queue) - 1)
        /\ queue'[p[1]] = queue[p[1] + 1] /\ p[1] + 1 \in DOMAIN queue
    BY Zenon, <1>2, <2>1
  <2>3. p[2] \in DOMAIN queue[p[1] + 1] /\ queue[p[1] + 1][p[2]] = t
    BY Zenon, <2>1, <2>2
  <2>4. <<p[1] + 1, p[2]>> \in Q
    BY Zenon, <2>1, <2>2, <2>3, SpotAt
  <2> QED
    BY Zenon, <2>1, <2>2, <2>4
<1> HIDE DEF h, O, Q, Qn
<1>7. \A p, q \in Qn : p = q
  <2> SUFFICES ASSUME NEW p \in Qn, NEW q \in Qn PROVE p = q
    BY Zenon
  <2>1. <<p[1] + 1, p[2]>> = <<q[1] + 1, q[2]>>
    BY Zenon, <1>4, <1>6
  <2>0. p[1] \in 1..(Len(queue) - 1) /\ q[1] \in 1..(Len(queue) - 1)
    BY Zenon, <1>6
  <2>2. p[1] \in Int /\ q[1] \in Int
    BY <1>2, <2>0
  <2>3. p[1] = q[1] /\ p[2] = q[2]
    BY <2>1, <2>2
  <2> QED
    BY Zenon, <1>6, <2>3
<1>8. Q = {} => Qn = {}
  BY Zenon, <1>6
<1>9. CASE O = {}
  <2>1. taken'[t] = taken[t]
    BY <1>3, <1>9, AtMostOne
  <2> QED
    BY Zenon, <1>4, <1>7, <1>8, <2>1 DEF Lone, Qn
<1>10. CASE O # {}
  <2>1. PICK i \in O : TRUE
    BY Zenon, <1>10
  <2>2. <<1, i>> \in Q
    BY Zenon, <1>5, <2>1
  <2>3. taken[t] = 0
    BY <1>3, <1>4, <2>2
  <2>4. Spots(run', t) = {} /\ Has(txs', t)
    BY Zenon, <1>4, <2>2
  <2>5. Qn = {}
    <3> SUFFICES ASSUME NEW p \in Qn PROVE FALSE
      BY Zenon
    <3>1. <<p[1] + 1, p[2]>> = <<1, i>>
      BY Zenon, <1>4, <1>6, <2>2
    <3>2. p[1] + 1 = 1
      BY <3>1
    <3>3. p[1] \in 1..(Len(queue) - 1)
      BY Zenon, <1>6
    <3> QED
      BY <1>2, <3>2, <3>3
  <2>6. ASSUME NEW x \in O, NEW y \in O PROVE x = y
    <3>1. <<1, x>> = <<1, y>>
      BY Zenon, <1>4, <1>5
    <3> QED
      BY <3>1
  <2>7. Cardinality(O) \in {0, 1}
    BY Zenon, <2>6, AtMostOne
  <2>8. taken'[t] <= 1
    BY <1>3, <2>3, <2>7
  <2> QED
    BY Zenon, <2>4, <2>5, <2>8 DEF Lone, Qn
<1> QED
  BY Zenon, <1>9, <1>10

\* What Admit leaves in the cache: what a rotation has not dropped, and the transaction.
LEMMA AdmitHas ==
  ASSUME NEW s \in Shard, ~s.nil, NEW t \in Tx, NEW due \in BOOLEAN, NEW u \in Tx
  PROVE  /\ Has(Admit(s, t, due), u) <=> Has(Aged(s, due), u) \/ u = t
         /\ Has(Aged(s, due), u) => Has(s, u)
<1> DEFINE a == Aged(s, due)
<1>1. a \in Shard /\ (Has(a, u) => Has(s, u))
  BY ZenonT(60) DEF Aged, RotateLocked, Shard, Has
<1> HIDE DEF a
<1>2. CASE Fresh(s, t, due)
  <2>1. Admit(s, t, due) = [a EXCEPT !.cur = a.cur \cup {t}, !.curBytes = a.curBytes + TxBytes[t]]
    BY <1>2 DEF Admit, a
  <2>2. Admit(s, t, due).cur = a.cur \cup {t} /\ Admit(s, t, due).prev = a.prev
    BY Zenon, <1>1, <2>1 DEF Shard
  <2> QED
    BY <1>1, <2>2 DEF Has, a
<1>3. CASE ~Fresh(s, t, due)
  BY <1>1, <1>3 DEF Admit, a, Fresh
<1> QED
  BY ZenonT(60), <1>2, <1>3

\* A fresh transaction has been nowhere since the cache last forgot it, and the one place
\* it gets is the end of the run.
LEMMA AdmitLone ==
  ASSUME Types, NEW c \in Conn, NEW t \in Tx, AdmitTx(c, t, TRUE), UNCHANGED <<queue, taken>>,
         ~txs.nil, NEW u \in Tx \ forgotten', u \notin forgotten => Lone(u)
  PROVE  Lone(u)'
<1>1. PICK due \in BOOLEAN :
        /\ txs' = Admit(txs, t, due)
        /\ forgotten' = forgotten \cup {v \in Tx : Has(txs, v) /\ ~Has(Aged(txs, due), v)}
        /\ run' = IF Fresh(txs, t, due) THEN [run EXCEPT ![c] = Append(@, t)] ELSE run
  BY DEF AdmitTx
<1>2. /\ Has(txs', u) <=> Has(Aged(txs, due), u) \/ u = t
      /\ Has(Aged(txs, due), u) => Has(txs, u)
  BY Zenon, <1>1, AdmitHas DEF Types
<1>3. Lone(u) /\ (Has(txs, u) => Has(Aged(txs, due), u))
  BY Zenon, <1>1
<1>4. /\ taken'[u] <= 1 /\ taken'[u] = taken[u]
      /\ \A p, q \in Spots(run, u) : p = q
      /\ \A p, q \in Spots(queue', u) : p = q
      /\ Spots(run, u) = {} \/ Spots(queue', u) = {}
      /\ taken[u] > 0 => Spots(run, u) = {} /\ Spots(queue', u) = {}
      /\ ~Has(txs, u) => taken[u] = 0 /\ Spots(run, u) = {} /\ Spots(queue', u) = {}
  BY Zenon, <1>3 DEF Lone
<1>5. CASE ~Fresh(txs, t, due)
  <2>1. run' = run
    BY Zenon, <1>1, <1>5
  <2> QED
    BY Zenon, <1>2, <1>3, <1>4, <2>1 DEF Lone
<1>6. CASE Fresh(txs, t, due)
  <2> DEFINE n == Len(run[c]) + 1
  <2>1. /\ run \in [Conn -> Seq(Tx)] /\ run[c] \in Seq(Tx)
        /\ run' = [run EXCEPT ![c] = Append(run[c], t)]
    BY ZenonT(60), <1>1, <1>6 DEF Types
  <2>2. /\ DOMAIN run' = Conn /\ DOMAIN run = Conn
        /\ \A d \in Conn \ {c} : run'[d] = run[d]
        /\ DOMAIN run'[c] = DOMAIN run[c] \cup {n}
        /\ \A i \in DOMAIN run[c] : run'[c][i] = run[c][i]
        /\ run'[c][n] = t
    BY <2>1
  <2> HIDE DEF n
  <2>3. ASSUME NEW p \in Spots(run', u)
        PROVE  p \in Spots(run, u) \/ (u = t /\ p = <<c, n>>)
    <3>1. /\ p[1] \in DOMAIN run' /\ p[2] \in 1..RunCap /\ p = <<p[1], p[2]>>
          /\ p[2] \in DOMAIN run'[p[1]] /\ run'[p[1]][p[2]] = u
      BY Zenon, SpotIs
    <3>2. CASE p[1] # c
      <4>1. p[1] \in DOMAIN run /\ run'[p[1]] = run[p[1]]
        BY Zenon, <2>2, <3>1, <3>2
      <4>2. <<p[1], p[2]>> \in Spots(run, u)
        BY Zenon, <3>1, <4>1, SpotAt
      <4> QED
        BY Zenon, <3>1, <4>2
    <3>3. CASE p[1] = c /\ p[2] # n
      <4>1. p[2] \in DOMAIN run[c] /\ run[c][p[2]] = u /\ c \in DOMAIN run
        BY Zenon, <2>2, <3>1, <3>3
      <4>2. <<c, p[2]>> \in Spots(run, u)
        BY Zenon, <3>1, <4>1, SpotAt
      <4> QED
        BY Zenon, <3>1, <3>3, <4>2
    <3>4. CASE p[1] = c /\ p[2] = n
      BY Zenon, <2>2, <3>1, <3>4
    <3> QED
      BY Zenon, <3>2, <3>3, <3>4
  <2>4. CASE u # t
    <3>1. \A p \in Spots(run', u) : p \in Spots(run, u)
      BY Zenon, <2>3, <2>4
    <3>2. /\ \A p, q \in Spots(run', u) : p = q
          /\ Spots(run, u) = {} => Spots(run', u) = {}
      BY Zenon, <1>4, <3>1
    <3> QED
      BY Zenon, <1>2, <1>3, <1>4, <3>2 DEF Lone
  <2>5. CASE u = t
    <3>1. ~Has(txs, u) /\ Has(txs', u)
      BY Zenon, <1>2, <1>3, <1>6, <2>5 DEF Fresh
    <3>2. taken'[u] = 0 /\ Spots(run, u) = {} /\ Spots(queue', u) = {}
      BY Zenon, <1>4, <3>1
    <3>3. \A p \in Spots(run', u) : p = <<c, n>>
      BY Zenon, <2>3, <3>2
    <3>4. \A p, q \in Spots(run', u) : p = q
      BY Zenon, <3>3
    <3>5. taken'[u] <= 1 /\ ~(taken'[u] > 0)
      BY <3>2
    <3>6. \A p, q \in Spots(queue', u) : p = q
      BY Zenon, <3>2
    <3> QED
      BY Zenon, <3>1, <3>2, <3>4, <3>5, <3>6 DEF Lone
  <2> QED
    BY Zenon, <2>4, <2>5
<1> QED
  BY Zenon, <1>5, <1>6

\* An admission leaves the cache nil or not, as it was.
LEMMA AdmitNil ==
  ASSUME NEW s \in Shard, NEW t \in Tx, NEW due \in BOOLEAN
  PROVE  Admit(s, t, due).nil = s.nil
<1> DEFINE a == Aged(s, due)
<1>1. a \in Shard /\ a.nil = s.nil
  BY ZenonT(60) DEF Aged, RotateLocked, Shard
<1> HIDE DEF a
<1>2. [a EXCEPT !.cur = a.cur \cup {t}, !.curBytes = a.curBytes + TxBytes[t]].nil = a.nil
  BY Zenon, <1>1 DEF Shard
<1> QED
  BY Zenon, <1>1, <1>2 DEF Admit, a

\* The cache is nil for the life of the process or never.
LEMMA NilFixed ==
  ASSUME Types, [Next]_vars
  PROVE  txs'.nil = txs.nil
<1>0. txs \in Shard
  BY Zenon DEF Types
<1>1. CASE LaneStep \/ StopPipe \/ Take
  BY Zenon, <1>1 DEF LaneStep, Cancel, CloseListener, AcceptFails, ServeReturns, Exit, vars,
     StopPipe, Take, cache
<1>2. ASSUME NEW c \in Conn, ConnStep(c) PROVE txs'.nil = txs.nil
  <2>1. CASE Handle(c) /\ IsEF(Head(held[c]))
    <3>1. held[c] # <<>> /\ held[c] \in Seq(Object)
      BY ZenonT(60), <2>1 DEF Handle, Types
    <3>2. Head(held[c]) \in Object
      BY <3>1
    <3>3. PICK t \in Tx : AdmitTx(c, t, TRUE)
      BY Zenon, <2>1, <3>2, Carries DEF Handle
    <3>4. PICK due \in BOOLEAN : txs' = Admit(txs, t, due)
      BY Zenon, <3>3 DEF AdmitTx
    <3>5. Admit(txs, t, due).nil = txs.nil
      BY Zenon, <1>0, AdmitNil
    <3> QED
      BY Zenon, <3>4, <3>5
  <2>2. CASE ~(Handle(c) /\ IsEF(Head(held[c])))
    BY Zenon, <1>2, <2>2 DEF ConnStep, ServeConn, Connect, Write, PeerClose, PeerReset, Accept,
       Closer, Deadline, LoopReturns, Read, ReadEnds, Fault, FlushThenRead, HandleFlushes,
       CloseConn, Handle, cache
  <2> QED
    BY Zenon, <2>1, <2>2
<1> QED
  BY Zenon, <1>1, <1>2, Kinds

\* Every step keeps a transaction in one place.
LEMMA LoneStep ==
  ASSUME Inv, OnceInv, [Next]_vars, ~txs'.nil, NEW u \in Tx \ forgotten'
  PROVE  Lone(u)'
<1>0. Types /\ Sized /\ ~txs.nil /\ (u \notin forgotten => Lone(u))
  BY Zenon, NilFixed DEF Inv, OnceInv
<1>1. ASSUME UNCHANGED <<run, queue, taken, txs, forgotten>> PROVE Lone(u)'
  BY Zenon, <1>0, <1>1 DEF Lone
<1>2. CASE LaneStep \/ StopPipe
  <2>1. UNCHANGED <<run, queue, taken, txs, forgotten>>
    BY Zenon, <1>2 DEF LaneStep, Cancel, CloseListener, AcceptFails, ServeReturns, Exit, vars,
       StopPipe, cache, toPipe
  <2> QED
    BY Zenon, <1>1, <2>1
<1>3. CASE Take
  <2>1. forgotten' = forgotten
    BY Zenon, <1>3 DEF Take, cache
  <2> QED
    BY Zenon, <1>0, <1>3, <2>1, TakeLone
<1>4. ASSUME NEW c \in Conn, ConnStep(c) PROVE Lone(u)'
  <2>1. CASE FlushThenRead(c) \/ HandleFlushes(c) \/ CloseConn(c)
    <3>1. Flush(c) /\ UNCHANGED <<taken, txs, forgotten>>
      BY Zenon, <2>1 DEF FlushThenRead, HandleFlushes, CloseConn, cache
    <3> QED
      BY Zenon, <1>0, <3>1, FlushLone
  <2>2. CASE Handle(c)
    <3>1. UNCHANGED <<queue, taken>> /\ held[c] # <<>> /\ held[c] \in Seq(Object)
      BY ZenonT(60), <1>0, <2>2 DEF Handle, toPipe, Types
    <3>2. Head(held[c]) \in Object
      BY <3>1
    <3>3. CASE IsEF(Head(held[c]))
      <4>1. PICK t \in Tx : AdmitTx(c, t, TRUE)
        BY Zenon, <2>2, <3>2, <3>3, Carries DEF Handle
      <4> QED
        BY Zenon, <1>0, <3>1, <4>1, AdmitLone
    <3>4. CASE ~IsEF(Head(held[c]))
      <4>1. UNCHANGED <<txs, forgotten, run>>
        BY Zenon, <2>2, <3>4 DEF Handle, cache
      <4> QED
        BY Zenon, <1>1, <3>1, <4>1
    <3> QED
      BY Zenon, <3>3, <3>4
  <2>3. CASE ~(FlushThenRead(c) \/ HandleFlushes(c) \/ CloseConn(c) \/ Handle(c))
    <3>1. UNCHANGED <<run, queue, taken, txs, forgotten>>
      BY Zenon, <1>4, <2>3 DEF ConnStep, ServeConn, Connect, Write, PeerClose, PeerReset, Accept,
         Closer, Deadline, LoopReturns, Read, ReadEnds, Fault, cache, toPipe
    <3> QED
      BY Zenon, <1>1, <3>1
  <2> QED
    BY Zenon, <2>1, <2>2, <2>3
<1> QED
  BY Zenon, <1>2, <1>3, <1>4, Kinds

\* The cache is changed by an admission only.
LEMMA CountedStep ==
  ASSUME Inv, OnceInv, [Next]_vars
  PROVE  Counted(txs') /\ forgotten' \subseteq Tx
<1>0. txs \in Shard /\ Counted(txs) /\ forgotten \subseteq Tx
  BY Zenon DEF Inv, Types, OnceInv
<1>1. ASSUME UNCHANGED <<txs, forgotten>> PROVE Counted(txs') /\ forgotten' \subseteq Tx
  BY Zenon, <1>0, <1>1
<1>2. CASE LaneStep \/ StopPipe \/ Take
  <2>1. UNCHANGED <<txs, forgotten>>
    BY Zenon, <1>2 DEF LaneStep, Cancel, CloseListener, AcceptFails, ServeReturns, Exit, vars,
       StopPipe, Take, cache
  <2> QED
    BY Zenon, <1>1, <2>1
<1>3. ASSUME NEW c \in Conn, ConnStep(c) PROVE Counted(txs') /\ forgotten' \subseteq Tx
  <2>1. CASE Handle(c) /\ IsEF(Head(held[c]))
    <3>1. held[c] # <<>> /\ held[c] \in Seq(Object)
      BY ZenonT(60), <2>1 DEF Handle, Inv, Types
    <3>2. Head(held[c]) \in Object
      BY <3>1
    <3>3. PICK t \in Tx : AdmitTx(c, t, TRUE)
      BY Zenon, <2>1, <3>2, Carries DEF Handle
    <3>4. PICK due \in BOOLEAN :
            /\ txs' = Admit(txs, t, due)
            /\ forgotten' = forgotten \cup {v \in Tx : Has(txs, v) /\ ~Has(Aged(txs, due), v)}
      BY Zenon, <3>3 DEF AdmitTx
    <3>5. Counted(txs')
      BY Zenon, <1>0, <3>4, AdmitCounts
    <3> QED
      BY Zenon, <1>0, <3>4, <3>5
  <2>2. CASE ~(Handle(c) /\ IsEF(Head(held[c])))
    <3>1. UNCHANGED <<txs, forgotten>>
      BY Zenon, <1>3, <2>2 DEF ConnStep, ServeConn, Connect, Write, PeerClose, PeerReset, Accept,
         Closer, Deadline, LoopReturns, Read, ReadEnds, Fault, FlushThenRead, HandleFlushes,
         CloseConn, Handle, cache
    <3> QED
      BY Zenon, <1>1, <3>1
  <2> QED
    BY Zenon, <2>1, <2>2
<1> QED
  BY Zenon, <1>2, <1>3, Kinds

\* A step of one connection leaves the size of a run right: one transaction is added
\* where there is room, and a full run is flushed before another.
LEMMA RunSized ==
  ASSUME Inv, OnceInv, NEW c \in Conn, ConnStep(c)
  PROVE  /\ Len(run'[c]) <= RunCap
         /\ pc'[c] \in {"loop", "next", "read"} => Len(run'[c]) < RunCap
<1>0. /\ pc \in [Conn -> {"none", "queued", "loop", "next", "read", "full", "end", "closed"}]
      /\ run \in [Conn -> Seq(Tx)] /\ run[c] \in Seq(Tx) /\ Len(run[c]) \in Nat
      /\ RunCap \in Nat \ {0}
      /\ Len(run[c]) <= RunCap
      /\ pc[c] \in {"loop", "next", "read"} => Len(run[c]) < RunCap
      /\ pc[c] \in {"none", "queued"} => run[c] = <<>>
  <2>1. pc[c] \in {"none", "queued"} => run[c] = <<>>
    BY DEF Inv, Flushed, Resting
  <2>2. Len(run[c]) <= RunCap /\ (pc[c] \in {"loop", "next", "read"} => Len(run[c]) < RunCap)
    BY Zenon DEF OnceInv, Sized
  <2> QED
    BY <2>1, <2>2, DeliveryAssumption DEF Inv, Types
<1>1. CASE FlushThenRead(c) \/ HandleFlushes(c) \/ CloseConn(c)
  <2>1. run'[c] = <<>>
    BY Zenon, <1>1, FlushStep
  <2> QED
    BY <1>0, <2>1
<1>2. CASE Handle(c)
  <2>1. pc[c] \in {"loop", "next"}
    BY ZenonT(60), <1>2 DEF Handle, Going
  <2>2. CASE IsEF(Head(held[c]))
    <3>1. AdmitTx(c, Head(held[c])[1], TRUE)
      BY Zenon, <1>2, <2>2 DEF Handle
    <3>2. PICK due \in BOOLEAN :
            /\ run' = IF Fresh(txs, Head(held[c])[1], due)
                      THEN [run EXCEPT ![c] = Append(@, Head(held[c])[1])] ELSE run
            /\ pc' = [pc EXCEPT ![c] = IF Len(run'[c]) >= RunCap THEN "full" ELSE "loop"]
      BY Zenon, <3>1 DEF AdmitTx
    <3>3. run'[c] = Append(run[c], Head(held[c])[1]) \/ run'[c] = run[c]
      BY ZenonT(60), <1>0, <3>2
    <3>4. Len(run'[c]) \in {Len(run[c]), Len(run[c]) + 1}
      BY <1>0, <3>3
    <3>5. pc'[c] = IF Len(run'[c]) >= RunCap THEN "full" ELSE "loop"
      BY ZenonT(60), <1>0, <3>2
    <3> QED
      BY <1>0, <2>1, <3>4, <3>5
  <2>3. CASE ~IsEF(Head(held[c]))
    <3>1. run' = run
      BY Zenon, <1>2, <2>3 DEF Handle
    <3> QED
      BY ZenonT(60), <1>0, <2>1, <3>1
  <2> QED
    BY Zenon, <2>2, <2>3
<1>3. CASE ~(FlushThenRead(c) \/ HandleFlushes(c) \/ CloseConn(c) \/ Handle(c))
  <2>1. run' = run
    BY Zenon, <1>3 DEF ConnStep, ServeConn, Connect, Write, PeerClose, PeerReset, Accept,
       Closer, Deadline, LoopReturns, Read, ReadEnds, Fault
  <2>2. CASE Accept(c)
    BY <1>0, <2>1, <2>2 DEF Accept
  <2>3. CASE Read(c)
    BY ZenonT(60), <1>0, <2>1, <2>3 DEF Read
  <2>4. CASE ~(Accept(c) \/ Read(c))
    <3>1. pc' = pc \/ pc' = [pc EXCEPT ![c] = "queued"] \/ pc' = [pc EXCEPT ![c] = "end"]
      BY ZenonT(40), <1>3, <2>4 DEF ConnStep, ServeConn, Connect, Write, PeerClose, PeerReset,
         Closer, Deadline, LoopReturns, ReadEnds, Fault
    <3> QED
      BY ZenonT(60), <1>0, <2>1, <3>1
  <2> QED
    BY Zenon, <2>2, <2>3, <2>4
<1> QED
  BY Zenon, <1>1, <1>2, <1>3

\* The queue grows where there is room, by a run that is not too long.
LEMMA QueueSized ==
  ASSUME Inv, OnceInv, [Next]_vars
  PROVE  Len(queue') <= QueueRuns /\ \A i \in DOMAIN queue' : Len(queue'[i]) <= RunCap
<1>0. /\ queue \in Seq(Seq(Tx)) /\ Len(queue) \in Nat /\ DOMAIN queue = 1..Len(queue)
      /\ Len(queue) <= QueueRuns /\ \A i \in DOMAIN queue : Len(queue[i]) <= RunCap
      /\ QueueRuns \in Nat
  <2>1. Len(queue) <= QueueRuns /\ \A i \in DOMAIN queue : Len(queue[i]) <= RunCap
    BY Zenon DEF OnceInv, Sized
  <2> QED
    BY <2>1, DeliveryAssumption DEF Inv, Types
<1>1. CASE queue' = queue
  BY Zenon, <1>0, <1>1
<1>2. CASE Take
  <2>1. queue # <<>> /\ queue' = Tail(queue)
    BY ZenonT(60), <1>2 DEF Take
  <2>2. /\ Len(queue') = Len(queue) - 1 /\ DOMAIN queue' = 1..(Len(queue) - 1)
        /\ \A i \in 1..(Len(queue) - 1) : queue'[i] = queue[i + 1] /\ i + 1 \in DOMAIN queue
    BY <1>0, <2>1
  <2>3. \A i \in DOMAIN queue' : Len(queue'[i]) <= RunCap
    BY Zenon, <1>0, <2>2
  <2> QED
    BY <1>0, <2>2, <2>3
<1>3. ASSUME NEW c \in Conn, ConnStep(c)
      PROVE  Len(queue') <= QueueRuns /\ \A i \in DOMAIN queue' : Len(queue'[i]) <= RunCap
  <2>1. CASE Flush(c) /\ run[c] # <<>>
    <3>1. queue' = Append(queue, run[c]) /\ Len(queue) < QueueRuns
      BY ZenonT(60), <2>1 DEF Flush, Room
    <3>2. run[c] \in Seq(Tx)
      BY ZenonT(60) DEF Inv, Types
    <3>3. /\ Len(queue') = Len(queue) + 1 /\ DOMAIN queue' = 1..(Len(queue) + 1)
          /\ \A i \in 1..Len(queue) : queue'[i] = queue[i]
          /\ queue'[Len(queue) + 1] = run[c]
      BY <1>0, <3>1, <3>2
    <3>4. ASSUME NEW i \in DOMAIN queue' PROVE Len(queue'[i]) <= RunCap
      <4>1. CASE i = Len(queue) + 1
        BY Zenon, <3>3, <4>1 DEF OnceInv, Sized
      <4>2. CASE i # Len(queue) + 1
        <5>1. i \in 1..Len(queue)
          BY <1>0, <3>3, <4>2
        <5> QED
          BY Zenon, <1>0, <3>3, <5>1
      <4> QED
        BY Zenon, <4>1, <4>2
    <3> QED
      BY <1>0, <3>1, <3>3, <3>4
  <2>2. CASE ~(Flush(c) /\ run[c] # <<>>)
    <3>1. queue' = queue
      BY Zenon, <1>3, <2>2 DEF ConnStep, ServeConn, Connect, Write, PeerClose, PeerReset, Accept,
         Closer, Deadline, LoopReturns, Read, ReadEnds, Fault, FlushThenRead, HandleFlushes,
         CloseConn, Handle, Flush, toPipe
    <3> QED
      BY Zenon, <1>1, <3>1
  <2> QED
    BY Zenon, <2>1, <2>2
<1>4. CASE LaneStep \/ StopPipe
  <2>1. queue' = queue
    BY Zenon, <1>4 DEF LaneStep, Cancel, CloseListener, AcceptFails, ServeReturns, Exit, vars,
       StopPipe, toPipe
  <2> QED
    BY Zenon, <1>1, <2>1
<1> QED
  BY Zenon, <1>2, <1>3, <1>4, Kinds

\* Every step keeps runs and queue within their capacities.
LEMMA SizedStep ==
  ASSUME Inv, OnceInv, [Next]_vars
  PROVE  Sized'
<1>0. \A d \in Conn : /\ Len(run[d]) <= RunCap
                      /\ pc[d] \in {"loop", "next", "read"} => Len(run[d]) < RunCap
  BY Zenon DEF OnceInv, Sized
<1>1. \A d \in Conn : /\ Len(run'[d]) <= RunCap
                      /\ pc'[d] \in {"loop", "next", "read"} => Len(run'[d]) < RunCap
  <2>1. CASE LaneStep \/ StopPipe \/ Take
    <3>1. UNCHANGED <<run, pc>>
      BY Zenon, <2>1 DEF LaneStep, Cancel, CloseListener, AcceptFails, ServeReturns, Exit, vars,
         StopPipe, Take
    <3> QED
      BY Zenon, <1>0, <3>1
  <2>2. ASSUME NEW c \in Conn, ConnStep(c), NEW d \in Conn
        PROVE  /\ Len(run'[d]) <= RunCap
               /\ pc'[d] \in {"loop", "next", "read"} => Len(run'[d]) < RunCap
    <3>1. CASE d = c
      BY Zenon, <2>2, <3>1, RunSized
    <3>2. CASE d # c
      <4>1. pc'[d] = pc[d] /\ run'[d] = run[d]
        BY Zenon, <2>2, <3>2, OthersAlone
      <4> QED
        BY Zenon, <1>0, <4>1
    <3> QED
      BY Zenon, <3>1, <3>2
  <2> QED
    BY Zenon, <2>1, <2>2, Kinds
<1> QED
  BY Zenon, <1>1, QueueSized DEF Sized

\* OnceInv is inductive, given Inv.
LEMMA OnceInductive == Inv /\ OnceInv /\ [Next]_vars => OnceInv'
<1> SUFFICES ASSUME Inv, OnceInv, [Next]_vars PROVE OnceInv'
  OBVIOUS
<1>1. closing' \in [Conn -> BOOLEAN] /\ expired' \in [Conn -> BOOLEAN]
  <2>0. closing \in [Conn -> BOOLEAN] /\ expired \in [Conn -> BOOLEAN]
    BY Zenon DEF OnceInv
  <2>1. CASE LaneStep \/ StopPipe \/ Take
    <3>1. UNCHANGED <<closing, expired>>
      BY Zenon, <2>1 DEF LaneStep, Cancel, CloseListener, AcceptFails, ServeReturns, Exit, vars,
         StopPipe, Take
    <3> QED
      BY Zenon, <2>0, <3>1
  <2>2. ASSUME NEW c \in Conn, ConnStep(c)
        PROVE  closing' \in [Conn -> BOOLEAN] /\ expired' \in [Conn -> BOOLEAN]
    <3>1. /\ closing' = closing \/ closing' = [closing EXCEPT ![c] = TRUE]
          /\ expired' = expired \/ expired' = [expired EXCEPT ![c] = TRUE]
      BY Zenon, <2>2 DEF ConnStep, ServeConn, Connect, Write, PeerClose, PeerReset, Accept,
         Closer, Deadline, LoopReturns, Read, ReadEnds, Fault, FlushThenRead, HandleFlushes,
         CloseConn, Handle
    <3> QED
      BY Zenon, <2>0, <3>1
  <2> QED
    BY Zenon, <2>1, <2>2, Kinds
<1> QED
  BY Zenon, <1>1, LoneStep, CountedStep, SizedStep DEF OnceInv

\* Nothing is anywhere when the bridge starts.
LEMMA OnceInit == Init => OnceInv
<1> SUFFICES ASSUME Init PROVE OnceInv
  OBVIOUS
<1>1. Sized
  BY DeliveryAssumption DEF Init, Sized
<1>2. Counted(txs)
  BY BytesNone DEF Init, EmptyShard, Counted
<1>3. ASSUME NEW t \in Tx PROVE Lone(t)
  <2>1. Spots(run, t) = {} /\ Spots(queue, t) = {}
    BY DEF Init, Spots
  <2>2. taken[t] = 0
    BY DEF Init
  <2> QED
    BY <2>1, <2>2 DEF Lone
<1>4. /\ closing \in [Conn -> BOOLEAN] /\ expired \in [Conn -> BOOLEAN]
      /\ forgotten \subseteq Tx
  BY DEF Init
<1> QED
  BY Zenon, <1>1, <1>2, <1>3, <1>4 DEF OnceInv

\* Both inductive invariants hold in every reachable state.
LEMMA OnceAlways == Spec => [](Inv /\ OnceInv)
BY InitInv, InvInductive, OnceInit, OnceInductive, PTL DEF Spec

\* For any connections, feeds and limits, with the cache enabled: the pipe is handed no
\* transaction twice, however many connections deliver it and in whatever order they are
\* served, unless the cache has rotated it out in between.
THEOREM HandedAtMostOnce == Spec => []HandedOnce
<1>1. Inv /\ OnceInv => HandedOnce
  <2> SUFFICES ASSUME Inv, OnceInv, ~txs.nil, NEW t \in Tx \ forgotten
               PROVE  taken[t] + Cardinality(Spots(run, t)) + Cardinality(Spots(queue, t)) <= 1
    BY Zenon DEF HandedOnce
  <2> DEFINE r == Cardinality(Spots(run, t))
             q == Cardinality(Spots(queue, t))
  <2>1. Lone(t)
    BY Zenon DEF OnceInv
  <2>2. /\ r \in {0, 1} /\ (Spots(run, t) = {} => r = 0)
        /\ q \in {0, 1} /\ (Spots(queue, t) = {} => q = 0)
    BY Zenon, <2>1, AtMostOne DEF Lone
  <2>3. taken[t] \in Nat /\ taken[t] <= 1
    BY <2>1 DEF Inv, Types, Lone
  <2>4. (r = 0 \/ q = 0) /\ (taken[t] > 0 => r = 0 /\ q = 0)
    BY Zenon, <2>1, <2>2 DEF Lone
  <2> HIDE DEF r, q
  <2>5. taken[t] + r + q <= 1
    BY <2>2, <2>3, <2>4
  <2> QED
    BY Zenon, <2>5 DEF r, q
<1> QED
  BY <1>1, OnceAlways, PTL

\* For any connections, feeds and limits: runs and queue stay within their capacities, and
\* the byte counts of the cache are those of what it holds.
THEOREM Typed == Spec => []TypeOK
<1>1. Inv /\ OnceInv => TypeOK
  <2> SUFFICES ASSUME Inv, OnceInv PROVE TypeOK
    OBVIOUS
  <2>1. Types /\ Sized /\ Counted(txs)
    BY Zenon DEF Inv, OnceInv
  <2>2. {closing, expired, peerClosed} \subseteq [Conn -> BOOLEAN]
    BY Zenon, <2>1 DEF Types, OnceInv
  <2>3. run \in [Conn -> Seq(Tx)] /\ \A c \in Conn : Len(run[c]) <= RunCap
    BY Zenon, <2>1 DEF Types, Sized
  <2>4. /\ queue \in Seq(Seq(Tx)) /\ Len(queue) <= QueueRuns
        /\ \A i \in DOMAIN queue : Len(queue[i]) <= RunCap
    BY Zenon, <2>1 DEF Types, Sized
  <2> QED
    BY Zenon, <2>1, <2>2, <2>3, <2>4 DEF TypeOK, Types, Counted, OnceInv
<1> QED
  BY <1>1, OnceAlways, PTL
================================================================================
