------------------------------- MODULE Delivery -------------------------------
(***************************************************************************)
(* The transaction lane from the socket to the pipe: Serve and serveConn of *)
(* lanes/lanes.go, the session and the admission of                         *)
(* cmd/teranode-bridge/main.go, the two-generation transaction cache of     *)
(* cache/generational.go, and the order in which main stops the lane and    *)
(* the pipe.                                                                *)
(*                                                                          *)
(* Connections share the cache, whose Admit is one step under a lock, and   *)
(* the pipe's queue, a bounded channel of runs.  The pipe is what TxPipe    *)
(* describes in detail; here it takes runs until it is stopped and then     *)
(* takes what is left.                                                      *)
(***************************************************************************)
EXTENDS TxCache, Sequences, Functions

CONSTANTS
  Garbage,     \* an object the codec cannot delimit, or one above MaxObject
  Conn,        \* connections of the lane
  Feed,        \* [Conn -> Seq(Object)]: what the edge has for a connection, in order
  RunCap,      \* BatchCap
  QueueRuns,   \* cap(in)
  DrainModes,  \* SUBSET BOOLEAN: the settings of DrainTimeout > 0
  NilModes,    \* SUBSET BOOLEAN: whether the transaction cache is nil
  MayFail      \* BOOLEAN: Accept may fail while the lane is up

\* Both serializations of a transaction have the same id.  "std" is whatever is
\* refused before it is admitted.
Object == (Tx \X {"ef", "std"}) \cup {Garbage}
IsEF(o) == o # Garbage /\ o[2] = "ef"

ASSUME DeliveryAssumption ==
  /\ Feed \in [Conn -> Seq(Object)]
  /\ {RunCap, QueueRuns} \subseteq Nat \ {0}
  /\ DrainModes \in (SUBSET BOOLEAN) \ {{}}
  /\ NilModes \in (SUBSET BOOLEAN) \ {{}}
  /\ MayFail \in BOOLEAN

VARIABLES
  draining,    \* DrainTimeout > 0, fixed at the start
  cancelled,   \* the context of the error group
  listening,   \* the listener is open
  lane,        \* where Serve is
  broken,      \* Serve has returned an error
  pc,          \* where a connection is
  wire,        \* what the edge wrote and the connection has not read
  held,        \* what the connection's reader has buffered
  run,         \* the session's Batch
  closing,     \* the connection's closer has acted on the cancellation
  expired,     \* the read deadline of the drain has passed
  peerClosed,  \* the edge has closed its side
  txs,         \* the transaction cache
  queue, pipe, \* the pipe's channel, and whether it runs, drains or is done
  taken,       \* [Tx -> Nat]: how often the pipe was handed a transaction
  wrote,       \* [Conn -> Nat]: how much of its feed the edge has written
  ended,       \* history: why a connection ended
  forgotten    \* history: the transactions a rotation has dropped

group == <<cancelled, listening, lane, broken>>
edge == <<wire, peerClosed, wrote>>
cache == <<txs, forgotten>>
toPipe == <<queue, pipe, taken>>
vars == <<draining, group, pc, edge, held, run, closing, expired, cache, toPipe, ended>>

Init ==
  /\ draining \in DrainModes
  /\ cancelled = FALSE
  /\ listening = TRUE
  /\ lane = "accept"
  /\ broken = FALSE
  /\ pc = [c \in Conn |-> "none"]
  /\ wire = [c \in Conn |-> <<>>]
  /\ held = [c \in Conn |-> <<>>]
  /\ run = [c \in Conn |-> <<>>]
  /\ closing = [c \in Conn |-> FALSE]
  /\ expired = [c \in Conn |-> FALSE]
  /\ peerClosed = [c \in Conn |-> FALSE]
  /\ \E nil \in NilModes : txs = EmptyShard(nil)
  /\ queue = <<>>
  /\ pipe = "run"
  /\ taken = [t \in Tx |-> 0]
  /\ wrote = [c \in Conn |-> 0]
  /\ ended = [c \in Conn |-> "no"]
  /\ forgotten = {}

-----------------------------------------------------------------------------
(* The edge. *)

\* A connection the kernel has completed waits in the listener's queue.
Connect(c) ==
  /\ listening
  /\ pc[c] = "none"
  /\ pc' = [pc EXCEPT ![c] = "queued"]
  /\ UNCHANGED <<draining, group, edge, held, run, closing, expired, cache, toPipe, ended>>

Write(c) ==
  /\ pc[c] \notin {"none", "closed"}
  /\ ~peerClosed[c]
  /\ wrote[c] < Len(Feed[c])
  /\ wire' = [wire EXCEPT ![c] = Append(@, Feed[c][wrote[c] + 1])]
  /\ wrote' = [wrote EXCEPT ![c] = @ + 1]
  /\ UNCHANGED <<draining, group, pc, peerClosed, held, run, closing, expired, cache, toPipe, ended>>

\* On seeing the bridge's FIN, or whenever the edge rotates its connections.
PeerClose(c) ==
  /\ pc[c] \notin {"none", "closed"}
  /\ ~peerClosed[c]
  /\ peerClosed' = [peerClosed EXCEPT ![c] = TRUE]
  /\ UNCHANGED <<draining, group, pc, wire, wrote, held, run, closing, expired, cache, toPipe, ended>>

\* A read fails because the edge has reset the connection or is gone.
PeerReset(c) ==
  /\ pc[c] = "read"
  /\ ~peerClosed[c]
  /\ pc' = [pc EXCEPT ![c] = "end"]
  /\ ended' = [ended EXCEPT ![c] = "lost"]
  /\ UNCHANGED <<draining, group, edge, held, run, closing, expired, cache, toPipe>>

-----------------------------------------------------------------------------
(* Serve, and the error group it runs in. *)

\* A signal, or another member of the group has failed.
Cancel ==
  /\ ~cancelled
  /\ cancelled' = TRUE
  /\ UNCHANGED <<draining, listening, lane, broken, pc, edge, held, run, closing, expired, cache, toPipe, ended>>

CloseListener ==
  /\ cancelled
  /\ listening
  /\ listening' = FALSE
  /\ UNCHANGED <<draining, cancelled, lane, broken, pc, edge, held, run, closing, expired, cache, toPipe, ended>>

Accept(c) ==
  /\ lane = "accept"
  /\ listening
  /\ pc[c] = "queued"
  /\ pc' = [pc EXCEPT ![c] = "loop"]
  /\ UNCHANGED <<draining, group, edge, held, run, closing, expired, cache, toPipe, ended>>

\* An error after the cancellation leads to wg.Wait, any other one that is not a
\* timeout out of Serve.
AcceptFails ==
  /\ lane = "accept"
  /\ ~listening \/ MayFail
  /\ IF cancelled
     THEN lane' = "wait" /\ UNCHANGED broken
     ELSE lane' = "returned" /\ broken' = TRUE
  /\ UNCHANGED <<draining, cancelled, listening, pc, edge, held, run, closing, expired, cache, toPipe, ended>>

\* Mutant: Serve returns without waiting.
ServeReturnsAtOnce ==
  /\ lane = "wait"
  /\ lane' = "returned"
  /\ UNCHANGED <<draining, cancelled, listening, broken, pc, edge, held, run, closing, expired, cache, toPipe, ended>>

ServeReturns ==
  /\ lane = "wait"
  /\ \A c \in Conn : pc[c] \in {"none", "queued", "closed"}
  /\ lane' = "returned"
  /\ UNCHANGED <<draining, cancelled, listening, broken, pc, edge, held, run, closing, expired, cache, toPipe, ended>>

\* The goroutine beside a connection: a FIN and a read deadline when draining, else
\* the connection is closed.  DrainStagger only delays it.
Closer(c) ==
  /\ cancelled
  /\ pc[c] \notin {"none", "queued", "closed"}
  /\ ~closing[c]
  /\ closing' = [closing EXCEPT ![c] = TRUE]
  /\ UNCHANGED <<draining, group, pc, edge, held, run, expired, cache, toPipe, ended>>

\* Mutant: no deadline is set.
DeadlineNever(c) == FALSE /\ UNCHANGED vars

Deadline(c) ==
  /\ draining
  /\ closing[c]
  /\ ~expired[c]
  /\ pc[c] # "closed"
  /\ expired' = [expired EXCEPT ![c] = TRUE]
  /\ UNCHANGED <<draining, group, pc, edge, held, run, closing, cache, toPipe, ended>>

-----------------------------------------------------------------------------
(* serveConn. *)

\* A connection that does not drain looks at the context before every object.
Going(c) == pc[c] = "next" \/ (pc[c] = "loop" /\ (draining \/ ~cancelled))

LoopReturns(c) ==
  /\ pc[c] = "loop"
  /\ cancelled /\ ~draining
  /\ pc' = [pc EXCEPT ![c] = "end"]
  /\ ended' = [ended EXCEPT ![c] = "cut"]
  /\ UNCHANGED <<draining, group, edge, held, run, closing, expired, cache, toPipe>>

Room == Len(queue) < QueueRuns

\* Batch.Flush hands the run over, if there is one, and blocks while the queue is full.
Flush(c) ==
  IF run[c] = <<>>
  THEN UNCHANGED <<queue, run>>
  ELSE /\ Room
       /\ queue' = Append(queue, run[c])
       /\ run' = [run EXCEPT ![c] = <<>>]

\* Mutant: nothing is flushed in front of a read.
FlushThenReadLazy(c) ==
  /\ Going(c)
  /\ held[c] = <<>>
  /\ pc' = [pc EXCEPT ![c] = "read"]
  /\ UNCHANGED <<draining, group, edge, held, run, closing, expired, cache, toPipe, ended>>

\* flushReader: the reader holds no whole object, so it reads, after a flush.
FlushThenRead(c) ==
  /\ Going(c)
  /\ held[c] = <<>>
  /\ Flush(c)
  /\ pc' = [pc EXCEPT ![c] = "read"]
  /\ UNCHANGED <<draining, group, edge, held, closing, expired, cache, pipe, taken, ended>>

Cut(c) == expired[c] \/ (closing[c] /\ ~draining)

Read(c) ==
  /\ pc[c] = "read"
  /\ ~Cut(c)
  /\ \E n \in 1..Len(wire[c]) :
       /\ held' = [held EXCEPT ![c] = SubSeq(wire[c], 1, n)]
       /\ wire' = [wire EXCEPT ![c] = SubSeq(@, n + 1, Len(@))]
  /\ pc' = [pc EXCEPT ![c] = "next"]
  /\ UNCHANGED <<draining, group, peerClosed, wrote, run, closing, expired, cache, toPipe, ended>>

\* The read ends the connection: at the end of the stream, at the deadline or on the
\* closed connection.
ReadEnds(c) ==
  /\ pc[c] = "read"
  /\ \/ /\ ~Cut(c)
        /\ peerClosed[c]
        /\ wire[c] = <<>>
        /\ ended' = [ended EXCEPT ![c] = "eof"]
     \/ /\ Cut(c)
        /\ ended' = [ended EXCEPT ![c] = "cut"]
  /\ pc' = [pc EXCEPT ![c] = "end"]
  /\ UNCHANGED <<draining, group, edge, held, run, closing, expired, cache, toPipe>>

\* There is no resync point after a codec fault.
Fault(c) ==
  /\ Going(c)
  /\ held[c] # <<>>
  /\ Head(held[c]) = Garbage
  /\ pc' = [pc EXCEPT ![c] = "end"]
  /\ ended' = [ended EXCEPT ![c] = "fault"]
  /\ UNCHANGED <<draining, group, edge, held, run, closing, expired, cache, toPipe>>

\* Admit one transaction and put a fresh one into the run.
AdmitTx(c, t, keep) ==
  \E due \in BOOLEAN :
    /\ txs' = Admit(txs, t, due)
    /\ forgotten' = forgotten \cup {u \in Tx : Has(txs, u) /\ ~Has(Aged(txs, due), u)}
    /\ run' = IF keep /\ Fresh(txs, t, due) THEN [run EXCEPT ![c] = Append(@, t)] ELSE run
    /\ pc' = [pc EXCEPT ![c] = IF Len(run'[c]) >= RunCap THEN "full" ELSE "loop"]

\* Mutant: the form is looked at after the admission.
HandleRefusesLate(c) ==
  /\ Going(c)
  /\ held[c] # <<>>
  /\ Head(held[c]) # Garbage
  /\ held' = [held EXCEPT ![c] = Tail(@)]
  /\ AdmitTx(c, Head(held[c])[1], IsEF(Head(held[c])))
  /\ UNCHANGED <<draining, group, edge, closing, expired, toPipe, ended>>

\* The session's Handle: a standard transaction is refused, a duplicate dropped,
\* anything else added to the run, which is flushed when it is full.
Handle(c) ==
  /\ Going(c)
  /\ held[c] # <<>>
  /\ Head(held[c]) # Garbage
  /\ held' = [held EXCEPT ![c] = Tail(@)]
  /\ IF IsEF(Head(held[c]))
     THEN AdmitTx(c, Head(held[c])[1], TRUE)
     ELSE pc' = [pc EXCEPT ![c] = "loop"] /\ UNCHANGED <<cache, run>>
  /\ UNCHANGED <<draining, group, edge, closing, expired, toPipe, ended>>

HandleFlushes(c) ==
  /\ pc[c] = "full"
  /\ Flush(c)
  /\ pc' = [pc EXCEPT ![c] = "loop"]
  /\ UNCHANGED <<draining, group, edge, held, closing, expired, cache, pipe, taken, ended>>

\* Mutant: the deferred flush is missing.
CloseConnUnflushed(c) ==
  /\ pc[c] = "end"
  /\ pc' = [pc EXCEPT ![c] = "closed"]
  /\ UNCHANGED <<draining, group, edge, held, run, closing, expired, cache, toPipe, ended>>

\* The deferred calls: the last flush, the close, and wg.Done.
CloseConn(c) ==
  /\ pc[c] = "end"
  /\ Flush(c)
  /\ pc' = [pc EXCEPT ![c] = "closed"]
  /\ UNCHANGED <<draining, group, edge, held, closing, expired, cache, pipe, taken, ended>>

ServeConn(c) ==
  \/ LoopReturns(c)
  \/ FlushThenRead(c)
  \/ Read(c)
  \/ ReadEnds(c)
  \/ Fault(c)
  \/ Handle(c)
  \/ HandleFlushes(c)
  \/ CloseConn(c)

-----------------------------------------------------------------------------
(* The pipe, and the goroutine in main that stops it. *)

Occurrences(s, t) == Cardinality({i \in DOMAIN s : s[i] = t})

Take ==
  /\ pipe # "done"
  /\ queue # <<>>
  /\ taken' = [t \in Tx |-> taken[t] + Occurrences(Head(queue), t)]
  /\ queue' = Tail(queue)
  /\ UNCHANGED <<draining, group, pc, edge, held, run, closing, expired, cache, pipe, ended>>

\* lanesUp.Wait, pipeStop, and a builder that sees it; then what the queue holds.
StopPipe ==
  /\ \/ pipe = "run" /\ lane = "returned" /\ pipe' = "drain"
     \/ pipe = "drain" /\ queue = <<>> /\ pipe' = "done"
  /\ UNCHANGED <<draining, group, pc, edge, held, run, closing, expired, cache, queue, taken, ended>>

Exited == lane = "returned" /\ pipe = "done"

\* The group is empty and the process ends, with whatever still runs in it.
Exit == Exited /\ UNCHANGED vars

-----------------------------------------------------------------------------
Next ==
  \/ Cancel
  \/ CloseListener
  \/ AcceptFails
  \/ ServeReturns
  \/ \E c \in Conn : Connect(c) \/ Write(c) \/ PeerClose(c) \/ PeerReset(c)
  \/ \E c \in Conn : Accept(c) \/ Closer(c) \/ Deadline(c) \/ ServeConn(c)
  \/ Take
  \/ StopPipe
  \/ Exit

Spec == Init /\ [][Next]_vars

\* Goroutines that can run do and timers fire; nothing is asked of the edge.
Fairness ==
  /\ WF_vars(CloseListener)
  /\ WF_vars(AcceptFails /\ cancelled)
  /\ WF_vars(ServeReturns)
  /\ WF_vars(broken /\ Cancel)
  /\ \A c \in Conn : WF_vars(Closer(c)) /\ WF_vars(Deadline(c)) /\ WF_vars(ServeConn(c))
  /\ WF_vars(Take)
  /\ WF_vars(StopPipe)

FairSpec == Spec /\ Fairness

-----------------------------------------------------------------------------
(* Properties. *)

Waiting(t) == \/ \E c \in Conn : t \in Range(run[c])
              \/ \E i \in DOMAIN queue : t \in Range(queue[i])

\* The bytes of a set of transactions, counted one by one.
Bytes(ts) == Cardinality(UNION {{t} \X (1..TxBytes[t]) : t \in ts})

\* Every variable keeps its type, no more is buffered than a run and the queue hold, and
\* the cache's byte counts, which decide its rotations, are those of what it holds,
\* through rotations and duplicates.
TypeOK ==
  /\ {draining, cancelled, listening, broken} \subseteq BOOLEAN
  /\ lane \in {"accept", "wait", "returned"}
  /\ pc \in [Conn -> {"none", "queued", "loop", "next", "read", "full", "end", "closed"}]
  /\ wire \in [Conn -> Seq(Object)]
  /\ held \in [Conn -> Seq(Object)]
  /\ run \in [Conn -> Seq(Tx)] /\ \A c \in Conn : Len(run[c]) <= RunCap
  /\ {closing, expired, peerClosed} \subseteq [Conn -> BOOLEAN]
  /\ txs \in Shard
  /\ txs.curBytes = Bytes(txs.cur) /\ txs.prevBytes = Bytes(txs.prev)
  /\ forgotten \subseteq Tx
  /\ queue \in Seq(Seq(Tx)) /\ Len(queue) <= QueueRuns
  /\ \A i \in DOMAIN queue : Len(queue[i]) <= RunCap
  /\ pipe \in {"run", "drain", "done"}
  /\ taken \in [Tx -> Nat]
  /\ wrote \in [Conn -> Nat]
  /\ ended \in [Conn -> {"no", "eof", "cut", "lost", "fault"}]

\* main stops the pipe only when every lane has returned, so no connection hands
\* anything to a stopped pipe, unless Serve left on an accept error.
NothingSentLate ==
  pipe # "run" /\ ~broken =>
    \A c \in Conn : pc[c] \in {"none", "queued", "closed"} /\ run[c] = <<>>

\* docs/architecture.md: "the bridge keeps reading and handling until the edge closes,
\* so nothing the edge already sent is dropped".
LosslessAlways ==
  pipe = "done" =>
    \A c \in Conn : ended[c] = "eof" =>
      \A i \in 1..wrote[c] : IsEF(Feed[c][i]) => taken[Feed[c][i][1]] > 0

\* The drain is lossless: once the pipe is done it was given every extended-format
\* transaction of every connection that was read to its end, whatever other
\* connections delivered of the same transactions and in which form.
Lossless == ~broken => LosslessAlways

\* Admit answers "duplicate" for what the cache holds and the lane drops it: all of
\* that is with the pipe, or on its way there with a connection that will flush it.
DuplicateIsInGoodHands ==
  \A t \in txs.cur \cup txs.prev :
    taken[t] > 0 \/ (Waiting(t) /\ (pipe # "done" \/ broken))

\* The places a transaction has in the runs of the family q.
Spots(q, t) ==
  {p \in (DOMAIN q) \X (1..RunCap) : p[2] \in DOMAIN q[p[1]] /\ q[p[1]][p[2]] = t}

\* With the cache enabled the pipe gets no transaction twice, however often and on
\* whatever connection it arrives, unless a rotation has dropped it in between.  (A nil
\* cache hands every copy on.)
HandedOnce ==
  ~txs.nil =>
    \A t \in Tx \ forgotten :
      taken[t] + Cardinality(Spots(run, t)) + Cardinality(Spots(queue, t)) <= 1

\* Shutdown ends although an edge never closes its connections and the queue is full.
ShutdownEnds == cancelled ~> Exited

\* What a connection has admitted reaches the pipe without waiting for more to arrive.
AdmittedReachesPipe ==
  \A t \in Tx : (Has(txs, t) \/ Waiting(t)) ~> (taken[t] > 0 \/ broken)
================================================================================
