-------------------------------- MODULE TxPipe --------------------------------
(***************************************************************************)
(* The batching pipeline of internal/txpipe/txpipe.go: lane connections     *)
(* queue runs of transactions on builders, a builder gathers a batch and    *)
(* seals it, and every sealed batch becomes a submission goroutine under    *)
(* one semaphore, which posts it, settles the answer and may leave a retry  *)
(* goroutine behind.  Cancelling the pipe drains the queues, seals what is  *)
(* left and waits.                                                          *)
(*                                                                          *)
(* Every transaction is handed over once (the lane drops redeliveries).  An *)
(* answer of the propagation service is a status and, per batch member, the *)
(* kind of error line the body has for it.                                  *)
(***************************************************************************)
EXTENDS Integers, Sequences, FiniteSets, FiniteSetsExt

CONSTANTS
  Tx,             \* transactions
  Parents,        \* [Tx -> SUBSET Tx]: the transactions an input refers to
  Builder,        \* batch builders
  BatchTxs, BatchBytes, Inflight, RetryAttempts, QueueRuns,
                  \* Config, with its defaults applied; QueueRuns is cap(in)
  TxBytes,        \* [Tx -> Nat]
  RunCap,         \* BatchCap: most transactions in a run
  Backoffs,       \* len(rateLimitBackoff): 3, a variable "so tests can shorten it"
  Lines,          \* the kinds of error lines the service writes
  MayCancel       \* BOOLEAN

MaxPosts == 2      \* posts of a batch that do not answer 429

LineKinds == {"retry", "final", "foreign", "anonymous"}

ASSUME PipeAssumption ==
  /\ IsFiniteSet(Tx)
  /\ Parents \in [Tx -> SUBSET Tx]
  /\ \A t \in Tx : t \notin Parents[t]
  /\ {BatchTxs, BatchBytes, Inflight, QueueRuns, RunCap} \subseteq Nat \ {0}
  /\ {RetryAttempts, Backoffs} \subseteq Nat
  /\ TxBytes \in [Tx -> Nat]
  /\ MayCancel \in BOOLEAN
  /\ Lines \subseteq LineKinds

VARIABLES
  handed,    \* the transactions the lanes have handed over
  queue,     \* [Builder -> Seq(run)]: the channels `ins`
  hand,      \* [Builder -> Seq(Tx)]: the rest of the run addRun is working on
  cur,       \* [Builder -> Seq(Tx)]: cur.jobs
  ids,       \* [Builder -> SUBSET Tx]: cur.ids
  sealed,    \* [Builder -> Seq(Tx)]: the batch seal() waits to submit
  pc, next,  \* where a builder is, and where seal() returns to
  tasks,     \* the submission and retry goroutines
  cancelled, \* the pipe's context
  accepted, rejected, failed, unattributed,   \* counters
  landed,    \* environment: the transactions the cluster took
  early,     \* history: the transactions handed over before a parent of theirs
  blurred    \* history: failed members whose error line settling does not see

builders == <<queue, hand, cur, ids, sealed, pc, next>>
counters == <<accepted, rejected, failed, unattributed>>
history == <<early, blurred>>
vars == <<handed, builders, tasks, cancelled, counters, landed, history>>

\* A submission holds its slot until submit returns, a retry only while it posts.
Task == [kind : {"submit", "retry"}, jobs : SUBSET Tx, attempt : Nat,
         throttled : Nat, slot : BOOLEAN]
NewSubmit(jobs) == [kind |-> "submit", jobs |-> jobs, attempt |-> 0,
                    throttled |-> 0, slot |-> TRUE]
NewRetry(jobs) == [kind |-> "retry", jobs |-> jobs, attempt |-> 0,
                   throttled |-> 0, slot |-> FALSE]
SlotFree == Cardinality({t \in tasks : t.slot}) < Inflight

Init ==
  /\ handed = {}
  /\ queue = [b \in Builder |-> <<>>]
  /\ hand = [b \in Builder |-> <<>>]
  /\ cur = [b \in Builder |-> <<>>]
  /\ ids = [b \in Builder |-> {}]
  /\ sealed = [b \in Builder |-> <<>>]
  /\ pc = [b \in Builder |-> "select"]
  /\ next = [b \in Builder |-> "select"]
  /\ tasks = {}
  /\ cancelled = FALSE
  /\ accepted = 0
  /\ rejected = 0
  /\ failed = 0
  /\ unattributed = 0
  /\ landed = {}
  /\ early = {}
  /\ blurred = 0

-----------------------------------------------------------------------------
(* The lanes. *)

Runs == {r \in UNION {[1..n -> Tx \ handed] : n \in 1..RunCap} :
           \A i, j \in DOMAIN r : r[i] = r[j] => i = j}

\* The transactions of a run that come before a parent of theirs.
Early(r) == {r[i] : i \in {j \in DOMAIN r :
  ~(Parents[r[j]] \subseteq handed \cup {r[k] : k \in 1..(j - 1)})}}

\* send: blocks while the builder's queue is full.  Which builder is round robin
\* over all connections, so any.  The pipe is cancelled only after every lane has
\* returned.
Send(b) ==
  /\ ~cancelled
  /\ Len(queue[b]) < QueueRuns
  /\ \E r \in Runs :
       /\ queue' = [queue EXCEPT ![b] = Append(@, r)]
       /\ handed' = handed \cup Range(r)
       /\ early' = early \cup Early(r)
  /\ UNCHANGED <<hand, cur, ids, sealed, pc, next, tasks, cancelled, counters, landed, blurred>>

Cancel ==
  /\ MayCancel
  /\ ~cancelled
  /\ cancelled' = TRUE
  /\ UNCHANGED <<handed, builders, tasks, counters, landed, history>>

-----------------------------------------------------------------------------
(* runBuilder. *)

\* seal: an empty batch is left alone; otherwise the builder waits for a slot.
SealThen(b, jobs, resume) ==
  IF jobs = <<>>
  THEN /\ pc' = [pc EXCEPT ![b] = resume]
       /\ UNCHANGED <<cur, ids, sealed, next>>
  ELSE /\ sealed' = [sealed EXCEPT ![b] = jobs]
       /\ cur' = [cur EXCEPT ![b] = <<>>]
       /\ ids' = [ids EXCEPT ![b] = {}]
       /\ next' = [next EXCEPT ![b] = resume]
       /\ pc' = [pc EXCEPT ![b] = "seal"]

Submit(b) ==
  /\ pc[b] = "seal"
  /\ SlotFree
  /\ tasks' = tasks \cup {NewSubmit(Range(sealed[b]))}
  /\ sealed' = [sealed EXCEPT ![b] = <<>>]
  /\ pc' = [pc EXCEPT ![b] = next[b]]
  /\ next' = [next EXCEPT ![b] = "select"]
  /\ UNCHANGED <<handed, queue, hand, cur, ids, cancelled, counters, landed, history>>

\* A run is received, by the select or by the greedy drain after an earlier one.
Receive(b) ==
  /\ pc[b] \in {"select", "greedy"}
  /\ queue[b] # <<>>
  /\ hand' = [hand EXCEPT ![b] = Head(queue[b])]
  /\ queue' = [queue EXCEPT ![b] = Tail(@)]
  /\ pc' = [pc EXCEPT ![b] = "add"]
  /\ UNCHANGED <<handed, cur, ids, sealed, next, tasks, cancelled, counters, landed, history>>

GreedyDone(b) ==
  /\ pc[b] = "greedy"
  /\ queue[b] = <<>>
  /\ pc' = [pc EXCEPT ![b] = "select"]
  /\ UNCHANGED <<handed, queue, hand, cur, ids, sealed, next, tasks, cancelled, counters, landed, history>>

\* Mutant: the dependency check is skipped.
DependsOnBatchNever(j, known) == FALSE

DependsOnBatch(j, known) == Parents[j] \cap known # {}

\* add, first half: a transaction whose parent is in the batch seals it first.
AddSealsParent(b) ==
  /\ pc[b] = "add"
  /\ DependsOnBatch(hand[b][1], ids[b])
  /\ SealThen(b, cur[b], "add")
  /\ UNCHANGED <<handed, queue, hand, tasks, cancelled, counters, landed, history>>

Full(jobs) == \/ Len(jobs) >= BatchTxs
              \/ MapThenSumSet(LAMBDA t : TxBytes[t], Range(jobs)) >= BatchBytes

\* add, second half: append, and seal a batch that has become full.
Add(b) ==
  LET j == hand[b][1]
      jobs == Append(cur[b], j)
      after == IF Len(hand[b]) = 1 THEN "greedy" ELSE "add"
  IN  /\ pc[b] = "add"
      /\ ~DependsOnBatch(j, ids[b])
      /\ hand' = [hand EXCEPT ![b] = Tail(@)]
      /\ IF Full(jobs)
         THEN SealThen(b, jobs, after)
         ELSE /\ cur' = [cur EXCEPT ![b] = jobs]
              /\ ids' = [ids EXCEPT ![b] = @ \cup {j}]
              /\ pc' = [pc EXCEPT ![b] = after]
              /\ UNCHANGED <<sealed, next>>
      /\ UNCHANGED <<handed, queue, tasks, cancelled, counters, landed, history>>

\* Mutant: the linger timer is not reset, so it seals no later batch.
LingerNever(b) == FALSE /\ UNCHANGED vars

\* The linger timer runs while the batch is not empty.
Linger(b) ==
  /\ pc[b] = "select"
  /\ cur[b] # <<>>
  /\ SealThen(b, cur[b], "select")
  /\ UNCHANGED <<handed, queue, hand, tasks, cancelled, counters, landed, history>>

CancelSeen(b) ==
  /\ pc[b] = "select"
  /\ cancelled
  /\ pc' = [pc EXCEPT ![b] = "drain"]
  /\ UNCHANGED <<handed, queue, hand, cur, ids, sealed, next, tasks, cancelled, counters, landed, history>>

\* The shutdown drain appends whole runs: no dependency check, no size check.
DrainRun(b) ==
  /\ pc[b] = "drain"
  /\ queue[b] # <<>>
  /\ cur' = [cur EXCEPT ![b] = @ \o Head(queue[b])]
  /\ queue' = [queue EXCEPT ![b] = Tail(@)]
  /\ UNCHANGED <<handed, hand, ids, sealed, pc, next, tasks, cancelled, counters, landed, history>>

DrainDone(b) ==
  /\ pc[b] = "drain"
  /\ queue[b] = <<>>
  /\ SealThen(b, cur[b], "wait")
  /\ UNCHANGED <<handed, queue, hand, tasks, cancelled, counters, landed, history>>

\* Mutant: the builder returns without waiting.
WaitNot(b) ==
  /\ pc[b] = "wait"
  /\ pc' = [pc EXCEPT ![b] = "done"]
  /\ UNCHANGED <<handed, queue, hand, cur, ids, sealed, next, tasks, cancelled, counters, landed, history>>

\* wg.Wait: the group counts the goroutines of every builder.
Wait(b) ==
  /\ pc[b] = "wait"
  /\ tasks = {}
  /\ pc' = [pc EXCEPT ![b] = "done"]
  /\ UNCHANGED <<handed, queue, hand, cur, ids, sealed, next, tasks, cancelled, counters, landed, history>>

Build(b) ==
  \/ Submit(b)
  \/ Receive(b)
  \/ GreedyDone(b)
  \/ AddSealsParent(b)
  \/ Add(b)
  \/ Linger(b)
  \/ CancelSeen(b)
  \/ DrainRun(b)
  \/ DrainDone(b)
  \/ Wait(b)

-----------------------------------------------------------------------------
(* The answers of the propagation service. *)

\* "ok" in a member's place means the body has no line for it and it landed.
Verdict == {"ok"} \cup Lines
Clean(jobs) == [j \in jobs |-> "ok"]

Answers(jobs) ==
  [status : {"error", "200", "429", "422", "500", "4xx"}, partial : {FALSE}, line : {Clean(jobs)}]
    \cup
  [status : {"422", "500", "4xx"}, partial : {TRUE}, line : [jobs -> Verdict] \ {Clean(jobs)}]

With(r, kinds) == {j \in DOMAIN r.line : r.line[j] \in kinds}

\* A 429 is refused before the body is read.  An answer that says nothing about
\* the members, or no answer, may hide a batch that was processed.
Lands(r) ==
  CASE r.status = "429" -> {{}}
    [] r.status = "200" \/ r.partial -> {With(r, {"ok"})}
    [] OTHER -> {{}, DOMAIN r.line}

\* Settled member by member: a partial body with status 500, or one that brackets
\* some txid, ours or not.
PerMember(r) == r.partial /\ (r.status = "500" \/ With(r, {"retry", "final", "foreign"}) # {})

-----------------------------------------------------------------------------
(* submit and settlePartial. *)

\* How many failed members the settling of r does not see.
Unseen(r, kinds) == IF PerMember(r) THEN Cardinality(With(r, kinds)) ELSE 0

Replace(t, new) == tasks' = (tasks \ {t}) \cup new

\* The retry goroutine for the jobs left over, if there is one to start.
Salvage(jobs) == IF jobs = {} THEN {} ELSE {NewRetry(jobs)}

\* Mutant: error lines for unknown transactions are not taken off.
SettlePartialGenerous(t, r) ==
  LET toRetry == With(r, {"retry"})
      final == With(r, {"final"})
      retries == RetryAttempts > 0
  IN  /\ accepted' = accepted + Cardinality(t.jobs) - Cardinality(toRetry) - Cardinality(final)
      /\ unattributed' = unattributed + Cardinality(With(r, {"foreign"}))
      /\ rejected' = rejected + Cardinality(final) + IF retries THEN 0 ELSE Cardinality(toRetry)
      /\ Replace(t, IF retries THEN Salvage(toRetry) ELSE {})
      /\ UNCHANGED failed

\* Mutant: final failures are counted accepted.
SettlePartialBlind(t, r) ==
  LET toRetry == With(r, {"retry"})
      retries == RetryAttempts > 0
  IN  /\ accepted' = accepted + Cardinality(t.jobs) - Cardinality(toRetry)
      /\ rejected' = rejected + IF retries THEN 0 ELSE Cardinality(toRetry)
      /\ Replace(t, IF retries THEN Salvage(toRetry) ELSE {})
      /\ UNCHANGED <<failed, unattributed>>

\* Lines that bracket a txid of the batch fail that member; lines that bracket
\* another count as unattributed and come off the accepted rest; lines without a
\* bracketed txid are passed over.
SettlePartial(t, r) ==
  LET toRetry == With(r, {"retry"})
      final == With(r, {"final"})
      foreign == With(r, {"foreign"})
      rest == Cardinality(t.jobs) - Cardinality(toRetry) - Cardinality(final) - Cardinality(foreign)
      retries == RetryAttempts > 0
  IN  /\ accepted' = accepted + Max({rest, 0})
      /\ unattributed' = unattributed + Cardinality(foreign)
      /\ rejected' = rejected + Cardinality(final) + IF retries THEN 0 ELSE Cardinality(toRetry)
      /\ Replace(t, IF retries THEN Salvage(toRetry) ELSE {})
      /\ UNCHANGED failed

\* Mutant: the posts are counted from zero again.
SubmitAgainForever(t) ==
  /\ Replace(t, {[t EXCEPT !.attempt = (@ + 1) % MaxPosts]})
  /\ UNCHANGED counters

\* The batch was refused or lost: one more post, then salvage or give up.
SubmitAgain(t) ==
  IF t.attempt + 1 - t.throttled < MaxPosts
  THEN /\ Replace(t, {[t EXCEPT !.attempt = @ + 1]})
       /\ UNCHANGED counters
  ELSE IF RetryAttempts > 0
  THEN /\ Replace(t, Salvage(t.jobs))
       /\ UNCHANGED counters
  ELSE /\ Replace(t, {})
       /\ failed' = failed + Cardinality(t.jobs)
       /\ UNCHANGED <<accepted, rejected, unattributed>>

\* 429: the ladder of backoffs does not use up the posts.
SubmitThrottled(t) ==
  IF t.throttled >= Backoffs
  THEN /\ Replace(t, {})
       /\ failed' = failed + Cardinality(t.jobs)
       /\ UNCHANGED <<accepted, rejected, unattributed>>
  ELSE /\ Replace(t, {[t EXCEPT !.attempt = @ + 1, !.throttled = @ + 1]})
       /\ UNCHANGED counters

SubmitPost(t, r) ==
  /\ t.kind = "submit"
  /\ landed' \in {landed \cup new : new \in Lands(r)}
  /\ CASE r.status = "200" -> /\ accepted' = accepted + Cardinality(t.jobs)
                              /\ Replace(t, {})
                              /\ UNCHANGED <<rejected, failed, unattributed>>
       [] PerMember(r) -> SettlePartial(t, r)
       [] r.status = "429" -> SubmitThrottled(t)
       [] OTHER -> SubmitAgain(t)
  /\ blurred' = blurred + Unseen(r, {"anonymous"})
  /\ UNCHANGED <<handed, builders, cancelled, early>>

-----------------------------------------------------------------------------
(* retryBatch. *)

\* After the wait of its ladder a retry takes a slot like any submission.
RetryAcquire(t) ==
  /\ t.kind = "retry"
  /\ ~t.slot
  /\ SlotFree
  /\ Replace(t, {[t EXCEPT !.slot = TRUE]})
  /\ UNCHANGED <<handed, builders, cancelled, counters, landed, history>>

\* The rest goes up the ladder, or is rejected at its end; the slot is given back.
RetryGoOn(t, jobs, final) ==
  IF jobs # {} /\ t.attempt + 1 < RetryAttempts
  THEN /\ Replace(t, {[t EXCEPT !.jobs = jobs, !.attempt = @ + 1, !.slot = FALSE]})
       /\ rejected' = rejected + final
  ELSE /\ Replace(t, {})
       /\ rejected' = rejected + final + Cardinality(jobs)

RetryPost(t, r) ==
  /\ t.kind = "retry"
  /\ t.slot
  /\ landed' \in {landed \cup new : new \in Lands(r)}
  /\ CASE r.status = "200" -> /\ accepted' = accepted + Cardinality(t.jobs)
                              /\ Replace(t, {})
                              /\ UNCHANGED rejected
       [] PerMember(r) ->
            LET left == With(r, {"retry"})
                final == Cardinality(With(r, {"final"}))
            IN  /\ accepted' = accepted + Cardinality(t.jobs) - Cardinality(left) - final
                /\ RetryGoOn(t, left, final)
       [] ~PerMember(r) /\ r.status \in {"error", "429", "422"} ->
            RetryGoOn(t, t.jobs, 0) /\ UNCHANGED accepted
       [] OTHER -> /\ rejected' = rejected + Cardinality(t.jobs)
                   /\ Replace(t, {})
                   /\ UNCHANGED accepted
  /\ blurred' = blurred + Unseen(r, {"foreign", "anonymous"})
  /\ UNCHANGED <<handed, builders, cancelled, failed, unattributed, early>>

Work(t) ==
  \/ RetryAcquire(t)
  \/ \E r \in Answers(t.jobs) : SubmitPost(t, r) \/ RetryPost(t, r)

Returned == \A b \in Builder : pc[b] = "done"

\* Run has returned.
Stopped == Returned /\ UNCHANGED vars

Next ==
  \/ Cancel
  \/ \E b \in Builder : Send(b) \/ Build(b)
  \/ \E t \in tasks : Work(t)
  \/ Stopped

Spec == Init /\ [][Next]_vars

\* A goroutine that can run does; a post ends with an answer or the client's timeout.
Fairness ==
  /\ \A b \in Builder : WF_vars(Build(b))
  /\ WF_vars(\E t \in tasks : Work(t))

FairSpec == Spec /\ Fairness

-----------------------------------------------------------------------------
(* Properties. *)

\* Every variable keeps its type, and the ladders end: a batch is posted at most
\* MaxPosts + Backoffs times, a retry set at most RetryAttempts times.
TypeOK ==
  /\ handed \subseteq Tx
  /\ queue \in [Builder -> Seq(Seq(Tx))]
  /\ hand \in [Builder -> Seq(Tx)]
  /\ cur \in [Builder -> Seq(Tx)]
  /\ ids \in [Builder -> SUBSET Tx]
  /\ sealed \in [Builder -> Seq(Tx)]
  /\ pc \in [Builder -> {"select", "greedy", "add", "seal", "drain", "wait", "done"}]
  /\ next \in [Builder -> {"select", "greedy", "add", "wait"}]
  /\ tasks \subseteq Task
  /\ \A t \in tasks :
       /\ t.attempt < IF t.kind = "submit" THEN MaxPosts + Backoffs ELSE RetryAttempts
       /\ t.throttled <= Backoffs
  /\ cancelled \in BOOLEAN
  /\ {accepted, rejected, failed, unattributed, blurred} \subseteq Nat
  /\ landed \subseteq Tx
  /\ early \subseteq handed

Settled == accepted + rejected + failed + unattributed

\* What a builder holds, in the order in which it came: the batch it is sealing, the
\* batch it is gathering, the rest of the run it is adding, the runs of its queue.
Lots(b) == <<sealed[b], cur[b], hand[b]>> \o queue[b]
Held(b) == UNION {Range(Lots(b)[i]) : i \in DOMAIN Lots(b)}
Jobs == UNION {t.jobs : t \in tasks}

\* The transactions that are still on their way.
Open == Jobs \cup UNION {Held(b) : b \in Builder}

\* No transaction is in two places: twice in a lot, in two lots, with two builders,
\* with a builder and a goroutine, or with two goroutines.
OnePlace ==
  /\ \A b \in Builder :
       /\ \A i \in DOMAIN Lots(b) : IsInjective(Lots(b)[i])
       /\ \A i, j \in DOMAIN Lots(b) : i # j => Range(Lots(b)[i]) \cap Range(Lots(b)[j]) = {}
       /\ \A d \in Builder \ {b} : Held(b) \cap Held(d) = {}
       /\ Held(b) \cap Jobs = {}
  /\ \A t, u \in tasks : t # u => t.jobs \cap u.jobs = {}

\* Every transaction handed over is in one place at most while it is on its way, and
\* the counters hold exactly the others: nothing is lost, submitted twice or counted
\* twice.
Conservation == OnePlace /\ Open \subseteq handed /\ Settled = Cardinality(handed \ Open)

\* The counters are honest at shutdown: when Run has returned everything handed over
\* has been settled.
HonestAtShutdown == Returned => Settled = Cardinality(handed)

\* Delivery is not overstated, whatever is lost, throttled, answered in part or retried,
\* while every line that fails a member brackets a txid (in a retry: one of the batch).
AcceptedLanded == blurred = 0 => accepted <= Cardinality(landed)

\* txpipe.go:602 says so of any line: "an error line may name no batch member (a parse
\* error before any txid was read, or a message quoting a foreign hash).  Counting the
\* remainder accepted would then overstate delivery, so any unattributed error line is
\* [...] subtracted from the accepted remainder."
NeverInflated == accepted <= Cardinality(landed)

\* The /txs contract: no request holds a transaction together with its parent, unless
\* the lanes handed the child over first.
ParentsApart == \A t \in tasks : \A c \in t.jobs \ early : Parents[c] \cap t.jobs = {}

\* While the pipe runs every request keeps the contract and the limit Config.BatchTxs.
BatchContract ==
  ~cancelled => ParentsApart /\ \A t \in tasks : Cardinality(t.jobs) <= BatchTxs

\* Nothing is left lying: as many transactions are settled as were handed over.
Settles == \A n \in 1..Cardinality(Tx) : Cardinality(handed) >= n ~> Settled >= n

\* Cancelling the pipe ends it, whatever the service answers.
Drains == cancelled ~> Returned
================================================================================
