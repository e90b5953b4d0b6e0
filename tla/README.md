# A TLA+ model of teranode-bridge

teranode-bridge stands between a multicast object fabric and a Teranode cluster.
This directory models what the bridge does, checks the models with TLC and proves
the properties that matter most with TLAPS.

## The system

| Part | Source | State | What it does |
| --- | --- | --- | --- |
| lanes | `lanes/` | connections, drain state | read bare objects off TCP and call a handler, one goroutine per connection |
| object handlers | `cmd/teranode-bridge/main.go` | none of their own | store a subtree or block, mark it, announce it |
| registries | `registry/` | two generations per shard | `seen`: has a hash crossed the bridge, and which way; `announced`: has the cluster been told |
| object cache | `cache/cache.go` | LRU of frames | what the retrieval plane can serve |
| transaction cache | `cache/generational.go` | two generations of bytes | subtree members, and the re-delivery check of the tx lane |
| transaction pipeline | `internal/txpipe/` | queues, open batches, slots, counters | batch transactions, POST them, settle the answers, retry |
| announce producer | `announce/` | a Kafka client | one synchronous produce per announcement |
| reverse path | `reverse/reverse.go` | role flag | subscribe to the cluster, filter by origin, build, register, publish |
| submitter promotion | `reverse/promoter.go` | two counters | take the role over when the primary stops answering |
| up-tunnel | `internal/submit/` | one connection, an index | send frames up, failing over between addresses |
| retrieval plane | `retrieval/` | none | serve the cluster's pulls out of the caches |
| first-pull tracker | `internal/obs/` | map of announcements | measure announce-to-pull |
| health | `internal/health/`, `main.go` | ready flag, last cluster state | report |
| codecs | `tnwire/`, `encode/`, `hashid/` | none | convert frames |

The handlers and the reverse path share the object cache and the registries. Each
has a lock of its own and none is held across two calls, so everything a handler
or the reverse path has read may be stale at its next step. That, the generations
that forget, announcements that fail, and a process that remembers nothing across
a restart are what is hard about the object plane. What is hard about the pipeline
is its accounting: a batch may be answered in part, throttled, lost, or settled by
a retry, and the pipe is stopped while all of this is going on. Around both lie the
parts whose faults come from outside: the cluster pulls while caches rotate, edges
and streams come and go under the reverse path, and a standby decides by probes
whether the primary is alive.

## The modules

| Module | Models |
| --- | --- |
| `Generations` | the two-generation shard of `registry/registry.go`, as operators |
| `Registry` | one shard under a clock |
| `ObjectStore` | what the bridge relies on of its object cache: the abstract specification |
| `ObjectCache` | one shard of `cache/cache.go`, as operators |
| `Bridge` | `handleSubtree`, `handleBlock`, `verifyEcho`, `Subscriber.handle`, `publish`, on shared registries and an `ObjectStore` |
| `Frames` | the codecs: `encode/`, `tnwire/`, `hashid/` |
| `Serving` | what follows an announcement: `retrieval/server.go` on the `ObjectCache`, and how the retrieval plane and a lane stop |
| `TxPipe` | `internal/txpipe/txpipe.go` |
| `TxCache` | one shard of `cache/generational.go`, as operators |
| `Delivery` | the transaction lane: `Serve` and `serveConn` of `lanes/lanes.go`, `admitTx` and `txSession`, the transaction cache, and how `main` stops lane and pipe |
| `Uplink` | `Subscriber.Run`, the asset client's 429 ladder, `UpTunnel.Send` |
| `Failover` | a primary's start, readiness and exit, and a standby's `RunPromoter` |
| `MCBridge`, `MCTxPipe`, `MCDelivery`, `MCServing` | objects, transactions and frames of the instances |
| `RegistryProofs`, `BridgeProofs`, `TxPipeProofs`, `DeliveryProofs`, `ServingProofs`, `RetrievalProofs`, `UplinkProofs`, `FailoverProofs` | the theorems |

**Generations and Registry.** A generation is a total function from keys to a
direction or `None`. `Mark` is `Record(MaybeRotate(..))`, in the order of the code:
the rotation comes before the lookup. The 64 shards never interact, so one is
modelled; `Cap` is computed from `MaxEntries` as `New` does. The clock keeps only the
differences the code compares. `age` and `writes` are history: they say when a key
was last marked and how many other keys were written since.

**Bridge.** `job[c]` is the call in progress on lane connection `c`, `rev` the
notification in progress. One step is one access to one shared structure or one call
out of the process. `handleSubtree` and `handleBlock` are the same steps, except that
a block marks its roots first. A frame too short to carry its hash is refused before
any state changes and is not a step. `active` and `ready` may have any value at any
notification: other goroutines own them. Publishing is a send that succeeds or fails;
a failed Kafka produce may have reached the broker. The cache is `ObjectStore`:
the set of hashes a `Get` would find. A `Put` evicts from the back of the list; which
entries stand there is left open, within what the byte limit allows. `told`, `accepted`
and `sentUp` belong to the cluster and the fabric and survive a restart; `handled`,
`done`, `sent` and the flags `late`, `stale` and `echo` are history of this process.

**TxPipe.** A builder is at one point of `runBuilder`: in its select, in the greedy
drain, adding a run, waiting for a slot in `seal`, draining, waiting, or done. A
submission holds its slot until `submit` returns, a retry only while it posts. The
service answers with a status and, per member, the kind of error line the body has
for it: naming the member with a failure that is retried (`retry`) or not (`final`),
bracketing another txid (`foreign`), or bracketing none (`anonymous`). `landed` is
what the cluster really took: an answer that says nothing about the members, or none
at all, may hide a processed batch. The byte walk of `inputRefs` is the relation
`Parents`. `early` and `blurred` are history: the transactions handed over before a
parent of theirs, and the number of failed members whose error line settling passes
over (no bracketed txid, or in a retry a foreign one). The pipe is cancelled only
after every lane has returned, as `main` does it, so nothing is sent to a cancelled
pipe. `submit` and `retryBatch` run under a context that is never cancelled, so their
`ctx.Done()` branches do not occur.

**Delivery.** A connection is in its loop, in a read, in the flush of a full run, at
its deferred calls, or closed; `held` is what the reader has buffered, `run` the
session's batch. `Admit` is one step under the shard's lock; a rotation by time may be
due at any of them. The transaction cache may also be nil (`-tx-cache-bytes 0`, the
default of `-mode tx`): it then admits every copy and holds nothing (`NilModes`). An object is a transaction in one of its two serializations, which
share the txid, or something the codec cannot delimit. Objects cut in half by the end
of a stream are left out: they are read as the end. `Closer` is the goroutine beside a
connection, `Deadline` the expiry it arms; the stagger only delays it. The pipe is
reduced to what the lane sees of `TxPipe`: it takes runs, and after `pipeStop` it takes
what is left and is done. `Cancel` is a signal or the failure of any other member of
the error group. `NothingSentLate` is what `TxPipe` assumes when it lets nothing be
sent after its cancellation. `wrote` and `Feed` belong to the edge; `ended` and
`forgotten` are history.

**Frames.** Byte sequences, with headers and hashes of two bytes so that no hash is its
own reversal. A u64 is its eight bytes, so every value of a count occurs, also those
beyond TLC's integers; where the code converts a count to `int` it stands at `MaxLen` =
2^24 from there on, which no length reaches.
The walk over a transaction (`objfmt.TxSize`, a library) is a length byte. A block
(`Block144`) has a header of the right length, any counts, any roots and any BUMP, and one
transaction for a coinbase, of ten bytes at least: a transaction has a version, two counts
and a lock time. `FromTeranode`'s minimal length of 92 bytes relies on that.

**ObjectCache and Serving.** `shard` is the list, its expired entries and the byte
count; the 64 shards never interact. A request is one `Get` of the object cache, then
for the routes that list members one lookup each in the transaction cache, which may
find the member, miss it or hold something that does not convert; then the answer.
Subtrees and blocks are one cache and no route looks at the class of what it finds, so
every hash is asked for on every route. A list of ids is read up to `BodyIds` (64 MiB in
the code), and what is behind is dropped. The lane's handler stores, announces and
returns; whether it announces at all is `Bridge`'s matter and left open. `recent` and `lapsed` are history: the objects by last use,
evicted ones included, and those past their ttl.

**Uplink.** `run` is where `Run` is: subscribing, in its backoff, in `Recv`, in a GET, in
the wait after a 429, in a dial, in a write. A build is one GET that fails, is throttled
or yields a frame; the several GETs of a block fail together. The stream drops with or
without what it carried, edges come and go, a write may fail half way, the role changes,
and the process is cancelled, at any time. `calm` ends these faults; only liveness
speaks of it. Marks do not age here. `reach`, `torn`, `late` and `sent` are history.

**Failover.** The primary is a process: the supervisor starts it, `main` refuses or runs
its error group, lanes and metrics endpoint bind or fail, `waitLanesBound` reads the
lanes one by one, a cancel makes each return, and the process exits or is killed. The
standby's probe and its reaction are two steps, with anything in between. The counters
saturate at the numbers that decide. `log`, `dark` and `bright` are history: the last
verdicts, and how many of them saw the current outage or uptime.

## The runs

Passing:

| Run | Instance | Shows |
| --- | --- | --- |
| `RegistryAgeing` | 4 keys, cap 2, ttl 4 ticks | `LiveBound`, `SurvivesHalfTTL`, `RecentKeepsDirection` |
| `BridgeConcurrent` | a remote subtree, the block naming it, an object of the cluster; a subtree and a block connection; registries that forget nothing; with fairness | `EchoSuppressed`, `NoReannounce`, `ServableWhenTold`, `SelfHealing` |
| `BridgeAgeing` | the subtree and the block, a block connection; cap 1, rotations on time, expiry, a cache for one object, restarts | `AnnouncedIsTold` |
| `TxPipe` | a parent and its child, any order; 2 builders, 1 slot, retries, all kinds of lines, cancel; with fairness | `Conservation`, `HonestAtShutdown`, `AcceptedLanded`, `BatchContract`, `Settles`, `Drains` |
| `DeliveryLossless` | a connection with 2 transactions, each twice, one in both forms, and an undecodable object; runs of 2, a queue of 1, a cache that rotates by size and time, or a nil one; with and without a drain; accept errors; with fairness | `TypeOK` (with the byte counts of the cache), `NothingSentLate`, `Lossless`, `DuplicateIsInGoodHands`, `HandedOnce`, `ShutdownEnds`, `AdmittedReachesPipe` |
| `Serving` | a subtree and two blocks, a shard for the subtree and one block, every route for every hash; lists of up to 3 ids, 2 of which are read | `TypeOK` (with the byte count of the cache), `HonestBody`, `MissIsEarned`, `ImplementsStore`; and over 294 block bodies `RoundTrip`, `TruncationRefused` |
| `Failover` | 2 lanes, one with a passed socket; 2 probes promote, 3 demote; with fairness | `ReadyMeansBound`, `LagBounded`, `RoleByStreak`, `RoleSettles`, `LostLaneShows`, `NoLimbo` |
| `Uplink` | 2 objects, 2 addresses, with fairness; no deadlock check, since `Run` returns | `Framed`, `LateBounded`, `ExhaustedIsHonest`, `KeepsTrying`, `RunReturns` |

`ImplementsStore` is a refinement: the list of `ObjectCache`, its expired entries left
out, implements `ObjectStore` (`INSTANCE ObjectStore WITH objects <- Items(shard) \ shard.old`),
which is what `Bridge` works with, and a handler's `Put` is a `Put` there.

Violated, each a disagreement between the code and something the repository says of
it (quoted under `findings` in `PROJECT.json`):

| Run | What happens |
| --- | --- |
| `TxPipeCancelContract` | the shutdown drain builds a batch without the dependency check |
| `TxPipeInflated` | an error line without a bracketed txid is passed over, and the member it fails is counted accepted |
| `DeliveryAcceptError` | after an accept error `Serve` does not wait for its connections, and the pipe stops under them |
| `ServingDrain` | on a cancel the retrieval plane closes at once while the lanes drain: an object the edge had sent is announced and cannot be pulled |

The properties of the passing runs say around these what does hold, and the
conditions in them mark further limits of the code:

- `RecentKeepsDirection` ends at ttl/2 or after cap other writes: the rotation in a key's
  own `Mark` may then forget the key, which is inserted again in the caller's direction. An
  echo that `verifyEcho` has recognised may then be announced to the cluster. `Retained`
  excludes this from `EchoSuppressed`.
- `NoReannounce` is about handlers that start after an announcement is complete. Two
  connections may both pass `announced.Lookup` and announce one object twice.
- An object delivered between the origin filter and the registration is published as
  the cluster's own, and is not registered so, since `Mark` keeps the direction it finds.
- `SurvivesHalfTTL` is a lower bound. There is no upper one: a quiet shard does not
  rotate and keeps an entry past ttl.
- `ParentsApart` exempts `early` children, which may share a batch with their parent; the
  size half of `BatchContract` ends with the cancellation, because the drain appends
  whole runs.
- `AcceptedLanded` is about answers in which every line that fails a member brackets a
  txid, in a retry one of the batch (`blurred = 0`). Without that `NeverInflated` fails.
- `ServableWhenTold` is about a cache with room for everything (`Roomy`). In a smaller one
  the `Put` of another handler may evict an object before it is announced, and a frame
  larger than a shard is evicted by its own `Put` and announced all the same.
- `HandedOnce` is about an enabled transaction cache; a nil one hands every copy on. It
  ends when a rotation drops the entry, be it the rotation in the `Admit` of the very copy
  it should have recognised.
- A generation of the transaction cache exceeds its share by its last entry, although
  `cache/generational.go:37` and `:45` say that the live total is bounded by `MaxBytes`.
  `TypeOK` has the counts and claims no bound.
- `HonestBody` is about hashes asked for on a route of their class and about lists of ids
  that are read whole. A block's hash on `/subtree` is answered 200 with bytes of the block
  and a subtree's hash on `/block` may be answered 500, against the two rules at the top of
  `retrieval/server.go`; a longer list is answered 200 for what was read, although "the
  count must match exactly" (`retrieval/server.go:276`). The model has all three.
- `TruncationRefused` excepts the cut of a Teranode block right behind its height, which the
  format allows and which costs the BUMP.
- `ImplementsStore` lets any entry lapse at any time, as ttl does; that a live entry is
  not lost otherwise is `MissIsEarned`.
- An object whose send failed stays registered and is not offered again while its mark
  lives; `internal/submit/uptunnel.go:70-73` speaks of a retry of the caller, which
  `reverse/reverse.go:354-358` does not make. No property takes a side.
- `KeepsTrying` promises nothing for an object that is not announced again after its ladder
  was exhausted: `docs/architecture.md:498` says that it is not published.
- `LateBounded` allows one write: the role is checked before the build and not again.
- `ReadyMeansBound` excludes a lane that has failed, since nothing takes the ready flag
  back; `LostLaneShows` says that the primary does not stay so.

**Bounds.** The registry instance has more keys than two generations hold, so
capacity rotations, time rotations and their mixtures all occur. A hazard of the
object plane needs at most two handlers and the reverse path on one object; in
`BridgeConcurrent` the subtree and the block handler meet on the subtree the block
names. It keeps the registries from forgetting because its properties are about
races, not about forgetting; `Retained` states that condition in the properties.
Several connections of one kind are left to the proofs, which cover any number.
In `TxPipe` a parent and its child fill a batch, meet in one or go to different builders, and
each may be settled by a partial answer and a retry; a byte limit that seals a batch
before it has its number of transactions is left to the proofs. `DeliveryLossless` has one
connection, which is its own duplicate: two are beyond what TLC finishes in minutes, and
`Lossless`, `DuplicateIsInGoodHands`, `HandedOnce` and `NothingSentLate` are proved for any
number.
In `Serving` the subtree and one of the two blocks fit, so the other block evicts; the bodies of
`Frames` stand on both sides of every CompactSize boundary. In `Failover` the two
thresholds differ, so that a swap shows. In `Uplink` two addresses let a pass wrap around
from any cursor.
Names: `Cap` bounds a generation, `Old` and `Many` saturate the history of `Registry`,
`RunCap` is `BatchCap`, `Backoffs` the length of the 429 ladder and `MaxPosts` the two posts of `submit`; `Deciding` is the length of the history of verdicts, `LateCap` the
number at which `late` stops counting, `Ladder` the length of the asset client's ladder.
Nothing else is cut off by a bound: every other counter is bounded by the number of
objects, transactions or addresses.

**Fairness.** In `Bridge`: a called handler goes on (`WF`; it runs under a context
without cancellation and every call in it has a timeout); an announcement that is
tried again and again succeeds at some time (`SF`; Kafka is not down for ever); the
fabric does not give up redelivering a remote object (`SF`). The last two belong to
the environment, and the statement is only about objects that are redelivered: the
code does not retry an announcement by itself. In `TxPipe`: builders and goroutines
that can run do (`WF`); a post ends because the client has a timeout. No fairness is
assumed of the lanes, of the service's answers or of cancellation. In `Delivery`:
goroutines that can run do, the read deadline expires, and a failed `Serve` cancels the
group (`errgroup`); nothing is assumed of the edge. In `Failover`: the goroutines of
a running group get on, an error of one cancels the group, the ticker ticks and a probe
ends (the client has a timeout); nothing is assumed of the supervisor, of signals or of
the path. In `Uplink`: `Run` goes on (`WF` of its step: every call in it has a timeout or
ends with the context), and the stream's notifications are taken; nothing is assumed of
what the cluster announces. `KeepsTrying` is about the time after the faults, and `calm`
need never come. `Serving` states no fairness and checks safety only.

## The proofs

All are for every value of the constants that satisfies the named assumptions
(`KeyAssumption`, `MaxEntriesAssumption`, `TTLAssumption`, `ObjectAssumption`,
`ModeAssumption`, `CacheAssumption`, `PipeAssumption`, `TxCacheAssumption`,
`DeliveryAssumption`, `ObjectCacheAssumption`, `FramesAssumption`, `ServingAssumption`,
`UplinkAssumption`, `FailoverAssumption`). They say that the objects and transactions are
finitely many, that sizes and limits are natural numbers, the limits positive, that no
transaction is its own parent, and what kinds of objects there are. Hashes and headers have
any fixed length, a subtree at least one node, and the bodies of `RoundTrip` no all-zero
root, which `Block.Encode` refuses; the blocks that are served may have one.
The types of `Registry`, `Bridge`, `Uplink`, `Failover` and `TxPipe` are proved
(`TypeCorrect`, in `TxPipeProofs` `Typed`) and not checked again by a run; those of
`Delivery` and `Serving` carry byte counts and are both checked and proved.

A size is a number, but the bytes of a set of objects are defined as the number of its
pairs of an object and a byte of it. Sums of sizes are then cardinalities of unions, for
which the library of TLAPS has what is needed and no induction is. In the same way the
number of settled transactions is compared with the cardinality of a set of transactions.

- `RegistryProofs`. `LiveBound` and `OneDirection` are inductive with the types.
  `SurvivesHalfTTL` is not: it needs where a key is. The inductive invariant adds
  that a recently marked key is in `cur`, or in `prev` with the writes since its
  mark accounted for by the entries of `cur` and the ticks since by `since`.
- `BridgeProofs`. `AnnouncedTruthful` strengthens the invariant by what a handler
  that is about to record must know (`JobClaims`): at `record` the object was told,
  at `rootTold` a received block names the root. It holds with rotation, expiry and
  restarts. The other four rest on `MemoryInv`, which holds while `Retained` does:
  everything the history sets name is in the registry, and a handler past its mark
  holds an object that `seen` does not know as submitted; a later `Mark(Submitted)`
  cannot change that because `Mark` keeps the direction of a known key.
  `StoredBeforeTold` rests on `StoreInv`: in a cache with room for everything
  (`Roomy`), an object is there from its handler's `Put` on.
- `TxPipeProofs`. `ids` is exactly the content of the open batch until the pipe is
  cancelled (`Sound`): then a transaction that passes the dependency check may be appended
  without standing behind its parent, which `BatchContract` needs. The theorems rest on `PipeInv`, which says where a transaction is. `PlaceInv`:
  a transaction on its way is in one queued run, in the run in hand, in the open batch, in
  the sealed one or with one goroutine, and where a builder stands says which of these are
  empty (`Control`); that is what makes `HonestAtShutdown` true when `wg.Wait` returns.
  `CountInv`: the counters add up to the transactions that are in none of these places,
  and acceptance is covered by those of them that landed as long as nothing is blurred. The lemmas
  on the answers show that a step of `submit`, `settlePartial` or `retryBatch` splits the jobs
  of its goroutine into those it keeps and those it settles, and counts the latter once
  (`Outcome`). `OrderInv` is for `BatchContract`: until the cancellation what a builder
  holds lies in the order in which it was handed over, `early` children aside, and a batch
  is not full before it is sealed. What is used of cardinalities is stated once
  (`Counting`) and derived from the library at the end (`Counted`).
- `DeliveryProofs`. `Lossless` speaks of the end only. `Inv` says where a transaction
  is before: what the edge wrote on a connection that has not failed is on the wire, in
  the reader, or `InHands`, that is in some connection's run, in the queue or with the
  pipe (`Accounted`); everything the cache holds is `InHands`, so a copy it refuses may
  be dropped; no step takes anything out of hands. `StopOrder` and `Flushed` say that at
  the end runs and queue are empty, which leaves only the pipe.
  `HandedOnce` needs the opposite, `OnceInv`: a transaction no rotation has dropped is at
  one place in one run, or at one place in one run of the queue, or was taken once, and
  while it is anywhere the cache knows it, so that `Admit` refuses the next copy (`Lone`).
  `OnceInv` also carries the capacities of runs and queue and the byte counts of the two
  generations.
- `FailoverProofs`. `LagBounded` needs `GapInv` and `OverlapInv`: every probe that saw the
  current outage is in the current streak (`dark <= fails`), a full streak has the role,
  and a pending verdict or an answering primary contradicts an outage in progress.
  `RoleByStreak` needs that the counters are streaks at the front of the history
  (`StreakInv`). `ReadyMeansBound` needs `ReadyInv`: what `waitLanesBound` has counted was
  bound, and a lane leaves that state only by a failure or after a cancel.
- `UplinkProofs`. `Framed` needs that a torn stream is closed,
  `LateBounded` that from the check of the role to the write there is no earlier late
  write. `ExhaustedIsHonest` needs `PassInv`: an address that accepted all along is among
  the `Addrs - dials` addresses from the cursor on, around the end of the list.
- `ServingProofs`. `TypeOK`, `MissIsEarned` and `ImplementsStore` rest on `ServeInv`. `Sound`: the list names no
  object twice, its count is the bytes of its members and within the capacity. `Agrees`
  ties the list to the history: an entry has no more before it in the list than was used
  since its own last use, the entries past their ttl are the lapsed ones, and an object
  that is gone before its ttl was crowded out, that is the objects used since its last use
  exceed the shard together with it. Crowded out is what a later `Put` or `Get` must not
  undo: it only adds to the objects used since, unless it is of that very object. The
  theorems need what `EvictLocked` does to any list (`Evicted`): it keeps the longest
  front that fits. The refinement is shown step by step: `Put` maps to `Put`, `Lapse`
  to `Lapse`, and a `Get`, which may refresh an entry or remove an expired one, to a
  stutter.

- `RetrievalProofs`. `BlocksSurvive` and `CutBlocksRefused` are about one block and
  imply `RoundTrip` and `TruncationRefused`. Both sides are laid out: the nine parts of a
  frame and of a Teranode block stand at places that are sums of lengths (`FrameIs`,
  `WireIs`), a varint is read where `AppendVarInt` wrote it and nowhere else
  (`VarIntIs`, `ReadAt`, `ReadCut`), and the roots lie behind each other (`FlattenLays`).
  `FromTeranode` of any front of the bytes (`Cut`) is then decided by which places it
  reaches (`FromCut`, `FromWhole`), `ToTeranode` likewise (`ToWhole`, `ToCut`). Of
  `TxSize` three facts are used: it spans one transaction, whatever follows does not
  change it, and it fails on a proper front of one (`TxIs`, `TxWhole`, `TxCut`).
  `AnswersAreWhole` needs `HonestInv`: for a request that `HonestBody` speaks of (`Own`), in
  the walk over the members the ids to do are those behind the first `i`, and the body is
  what these leave without the coinbase (`Through`). A list of hashes may have any
  length, so these theorems need induction. The library's induction theorems take the
  property as an operator, which the provers cannot instantiate; here the property is a set
  of numbers, and induction comes from the well-foundedness of `<` (`SetInduction`, from
  `WFMin`). In this way the recursive functions of the model are shown to exist
  (`FirstsExist`, `KeepsExist`) and what they compute is derived.

Also proved, and not repeated by a run: `OneDirection` (a key in both generations of a
registry has one direction), `OriginFilter` and `SentIsKnown` of `Bridge`.

Only model-checked: liveness (`SelfHealing`, `Settles`, `Drains`, `ShutdownEnds`,
`AdmittedReachesPipe`, `RoleSettles`, `LostLaneShows`, `NoLimbo`, `KeepsTrying`, `RunReturns`), which needs
fairness and `ENABLED` and is out of the prover's reach. Every invariant and every action
property of a passing run is proved.

## Not modelled

- The cluster state poll: two gauges and two last values that a health line prints. After
  a failed poll the gauge says unknown while the line goes on with the last value; no
  decision reads either.
- The width of `int` in the codecs: a count from the wire is multiplied by 32 before it is
  compared with the length. The model's counts stand at 2^24 and do not wrap.
- The first-pull tracker: a capped map that feeds one histogram, which nothing reads back.
- The health surface, a function of the moment without state of its own. By reading:
  `Bool` is evaluated for liveness too, so `/health/liveness` fails until the lanes are
  bound, although `docs/architecture.md:573` calls it "process liveness only".
- Two connections of the transaction lane under TLC, as said under the bounds.
- What Go does on a misuse of `sync.WaitGroup`: the builders of the pipe share one, and a
  builder that seals late adds to it from zero while another waits.
- The parsing of flags and of the socket
  activation environment, message encoding for Kafka, headers of HTTP answers.
- Dialling options, metrics, tracing and Kafka hooks (nothing reads what they record),
  generated code, benchmarks and CI.
