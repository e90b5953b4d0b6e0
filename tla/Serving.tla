-------------------------------- MODULE Serving --------------------------------
(***************************************************************************)
(* What follows an announcement: the cluster pulls the object from the      *)
(* retrieval plane (retrieval/server.go), which reads the object cache the  *)
(* lane handlers write (main.go).                                           *)
(*                                                                          *)
(* A step is one access to a structure behind a lock, or one call out of    *)
(* the process.  The registries that decide whether a handler announces are *)
(* Bridge's matter: here it may or may not.  The transaction cache may have *)
(* rotated any member out (TxCache), so a lookup finds it or not.           *)
(***************************************************************************)
EXTENDS Frames, ObjectCache

CONSTANTS
  Nodes,        \* [Subtree -> Seq(hash)]: the members of a subtree, in order
  BlockOf,      \* [Block -> block record]
  Placeholder,  \* the hash that stands for the coinbase in a subtree
  BodyIds,      \* the ids that fit into what is read of a txs request, a whole number
  None          \* stands for "no object"

Subtree == DOMAIN Nodes
Block == DOMAIN BlockOf

\* The frames the lanes deliver.  The lane checks that a frame is as long as it says
\* and nothing else: a block of another cluster may name an all-zero root.
FrameOf(k) == IF k \in Subtree THEN EncodeSubtree(k, Nodes[k]) ELSE BlockFrame(BlockOf[k])

ASSUME ServingAssumption ==
  /\ Key \subseteq Hash /\ Key = Subtree \cup Block /\ Subtree \cap Block = {}
  /\ \A k \in Subtree : Nodes[k] \in Seq(Hash) \ {<<>>}
  /\ \A k \in Block : BlockOf[k] \in Block144
  /\ None \notin Key
  /\ BodyIds \in Nat \ {0}
  /\ SubtreeHeader <= PrefixLen

VARIABLES
  shard,      \* the object cache
  job,        \* the lane's handler call in progress
  pull,       \* the request being served
  plane,      \* the retrieval listener
  cancelled,  \* the context of the error group
  lane,       \* "up" until the lane has drained and returned
  recent,     \* history: the objects stored or found, latest first, evicted ones included
  lapsed      \* history: the objects whose ttl has passed since they were stored

group == <<plane, cancelled, lane>>
history == <<recent, lapsed>>
vars == <<shard, job, pull, group, history>>

Routes == {"subtree", "subtree_data", "txs", "block", "other"}
NoJob == [pc |-> "idle", obj |-> None]
NoPull == [pc |-> "idle", route |-> "other", obj |-> None, ids |-> <<>>, todo |-> <<>>,
           body |-> <<>>, code |-> 0, earned |-> TRUE]

Init ==
  /\ shard = NewShard
  /\ job = NoJob
  /\ pull = NoPull
  /\ plane = "off"
  /\ cancelled = FALSE
  /\ lane = "up"
  /\ recent = <<>>
  /\ lapsed = {}

Use(k) == recent' = ToFront(recent, k)

-----------------------------------------------------------------------------
(* A lane connection: the handler caches the frame, then announces it.  It goes on *)
(* doing so after a cancel, until the edge has closed the connection.              *)

Deliver(k) ==
  /\ lane = "up"
  /\ job.pc = "idle"
  /\ job' = [pc |-> "put", obj |-> k]
  /\ UNCHANGED <<shard, pull, group, history>>

\* The handler returns without announcing an echo or what was announced before.
Store(announces) ==
  /\ job.pc = "put"
  /\ shard' = Put(shard, job.obj)
  /\ Use(job.obj)
  /\ lapsed' = lapsed \ {job.obj}
  /\ job' = IF announces THEN [job EXCEPT !.pc = "announce"] ELSE NoJob
  /\ UNCHANGED <<pull, group>>

\* The produce is acknowledged, or fails.
Announce(ok) ==
  /\ job.pc = "announce"
  /\ job' = IF ok THEN [job EXCEPT !.pc = "told"] ELSE NoJob
  /\ UNCHANGED <<shard, pull, group, history>>

\* The cluster has been told; the handler returns.
Told ==
  /\ job.pc = "told"
  /\ job' = NoJob
  /\ UNCHANGED <<shard, pull, group, history>>

-----------------------------------------------------------------------------
(* The retrieval plane. *)

isPlaceholder(id) == id = Placeholder
toStandard(id) == <<"std", id>>

Reply(code) == pull' = [pull EXCEPT !.pc = "reply", !.code = code]

\* A request for which the answer does not depend on what is held: a hash that does
\* not parse, a txs body that is no whole number of ids or breaks off, a route not
\* served.
Refuse(code) ==
  /\ plane = "listening"
  /\ pull.pc = "idle"
  /\ Reply(code)
  /\ UNCHANGED <<shard, job, group, history>>

\* The elements of a list up to k.
Upto(q, k) == {q[i] : i \in 1..Place(q, k)}

\* Why Get may not find k: it was never stored, its ttl has passed, or the objects
\* used since its last use leave it no room.
MayMiss(k) ==
  \/ k \notin Range(recent) \ lapsed
  \/ Bytes(Upto(recent, k)) > MaxShardBytes

\* What a route makes of the frame it has found, of whatever class that is: subtrees
\* and blocks are in one cache and no route looks at the class.
Found(route, k) ==
  LET req == [NoPull EXCEPT !.route = route, !.obj = k]
      nodes == From(FrameOf(k), SubtreeHeader)
      block == ToTeranode(FrameOf(k))
  IN  CASE route = "subtree" /\ Len(FrameOf(k)) >= SubtreeHeader ->
           [req EXCEPT !.pc = "reply", !.code = 200, !.body = nodes]
        [] route = "subtree_data" -> [req EXCEPT !.pc = "member", !.todo = nodes]
        [] route = "block" /\ block # Refused ->
           [req EXCEPT !.pc = "reply", !.code = 200, !.body = block]
        [] OTHER -> [req EXCEPT !.pc = "reply", !.code = 500]

\* A pull starts with the cache's Get of the hash in its path.
Pull(route, k) ==
  /\ plane = "listening"
  /\ pull.pc = "idle"
  /\ route \in {"subtree", "subtree_data", "block"}
  /\ LET key == ParseDisplay(Display(k))
         hit == Has(shard, key)
     IN  /\ shard' = AfterGet(shard, key)
         /\ recent' = IF hit THEN ToFront(recent, key) ELSE recent
         /\ pull' = IF hit THEN Found(route, key)
                    ELSE [NoPull EXCEPT !.pc = "reply", !.route = route, !.obj = k,
                                        !.code = 404, !.earned = MayMiss(k)]
  /\ UNCHANGED <<job, group, lapsed>>

\* A list of ids without the coinbase's: what its first n leave, for every n.
Kept(q) ==
  LET kept[n \in 0..Len(q)] ==
        IF n = 0 THEN <<>>
        ELSE IF isPlaceholder(q[n]) THEN kept[n - 1] ELSE Append(kept[n - 1], q[n])
  IN  kept
Members(q) == Kept(q)[Len(q)]

\* What the cluster sends to /subtree/{hash}/txs: members of a subtree that it lacks,
\* if any.
Batches ==
  UNION {LET txs == Members(Nodes[k])
         IN  {SubSeq(txs, i, j) : i \in DOMAIN txs, j \in DOMAIN txs} : k \in Subtree}

\* What LimitReader leaves of a list of ids: whatever is behind the limit is dropped
\* without a word.
Limited(ids) == SubSeq(ids, 1, IF Len(ids) <= BodyIds THEN Len(ids) ELSE BodyIds)

\* The hash in the path of a txs request is not looked at.
PullTxs(ids) ==
  /\ plane = "listening"
  /\ pull.pc = "idle"
  /\ pull' = [NoPull EXCEPT !.pc = "member", !.route = "txs", !.ids = ids,
                !.todo = Flatten(Limited(ids))]
  /\ UNCHANGED <<shard, job, group, history>>

\* What the transaction cache may hold: nothing but transactions.
Txids == UNION {Range(Members(Nodes[k])) : k \in Subtree}

\* Mutant: a member that is not held is left out.
MemberSkipped(tx) ==
  /\ pull.pc = "member"
  /\ Len(pull.todo) >= HashLen
  /\ LET id == Slice(pull.todo, 0, HashLen)
         rest == From(pull.todo, HashLen)
     IN  pull' = IF (pull.route = "subtree_data" /\ isPlaceholder(id)) \/ tx # "held"
                 THEN [pull EXCEPT !.todo = rest]
                 ELSE [pull EXCEPT !.todo = rest, !.body = Append(@, toStandard(id))]
  /\ UNCHANGED <<shard, job, group, history>>

\* One txs.Get; the extended form that is held goes out in standard form, unless the
\* conversion fails.
Member(tx) ==
  /\ pull.pc = "member"
  /\ Len(pull.todo) >= HashLen
  /\ LET id == Slice(pull.todo, 0, HashLen)
         rest == From(pull.todo, HashLen)
     IN  /\ tx = "missing" \/ id \in Txids
         /\ IF pull.route = "subtree_data" /\ isPlaceholder(id)
            THEN pull' = [pull EXCEPT !.todo = rest]
            ELSE IF tx = "held"
            THEN pull' = [pull EXCEPT !.todo = rest, !.body = Append(@, toStandard(id))]
            ELSE Reply(IF tx = "missing" THEN 404 ELSE 500)
  /\ UNCHANGED <<shard, job, group, history>>

\* The loop ends where no whole id is left.
MembersDone ==
  /\ pull.pc = "member"
  /\ Len(pull.todo) < HashLen
  /\ Reply(200)
  /\ UNCHANGED <<shard, job, group, history>>

\* The answer goes out.
Written ==
  /\ pull.pc = "reply"
  /\ pull' = NoPull
  /\ UNCHANGED <<shard, job, group, history>>

-----------------------------------------------------------------------------
(* Time, start and stop. *)

\* An entry passes its ttl.
Lapse(k) ==
  /\ Has(shard, k)
  /\ shard' = Expire(shard, k)
  /\ lapsed' = lapsed \cup {k}
  /\ UNCHANGED <<job, pull, group, recent>>

\* Server.Serve listens, or returns an error that cancels the group.
Listen(ok) ==
  /\ plane = "off"
  /\ plane' = IF ok THEN "listening" ELSE "failed"
  /\ cancelled' = (cancelled \/ ~ok)
  /\ UNCHANGED <<shard, job, pull, lane, history>>

Cancel ==
  /\ ~cancelled
  /\ cancelled' = TRUE
  /\ UNCHANGED <<shard, job, pull, plane, lane, history>>

\* Shutdown closes the listener at once; a request that is being served goes on.
Shutdown ==
  /\ cancelled
  /\ plane = "listening"
  /\ plane' = "closed"
  /\ UNCHANGED <<shard, job, pull, cancelled, lane, history>>

LaneReturns ==
  /\ cancelled
  /\ lane = "up"
  /\ job.pc = "idle"
  /\ lane' = "returned"
  /\ UNCHANGED <<shard, job, pull, plane, cancelled, history>>

\* g.Wait returns; there is nothing left to do.
Exit ==
  /\ cancelled
  /\ lane = "returned"
  /\ plane \in {"closed", "failed"}
  /\ UNCHANGED vars

Next ==
  \/ \E k \in Key : Deliver(k) \/ Lapse(k)
  \/ \E ids \in Batches : PullTxs(ids)
  \/ \E ok \in BOOLEAN : Store(ok) \/ Announce(ok) \/ Listen(ok)
  \/ \E tx \in {"held", "missing", "broken"} : Member(tx)
  \/ \E route \in Routes, k \in Key : Pull(route, k)
  \/ \E code \in {400, 404, 500} : Refuse(code)
  \/ MembersDone
  \/ Told
  \/ Written
  \/ Cancel
  \/ Shutdown
  \/ LaneReturns
  \/ Exit

Spec == Init /\ [][Next]_vars

-----------------------------------------------------------------------------
(* Properties. *)

\* Every variable keeps its type, and the cache's count is the bytes of its list.
TypeOK ==
  /\ shard \in Shard
  /\ shard.bytes = Bytes(Items(shard))
  /\ shard.old \subseteq Items(shard)
  /\ job \in [pc : {"idle", "put", "announce", "told"}, obj : Key \cup {None}]
  /\ pull.pc \in {"idle", "member", "reply"}
  /\ pull.route \in Routes /\ pull.obj \in Key \cup {None}
  /\ pull.code \in {0, 200, 400, 404, 500}
  /\ plane \in {"off", "listening", "closed", "failed"}
  /\ cancelled \in BOOLEAN
  /\ lane \in {"up", "returned"}

\* The LRU list as the store the handlers of Bridge rely on.
StoreView == INSTANCE ObjectStore WITH objects <- Items(shard) \ shard.old,
                                       CacheBytes <- MaxShardBytes, Ageing <- TRUE

\* The LRU list implements that store, and a handler's Put is a Put of it: the object
\* is there right after it unless it alone exceeds the shard, nothing appears without
\* a Put, and what is served always fits.
ImplementsStore ==
  /\ StoreView!Spec
  /\ [][job.pc = "put" /\ job'.pc # "put" => StoreView!Put(job.obj)]_vars

\* A list of ids as the cluster wants their transactions.
Standard(ids) == [i \in DOMAIN ids |-> <<"std", ids[i]>>]

\* All or nothing: a 200 carries exactly what was asked for, although members are
\* looked up one by one while the cache rotates: every node of a subtree, every member
\* but the coinbase once and in order, every transaction of a list, the block as it was
\* mined.  This is about hashes asked for on a route of their own class and about lists
\* that are read whole; /subtree/{hash of a block} and a list beyond BodyIds are
\* answered 200 as well, and the model keeps both.
HonestBody ==
  pull.pc = "reply" /\ pull.code = 200 =>
    CASE pull.route = "subtree" ->
           pull.obj \in Subtree => pull.body = Flatten(Nodes[pull.obj])
      [] pull.route = "subtree_data" ->
           pull.obj \in Subtree => pull.body = Standard(Members(Nodes[pull.obj]))
      [] pull.route = "txs" ->
           Len(pull.ids) <= BodyIds => pull.body = Standard(pull.ids)
      [] pull.route = "block" ->
           pull.obj \in Block => FromTeranode(pull.body) = BlockOf[pull.obj]
      [] OTHER -> FALSE

\* Whatever block the listening plane is asked for, its conversion loses nothing, for
\* counts on both sides of every CompactSize boundary and with or without roots and a
\* BUMP (tnwire: "a round trip through the pair must be lossless").
RoundTrip == plane = "listening" => AllSurvive

\* Nor does a cut go unnoticed: the listening plane does not serve a frame that lost
\* its end, anywhere, and a Teranode block that did is refused, except for the cut right
\* behind its height, which the format allows and which costs the BUMP and nothing else.
TruncationRefused == plane = "listening" => AllCutsRefused

\* An object that was stored is answered 404 only after its ttl, or when objects used
\* more recently leave it no room in its shard; pulls are uses.
MissIsEarned == pull.pc = "reply" => pull.earned

\* docs/architecture.md: "the bridge keeps reading and handling until the edge closes,
\* so nothing the edge already sent is dropped".  For a subtree or a block, handled is
\* announced and then pulled, so no announcement may follow the retrieval plane's end.
DrainedIsPullable == job.pc = "told" => plane # "closed"
================================================================================
