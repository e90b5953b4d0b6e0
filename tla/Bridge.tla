-------------------------------- MODULE Bridge --------------------------------
(***************************************************************************)
(* The object plane of the bridge: the subtree and block handlers of        *)
(* cmd/teranode-bridge/main.go, one goroutine per lane connection, running  *)
(* against the reverse path of reverse/reverse.go, one goroutine.  They     *)
(* share three structures, each behind a lock of its own: the object cache  *)
(* and the registries `seen` and `announced`.  A step is one access to one  *)
(* of them or one call out of the process, so everything read before such a *)
(* call may be stale after it.                                              *)
(*                                                                          *)
(* The registries are the shards of Generations.  The cache is the set of   *)
(* hashes Get would find, as ObjectStore specifies it.                      *)
(***************************************************************************)
EXTENDS Generations

CONSTANTS
  NoObj,        \* stands for "no object"
  Block,        \* the keys that are blocks; the others are subtrees
  Roots,        \* [Block -> SUBSET Subtree]: the subtrees a block names
  Local,        \* the objects this cluster produces itself
  SubtreeConn,  \* connections on the subtree lane
  BlockConn,    \* connections on the block lane
  Sink,         \* BOOLEAN: no announcer is configured (producer == nil)
  MineTag,      \* BOOLEAN: -mine-tag is set
  Size,         \* [Key -> Nat]: frame bytes
  CacheBytes,   \* the object cache's bytes for this shard
  Ageing,       \* BOOLEAN: ttl/2, and the cache's ttl, may run out
  MayCrash      \* BOOLEAN: the process may be restarted

Subtree == Key \ Block
Conn == SubtreeConn \cup BlockConn

ASSUME ObjectAssumption ==
  /\ NoObj \notin Key
  /\ Block \subseteq Key
  /\ Local \subseteq Key
  /\ Roots \in [Block -> SUBSET Subtree]
  /\ SubtreeConn \cap BlockConn = {}
ASSUME ModeAssumption ==
  /\ Sink \in BOOLEAN
  /\ MineTag \in BOOLEAN
  /\ Ageing \in BOOLEAN
  /\ MayCrash \in BOOLEAN
ASSUME CacheAssumption == Size \in [Key -> Nat] /\ CacheBytes \in Nat

VARIABLES
  seen,       \* registry: has this hash crossed the bridge, and which way
  announced,  \* registry: has the cluster been told
  elapsed,    \* the registries whose ttl/2 has run out since their last rotation
  objects,    \* the hashes the object cache holds
  job,        \* per lane connection: the handler call in progress
  rev,        \* the reverse path's notification in progress
  told,       \* environment: the hashes whose announcement reached the cluster
  accepted,   \* environment: the hashes the cluster has notified
  sentUp,     \* environment: the hashes the fabric took from this bridge
  boxed,      \* history: the blocks a handler has received
  handled,    \* history: the hashes the lane handlers of this process marked
  done,       \* history: the hashes whose announcement this process completed
  sent        \* history: the hashes this process published

registers == <<seen, announced, elapsed>>
history == <<boxed, handled, done, sent>>
environment == <<told, accepted, sentUp>>
vars == <<registers, objects, job, rev, environment, history>>

HandlerPC == {"idle", "put", "roots", "rootTold", "mark", "gate", "refresh",
              "announce", "record"}
ReversePC == {"idle", "build", "register", "store", "send"}

Job == [pc : HandlerPC, obj : Key \cup {NoObj}, todo : SUBSET Key,
        root : Key \cup {NoObj}, late : BOOLEAN]
Rev == [pc : ReversePC, obj : Key \cup {NoObj}, stale : BOOLEAN]

NoJob == [pc |-> "idle", obj |-> NoObj, todo |-> {}, root |-> NoObj,
          late |-> FALSE]
NoRev == [pc |-> "idle", obj |-> NoObj, stale |-> FALSE]

Init ==
  /\ seen = NewShard
  /\ announced = NewShard
  /\ elapsed = {}
  /\ objects = {}
  /\ job = [c \in Conn |-> NoJob]
  /\ rev = NoRev
  /\ handled = {}
  /\ done = {}
  /\ sent = {}
  /\ told = {}
  /\ accepted = {}
  /\ sentUp = {}
  /\ boxed = {}

-----------------------------------------------------------------------------
(* The shared structures. *)

MarkSeen(k, dir) ==
  /\ seen' = Mark(seen, k, dir, "seen" \in elapsed)
  /\ elapsed' = elapsed \ {"seen"}
  /\ UNCHANGED announced

MarkAnnounced(k) ==
  /\ announced' = Mark(announced, k, Delivered, "announced" \in elapsed)
  /\ elapsed' = elapsed \ {"announced"}
  /\ UNCHANGED seen

\* The object cache, as the set of what Get would find.
Cache == INSTANCE ObjectStore

-----------------------------------------------------------------------------
(* handleSubtree and handleBlock. *)

Goto(c, pc) == job' = [job EXCEPT ![c].pc = pc]
Return(c) == job' = [job EXCEPT ![c] = NoJob]

\* The fabric delivers a remote object at any time and as often as it likes, and
\* an object of this cluster only after the bridge has published it.
Deliverable(c, o) ==
  /\ o \in IF c \in BlockConn THEN Block ELSE Subtree
  /\ o \in Local => o \in sentUp

\* A frame is read; verifyEcho compares it with the cached copy and decides nothing.
\* `late` remembers that an earlier handler of this process had already told the
\* cluster.
Deliver(c, o) ==
  /\ job[c].pc = "idle"
  /\ Deliverable(c, o)
  /\ job' = [job EXCEPT ![c] = [pc |-> "put", obj |-> o, todo |-> {}, root |-> NoObj,
                                late |-> o \in done]]
  /\ boxed' = boxed \cup ({o} \cap Block)
  /\ UNCHANGED <<registers, objects, rev, environment, handled, done, sent>>

\* Mutant: the frame is not kept.
PutNothing(c) ==
  /\ job[c].pc = "put"
  /\ job' = [job EXCEPT ![c].pc = IF job[c].obj \in Block THEN "roots" ELSE "mark"]
  /\ UNCHANGED <<registers, objects, rev, environment, history>>

\* objects.Put; a block frame whose roots do not parse marks none of them.
Put(c) ==
  /\ job[c].pc = "put"
  /\ Cache!Put(job[c].obj)
  /\ IF job[c].obj \in Block
     THEN \E roots \in {Roots[job[c].obj], {}} :
            job' = [job EXCEPT ![c].pc = "roots", ![c].todo = roots]
     ELSE Goto(c, "mark")
  /\ UNCHANGED <<registers, rev, environment, history>>

\* The loop over a block's roots marks each in both registries.
MarkRootSeen(c) ==
  /\ job[c].pc = "roots"
  /\ \E r \in job[c].todo :
       /\ MarkSeen(r, Delivered)
       /\ handled' = handled \cup {r}
       /\ job' = [job EXCEPT ![c].pc = "rootTold", ![c].root = r]
  /\ UNCHANGED <<objects, rev, environment, boxed, done, sent>>

MarkRootAnnounced(c) ==
  /\ job[c].pc = "rootTold"
  /\ MarkAnnounced(job[c].root)
  /\ job' = [job EXCEPT ![c].pc = "roots", ![c].root = NoObj,
                        ![c].todo = @ \ {job[c].root}]
  /\ UNCHANGED <<objects, rev, environment, history>>

RootsDone(c) ==
  /\ job[c].pc = "roots"
  /\ job[c].todo = {}
  /\ Goto(c, "mark")
  /\ UNCHANGED <<registers, objects, rev, environment, history>>

\* Mutants: an echo is announced like anything else; every object known to `seen`
\* is dropped, as before the registries were split.
MarkDeliveredBlind(c) ==
  /\ job[c].pc = "mark"
  /\ MarkSeen(job[c].obj, Delivered)
  /\ handled' = handled \cup {job[c].obj}
  /\ Goto(c, "gate")
  /\ UNCHANGED <<objects, rev, environment, boxed, done, sent>>

MarkDeliveredGates(c) ==
  /\ job[c].pc = "mark"
  /\ MarkSeen(job[c].obj, Delivered)
  /\ handled' = handled \cup {job[c].obj}
  /\ IF MarkAnswer(seen, job[c].obj, "seen" \in elapsed) # None
     THEN Return(c)
     ELSE Goto(c, "gate")
  /\ UNCHANGED <<objects, rev, environment, boxed, done, sent>>

\* seen.Mark, unconditionally; a hash known as submitted is our own echo.
MarkDelivered(c) ==
  /\ job[c].pc = "mark"
  /\ MarkSeen(job[c].obj, Delivered)
  /\ handled' = handled \cup {job[c].obj}
  /\ IF MarkAnswer(seen, job[c].obj, "seen" \in elapsed) = Submitted
     THEN Return(c)
     ELSE Goto(c, "gate")
  /\ UNCHANGED <<objects, rev, environment, boxed, done, sent>>

\* announced.Lookup; with no producer the object goes straight to the record.
Gate(c) ==
  /\ job[c].pc = "gate"
  /\ Goto(c, IF Known(announced, job[c].obj) THEN "refresh"
             ELSE IF Sink THEN "record" ELSE "announce")
  /\ UNCHANGED <<registers, objects, rev, environment, history>>

Refresh(c) ==
  /\ job[c].pc = "refresh"
  /\ MarkAnnounced(job[c].obj)
  /\ Return(c)
  /\ UNCHANGED <<objects, rev, environment, history>>

AnnounceOk(c) ==
  /\ job[c].pc = "announce"
  /\ told' = told \cup {job[c].obj}
  /\ Goto(c, "record")
  /\ UNCHANGED <<registers, objects, rev, accepted, sentUp, history>>

\* Mutant: the error is swallowed and the object recorded.
AnnounceFailRecorded(c) ==
  /\ job[c].pc = "announce"
  /\ Goto(c, "record")
  /\ UNCHANGED <<registers, objects, rev, environment, history>>

\* The produce reports an error; the record may have reached the broker all the same.
AnnounceFail(c) ==
  /\ job[c].pc = "announce"
  /\ told' \in {told, told \cup {job[c].obj}}
  /\ Return(c)
  /\ UNCHANGED <<registers, objects, rev, accepted, sentUp, history>>

\* Mutant: a success is not recorded.
RecordToldSkipped(c) ==
  /\ job[c].pc = "record"
  /\ done' = done \cup {job[c].obj}
  /\ Return(c)
  /\ UNCHANGED <<registers, objects, rev, environment, boxed, handled, sent>>

RecordTold(c) ==
  /\ job[c].pc = "record"
  /\ MarkAnnounced(job[c].obj)
  /\ done' = done \cup {job[c].obj}
  /\ Return(c)
  /\ UNCHANGED <<objects, rev, environment, boxed, handled, sent>>

Handle(c) ==
  \/ Put(c)
  \/ MarkRootSeen(c)
  \/ MarkRootAnnounced(c)
  \/ RootsDone(c)
  \/ MarkDelivered(c)
  \/ Gate(c)
  \/ Refresh(c)
  \/ AnnounceOk(c)
  \/ AnnounceFail(c)
  \/ RecordTold(c)

-----------------------------------------------------------------------------
(* The reverse path: Subscriber.handle and publish. *)

\* The cluster notifies any object it holds, its own or one it got from a peer.
\* active and ready are atomics other goroutines own (the promoter, the lanes).
\* `stale` remembers that the object had already crossed the bridge.
Notify(o, active, ready) ==
  /\ rev.pc = "idle"
  /\ accepted' = accepted \cup {o}
  /\ rev' = IF ~Known(seen, o) /\ active /\ ready
            THEN [pc |-> "build", obj |-> o, stale |-> o \in handled \cup sent]
            ELSE rev
  /\ UNCHANGED <<registers, objects, job, told, sentUp, history>>

\* Built and ours to publish: with a mine tag, a block mined elsewhere is not.
BuildOk ==
  /\ rev.pc = "build"
  /\ rev' = IF MineTag /\ rev.obj \in Block \ Local
            THEN NoRev
            ELSE [rev EXCEPT !.pc = "register"]
  /\ UNCHANGED <<registers, objects, job, environment, history>>

\* The asset API fails, or does not hold the whole object; or the coinbase does
\* not parse.
BuildFail ==
  /\ rev.pc = "build"
  /\ rev' = NoRev
  /\ UNCHANGED <<registers, objects, job, environment, history>>

\* seen.Mark(Submitted): its answer is not looked at.
Register ==
  /\ rev.pc = "register"
  /\ MarkSeen(rev.obj, Submitted)
  /\ rev' = [rev EXCEPT !.pc = "store"]
  /\ UNCHANGED <<objects, job, environment, history>>

Store ==
  /\ rev.pc = "store"
  /\ Cache!Put(rev.obj)
  /\ rev' = [rev EXCEPT !.pc = "send"]
  /\ UNCHANGED <<registers, job, environment, history>>

SendOk ==
  /\ rev.pc = "send"
  /\ sentUp' = sentUp \cup {rev.obj}
  /\ sent' = sent \cup {rev.obj}
  /\ rev' = NoRev
  /\ UNCHANGED <<registers, objects, job, told, accepted, boxed, handled, done>>

SendFail ==
  /\ rev.pc = "send"
  /\ rev' = NoRev
  /\ UNCHANGED <<registers, objects, job, environment, history>>

-----------------------------------------------------------------------------
(* Time and restarts. *)

Elapse(r) ==
  /\ Ageing
  /\ r \notin elapsed
  /\ elapsed' = elapsed \cup {r}
  /\ UNCHANGED <<seen, announced, objects, job, rev, environment, history>>

\* A cached object passes its ttl: Get and Has no longer find it.
Expire(o) ==
  /\ Ageing
  /\ o \in objects
  /\ objects' = objects \ {o}
  /\ UNCHANGED <<registers, job, rev, environment, history>>

\* Nothing is persisted.
Restart ==
  /\ MayCrash
  /\ seen' = NewShard
  /\ announced' = NewShard
  /\ elapsed' = {}
  /\ objects' = {}
  /\ job' = [c \in Conn |-> NoJob]
  /\ rev' = NoRev
  /\ handled' = {}
  /\ done' = {}
  /\ sent' = {}
  /\ UNCHANGED <<environment, boxed>>

Lanes == \E c \in Conn : Handle(c) \/ \E o \in Key : Deliver(c, o)
Reverse ==
  \/ \E o \in Key, active, ready \in BOOLEAN : Notify(o, active, ready)
  \/ BuildOk
  \/ BuildFail
  \/ Register
  \/ Store
  \/ SendOk
  \/ SendFail
Time == \/ \E r \in {"seen", "announced"} : Elapse(r)
        \/ \E o \in Key : Expire(o)

Next == Lanes \/ Reverse \/ Time \/ Restart

Spec == Init /\ [][Next]_vars

\* A handler that has been called runs to its end; Kafka is not down for ever; the
\* fabric does not stop redelivering a remote object.  The reverse path gets no
\* fairness: nothing below depends on it.
Fairness ==
  /\ \A c \in Conn : WF_vars(Handle(c)) /\ SF_vars(AnnounceOk(c))
  /\ \A o \in Key \ Local : SF_vars(\E c \in Conn : Deliver(c, o))

FairSpec == Spec /\ Fairness

-----------------------------------------------------------------------------
(* Properties. *)

\* The registries forget nothing: no ttl runs out and no shard fills up.
Retained == ~Ageing /\ Cardinality(Key) < Cap

\* Every variable keeps its type; a handler or publish in progress has an object.
TypeOK ==
  /\ seen \in Shard
  /\ announced \in Shard
  /\ elapsed \subseteq {"seen", "announced"}
  /\ objects \subseteq Key
  /\ job \in [Conn -> Job]
  /\ \A c \in Conn : /\ job[c].pc # "idle" => job[c].obj \in Key
                     /\ job[c].pc = "rootTold" => job[c].root \in Key
  /\ rev \in Rev
  /\ rev.pc # "idle" => rev.obj \in Key
  /\ told \subseteq Key
  /\ accepted \subseteq Key
  /\ sentUp \subseteq Key
  /\ boxed \subseteq Block
  /\ handled \subseteq Key
  /\ done \subseteq Key
  /\ sent \subseteq Key

\* What `announced` claims is true: the cluster was told of the object itself, or
\* a block naming it has come down a lane.  Holds with rotations, expiry, failed
\* announcements and restarts; in sink mode nobody is told.
AnnouncedIsTold ==
  ~Sink => \A o \in Key : Known(announced, o) =>
             o \in told \/ \E b \in boxed : o \in Roots[b]

\* The cluster is never told of its own object: while a handler is between its
\* seen.Mark and its return, the object it holds is not registered as submitted,
\* whatever the reverse path registers meanwhile.
EchoSuppressed ==
  Retained => \A c \in Conn :
    job[c].pc \in {"gate", "refresh", "announce", "record"} =>
      Lookup(seen, job[c].obj) # Submitted

\* The origin filter: the reverse path works only on objects that, when their
\* notification came in, no lane handler had marked and no publish had sent.
OriginFilter == Retained => ~rev.stale

\* Once a handler has completed an announcement, no handler that starts later
\* announces the object again.
NoReannounce ==
  Retained => \A c \in Conn : job[c].pc \in {"announce", "record"} => ~job[c].late

\* Everything this process published is registered, so its echo does not read as
\* new and a second notification does not publish it again.
SentIsKnown == Retained => \A o \in sent : Known(seen, o)

\* The object cache evicts nothing: no ttl runs out and any objects fit together.
Roomy == ~Ageing /\ \A S \in SUBSET Key : Cache!Bytes(S) <= CacheBytes

\* Store before announce: from the moment a handler may announce an object the cache
\* can serve it, whatever the other handlers and the reverse path store meanwhile.
ServableWhenTold ==
  Roomy => \A c \in Conn : job[c].pc \in {"announce", "record"} => job[c].obj \in objects

\* The cluster knows of o by an announcement or because it has it already.
Reached(o) == o \in told \cup accepted

\* Self-healing: every remote object a lane delivered becomes known to the cluster,
\* itself or through a block that names it, although announcements may fail.
SelfHealing ==
  \A o \in Key \ Local :
    o \in handled ~> Reached(o) \/ \E b \in Block : o \in Roots[b] /\ Reached(b)
================================================================================
