-------------------------------- MODULE Uplink --------------------------------
(***************************************************************************)
(* The reverse path on the wire: Subscriber.Run holds a notification stream *)
(* to the cluster's blockchain service (reverse/reverse.go), builds the     *)
(* cluster's own objects from the asset service (internal/tnasset), and     *)
(* writes them to an edge ingress through an UpTunnel                       *)
(* (internal/submit/uptunnel.go), for one class.                            *)
(*                                                                          *)
(* The stream may drop, the asset service may throttle, fail or not have    *)
(* the object, edges come and go, a write may fail half way, the submitter  *)
(* role may be taken away and the bridge stopped, all at any time.  Once    *)
(* the environment is calm these faults are over.                           *)
(***************************************************************************)
EXTENDS Integers, Sequences

CONSTANTS
  Object,  \* objects the cluster itself produced
  Addrs,   \* the number of ingress addresses
  None     \* no object

ASSUME UplinkAssumption == Addrs \in Nat \ {0} /\ None \notin Object

VARIABLES
  run,       \* where Run is
  obj,       \* the object it is publishing
  attempt,   \* GETs of obj that were throttled
  backoff,   \* Run's backoff, in seconds
  stream,    \* the stream is up
  inbox,     \* notifications on it that Recv has not returned
  seen,      \* objects marked Submitted
  cur,       \* the sticky index into the addresses
  conn,      \* the address the tunnel is connected to; 0 is none
  dials,     \* dials of this pass
  up,        \* the addresses that accept
  role,      \* this bridge holds the submitter role
  cancelled,
  calm,      \* the environment has stopped failing
  sent,      \* history: the objects that Send was entered with
  torn,      \* history: the last stream to an edge ends inside an object
  reach,     \* history: the addresses that accepted ever since the pass began
  late       \* history: writes since the role was lost

loop == <<run, obj, attempt, backoff>>
sub == <<stream, inbox>>
tunnel == <<cur, conn, dials, torn, reach>>
env == <<up, role, cancelled, calm>>
vars == <<loop, sub, seen, tunnel, env, sent, late>>

Address == 1..Addrs

\* The ladder of get: the waits after a 429, in milliseconds.
rateLimitBackoff == <<200, 1000, 3000, 8000>>
Ladder == Len(rateLimitBackoff)

next(d) == IF 2 * d > 30 THEN 30 ELSE 2 * d

\* The history of late writes is counted up to LateCap.
LateCap == 2

Init ==
  /\ run = "subscribe" /\ obj = None /\ attempt = 0 /\ backoff = 1
  /\ stream = FALSE /\ inbox = {}
  /\ seen = {}
  /\ cur = 1 /\ conn = 0 /\ dials = 0 /\ torn = FALSE /\ reach = {}
  /\ up = Address /\ role = TRUE /\ cancelled = FALSE /\ calm = FALSE
  /\ sent = {}
  /\ late = 0

-----------------------------------------------------------------------------
(* Subscriber.Run. *)

Subscribe ==
  /\ run = "subscribe"
  /\ ~cancelled
  /\ run' = "recv"
  /\ backoff' = 1
  /\ stream' = TRUE
  /\ inbox' = {}
  /\ UNCHANGED <<obj, attempt, seen, tunnel, env, sent, late>>

SubscribeFails ==
  /\ run = "subscribe"
  /\ ~calm \/ cancelled
  /\ run' = IF cancelled THEN "done" ELSE "sleep"
  /\ UNCHANGED <<obj, attempt, backoff, sub, seen, tunnel, env, sent, late>>

\* sleep, and then the backoff grows.
Sleep ==
  /\ run = "sleep"
  /\ run' = IF cancelled THEN "done" ELSE "subscribe"
  /\ backoff' = IF cancelled THEN backoff ELSE next(backoff)
  /\ UNCHANGED <<obj, attempt, sub, seen, tunnel, env, sent, late>>

\* handle and publish drop a notification: for an object already known, without the
\* role, or while the gate on the class lanes is closed.
Skip(o) ==
  /\ run = "recv"
  /\ o \in inbox
  /\ o \in seen \/ ~role \/ ~calm
  /\ inbox' = inbox \ {o}
  /\ UNCHANGED <<loop, stream, seen, tunnel, env, sent, late>>

\* Mutant: the role is not asked for.
PublishAnyRole(o) ==
  /\ run = "recv"
  /\ o \in inbox
  /\ o \notin seen
  /\ inbox' = inbox \ {o}
  /\ run' = "get"
  /\ obj' = o
  /\ attempt' = 0
  /\ UNCHANGED <<backoff, stream, seen, tunnel, env, sent, late>>

\* They go on to build it.
Publish(o) ==
  /\ run = "recv"
  /\ o \in inbox
  /\ o \notin seen
  /\ role
  /\ inbox' = inbox \ {o}
  /\ run' = "get"
  /\ obj' = o
  /\ attempt' = 0
  /\ UNCHANGED <<backoff, stream, seen, tunnel, env, sent, late>>

\* Mutant: Run is not told of the cancel while the stream is up.
RecvFailsDeaf ==
  /\ run = "recv"
  /\ inbox = {} /\ ~stream
  /\ run' = IF cancelled THEN "done" ELSE "sleep"
  /\ UNCHANGED <<obj, attempt, backoff, sub, seen, tunnel, env, sent, late>>

\* The stream has ended, or the context has.
RecvFails ==
  /\ run = "recv"
  /\ cancelled \/ (inbox = {} /\ ~stream)
  /\ run' = IF cancelled THEN "done" ELSE "sleep"
  /\ UNCHANGED <<obj, attempt, backoff, sub, seen, tunnel, env, sent, late>>

-----------------------------------------------------------------------------
(* BuildSubtree and BuildBlock over get. *)

\* Mutant: a failed build is registered.
DropBuildRegistered ==
  /\ run = "get"
  /\ ~calm \/ cancelled
  /\ run' = "recv"
  /\ obj' = None
  /\ seen' = seen \cup {obj}
  /\ UNCHANGED <<attempt, backoff, sub, tunnel, env, sent, late>>

\* Not found, another status, a broken body, a frame that cannot be encoded, a block
\* of another miner: publish returns, and obj is not registered.
DropBuild ==
  /\ run = "get"
  /\ ~calm \/ cancelled
  /\ run' = "recv"
  /\ obj' = None
  /\ UNCHANGED <<attempt, backoff, sub, seen, tunnel, env, sent, late>>

\* 429: the ladder's next step, or the end of it.
Throttle ==
  /\ run = "get"
  /\ ~calm
  /\ IF attempt < Ladder
     THEN run' = "throttled" /\ UNCHANGED obj
     ELSE run' = "recv" /\ obj' = None
  /\ UNCHANGED <<attempt, backoff, sub, seen, tunnel, env, sent, late>>

Retry ==
  /\ run = "throttled"
  /\ IF cancelled
     THEN run' = "recv" /\ obj' = None /\ UNCHANGED attempt
     ELSE run' = "get" /\ attempt' = attempt + 1 /\ UNCHANGED obj
  /\ UNCHANGED <<backoff, sub, seen, tunnel, env, sent, late>>

\* A frame: register it, and enter Send.
Built ==
  /\ run = "get"
  /\ seen' = seen \cup {obj}
  /\ sent' = sent \cup {obj}
  /\ run' = IF conn = 0 THEN "dial" ELSE "write"
  /\ dials' = 0
  /\ reach' = up
  /\ UNCHANGED <<obj, attempt, backoff, sub, cur, conn, torn, env, late>>

-----------------------------------------------------------------------------
(* UpTunnel.Send. *)

Dial ==
  /\ run = "dial"
  /\ cur \in up
  /\ conn' = cur
  /\ torn' = FALSE
  /\ run' = "write"
  /\ UNCHANGED <<obj, attempt, backoff, sub, seen, cur, dials, reach, env, sent, late>>

\* Mutant: the cursor stays.
DialFailsStuck ==
  /\ run = "dial"
  /\ cur \notin up \/ cancelled
  /\ cur' = cur
  /\ dials' = dials + 1
  /\ IF dials' = Addrs
     THEN run' = "recv" /\ obj' = None
     ELSE UNCHANGED <<run, obj>>
  /\ UNCHANGED <<attempt, backoff, sub, seen, conn, torn, reach, env, sent, late>>

\* The next address, unless the pass is over.
DialFails ==
  /\ run = "dial"
  /\ cur \notin up \/ cancelled
  /\ cur' = IF cur = Addrs THEN 1 ELSE cur + 1
  /\ dials' = dials + 1
  /\ IF dials' = Addrs
     THEN run' = "recv" /\ obj' = None
     ELSE UNCHANGED <<run, obj>>
  /\ UNCHANGED <<attempt, backoff, sub, seen, conn, torn, reach, env, sent, late>>

Wrote ==
  /\ run = "write"
  /\ run' = "recv"
  /\ obj' = None
  /\ late' = IF role \/ late = LateCap THEN late ELSE late + 1

\* The kernel took it.
Write ==
  /\ Wrote
  /\ UNCHANGED <<attempt, backoff, sub, seen, tunnel, env, sent>>

\* Mutant: a failed write keeps its connection.
WriteFailsKeeps ==
  /\ Wrote
  /\ torn' = TRUE
  /\ UNCHANGED <<attempt, backoff, sub, seen, cur, conn, dials, reach, env, sent>>

\* The peer is gone, or the deadline passed: some prefix of the object may be out.
WriteFails ==
  /\ Wrote
  /\ conn' = 0
  /\ torn' = TRUE
  /\ UNCHANGED <<attempt, backoff, sub, seen, cur, dials, reach, env, sent>>

\* main's deferred Close.
Close ==
  /\ run = "done"
  /\ conn # 0
  /\ conn' = 0
  /\ UNCHANGED <<loop, sub, seen, cur, dials, torn, reach, env, sent, late>>

-----------------------------------------------------------------------------
(* The environment. *)

\* The cluster announces an object, for the first time or again; the context ends the
\* stream.
Notify(o) ==
  /\ stream /\ ~cancelled
  /\ o \notin inbox
  /\ inbox' = inbox \cup {o}
  /\ UNCHANGED <<loop, stream, seen, tunnel, env, sent, late>>

\* The stream ends, with or without what it carried.
DropStream ==
  /\ ~calm
  /\ stream
  /\ stream' = FALSE
  /\ inbox' \in {inbox, {}}
  /\ UNCHANGED <<loop, seen, tunnel, env, sent, late>>

\* An edge goes or comes back.
Edge(a) ==
  /\ ~calm
  /\ up' = IF a \in up THEN up \ {a} ELSE up \cup {a}
  /\ reach' = reach \cap up'
  /\ UNCHANGED <<loop, sub, seen, cur, conn, dials, torn, role, cancelled, calm, sent, late>>

\* SetActive, by the promoter.
SetActive ==
  /\ ~calm
  /\ role' = ~role
  /\ late' = 0
  /\ UNCHANGED <<loop, sub, seen, tunnel, up, cancelled, calm, sent>>

Cancel ==
  /\ ~cancelled
  /\ cancelled' = TRUE
  /\ UNCHANGED <<loop, sub, seen, tunnel, up, role, calm, sent, late>>

\* From here on the services answer and this bridge has the role.
Calm ==
  /\ ~calm /\ role
  /\ calm' = TRUE
  /\ UNCHANGED <<loop, sub, seen, tunnel, up, role, cancelled, sent, late>>

Step ==
  \/ Subscribe \/ SubscribeFails \/ Sleep
  \/ \E o \in Object : Skip(o) \/ Publish(o)
  \/ RecvFails
  \/ DropBuild \/ Throttle \/ Retry \/ Built
  \/ Dial \/ DialFails \/ Write \/ WriteFails
  \/ Close

Next ==
  \/ Step
  \/ \E o \in Object : Notify(o)
  \/ \E a \in Address : Edge(a)
  \/ DropStream \/ SetActive \/ Cancel \/ Calm

Spec == Init /\ [][Next]_vars

\* Run's goroutine runs, each call in it comes to an end, and what is in the stream is
\* taken from it.  Nothing is assumed of what the cluster announces.
Fairness ==
  /\ WF_vars(Step)
  /\ \A o \in Object : WF_vars(Publish(o))
  /\ WF_vars(RecvFails)

FairSpec == Spec /\ Fairness

-----------------------------------------------------------------------------
(* Properties. *)

\* Every variable keeps its type; the backoff is one of its steps.
TypeOK ==
  /\ run \in {"subscribe", "sleep", "recv", "get", "throttled", "dial", "write", "done"}
  /\ obj \in Object \cup {None} /\ attempt \in 0..Ladder
  /\ backoff \in {1, 2, 4, 8, 16, 30}
  /\ stream \in BOOLEAN /\ inbox \subseteq Object /\ seen \subseteq Object
  /\ cur \in Address /\ conn \in 0..Addrs /\ dials \in 0..Addrs
  /\ up \subseteq Address /\ reach \subseteq up
  /\ role \in BOOLEAN /\ cancelled \in BOOLEAN /\ calm \in BOOLEAN /\ torn \in BOOLEAN
  /\ sent \subseteq Object /\ late \in 0..LateCap

\* After an object was cut off, nothing follows it on the same stream: the edge's
\* reader never takes the next object for the rest of this one.
Framed == run = "write" => ~torn

\* A bridge that has lost the role writes one more object at most, the one that had
\* passed the check already.
LateBounded == late <= 1

\* Send gives up only after every address was found down: it makes one full pass, from
\* wherever the cursor stopped.
ExhaustedIsHonest ==
  [][run = "dial" /\ run' = "recv" /\ ~cancelled => reach = {}]_vars

\* Faults leave nothing behind: once they are over the stream comes back, and whatever
\* it then carries enters Send, whether or not it was skipped, throttled or unavailable
\* before.  An object that is not announced again after its ladder is exhausted stays
\* unpublished (docs/architecture.md: "after exhaustion the object is a `failure` and is
\* not published").
KeepsTrying ==
  /\ calm ~> (stream \/ cancelled)
  /\ \A o \in Object : (calm /\ o \in inbox) ~> (o \in sent \/ cancelled)

\* A cancelled Run returns, from its stream, its backoff, the ladder, a dial or a write.
RunReturns == cancelled ~> run = "done"
================================================================================
