----------------------------- MODULE BridgeProofs -----------------------------
(***************************************************************************)
(* Bridge's safety properties for every set of objects and connections.     *)
(***************************************************************************)
EXTENDS Bridge, FiniteSetTheorems, TLAPS

-----------------------------------------------------------------------------
(* What Mark does to a registry. *)

\* A new generation holds nothing.
LEMMA NoKeysType == NoKeys \in Table
BY DEF NoKeys, Table

\* A rotation keeps the type.
LEMMA RotatedType ==
  ASSUME NEW s \in Shard, NEW e
  PROVE  MaybeRotate(s, e) \in Shard
BY NoKeysType DEF MaybeRotate, Rotate, Shard

\* What is known has a direction.
LEMMA LookupType ==
  ASSUME NEW s \in Shard, NEW k \in Key
  PROVE  /\ Lookup(s, k) \in Direction \cup {None}
         /\ Known(s, k) => Lookup(s, k) \in Direction
BY DEF Lookup, Known, Shard, Table

\* Mark keeps the type.
LEMMA MarkType ==
  ASSUME NEW s \in Shard, NEW k \in Key, NEW d \in Direction, NEW e
  PROVE  Mark(s, k, d, e) \in Shard
<1> DEFINE t == MaybeRotate(s, e)
           v == IF Known(t, k) THEN Lookup(t, k) ELSE d
<1>1. t \in Shard /\ v \in Direction
  BY RotatedType, LookupType
<1> HIDE DEF t, v
<1>2. [t.cur EXCEPT ![k] = v] \in Table
  BY <1>1 DEF Shard, Table
<1>3. Mark(s, k, d, e) = [cur |-> [t.cur EXCEPT ![k] = v], prev |-> t.prev]
  BY Zenon DEF Mark, Record, t, v
<1> QED
  BY <1>1, <1>2, <1>3 DEF Shard

\* Mark makes its own key known and no other, whether or not it rotates.
LEMMA MarkKnown ==
  ASSUME NEW s \in Shard, NEW k \in Key, NEW d \in Direction, NEW e, NEW j \in Key
  PROVE  /\ Known(Mark(s, k, d, e), k)
         /\ Known(Mark(s, k, d, e), j) => j = k \/ Known(s, j)
<1> DEFINE t == MaybeRotate(s, e)
           v == IF Known(t, k) THEN Lookup(t, k) ELSE d
<1>1. t \in Shard /\ v \in Direction
  BY RotatedType, LookupType
<1>2. Known(t, j) => Known(s, j)
  BY DEF MaybeRotate, Rotate, Known, Lookup, NoKeys, Shard, Table
<1>3. Mark(s, k, d, e) = [cur |-> [t.cur EXCEPT ![k] = v], prev |-> t.prev]
  BY DEF Mark, Record
<1> HIDE DEF t, v
<1> QED
  BY <1>1, <1>2, <1>3 DEF Known, Lookup, Shard, Table, Direction, None, Delivered, Submitted

\* While a shard has room for every key and its ttl does not run out, Mark forgets
\* nothing: it answers what Lookup would, keeps every known direction, and
\* registers an unknown key in the direction it was given.
LEMMA MarkKeeps ==
  ASSUME NEW s \in Shard, NEW k \in Key, NEW d \in Direction, NEW j \in Key,
         Cardinality(Key) < Cap
  PROVE  /\ Lookup(Mark(s, k, d, FALSE), j) =
              IF j = k /\ ~Known(s, k) THEN d ELSE Lookup(s, j)
         /\ MarkAnswer(s, k, FALSE) = Lookup(s, k)
<1>1. Cardinality(Held(s.cur)) <= Cardinality(Key)
  BY KeyAssumption, FS_Subset DEF Held
<1>2. Cardinality(Held(s.cur)) \in Nat /\ Cardinality(Key) \in Nat /\ Cap \in Nat
  <2>1. IsFiniteSet(Held(s.cur))
    BY KeyAssumption, FS_Subset DEF Held
  <2>2. Cap \in Nat
    BY MaxEntriesAssumption DEF Cap, Shards
  <2> QED
    BY <2>1, <2>2, KeyAssumption, FS_CardinalityType
<1>3. MaybeRotate(s, FALSE) = s
  BY <1>1, <1>2 DEF MaybeRotate, RotationDue
<1> DEFINE v == IF Known(s, k) THEN Lookup(s, k) ELSE d
           m == Mark(s, k, d, FALSE)
<1>4. m = [cur |-> [s.cur EXCEPT ![k] = v], prev |-> s.prev]
  BY Zenon, <1>3 DEF Mark, Record
<1>5. v # None
  BY LookupType DEF Direction, None, Delivered, Submitted
<1> HIDE DEF v, m
<1>6. m.cur[j] = IF j = k THEN v ELSE s.cur[j]
  BY <1>4 DEF Shard, Table
<1>7. m.prev[j] = s.prev[j]
  BY <1>4
<1>8. MarkAnswer(s, k, FALSE) = Lookup(s, k)
  BY Zenon, <1>3 DEF MarkAnswer
<1>9. Lookup(m, j) = IF j = k THEN v ELSE Lookup(s, j)
  BY <1>5, <1>6, <1>7 DEF Lookup
<1> QED
  BY Zenon, <1>8, <1>9 DEF v, m

-----------------------------------------------------------------------------
(* Types. *)

\* A Mark on either registry keeps the types of all three variables.
LEMMA MarkSeenType ==
  ASSUME TypeOK, NEW k \in Key, NEW d \in Direction, MarkSeen(k, d)
  PROVE  (seen \in Shard /\ announced \in Shard /\ elapsed \subseteq {"seen", "announced"})'
BY MarkType DEF TypeOK, MarkSeen

\* The same for the registry of announcements.
LEMMA MarkAnnouncedType ==
  ASSUME TypeOK, NEW k \in Key, MarkAnnounced(k)
  PROVE  (seen \in Shard /\ announced \in Shard /\ elapsed \subseteq {"seen", "announced"})'
BY MarkType DEF TypeOK, MarkAnnounced, Direction

\* A Put leaves a set of known hashes.
LEMMA PutType ==
  ASSUME TypeOK, NEW o \in Key, Cache!Put(o)
  PROVE  objects' \subseteq Key
<1> DEFINE all == objects \cup {o}
<1>1. objects' \subseteq all
  BY Zenon DEF Cache!Put, Cache!PutOutcomes
<1> QED
  BY <1>1 DEF TypeOK

\* The idle records are records of their type.
LEMMA IdleTypes == NoJob \in Job /\ NoRev \in Rev
BY DEF NoJob, NoRev, Job, Rev, HandlerPC, ReversePC

\* Every action of a lane handler keeps the types.
LEMMA HandlerType ==
  ASSUME TypeOK, NEW c \in Conn, Handle(c) \/ \E o \in Key : Deliver(c, o)
  PROVE  TypeOK'
<1>0. job[c] \in Job
  BY DEF TypeOK
<1>1. ASSUME NEW o \in Key, Deliver(c, o) PROVE TypeOK'
  <2>1. [pc |-> "put", obj |-> o, todo |-> {}, root |-> NoObj,
         late |-> o \in done] \in Job
    BY DEF Job, HandlerPC
  <2> QED
    BY <1>1, <2>1, ObjectAssumption DEF TypeOK, Deliver, registers, environment
<1>2. CASE Put(c)
  <2>1. objects' \subseteq Key
    BY Zenon, <1>2, PutType DEF Put, TypeOK
  <2>2. ASSUME NEW roots \in {Roots[job[c].obj], {}}, job[c].obj \in Block
        PROVE  [job[c] EXCEPT !.pc = "roots", !.todo = roots] \in Job
    BY Zenon, <1>0, <2>2, ObjectAssumption DEF Job, HandlerPC, Subtree
  <2>3. [job[c] EXCEPT !.pc = "mark"] \in Job
    BY <1>0 DEF Job, HandlerPC
  <2>4. job' \in [Conn -> Job]
    BY ZenonT(40), <1>2, <2>2, <2>3 DEF Put, Goto, TypeOK
  <2>5. job'[c].obj \in Key /\ job'[c].pc # "rootTold" /\ \A d \in Conn \ {c} : job'[d] = job[d]
    BY <1>0, <1>2 DEF Put, Goto, TypeOK, Job
  <2> QED
    BY <1>2, <2>1, <2>4, <2>5 DEF Put, Goto, TypeOK, registers, environment, history
<1>3. CASE MarkRootSeen(c)
  <2> PICK r \in job[c].todo : MarkSeen(r, Delivered) /\ handled' = handled \cup {r}
                               /\ job' = [job EXCEPT ![c].pc = "rootTold", ![c].root = r]
    BY Zenon, <1>3 DEF MarkRootSeen
  <2>1. r \in Key
    BY <1>0 DEF Job
  <2>2. [job[c] EXCEPT !.pc = "rootTold", !.root = r] \in Job
    BY Zenon, <1>0, <2>1 DEF Job, HandlerPC
  <2> QED
    BY <1>3, <2>1, <2>2, MarkSeenType DEF MarkRootSeen, TypeOK, environment, Direction
<1>4. CASE MarkRootAnnounced(c)
  <2>1. [job[c] EXCEPT !.pc = "roots", !.root = NoObj, !.todo = @ \ {job[c].root}] \in Job
    BY Zenon, <1>0 DEF Job, HandlerPC
  <2> QED
    BY <1>4, <2>1, MarkAnnouncedType DEF MarkRootAnnounced, TypeOK, environment, history
<1>5. CASE RootsDone(c)
  <2>1. [job[c] EXCEPT !.pc = "mark"] \in Job
    BY <1>0 DEF Job, HandlerPC
  <2> QED
    BY <1>5, <2>1 DEF RootsDone, Goto, TypeOK, registers, environment, history
<1>6. CASE MarkDelivered(c)
  <2>1. [job[c] EXCEPT !.pc = "gate"] \in Job
    BY <1>0 DEF Job, HandlerPC
  <2>2. job[c].obj \in Key
    BY <1>6 DEF MarkDelivered, TypeOK
  <2>3. (seen \in Shard /\ announced \in Shard /\ elapsed \subseteq {"seen", "announced"})'
    BY <1>6, <2>2, MarkSeenType DEF MarkDelivered, Direction
  <2>4. job' = [job EXCEPT ![c] = NoJob] \/ job' = [job EXCEPT ![c].pc = "gate"]
    BY <1>6 DEF MarkDelivered, Goto, Return
  <2>5. handled' = handled \cup {job[c].obj}
        /\ UNCHANGED <<objects, rev, environment, boxed, done, sent>>
    BY <1>6 DEF MarkDelivered
  <2>6. CASE job' = [job EXCEPT ![c] = NoJob]
    BY ZenonT(60), <2>2, <2>3, <2>5, <2>6, IdleTypes DEF TypeOK, environment, NoJob
  <2>7. CASE job' = [job EXCEPT ![c].pc = "gate"]
    BY <2>1, <2>2, <2>3, <2>5, <2>7 DEF TypeOK, environment
  <2> QED
    BY <2>4, <2>6, <2>7
<1>7. CASE Gate(c)
  <2>1. \A pc \in {"refresh", "record", "announce"} : [job[c] EXCEPT !.pc = pc] \in Job
    BY <1>0 DEF Job, HandlerPC
  <2> QED
    BY <1>7, <2>1 DEF Gate, Goto, TypeOK, registers, environment, history
<1>8. CASE Refresh(c)
  BY <1>8, IdleTypes, MarkAnnouncedType
     DEF Refresh, Return, TypeOK, environment, history, NoJob
<1>9. CASE AnnounceOk(c)
  <2>1. [job[c] EXCEPT !.pc = "record"] \in Job
    BY ZenonT(60), <1>0 DEF Job, HandlerPC
  <2> QED
    BY <1>9, <2>1 DEF AnnounceOk, Goto, TypeOK, registers, history
<1>10. CASE AnnounceFail(c)
  BY ZenonT(60), <1>10, IdleTypes DEF AnnounceFail, Return, TypeOK, registers, history, NoJob
<1>11. CASE RecordTold(c)
  BY <1>11, IdleTypes, MarkAnnouncedType
     DEF RecordTold, Return, TypeOK, environment, history, NoJob
<1> QED
  BY ZenonT(60), <1>1, <1>2, <1>3, <1>4, <1>5, <1>6, <1>7, <1>8, <1>9, <1>10, <1>11 DEF Handle

\* Every action of the reverse path keeps the types.
LEMMA ReverseType == TypeOK /\ Reverse => TypeOK'
<1> SUFFICES ASSUME TypeOK, Reverse PROVE TypeOK'
  OBVIOUS
<1>0. rev \in Rev
  BY ZenonT(60) DEF TypeOK
<1>1. ASSUME NEW o \in Key, NEW active \in BOOLEAN, NEW ready \in BOOLEAN,
             Notify(o, active, ready)
      PROVE  TypeOK'
  <2>1. [pc |-> "build", obj |-> o, stale |-> o \in handled \cup sent] \in Rev
    BY DEF Rev, ReversePC
  <2>2. rev' = rev \/ rev' = [pc |-> "build", obj |-> o, stale |-> o \in handled \cup sent]
    BY <1>1 DEF Notify
  <2> QED
    BY <1>1, <2>1, <2>2 DEF Notify, TypeOK, registers, history
<1>2. CASE BuildOk
  <2>1. [rev EXCEPT !.pc = "register"] \in Rev
    BY <1>0 DEF Rev, ReversePC
  <2> QED
    BY <1>0, <1>2, <2>1, IdleTypes
       DEF BuildOk, TypeOK, registers, environment, history, NoRev, Rev
<1>3. CASE BuildFail \/ SendFail
  <2>1. rev' = NoRev /\ UNCHANGED <<registers, objects, job, environment, history>>
    BY <1>3 DEF BuildFail, SendFail
  <2> QED
    BY <2>1, IdleTypes DEF TypeOK, registers, environment, history, NoRev
<1>4. CASE Register
  <2>1. [rev EXCEPT !.pc = "store"] \in Rev /\ rev.obj \in Key
    BY <1>0, <1>4 DEF Rev, ReversePC, Register, TypeOK
  <2> QED
    BY ZenonT(60), <1>0, <1>4, <2>1, MarkSeenType
       DEF Register, TypeOK, environment, history, Direction, Rev
<1>5. CASE Store
  <2>1. [rev EXCEPT !.pc = "send"] \in Rev /\ rev.obj \in Key
    BY <1>0, <1>5 DEF Rev, ReversePC, Store, TypeOK
  <2>2. objects' \subseteq Key
    BY ZenonT(60), <1>5, <2>1, PutType DEF Store
  <2> QED
    BY <1>0, <1>5, <2>1, <2>2
       DEF Store, TypeOK, registers, environment, history, Rev
<1>6. CASE SendOk
  BY <1>6, IdleTypes DEF SendOk, TypeOK, registers, NoRev
<1> QED
  BY ZenonT(60), <1>1, <1>2, <1>3, <1>4, <1>5, <1>6 DEF Reverse

\* Time and a restart keep the types.
LEMMA TimeType == TypeOK /\ (Time \/ Restart) => TypeOK'
<1> SUFFICES ASSUME TypeOK, Time \/ Restart PROVE TypeOK'
  OBVIOUS
<1>1. CASE Time
  BY Zenon, <1>1 DEF Time, Elapse, Expire, TypeOK, registers, environment, history
<1>2. CASE Restart
  BY ZenonT(60), <1>2, IdleTypes, NoKeysType
     DEF Restart, TypeOK, environment, NewShard, Shard, NoJob, NoRev
<1> QED
  BY <1>1, <1>2

\* Stuttering changes no variable.
LEMMA StutterType == TypeOK /\ UNCHANGED vars => TypeOK'
BY DEF TypeOK, vars, registers, environment, history

\* The types hold from the start.
LEMMA InitType == Init => TypeOK
BY IdleTypes, NoKeysType DEF Init, TypeOK, NewShard, Shard, NoJob, NoRev

\* Type correctness of the object plane, for every set of objects and connections.
THEOREM TypeCorrect == Spec => []TypeOK
<1>1. TypeOK /\ [Next]_vars => TypeOK'
  BY HandlerType, ReverseType, TimeType, StutterType DEF Next, Lanes
<1> QED
  BY <1>1, InitType, PTL DEF Spec

-----------------------------------------------------------------------------
(* What `announced` claims. *)

Claim(o) == o \in told \/ \E b \in boxed : o \in Roots[b]

\* The claim a handler is about to write down is true already.
JobClaims(c) ==
  /\ job[c].pc \in {"put", "roots", "rootTold"} /\ job[c].obj \in Block =>
       job[c].obj \in boxed
  /\ job[c].pc \in {"roots", "rootTold"} =>
       job[c].obj \in Block /\ job[c].todo \subseteq Roots[job[c].obj]
  /\ job[c].pc = "rootTold" => job[c].root \in job[c].todo
  /\ ~Sink /\ job[c].pc = "refresh" => Claim(job[c].obj)
  /\ ~Sink /\ job[c].pc = "record" => job[c].obj \in told

ClaimInv ==
  /\ TypeOK
  /\ AnnouncedIsTold
  /\ \A c \in Conn : JobClaims(c)

Grow == told \subseteq told' /\ boxed \subseteq boxed'

\* No step takes a claim back.
LEMMA ClaimsGrow == Grow => \A o : Claim(o) => Claim(o)'
BY ZenonT(60) DEF Grow, Claim

\* A handler that does not move keeps its claims.
LEMMA OtherClaims ==
  ASSUME Grow, NEW c \in Conn, JobClaims(c), job'[c] = job[c]
  PROVE  JobClaims(c)'
<1>1. \A o : Claim(o) => Claim(o)'
  BY ClaimsGrow
<1>2. \A o : (o \in boxed => o \in boxed') /\ (o \in told => o \in told')
  BY DEF Grow
<1> HIDE DEF Claim
<1> QED
  BY <1>1, <1>2 DEF JobClaims

\* A step that leaves `announced` alone, or marks an object whose claim is true.
LEMMA AnnouncedStep ==
  ASSUME ClaimInv, Grow,
         \/ announced' = announced
         \/ \E k \in Key : MarkAnnounced(k) /\ (~Sink => Claim(k))
  PROVE  AnnouncedIsTold'
<1> SUFFICES ASSUME ~Sink, NEW o \in Key, Known(announced', o) PROVE Claim(o)'
  BY DEF AnnouncedIsTold, Claim
<1>1. Known(announced, o) \/ Claim(o)
  <2>1. CASE announced' = announced
    BY ZenonT(60), <2>1
  <2>2. ASSUME NEW k \in Key, MarkAnnounced(k), Claim(k) PROVE Known(announced, o) \/ Claim(o)
    BY ZenonT(60), <2>2, MarkKnown DEF MarkAnnounced, ClaimInv, TypeOK, Direction
  <2> QED
    BY <2>1, <2>2
<1>2. Claim(o)
  BY ZenonT(60), <1>1 DEF ClaimInv, AnnouncedIsTold, Claim
<1> QED
  BY <1>2, ClaimsGrow

\* Every action of a lane handler keeps the claims true.
LEMMA HandlerClaims ==
  ASSUME ClaimInv, NEW c \in Conn, Handle(c) \/ \E o \in Key : Deliver(c, o)
  PROVE  AnnouncedIsTold' /\ Grow /\ JobClaims(c)' /\ \A d \in Conn \ {c} : job'[d] = job[d]
<1>0. job[c] \in Job /\ JobClaims(c) /\ job \in [Conn -> Job]
  BY DEF ClaimInv, TypeOK
<1>1. ASSUME NEW o \in Key, Deliver(c, o)
      PROVE  AnnouncedIsTold' /\ Grow /\ JobClaims(c)' /\ \A d \in Conn \ {c} : job'[d] = job[d]
  <2>1. Grow /\ announced' = announced
    BY ZenonT(60), <1>1 DEF Deliver, Grow, registers, environment
  <2>2. job'[c].pc = "put" /\ job'[c].obj = o /\ \A d \in Conn \ {c} : job'[d] = job[d]
    BY ZenonT(60), <1>0, <1>1 DEF Deliver
  <2>3. o \in Block => o \in boxed'
    BY ZenonT(60), <1>1 DEF Deliver
  <2> QED
    BY ZenonT(40), <2>1, <2>2, <2>3, AnnouncedStep DEF JobClaims
<1>2. CASE Put(c)
  <2>1. Grow /\ announced' = announced /\ boxed' = boxed
    BY <1>2 DEF Put, Grow, registers, environment, history
  <2>2. /\ job'[c].obj = job[c].obj
        /\ IF job[c].obj \in Block
           THEN job'[c].pc = "roots" /\ job'[c].todo \subseteq Roots[job[c].obj]
           ELSE job'[c].pc = "mark"
        /\ \A d \in Conn \ {c} : job'[d] = job[d]
    BY <1>0, <1>2 DEF Put, Goto, Job
  <2> QED
    BY ZenonT(60), <1>0, <1>2, <2>1, <2>2, AnnouncedStep DEF JobClaims, Put
<1>3. CASE MarkRootSeen(c)
  <2>1. Grow /\ announced' = announced /\ boxed' = boxed
    BY <1>3 DEF MarkRootSeen, Grow, MarkSeen, environment
  <2>2. /\ job'[c].obj = job[c].obj /\ job'[c].todo = job[c].todo
        /\ job'[c].pc = "rootTold" /\ job'[c].root \in job[c].todo
        /\ \A d \in Conn \ {c} : job'[d] = job[d]
    BY <1>0, <1>3 DEF MarkRootSeen, Job
  <2> QED
    BY ZenonT(60), <1>0, <1>3, <2>1, <2>2, AnnouncedStep DEF JobClaims, MarkRootSeen
<1>4. CASE MarkRootAnnounced(c)
  <2>1. Grow /\ MarkAnnounced(job[c].root) /\ boxed' = boxed
    BY ZenonT(60), <1>4 DEF MarkRootAnnounced, Grow, environment, history
  <2>2. Claim(job[c].root) /\ job[c].root \in Key
    BY ZenonT(60), <1>0, <1>4 DEF JobClaims, Claim, MarkRootAnnounced, ClaimInv, TypeOK
  <2>3. /\ job'[c].obj = job[c].obj /\ job'[c].todo \subseteq job[c].todo
        /\ job'[c].pc = "roots"
        /\ \A d \in Conn \ {c} : job'[d] = job[d]
    BY ZenonT(60), <1>0, <1>4 DEF MarkRootAnnounced, Job
  <2> QED
    BY <1>0, <1>4, <2>1, <2>2, <2>3, AnnouncedStep DEF JobClaims, MarkRootAnnounced
<1>5. CASE RootsDone(c) \/ MarkDelivered(c)
  <2>1. Grow /\ announced' = announced
    BY <1>5 DEF RootsDone, MarkDelivered, MarkSeen, Grow, registers, environment, history
  <2>2. job'[c].pc \in {"mark", "idle", "gate"} /\ \A d \in Conn \ {c} : job'[d] = job[d]
    BY SMTT(30), <1>0, <1>5 DEF RootsDone, MarkDelivered, Goto, Return, Job, NoJob
  <2> QED
    BY ZenonT(60), <2>1, <2>2, AnnouncedStep DEF JobClaims
<1>6. CASE Gate(c)
  <2>1. Grow /\ announced' = announced /\ told' = told /\ boxed' = boxed
    BY <1>6 DEF Gate, Grow, registers, environment, history
  <2>2. /\ job'[c].obj = job[c].obj
        /\ job'[c].pc \in {"refresh", "announce", "record"}
        /\ job'[c].pc = "refresh" => Known(announced, job[c].obj)
        /\ job'[c].pc = "record" => Sink
        /\ \A d \in Conn \ {c} : job'[d] = job[d]
    BY ZenonT(60), <1>0, <1>6, ModeAssumption DEF Gate, Goto, Job
  <2>3. job[c].obj \in Key
    BY ZenonT(60), <1>6 DEF Gate, ClaimInv, TypeOK
  <2>4. ~Sink /\ job'[c].pc = "refresh" => Claim(job[c].obj)
    BY ZenonT(60), <2>2, <2>3 DEF ClaimInv, AnnouncedIsTold, Claim
  <2> QED
    BY ZenonT(60), <2>1, <2>2, <2>4, AnnouncedStep DEF JobClaims, Claim
<1>7. CASE Refresh(c) \/ RecordTold(c)
  <2>1. Grow /\ MarkAnnounced(job[c].obj)
    BY SMTT(30), <1>7 DEF Refresh, RecordTold, Grow, environment, history
  <2>2. job[c].obj \in Key /\ (~Sink => Claim(job[c].obj))
    BY ZenonT(40), <1>0, <1>7 DEF Refresh, RecordTold, ClaimInv, TypeOK, JobClaims, Claim
  <2>3. job'[c].pc = "idle" /\ \A d \in Conn \ {c} : job'[d] = job[d]
    BY SMTT(30), <1>0, <1>7 DEF Refresh, RecordTold, Return, NoJob
  <2> QED
    BY ZenonT(60), <2>1, <2>2, <2>3, AnnouncedStep DEF JobClaims
<1>8. CASE AnnounceOk(c) \/ AnnounceFail(c)
  <2>1. Grow /\ announced' = announced
    BY <1>8 DEF AnnounceOk, AnnounceFail, Grow, registers, history
  <2>2. /\ job'[c].pc \in {"record", "idle"}
        /\ job'[c].pc = "record" => job'[c].obj \in told'
        /\ \A d \in Conn \ {c} : job'[d] = job[d]
    BY <1>0, <1>8 DEF AnnounceOk, AnnounceFail, Goto, Return, NoJob, Job
  <2> QED
    BY ZenonT(40), <2>1, <2>2, AnnouncedStep DEF JobClaims
<1> QED
  BY ZenonT(60), <1>1, <1>2, <1>3, <1>4, <1>5, <1>6, <1>7, <1>8 DEF Handle

\* The claims are an inductive invariant.
LEMMA ClaimsInductive == ClaimInv /\ [Next]_vars => ClaimInv'
<1> SUFFICES ASSUME ClaimInv, [Next]_vars PROVE ClaimInv'
  OBVIOUS
<1>0. TypeOK'
  BY ZenonT(60), HandlerType, ReverseType, TimeType, StutterType DEF ClaimInv, Next, Lanes
<1>1. CASE Lanes
  <2>1. PICK c \in Conn : Handle(c) \/ \E o \in Key : Deliver(c, o)
    BY <1>1 DEF Lanes
  <2>2. AnnouncedIsTold' /\ Grow /\ JobClaims(c)' /\ \A d \in Conn \ {c} : job'[d] = job[d]
    BY ZenonT(60), <2>1, HandlerClaims
  <2>3. \A d \in Conn \ {c} : JobClaims(d)'
    BY <2>2, OtherClaims DEF ClaimInv
  <2> QED
    BY <1>0, <2>2, <2>3 DEF ClaimInv
<1>2. CASE Reverse \/ Time \/ UNCHANGED vars
  <2>1. Grow /\ announced' = announced /\ job' = job
    BY <1>2 DEF Reverse, Time, Notify, BuildOk, BuildFail, Register, MarkSeen, Store, SendOk,
                SendFail, Elapse, Expire, vars, registers, environment, history, Grow
  <2> QED
    BY ZenonT(60), <1>0, <2>1, AnnouncedStep, OtherClaims DEF ClaimInv
<1>3. CASE Restart
  <2>1. \A o \in Key : ~Known(announced', o)
    BY ZenonT(60), <1>3 DEF Restart, NewShard, NoKeys, Known, Lookup
  <2>2. \A c \in Conn : JobClaims(c)'
    BY <1>3 DEF Restart, JobClaims, NoJob
  <2> QED
    BY <1>0, <2>1, <2>2 DEF ClaimInv, AnnouncedIsTold
<1> QED
  BY <1>1, <1>2, <1>3 DEF Next

\* What `announced` says is true in every reachable state, with any rotation, expiry,
\* failed announcement or restart in between: "only a successful announce writes to
\* it", or a block that names the object.
THEOREM AnnouncedTruthful == Spec => []AnnouncedIsTold
<1>1. Init => ClaimInv
  <2> SUFFICES ASSUME Init PROVE ClaimInv
    OBVIOUS
  <2>1. \A o \in Key : ~Known(announced, o)
    BY ZenonT(60) DEF Init, NewShard, NoKeys, Known, Lookup
  <2>2. \A c \in Conn : JobClaims(c)
    BY DEF Init, JobClaims, NoJob
  <2> QED
    BY <2>1, <2>2, InitType DEF ClaimInv, AnnouncedIsTold
<1>2. ClaimInv => AnnouncedIsTold
  BY DEF ClaimInv
<1> QED
  BY <1>1, <1>2, ClaimsInductive, PTL DEF Spec

-----------------------------------------------------------------------------
(* What the bridge remembers while its registries have room. *)

JobRemembers(c) ==
  /\ job[c].pc \in {"gate", "refresh", "announce", "record"} =>
       Lookup(seen, job[c].obj) = Delivered
  /\ job[c].pc \in {"announce", "record"} => ~job[c].late
  /\ job[c].late => job[c].obj \in done

Remembers ==
  /\ elapsed = {}
  /\ \A o \in handled \cup sent : Known(seen, o)
  /\ \A o \in done : Known(announced, o)
  /\ rev.pc \in {"store", "send"} => Known(seen, rev.obj)
  /\ ~rev.stale
  /\ \A c \in Conn : JobRemembers(c)

MemoryInv == TypeOK /\ (Retained => Remembers)

\* What a step must not do to the registries: change a known direction in `seen`,
\* drop an entry of `announced`.
Kept ==
  /\ \A o \in Key : Known(seen, o) => Lookup(seen', o) = Lookup(seen, o)
  /\ \A o \in Key : Known(announced, o) => Known(announced', o)
  /\ elapsed' = {}

\* What seen.Mark does while nothing is forgotten.
LEMMA SeenKept ==
  ASSUME TypeOK, Retained, elapsed = {}, NEW k \in Key, NEW d \in Direction, MarkSeen(k, d)
  PROVE  /\ Kept
         /\ Lookup(seen', k) = IF Known(seen, k) THEN Lookup(seen, k) ELSE d
         /\ MarkAnswer(seen, k, "seen" \in elapsed) = Lookup(seen, k)
<1>1. seen \in Shard /\ Cardinality(Key) < Cap
  BY DEF TypeOK, Retained
<1>2. ("seen" \in elapsed) = FALSE
  OBVIOUS
<1>3. seen' = Mark(seen, k, d, FALSE) /\ announced' = announced /\ elapsed' = {}
  BY Zenon, <1>2 DEF MarkSeen
<1>4. \A j \in Key : Lookup(seen', j) = IF j = k /\ ~Known(seen, k) THEN d ELSE Lookup(seen, j)
  BY Zenon, <1>1, <1>3, MarkKeeps
<1>5. MarkAnswer(seen, k, "seen" \in elapsed) = Lookup(seen, k)
  BY Zenon, <1>1, <1>2, MarkKeeps
<1> QED
  BY ZenonT(40), <1>3, <1>4, <1>5 DEF Kept, Known

\* What announced.Mark does while nothing is forgotten.
LEMMA AnnouncedKept ==
  ASSUME TypeOK, Retained, elapsed = {}, NEW k \in Key, MarkAnnounced(k)
  PROVE  Kept /\ Known(announced', k)
<1>1. announced \in Shard /\ Cardinality(Key) < Cap
  BY DEF TypeOK, Retained
<1>2. ("announced" \in elapsed) = FALSE
  OBVIOUS
<1>3. announced' = Mark(announced, k, Delivered, FALSE) /\ seen' = seen /\ elapsed' = {}
  BY Zenon, <1>2 DEF MarkAnnounced
<1>4. Delivered \in Direction
  BY DEF Direction
<1>5. \A j \in Key : Lookup(announced', j) =
        IF j = k /\ ~Known(announced, k) THEN Delivered ELSE Lookup(announced, j)
  BY Zenon, <1>1, <1>3, <1>4, MarkKeeps
<1>6. Known(announced', k)
  BY ZenonT(40), <1>1, <1>3, <1>4, MarkKnown
<1> QED
  BY ZenonT(40), <1>3, <1>5, <1>6 DEF Kept, Known

\* A handler that does not move remembers what it did.
LEMMA OtherRemembers ==
  ASSUME TypeOK, Kept, done \subseteq done', NEW c \in Conn, JobRemembers(c), job'[c] = job[c]
  PROVE  JobRemembers(c)'
<1>1. job[c].pc # "idle" => job[c].obj \in Key
  BY DEF TypeOK
<1>2. Delivered # None
  BY ZenonT(40) DEF Delivered, None
<1> QED
  BY ZenonT(60), <1>1, <1>2 DEF JobRemembers, Kept, Known

\* The histories after a step are known if the step keeps what was known and makes
\* known what it adds.
LEMMA HistoryKnown ==
  ASSUME TypeOK, Remembers, Kept,
         \A o \in (handled \cup sent)' : o \in handled \cup sent \/ Known(seen', o),
         \A o \in done' : o \in done \/ Known(announced', o)
  PROVE  /\ \A o \in (handled \cup sent)' : Known(seen', o)
         /\ \A o \in done' : Known(announced', o)
BY SMTT(30) DEF Remembers, Kept, TypeOK, Known

\* Every action of a lane handler.
LEMMA HandlerRemembers ==
  ASSUME TypeOK, Retained, Remembers, NEW c \in Conn,
         Handle(c) \/ \E o \in Key : Deliver(c, o)
  PROVE  /\ Kept
         /\ sent' = sent /\ rev' = rev /\ done \subseteq done'
         /\ \A o \in handled' : o \in handled \/ Known(seen', o)
         /\ \A o \in done' : o \in done \/ Known(announced', o)
         /\ JobRemembers(c)'
         /\ \A d \in Conn \ {c} : job'[d] = job[d]
<1> DEFINE Goal == /\ Kept
                   /\ sent' = sent /\ rev' = rev /\ done \subseteq done'
                   /\ \A o \in handled' : o \in handled \/ Known(seen', o)
                   /\ \A o \in done' : o \in done \/ Known(announced', o)
                   /\ JobRemembers(c)'
                   /\ \A d \in Conn \ {c} : job'[d] = job[d]
<1>0. job[c] \in Job /\ JobRemembers(c) /\ job \in [Conn -> Job] /\ elapsed = {}
  BY DEF Remembers, TypeOK
<1>1. UNCHANGED registers => Kept
  BY SMTT(30), <1>0 DEF Kept, registers, Known
<1>2. ASSUME NEW o \in Key, Deliver(c, o) PROVE Goal
  <2>1. job'[c].pc = "put" /\ job'[c].obj = o /\ job'[c].late = (o \in done)
        /\ \A d \in Conn \ {c} : job'[d] = job[d]
    BY ZenonT(40), <1>0, <1>2 DEF Deliver
  <2> QED
    BY Zenon, <1>1, <1>2, <2>1 DEF Deliver, JobRemembers
<1>3. CASE Put(c) \/ RootsDone(c)
  <2>1. /\ job'[c].pc \in {"roots", "mark"}
        /\ job'[c].obj = job[c].obj /\ job'[c].late = job[c].late
        /\ \A d \in Conn \ {c} : job'[d] = job[d]
    BY <1>0, <1>3 DEF Put, RootsDone, Goto, Job
  <2>2. UNCHANGED <<registers, rev, history>>
    BY <1>3 DEF Put, RootsDone
  <2> QED
    BY ZenonT(60), <1>0, <1>1, <2>1, <2>2 DEF JobRemembers, history
<1>4. CASE MarkRootSeen(c)
  <2>1. PICK r \in job[c].todo : MarkSeen(r, Delivered) /\ handled' = handled \cup {r}
                               /\ job' = [job EXCEPT ![c].pc = "rootTold", ![c].root = r]
    BY ZenonT(40), <1>4 DEF MarkRootSeen
  <2>2. r \in Key /\ Delivered \in Direction
    BY <1>0 DEF Job, Direction
  <2>3. Kept /\ Known(seen', r)
    BY <1>0, <2>1, <2>2, SeenKept DEF Known, Delivered, None
  <2>4. /\ job'[c].pc = "rootTold"
        /\ job'[c].obj = job[c].obj /\ job'[c].late = job[c].late
        /\ \A d \in Conn \ {c} : job'[d] = job[d]
    BY <1>0, <2>1 DEF Job
  <2> QED
    BY <1>0, <1>4, <2>1, <2>3, <2>4 DEF MarkRootSeen, JobRemembers
<1>5. CASE MarkRootAnnounced(c)
  <2>1. Kept
    BY <1>0, <1>5, AnnouncedKept DEF MarkRootAnnounced, TypeOK
  <2>2. /\ job'[c].pc = "roots"
        /\ job'[c].obj = job[c].obj /\ job'[c].late = job[c].late
        /\ \A d \in Conn \ {c} : job'[d] = job[d]
    BY ZenonT(40), <1>0, <1>5 DEF MarkRootAnnounced, Job
  <2> QED
    BY <1>0, <1>5, <2>1, <2>2 DEF MarkRootAnnounced, JobRemembers, history
<1>6. CASE MarkDelivered(c)
  <2>1. job[c].obj \in Key /\ Delivered \in Direction
    BY <1>6 DEF MarkDelivered, TypeOK, Direction
  <2>2. /\ Kept
        /\ Lookup(seen', job[c].obj) =
             IF Known(seen, job[c].obj) THEN Lookup(seen, job[c].obj) ELSE Delivered
        /\ MarkAnswer(seen, job[c].obj, "seen" \in elapsed) = Lookup(seen, job[c].obj)
    BY ZenonT(40), <1>0, <1>6, <2>1, SeenKept DEF MarkDelivered
  <2>3. Lookup(seen, job[c].obj) \in {Delivered, Submitted, None}
    BY ZenonT(60), <2>1, LookupType DEF TypeOK, Direction
  <2>4. Known(seen', job[c].obj)
    BY <2>2 DEF Known, Delivered, None
  <2>5. \A d \in Conn \ {c} : job'[d] = job[d]
    BY <1>0, <1>6 DEF MarkDelivered, Goto, Return
  <2>6. JobRemembers(c)'
    <3>1. CASE Lookup(seen, job[c].obj) = Submitted
      <4>1. job'[c] = NoJob
        BY ZenonT(60), <1>0, <1>6, <2>2, <3>1 DEF MarkDelivered, Return
      <4> QED
        BY <4>1 DEF NoJob, JobRemembers
    <3>2. CASE Lookup(seen, job[c].obj) # Submitted
      <4>1. job'[c].pc = "gate" /\ job'[c].obj = job[c].obj /\ job'[c].late = job[c].late
        BY ZenonT(60), <1>0, <1>6, <2>2, <3>2 DEF MarkDelivered, Goto, Job
      <4>2. Lookup(seen', job[c].obj) = Delivered
        BY ZenonT(40), <2>2, <2>3, <3>2 DEF Known
      <4> QED
        BY ZenonT(60), <1>0, <1>6, <4>1, <4>2 DEF JobRemembers, MarkDelivered
    <3> QED
      BY ZenonT(40), <3>1, <3>2
  <2> QED
    BY ZenonT(40), <1>6, <2>2, <2>4, <2>5, <2>6 DEF MarkDelivered
<1>7. CASE Gate(c)
  <2>1. UNCHANGED <<registers, rev, history>> /\ job[c].obj \in Key
    BY <1>7 DEF Gate, TypeOK
  <2>2. /\ job'[c].obj = job[c].obj /\ job'[c].late = job[c].late
        /\ job'[c].pc \in {"refresh", "announce", "record"}
        /\ job'[c].pc \in {"announce", "record"} => ~Known(announced, job[c].obj)
        /\ \A d \in Conn \ {c} : job'[d] = job[d]
    BY SMTT(30), <1>0, <1>7 DEF Gate, Goto, Job
  <2>3. job[c].late => Known(announced, job[c].obj)
    BY Zenon, <1>0 DEF JobRemembers, Remembers
  <2> QED
    BY ZenonT(40), <1>0, <1>1, <1>7, <2>1, <2>2, <2>3 DEF JobRemembers, history, registers, Gate
<1>8. CASE Refresh(c) \/ RecordTold(c)
  <2>1. Kept /\ Known(announced', job[c].obj)
    BY ZenonT(40), <1>0, <1>8, AnnouncedKept DEF Refresh, RecordTold, TypeOK
  <2>2. /\ rev' = rev /\ handled' = handled /\ sent' = sent
        /\ done' = done \/ done' = done \cup {job[c].obj}
    BY Zenon, <1>8 DEF Refresh, RecordTold, history
  <2>3. job'[c] = NoJob /\ \A d \in Conn \ {c} : job'[d] = job[d]
    BY ZenonT(40), <1>0, <1>8 DEF Refresh, RecordTold, Return
  <2>4. JobRemembers(c)'
    BY <2>3 DEF JobRemembers, NoJob
  <2>5. /\ done \subseteq done'
        /\ \A o \in done' : o \in done \/ Known(announced', o)
    BY ZenonT(40), <2>1, <2>2
  <2> QED
    BY Zenon, <2>1, <2>2, <2>3, <2>4, <2>5
<1>9. CASE AnnounceOk(c)
  <2>1. /\ job'[c].pc = "record"
        /\ job'[c].obj = job[c].obj /\ job'[c].late = job[c].late
        /\ \A d \in Conn \ {c} : job'[d] = job[d]
    BY ZenonT(40), <1>0, <1>9 DEF AnnounceOk, Goto, Job
  <2> QED
    BY ZenonT(60), <1>0, <1>1, <1>9, <2>1 DEF AnnounceOk, JobRemembers, history, registers
<1>10. CASE AnnounceFail(c)
  BY ZenonT(40), <1>0, <1>1, <1>10 DEF AnnounceFail, Return, NoJob, JobRemembers, history
<1> QED
  BY ZenonT(40), <1>2, <1>3, <1>4, <1>5, <1>6, <1>7, <1>8, <1>9, <1>10 DEF Handle

\* Every action of the reverse path.  Its Mark(Submitted) may find the object known
\* as delivered, and then keeps that.
LEMMA ReverseRemembers ==
  ASSUME TypeOK, Retained, Remembers, Reverse
  PROVE  /\ Kept
         /\ handled' = handled /\ done' = done /\ job' = job
         /\ \A o \in sent' : o \in sent \/ Known(seen', o)
         /\ rev'.pc \in {"store", "send"} => Known(seen', rev'.obj)
         /\ ~rev'.stale
<1> DEFINE Goal == /\ Kept
                   /\ handled' = handled /\ done' = done /\ job' = job
                   /\ \A o \in sent' : o \in sent \/ Known(seen', o)
                   /\ rev'.pc \in {"store", "send"} => Known(seen', rev'.obj)
                   /\ ~rev'.stale
<1>0. rev \in Rev /\ elapsed = {} /\ ~rev.stale
  BY DEF Remembers, TypeOK
<1>1. UNCHANGED registers => Kept
  BY ZenonT(60), <1>0 DEF Kept, registers, Known
<1>2. ASSUME NEW o \in Key, NEW active \in BOOLEAN, NEW ready \in BOOLEAN,
             Notify(o, active, ready)
      PROVE  Goal
  <2>1. ~Known(seen, o) => o \notin handled \cup sent
    BY DEF Remembers
  <2>2. rev'.pc \in {"idle", "build"} /\ ~rev'.stale
    BY Zenon, <1>0, <1>2, <2>1 DEF Notify
  <2> QED
    BY ZenonT(60), <1>1, <1>2, <2>2 DEF Notify, history
<1>3. CASE BuildOk \/ BuildFail \/ SendFail
  <2>1. rev'.pc \in {"idle", "register"} /\ ~rev'.stale
    BY <1>0, <1>3 DEF BuildOk, BuildFail, SendFail, NoRev, Rev
  <2> QED
    BY ZenonT(60), <1>1, <1>3, <2>1 DEF BuildOk, BuildFail, SendFail, history
<1>4. CASE Register
  <2>1. rev.obj \in Key /\ Submitted \in Direction
    BY <1>4 DEF Register, TypeOK, Direction
  <2>2. Kept /\ Known(seen', rev.obj)
    BY ZenonT(60), <1>0, <1>4, <2>1, SeenKept DEF Register, Known, Submitted, None
  <2>3. rev'.obj = rev.obj /\ rev'.stale = rev.stale
    BY <1>0, <1>4 DEF Register, Rev
  <2> QED
    BY ZenonT(60), <1>0, <1>4, <2>2, <2>3 DEF Register, history
<1>5. CASE Store
  <2>1. rev'.obj = rev.obj /\ rev'.stale = rev.stale /\ seen' = seen
    BY <1>0, <1>5 DEF Store, Rev, registers
  <2>2. Known(seen, rev.obj)
    BY ZenonT(60), <1>5 DEF Store, Remembers
  <2> QED
    BY ZenonT(60), <1>0, <1>1, <1>5, <2>1, <2>2 DEF Store, history
<1>6. CASE SendOk
  <2>1. Known(seen, rev.obj) /\ seen' = seen
    BY <1>6 DEF SendOk, Remembers, registers
  <2> QED
    BY ZenonT(60), <1>1, <1>6, <2>1 DEF SendOk, NoRev
<1> QED
  BY ZenonT(40), <1>2, <1>3, <1>4, <1>5, <1>6 DEF Reverse

\* The memory is an inductive invariant.
LEMMA MemoryInductive == MemoryInv /\ [Next]_vars => MemoryInv'
<1> SUFFICES ASSUME MemoryInv, [Next]_vars PROVE MemoryInv'
  OBVIOUS
<1>0. TypeOK /\ TypeOK'
  BY ZenonT(60), HandlerType, ReverseType, TimeType, StutterType DEF MemoryInv, Next, Lanes
<1> SUFFICES ASSUME Retained PROVE Remembers'
  BY <1>0 DEF MemoryInv, Retained
<1>1. Remembers
  BY ZenonT(40) DEF MemoryInv
<1>2. CASE Lanes
  <2>1. PICK c \in Conn : Handle(c) \/ \E o \in Key : Deliver(c, o)
    BY SMTT(30), <1>2 DEF Lanes
  <2>2. /\ Kept
        /\ sent' = sent /\ rev' = rev /\ done \subseteq done'
        /\ \A o \in handled' : o \in handled \/ Known(seen', o)
        /\ \A o \in done' : o \in done \/ Known(announced', o)
        /\ JobRemembers(c)'
        /\ \A d \in Conn \ {c} : job'[d] = job[d]
    BY ZenonT(40), <1>0, <1>1, <2>1, HandlerRemembers
  <2>3. \A d \in Conn : JobRemembers(d)'
    BY ZenonT(60), <1>0, <1>1, <2>2, OtherRemembers DEF Remembers
  <2>4. /\ \A o \in (handled \cup sent)' : Known(seen', o)
        /\ \A o \in done' : Known(announced', o)
    BY ZenonT(40), <1>0, <1>1, <2>2, HistoryKnown
  <2>5. rev.pc \in {"store", "send"} => Known(seen', rev.obj)
    BY ZenonT(40), <1>0, <1>1, <2>2 DEF Remembers, Kept, TypeOK, Known
  <2> QED
    BY ZenonT(60), <1>1, <2>2, <2>3, <2>4, <2>5 DEF Remembers, Kept
<1>3. CASE Reverse
  <2>1. /\ Kept
        /\ handled' = handled /\ done' = done /\ job' = job
        /\ \A o \in sent' : o \in sent \/ Known(seen', o)
        /\ rev'.pc \in {"store", "send"} => Known(seen', rev'.obj)
        /\ ~rev'.stale
    BY ZenonT(60), <1>0, <1>1, <1>3, ReverseRemembers
  <2>2. \A d \in Conn : JobRemembers(d)'
    BY ZenonT(60), <1>0, <1>1, <2>1, OtherRemembers DEF Remembers
  <2>3. /\ \A o \in (handled \cup sent)' : Known(seen', o)
        /\ \A o \in done' : Known(announced', o)
    BY ZenonT(40), <1>0, <1>1, <2>1, HistoryKnown
  <2> QED
    BY ZenonT(60), <2>1, <2>2, <2>3 DEF Remembers, Kept
<1>4. CASE Time \/ UNCHANGED vars
  <2>1. UNCHANGED <<registers, job, rev, history>>
    BY ZenonT(60), <1>4 DEF Time, Elapse, Expire, Retained, vars
  <2> QED
    BY ZenonT(60), <1>1, <2>1 DEF Remembers, JobRemembers, registers, history
<1>5. CASE Restart
  BY <1>5 DEF Restart, Remembers, JobRemembers, NoJob, NoRev
<1> QED
  BY ZenonT(60), <1>2, <1>3, <1>4, <1>5 DEF Next

\* The memory holds in every reachable state, whatever the interleaving of handlers,
\* reverse path and restarts.
LEMMA MemoryInvariant == Spec => []MemoryInv
<1>1. ASSUME Init PROVE MemoryInv
  <2>1. \A c \in Conn : job[c].pc = "idle" /\ ~job[c].late
    BY ZenonT(60), <1>1 DEF Init, NoJob
  <2>2. \A c \in Conn : JobRemembers(c)
    BY ZenonT(60), <2>1 DEF JobRemembers
  <2>3. rev.pc = "idle" /\ ~rev.stale
    BY <1>1 DEF Init, NoRev
  <2>4. elapsed = {} /\ handled \cup sent = {} /\ done = {}
    BY <1>1 DEF Init
  <2>5. Remembers
    BY <2>2, <2>3, <2>4 DEF Remembers
  <2> QED
    BY ZenonT(60), <1>1, <2>5, InitType DEF MemoryInv
<1> QED
  BY <1>1, MemoryInductive, PTL DEF Spec

\* While the registries forget nothing, no handler announces what is registered as
\* this bridge's own.
THEOREM EchoNeverAnnounced == Spec => []EchoSuppressed
<1>1. MemoryInv => EchoSuppressed
  BY DEF MemoryInv, Remembers, JobRemembers, EchoSuppressed, Delivered, Submitted
<1> QED
  BY <1>1, MemoryInvariant, PTL

\* While the registries forget nothing, the reverse path never works on an object
\* that had crossed the bridge when its notification came in.
THEOREM OriginFiltered == Spec => []OriginFilter
<1>1. MemoryInv => OriginFilter
  BY ZenonT(40) DEF MemoryInv, Remembers, OriginFilter
<1> QED
  BY <1>1, MemoryInvariant, PTL

\* While the registries forget nothing, a completed announcement is not repeated by
\* a later delivery.
THEOREM AnnouncedOnce == Spec => []NoReannounce
<1>1. MemoryInv => NoReannounce
  BY ZenonT(60) DEF MemoryInv, Remembers, JobRemembers, NoReannounce
<1> QED
  BY <1>1, MemoryInvariant, PTL

\* While the registries forget nothing, whatever was published is registered.
THEOREM PublishedIsKnown == Spec => []SentIsKnown
<1>1. MemoryInv => SentIsKnown
  BY DEF MemoryInv, Remembers, SentIsKnown
<1> QED
  BY <1>1, MemoryInvariant, PTL

-----------------------------------------------------------------------------
(* Store before announce. *)

\* The frame is in the cache from objects.Put to the end of the handler.
Stored(c) == job[c].pc \notin {"idle", "put"} => job[c].obj \in objects
StoreInv == TypeOK /\ (Roomy => \A c \in Conn : Stored(c))

\* In a cache with room a Put adds its object and evicts none.
LEMMA PutAdds ==
  ASSUME TypeOK, Roomy, NEW o \in Key, Cache!Put(o)
  PROVE  objects' = objects \cup {o}
<1>1. objects \cup {o} \in SUBSET Key
  BY DEF TypeOK
<1>2. Cache!Bytes(objects \cup {o}) <= CacheBytes /\ ~Ageing
  BY Zenon, <1>1 DEF Roomy
<1>3. Cache!PutOutcomes(objects, o) = {objects \cup {o}}
  BY Zenon, <1>2 DEF Cache!PutOutcomes
<1> QED
  BY Zenon, <1>3 DEF Cache!Put

\* A step of a handler stores its object before anything else and keeps it.
LEMMA HandlerStores ==
  ASSUME StoreInv, Roomy, NEW c \in Conn, Handle(c) \/ \E o \in Key : Deliver(c, o)
  PROVE  objects \subseteq objects' /\ Stored(c)' /\ \A d \in Conn \ {c} : job'[d] = job[d]
<1>0. job[c] \in Job /\ Stored(c) /\ job \in [Conn -> Job] /\ TypeOK
  BY ZenonT(60) DEF StoreInv, TypeOK
<1>1. ASSUME NEW o \in Key, Deliver(c, o)
      PROVE  objects' = objects /\ job'[c].pc = "put" /\ \A d \in Conn \ {c} : job'[d] = job[d]
  BY ZenonT(60), <1>0, <1>1 DEF Deliver
<1>2. CASE Put(c)
  <2>1. job[c].pc = "put" /\ Cache!Put(job[c].obj)
    BY Zenon, <1>2 DEF Put
  <2>2. job[c].obj \in Key
    BY <1>0, <2>1 DEF TypeOK
  <2>3. objects' = objects \cup {job[c].obj}
    BY Zenon, <1>0, <2>1, <2>2, PutAdds
  <2>4. job'[c].obj = job[c].obj /\ \A d \in Conn \ {c} : job'[d] = job[d]
    BY ZenonT(60), <1>0, <1>2 DEF Put, Goto, Job
  <2> QED
    BY Zenon, <2>3, <2>4 DEF Stored
<1>3. ASSUME \/ MarkRootSeen(c) \/ MarkRootAnnounced(c) \/ RootsDone(c) \/ MarkDelivered(c)
             \/ Gate(c) \/ Refresh(c) \/ AnnounceOk(c) \/ AnnounceFail(c) \/ RecordTold(c)
      PROVE  objects' = objects /\ job[c].pc \notin {"idle", "put"}
  BY <1>3 DEF MarkRootSeen, MarkRootAnnounced, RootsDone, MarkDelivered, Gate, Refresh,
              AnnounceOk, AnnounceFail, RecordTold
<1>4. CASE MarkRootSeen(c) \/ MarkRootAnnounced(c)
  <2>0. job \in [Conn -> Job]
    BY Zenon, <1>0 DEF TypeOK
  <2>1. job'[c].obj = job[c].obj /\ \A d \in Conn \ {c} : job'[d] = job[d]
    <3>1. CASE MarkRootSeen(c)
      <4>1. PICK r : job' = [job EXCEPT ![c].pc = "rootTold", ![c].root = r]
        BY Zenon, <3>1 DEF MarkRootSeen
      <4> QED
        BY SMTT(60), <2>0, <4>1 DEF Job
    <3>2. CASE MarkRootAnnounced(c)
      <4>1. job' = [job EXCEPT ![c].pc = "roots", ![c].root = NoObj,
                               ![c].todo = @ \ {job[c].root}]
        BY Zenon, <3>2 DEF MarkRootAnnounced
      <4> QED
        BY SMTT(60), <2>0, <4>1 DEF Job
    <3> QED
      BY Zenon, <1>4, <3>1, <3>2
  <2> QED
    BY Zenon, <1>0, <1>3, <1>4, <2>1 DEF Stored
<1>5. CASE RootsDone(c) \/ Gate(c) \/ AnnounceOk(c)
  <2>0. /\ job \in [Conn -> Job]
        /\ \E p : job' = [job EXCEPT ![c].pc = p]
    BY Zenon, <1>0, <1>5 DEF RootsDone, Gate, AnnounceOk, Goto, TypeOK
  <2>1. job'[c].obj = job[c].obj /\ \A d \in Conn \ {c} : job'[d] = job[d]
    BY SMTT(60), <2>0 DEF Job
  <2> QED
    BY Zenon, <1>0, <1>3, <1>5, <2>1 DEF Stored
<1>6. CASE Refresh(c) \/ AnnounceFail(c) \/ RecordTold(c)
  <2>0. job' = [job EXCEPT ![c] = NoJob] /\ job \in [Conn -> Job] /\ NoJob.pc = "idle"
    BY Zenon, <1>0, <1>6 DEF Refresh, AnnounceFail, RecordTold, Return, NoJob, TypeOK
  <2>1. job'[c].pc = "idle" /\ \A d \in Conn \ {c} : job'[d] = job[d]
    BY Zenon, <2>0
  <2> QED
    BY Zenon, <1>3, <1>6, <2>1 DEF Stored
<1>7. CASE MarkDelivered(c)
  <2>1. job' = [job EXCEPT ![c] = NoJob] \/ job' = [job EXCEPT ![c].pc = "gate"]
    BY Zenon, <1>7 DEF MarkDelivered, Goto, Return
  <2>2. /\ job'[c].pc = "idle" \/ job'[c].obj = job[c].obj
        /\ \A d \in Conn \ {c} : job'[d] = job[d]
    BY SMTT(30), <1>0, <2>1 DEF NoJob, Job
  <2> QED
    BY Zenon, <1>0, <1>3, <1>7, <2>2 DEF Stored
<1>8. ASSUME NEW o \in Key, Deliver(c, o)
      PROVE  objects \subseteq objects' /\ Stored(c)' /\ \A d \in Conn \ {c} : job'[d] = job[d]
  BY Zenon, <1>1, <1>8 DEF Stored
<1> QED
  BY Zenon, <1>2, <1>4, <1>5, <1>6, <1>7, <1>8 DEF Handle

\* Storing first is an inductive invariant.
LEMMA StoreInductive == StoreInv /\ [Next]_vars => StoreInv'
<1> SUFFICES ASSUME StoreInv, [Next]_vars PROVE StoreInv'
  OBVIOUS
<1>0. TypeOK'
  BY ZenonT(60), HandlerType, ReverseType, TimeType, StutterType DEF StoreInv, Next, Lanes
<1> SUFFICES ASSUME Roomy PROVE \A c \in Conn : Stored(c)'
  BY Zenon, <1>0 DEF StoreInv, Roomy
<1>1. \A c \in Conn : Stored(c)
  BY DEF StoreInv
<1>2. ASSUME NEW d \in Conn, objects \subseteq objects', job'[d] = job[d] PROVE Stored(d)'
  BY Zenon, <1>1, <1>2 DEF Stored
<1>3. CASE Lanes
  <2>1. PICK c \in Conn : Handle(c) \/ \E o \in Key : Deliver(c, o)
    BY Zenon, <1>3 DEF Lanes
  <2>2. objects \subseteq objects' /\ Stored(c)' /\ \A d \in Conn \ {c} : job'[d] = job[d]
    BY Zenon, <2>1, HandlerStores
  <2> QED
    BY Zenon, <1>2, <2>2
<1>4. CASE Reverse
  <2>1. job' = job
    BY <1>4 DEF Reverse, Notify, BuildOk, BuildFail, Register, Store, SendOk, SendFail
  <2>2. CASE Store
    <3>1. rev.obj \in Key /\ Cache!Put(rev.obj) /\ TypeOK
      BY <2>2 DEF Store, StoreInv, TypeOK
    <3>2. objects \subseteq objects'
      BY Zenon, <3>1, PutAdds
    <3> QED
      BY Zenon, <1>2, <2>1, <3>2
  <2>3. CASE ~Store
    <3>1. objects' = objects
      BY <1>4, <2>3 DEF Reverse, Notify, BuildOk, BuildFail, Register, SendOk, SendFail
    <3> QED
      BY Zenon, <1>2, <2>1, <3>1
  <2> QED
    BY <2>2, <2>3
<1>5. CASE Time \/ UNCHANGED vars
  <2>1. ~Ageing
    BY ZenonT(60) DEF Roomy
  <2>2. objects' = objects /\ job' = job
    BY <1>5, <2>1 DEF Time, Elapse, Expire, vars
  <2> QED
    BY Zenon, <1>2, <2>2
<1>6. CASE Restart
  <2>1. \A c \in Conn : job'[c].pc = "idle"
    BY ZenonT(60), <1>6 DEF Restart, NoJob
  <2> QED
    BY Zenon, <2>1 DEF Stored
<1> QED
  BY Zenon, <1>3, <1>4, <1>5, <1>6 DEF Next

\* For every set of objects and connections: in a cache with room for them an object is
\* there from the moment a handler may announce it.
THEOREM StoredBeforeTold == Spec => []ServableWhenTold
<1>1. Init => StoreInv
  <2> SUFFICES ASSUME Init PROVE StoreInv
    OBVIOUS
  <2>1. \A c \in Conn : job[c].pc = "idle"
    BY DEF Init, NoJob
  <2> QED
    BY Zenon, <2>1, InitType DEF StoreInv, Stored
<1>2. StoreInv => ServableWhenTold
  BY DEF StoreInv, Stored, ServableWhenTold
<1> QED
  BY <1>1, <1>2, StoreInductive, PTL DEF Spec
================================================================================
