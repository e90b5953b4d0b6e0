----------------------------- MODULE UplinkProofs -----------------------------
(***************************************************************************)
(* What Subscriber.Run and UpTunnel.Send guarantee of the reverse path, for *)
(* any set of objects and any number of ingress addresses: a cut-off object *)
(* is never followed on its stream, a demoted bridge writes one more object *)
(* at most, and Send gives up honestly.                                     *)
(***************************************************************************)
EXTENDS Uplink, TLAPS

USE UplinkAssumption DEF UplinkAssumption

\* The waits of get's ladder are four.
LEMMA LadderLength == Ladder = 4
  BY DEF Ladder, rateLimitBackoff

-----------------------------------------------------------------------------
(* The inductive invariant. *)

\* Types, with what each place in Run knows: a throttled GET has a wait left, a dialling
\* Send an address left, and a build an object.
Types ==
  /\ TypeOK
  /\ run = "throttled" => attempt < Ladder
  /\ run = "dial" => dials < Addrs
  /\ run \in {"get", "throttled"} => obj \in Object

\* A torn stream has been closed.
FramedInv == (conn # 0 => ~torn) /\ (run = "write" => ~torn)

\* The role was held when publish asked for it.
LateInv ==
  /\ role => late = 0
  /\ run \in {"get", "throttled", "dial", "write"} => late = 0
  /\ late <= 1

\* In a pass of Send, an address that accepted all along is among those the cursor has
\* still to come to: the Addrs - dials addresses from cur on, past the end of the list
\* from its start again.
PassInv ==
  run = "dial" /\ ~cancelled =>
    \A a \in reach : (cur <= a /\ a < cur + Addrs - dials) \/ a + dials < cur

IInv == Types /\ FramedInv /\ LateInv /\ PassInv

\* What a step is, for the case splits below.
Named ==
  \/ Subscribe \/ SubscribeFails \/ Sleep \/ RecvFails
  \/ DropBuild \/ Throttle \/ Retry \/ Built
  \/ Dial \/ DialFails \/ Write \/ WriteFails \/ Close
  \/ DropStream \/ SetActive \/ Cancel \/ Calm

\* Every step is one of the named actions, or one for some object or address.
LEMMA NextCases ==
  Next => \/ Named
          \/ \E o \in Object : Skip(o) \/ Publish(o) \/ Notify(o)
          \/ \E a \in Address : Edge(a)
  BY Zenon DEF Next, Step, Named

\* Every step keeps the types.
LEMMA TypesStep ==
  ASSUME Types, Next
  PROVE  Types'
<1> USE LadderLength DEF Types, TypeOK, loop, sub, tunnel, env, Address, LateCap
<1>1. CASE Subscribe
  BY <1>1 DEF Subscribe
<1>2. CASE SubscribeFails
  BY <1>2 DEF SubscribeFails
<1>3. CASE Sleep
  BY <1>3 DEF Sleep, next
<1>4. CASE RecvFails
  BY <1>4 DEF RecvFails
<1>5. CASE DropBuild
  BY <1>5 DEF DropBuild
<1>6. CASE Throttle
  BY <1>6 DEF Throttle
<1>7. CASE Retry
  BY <1>7 DEF Retry
<1>8. CASE Built
  BY <1>8 DEF Built
<1>9. CASE Dial
  <2>1. conn' = cur /\ conn' \in 0..Addrs /\ torn' = FALSE /\ run' = "write"
    BY <1>9 DEF Dial
  <2>2. UNCHANGED <<obj, attempt, backoff, sub, seen, cur, dials, reach, env, sent, late>>
    BY <1>9, Zenon DEF Dial
  <2> QED
    BY <2>1, <2>2, ZenonT(30)
<1>10. CASE DialFails
  BY <1>10 DEF DialFails
<1>11. CASE Write
  BY <1>11 DEF Write, Wrote
<1>12. CASE WriteFails
  BY <1>12 DEF WriteFails, Wrote
<1>13. CASE Close
  <2>1. conn' \in 0..Addrs
    BY <1>13 DEF Close
  <2>2. UNCHANGED <<loop, sub, seen, cur, dials, torn, reach, env, sent, late>>
    BY <1>13, Zenon DEF Close
  <2> QED
    BY <2>1, <2>2
<1>14. CASE DropStream
  <2>1. inbox' \subseteq Object /\ stream' \in BOOLEAN
    BY <1>14, Zenon DEF DropStream
  <2>2. UNCHANGED <<loop, seen, tunnel, env, sent, late>>
    BY <1>14, Zenon DEF DropStream
  <2> QED
    BY <2>1, <2>2
<1>15. CASE SetActive
  BY <1>15 DEF SetActive
<1>16. CASE Cancel
  BY <1>16 DEF Cancel
<1>17. CASE Calm
  BY <1>17 DEF Calm
<1>18. ASSUME NEW o \in Object, Skip(o) PROVE Types'
  BY <1>18 DEF Skip
<1>19. ASSUME NEW o \in Object, Publish(o) PROVE Types'
  BY <1>19 DEF Publish
<1>20. ASSUME NEW o \in Object, Notify(o) PROVE Types'
  BY <1>20 DEF Notify
<1>21. ASSUME NEW a \in Address, Edge(a) PROVE Types'
  BY <1>21 DEF Edge
<1> QED
  BY <1>1, <1>2, <1>3, <1>4, <1>5, <1>6, <1>7, <1>8, <1>9, <1>10, <1>11, <1>12, <1>13, <1>14, <1>15, <1>16, <1>17, <1>18, <1>19, <1>20, <1>21, NextCases, Zenon DEF Named

-----------------------------------------------------------------------------
(* Streams to an edge. *)

\* Every step keeps FramedInv: a failed write gives the connection up, and a new one
\* starts a new stream.
LEMMA FramedStep ==
  ASSUME Types, FramedInv, Next
  PROVE  FramedInv'
<1> USE DEF Types, TypeOK, FramedInv, loop, sub, tunnel, env
<1>1. CASE Built
  BY <1>1 DEF Built
<1>2. CASE Dial \/ DialFails
  BY <1>2 DEF Dial, DialFails
<1>3. CASE Write \/ WriteFails \/ Close
  BY <1>3 DEF Write, WriteFails, Wrote, Close
<1>4. CASE Subscribe \/ SubscribeFails \/ Sleep \/ RecvFails \/ DropBuild \/ Throttle \/ Retry
  BY <1>4 DEF Subscribe, SubscribeFails, Sleep, RecvFails, DropBuild, Throttle, Retry
<1>5. CASE DropStream \/ SetActive \/ Cancel \/ Calm
  BY <1>5 DEF DropStream, SetActive, Cancel, Calm
<1>6. ASSUME NEW o \in Object, Skip(o) \/ Publish(o) \/ Notify(o) PROVE FramedInv'
  BY <1>6 DEF Skip, Publish, Notify
<1>7. ASSUME NEW a \in Address, Edge(a) PROVE FramedInv'
  BY <1>7 DEF Edge
<1> QED
  BY <1>1, <1>2, <1>3, <1>4, <1>5, <1>6, <1>7, NextCases, Zenon DEF Named

-----------------------------------------------------------------------------
(* The role. *)

\* Every step keeps LateInv: between the check of the role and the next there is one
\* write.
LEMMA LateStep ==
  ASSUME Types, LateInv, Next
  PROVE  LateInv'
<1> USE DEF Types, TypeOK, LateInv, loop, sub, tunnel, env, LateCap
<1>1. CASE Write \/ WriteFails
  BY <1>1 DEF Write, WriteFails, Wrote
<1>2. CASE SetActive
  BY <1>2 DEF SetActive
<1>3. ASSUME NEW o \in Object, Publish(o) PROVE LateInv'
  BY <1>3 DEF Publish
<1>4. CASE Subscribe \/ SubscribeFails \/ Sleep \/ RecvFails \/ DropBuild
  BY <1>4 DEF Subscribe, SubscribeFails, Sleep, RecvFails, DropBuild
<1>5. CASE Throttle \/ Retry \/ Built \/ Dial \/ DialFails \/ Close
  BY <1>5 DEF Throttle, Retry, Built, Dial, DialFails, Close
<1>6. CASE DropStream \/ Cancel \/ Calm
  BY <1>6 DEF DropStream, Cancel, Calm
<1>7. ASSUME NEW o \in Object, Skip(o) \/ Notify(o) PROVE LateInv'
  BY <1>7 DEF Skip, Notify
<1>8. ASSUME NEW a \in Address, Edge(a) PROVE LateInv'
  BY <1>8 DEF Edge
<1> QED
  BY <1>1, <1>2, <1>3, <1>4, <1>5, <1>6, <1>7, <1>8, NextCases, Zenon DEF Named

-----------------------------------------------------------------------------
(* A pass of Send. *)

\* Every step keeps PassInv: the cursor moves off an address that is down, by one.
LEMMA PassStep ==
  ASSUME Types, PassInv, Next
  PROVE  PassInv'
<1> USE DEF Types, TypeOK, PassInv, loop, sub, tunnel, env, Address
<1>1. CASE Built
  BY <1>1 DEF Built
<1>2. CASE DialFails
  BY <1>2 DEF DialFails
<1>3. ASSUME NEW a \in Address, Edge(a) PROVE PassInv'
  BY <1>3 DEF Edge
<1>4. CASE Subscribe \/ SubscribeFails \/ Sleep \/ RecvFails \/ DropBuild \/ Throttle \/ Retry
  BY <1>4 DEF Subscribe, SubscribeFails, Sleep, RecvFails, DropBuild, Throttle, Retry
<1>5. CASE Dial \/ Write \/ WriteFails \/ Close
  BY <1>5 DEF Dial, Write, WriteFails, Wrote, Close
<1>6. CASE DropStream \/ SetActive \/ Cancel \/ Calm
  BY <1>6, ZenonT(30) DEF DropStream, SetActive, Cancel, Calm
<1>7. ASSUME NEW o \in Object, Skip(o) \/ Publish(o) \/ Notify(o) PROVE PassInv'
  BY <1>7, ZenonT(30) DEF Skip, Publish, Notify
<1> QED
  BY <1>1, <1>2, <1>3, <1>4, <1>5, <1>6, <1>7, NextCases, Zenon DEF Named

\* The pass that ends has come to every address: at its last dial the only one left is
\* the cursor's, which is down.
LEMMA ExhaustedStep ==
  ASSUME Types, PassInv, Next, run = "dial", run' = "recv", ~cancelled
  PROVE  reach = {}
<1>1. DialFails
  <2>1. ~Named \/ DialFails
    BY DEF Named, Subscribe, SubscribeFails, Sleep, RecvFails, DropBuild, Throttle, Retry,
           Built, Dial, Write, WriteFails, Wrote, Close, DropStream, SetActive, Cancel,
           Calm, loop
  <2>2. ASSUME NEW o \in Object, Skip(o) \/ Publish(o) \/ Notify(o) PROVE FALSE
    BY <2>2 DEF Skip, Publish, Notify, loop
  <2>3. ASSUME NEW a \in Address, Edge(a) PROVE FALSE
    BY <2>3 DEF Edge, loop
  <2> QED
    BY <2>1, <2>2, <2>3, NextCases, Zenon
<1>2. cur \notin up /\ dials + 1 = Addrs
  BY <1>1 DEF DialFails
<1>3. ASSUME NEW a \in reach PROVE FALSE
  <2>1. a \in 1..Addrs /\ cur \in 1..Addrs /\ a # cur
    BY <1>2 DEF Types, TypeOK, Address
  <2>2. (cur <= a /\ a < cur + Addrs - dials) \/ a + dials < cur
    BY Zenon DEF PassInv
  <2>3. dials \in Nat
    BY DEF Types, TypeOK
  <2> QED
    BY <1>2, <2>1, <2>2, <2>3
<1> QED
  BY <1>3

-----------------------------------------------------------------------------
(* The theorems. *)

\* Run starts with nothing registered and no connection.
LEMMA InitIInv == Init => IInv
<1> SUFFICES ASSUME Init PROVE IInv
  OBVIOUS
<1>1. Types
  <2>1. 0 \in 0..Ladder /\ 1 \in Address /\ 0 \in 0..Addrs /\ 0 \in 0..LateCap
    BY LadderLength DEF Address, LateCap
  <2>2. sent \subseteq Object /\ obj \in Object \cup {None} /\ backoff \in {1, 2, 4, 8, 16, 30}
    BY DEF Init
  <2> QED
    BY <2>1, <2>2, Zenon DEF Init, Types, TypeOK
<1>2. FramedInv /\ LateInv /\ PassInv
  BY DEF Init, FramedInv, LateInv, PassInv
<1> QED
  BY <1>1, <1>2 DEF IInv

\* Every step, and every stuttering step, keeps the invariant.
LEMMA NextIInv == IInv /\ [Next]_vars => IInv'
<1>1. IInv /\ Next => IInv'
  BY TypesStep, FramedStep, LateStep, PassStep DEF IInv
<1>2. ASSUME IInv, UNCHANGED vars PROVE IInv'
  <2>1. /\ UNCHANGED <<run, obj, attempt, backoff, stream, inbox, seen, cur, conn, dials>>
        /\ UNCHANGED <<torn, reach, up, role, cancelled, calm, sent, late>>
    BY <1>2 DEF vars, loop, sub, tunnel, env
  <2>2. Types'
    <3>1. TypeOK'
      BY <1>2, <2>1 DEF IInv, Types, TypeOK, Address
    <3> QED
      BY <1>2, <2>1, <3>1, Zenon DEF IInv, Types
  <2>3. FramedInv' /\ LateInv' /\ PassInv'
    BY <1>2, <2>1, Zenon DEF IInv, FramedInv, LateInv, PassInv
  <2> QED
    BY <2>2, <2>3 DEF IInv
<1> QED
  BY <1>1, <1>2, Zenon

\* The inductive invariant holds of every behaviour of the reverse path.
THEOREM Invariance == Spec => []IInv
  BY InitIInv, NextIInv, PTL DEF Spec

\* Every variable keeps its type.
THEOREM TypeCorrect == Spec => []TypeOK
<1>1. IInv => TypeOK
  BY DEF IInv, Types
<1> QED
  BY <1>1, Invariance, PTL

\* For any number of addresses: Send writes no object behind a cut-off one.
THEOREM StreamsAreFramed == Spec => []Framed
<1>1. IInv => Framed
  BY Zenon DEF IInv, FramedInv, Framed
<1> QED
  BY <1>1, Invariance, PTL

\* Whenever the promoter takes the role away: one write at most follows.
THEOREM OneLateWrite == Spec => []LateBounded
<1>1. IInv => LateBounded
  BY DEF IInv, LateInv, LateBounded
<1> QED
  BY <1>1, Invariance, PTL

\* For any number of addresses, wherever the cursor starts and whichever edges come and
\* go: Send gives up only when no address was up all along.
THEOREM SendIsHonest == Spec => ExhaustedIsHonest
<1>1. IInv /\ [Next]_vars => [run = "dial" /\ run' = "recv" /\ ~cancelled => reach = {}]_vars
  BY ExhaustedStep, Zenon DEF IInv
<1>2. Spec => [][Next]_vars
  BY PTL DEF Spec
<1> QED
  BY <1>1, <1>2, Invariance, PTL DEF ExhaustedIsHonest
================================================================================
