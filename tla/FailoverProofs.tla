---------------------------- MODULE FailoverProofs ----------------------------
(* What holds of the submitter role and of /readyz for any lanes, any number of   *)
(* probes and any order of starts, stops, crashes and cuts.                       *)
EXTENDS Failover, TLAPS

-----------------------------------------------------------------------------
(* The history of verdicts. *)

\* A verdict goes to the front of the history, which drops its end when it is full:
\* Logged on the probes RunPromoter has acted on.
LEMMA LoggedIsShift ==
  ASSUME log \in Seq({"up", "down"}), NEW v \in {"up", "down"}, FailoverAssumption
  PROVE  /\ Logged(v) \in Seq({"up", "down"})
         /\ Len(Logged(v)) = Min2(Len(log) + 1, Deciding)
         /\ \A i \in 1..Len(Logged(v)) : Logged(v)[i] = IF i = 1 THEN v ELSE log[i - 1]
<1> DEFINE all == <<v>> \o log
           n == Min2(Len(log) + 1, Deciding)
<1>1. Len(log) \in Nat /\ Deciding \in Nat \ {0}
  BY DEF Deciding, FailoverAssumption
<1>2. all \in Seq({"up", "down"}) /\ Len(all) = Len(log) + 1
  BY <1>1
<1>3. \A i \in 1..Len(all) : all[i] = IF i = 1 THEN v ELSE log[i - 1]
  BY <1>1
<1>4. n \in 0..Len(all) /\ Min2(Len(all), Deciding) = n
  BY <1>1, <1>2 DEF Min2
<1> HIDE DEF all, n
<1>5. /\ SubSeq(all, 1, n) \in Seq({"up", "down"})
      /\ Len(SubSeq(all, 1, n)) = n
      /\ \A i \in 1..n : SubSeq(all, 1, n)[i] = all[i]
  BY <1>2, <1>4
<1>6. Logged(v) = SubSeq(all, 1, n)
  BY <1>4 DEF Logged, all
<1>7. \A i \in 1..n : i \in 1..Len(all)
  BY <1>2, <1>4
<1> QED
  BY <1>3, <1>5, <1>6, <1>7 DEF n

-----------------------------------------------------------------------------
(* Types. *)

\* TypeOK by variable, which the provers take more easily than a set of Booleans.
Types ==
  /\ proc \in {"down", "main", "group"}
  /\ lane \in [Lane -> Socket] /\ metrics \in Socket
  /\ cancelled \in BOOLEAN /\ waiting \in BOOLEAN /\ ready \in BOOLEAN
  /\ net \in BOOLEAN /\ active \in BOOLEAN
  /\ counted \subseteq Lane
  /\ probe \in {"none", "up", "down"}
  /\ fails \in 0..FailN /\ oks \in 0..OKN
  /\ dark \in 0..FailN /\ bright \in 0..OKN
  /\ log \in Seq({"up", "down"}) /\ Len(log) <= Deciding

\* Every step of the primary and of the path keeps what the standby has counted, or
\* starts a new period: Watched, or UNCHANGED.
Outside ==
  /\ promoter' = promoter
  /\ \/ dark' = dark /\ bright' = bright /\ Readyz' = Readyz
     \/ Watched

\* Next without RunPromoter: starts, stops, sockets, waitLanesBound, cuts.
World ==
  \/ Start \/ Crash \/ Exit
  \/ \E ok \in BOOLEAN : Launch(ok) \/ \E l \in Lane : Bind(l, ok)
  \/ \E l \in Lane : AcceptFails(l) \/ LaneReturns(l) \/ Look(l)
  \/ \E to \in {"open", "failed", "closed"} : ServeMetrics(to)
  \/ SetReady
  \/ Cancel
  \/ Path

\* A step of Next is one of the world, a probe, or RunPromoter's reaction to one.
LEMMA NextCases == Next => World \/ Probe \/ Healthy \/ Unhealthy
  BY Zenon DEF Next, World

\* TypeOK speaks of the same types.
LEMMA TypesAreTypeOK == Types => TypeOK
  BY Zenon DEF Types, TypeOK

\* The steps of the primary and of the path keep the types, Watched included.
LEMMA WorldTypes ==
  ASSUME Types, World
  PROVE  Types'
<1>1. CASE Start
  BY <1>1, Zenon DEF Start, Types, sockets, promoter, Socket
<1>w. ASSUME Watched PROVE dark' \in 0..FailN /\ bright' \in 0..OKN
  BY <1>w, FailoverAssumption DEF Watched, Types
<1>f. ASSUME Fresh
      PROVE  /\ lane' \in [Lane -> Socket] /\ metrics' \in Socket
             /\ cancelled' \in BOOLEAN /\ waiting' \in BOOLEAN /\ ready' \in BOOLEAN
             /\ counted' \subseteq Lane
  <2>1. [l \in Lane |-> "off"] \in [Lane -> Socket]
    BY DEF Socket
  <2>2. "off" \in Socket
    BY DEF Socket
  <2> QED
    BY <1>f, <2>1, <2>2, Zenon DEF Fresh
<1>2. CASE Crash
  BY <1>2, <1>w, <1>f, Zenon DEF Crash, Types, promoter
<1>3. CASE Exit
  BY <1>3, <1>w, <1>f, Zenon DEF Exit, Types, promoter
<1>4. ASSUME NEW ok \in BOOLEAN, Launch(ok) PROVE Types'
  BY <1>4, Zenon DEF Launch, Types, sockets, promoter, Socket
<1>5. ASSUME NEW ok \in BOOLEAN, NEW l \in Lane, Bind(l, ok) PROVE Types'
  BY <1>5 DEF Bind, Types, promoter, Socket
<1>6. ASSUME NEW l \in Lane, AcceptFails(l) PROVE Types'
  BY <1>6 DEF AcceptFails, Types, promoter, Socket
<1>7. ASSUME NEW l \in Lane, LaneReturns(l) PROVE Types'
  BY <1>7 DEF LaneReturns, Types, promoter, Socket
<1>8. ASSUME NEW l \in Lane, Look(l) PROVE Types'
  BY <1>8 DEF Look, Types, sockets, promoter, Socket
<1>9. ASSUME NEW to \in {"open", "failed", "closed"}, ServeMetrics(to) PROVE Types'
  BY <1>9, <1>w DEF ServeMetrics, Types, promoter, Socket
<1>10. CASE SetReady
  BY <1>10, <1>w, Zenon DEF SetReady, Types, sockets, promoter
<1>11. CASE Cancel
  BY <1>11 DEF Cancel, Types, sockets, promoter, Socket
<1>12. CASE Path
  <2>1. net' \in BOOLEAN
    BY <1>12, Zenon DEF Path
  <2> QED
    BY <1>12, <1>w, <2>1, Zenon DEF Path, Types, process, sockets, promoter
<1> QED
  BY <1>1, <1>2, <1>3, <1>4, <1>5, <1>6, <1>7, <1>8, <1>9, <1>10, <1>11, <1>12, Zenon DEF World

\* RunPromoter's steps keep them as well; the history stays within Deciding.
LEMMA PromoterTypes ==
  ASSUME Types, Probe \/ Healthy \/ Unhealthy
  PROVE  Types'
<1> USE FailoverAssumption
<1>1. CASE Probe
  BY <1>1 DEF Probe, Types, process, sockets, Socket
<1>2. ASSUME NEW v \in {"up", "down"}, Counted(v)
      PROVE  /\ log' \in Seq({"up", "down"}) /\ Len(log') <= Deciding
             /\ dark' \in 0..FailN /\ bright' \in 0..OKN
  <2>1. log' = Logged(v) /\ log \in Seq({"up", "down"})
    BY <1>2 DEF Counted, Types
  <2>2. Len(log) + 1 \in Nat /\ Deciding \in Nat
    BY <2>1 DEF Deciding, FailoverAssumption
  <2>3. Min2(Len(log) + 1, Deciding) <= Deciding
    BY <2>2 DEF Min2
  <2>4. dark' \in 0..FailN /\ bright' \in 0..OKN
    BY <1>2 DEF Counted, Types, Min2, FailoverAssumption
  <2> QED
    BY <2>1, <2>3, <2>4, LoggedIsShift
<1>3. CASE Healthy
  <2>1. Counted("up")
    BY <1>3 DEF Healthy
  <2>2. oks' \in 0..OKN /\ fails' \in 0..FailN /\ active' \in BOOLEAN
    BY <1>3 DEF Healthy, Types, Min2, FailoverAssumption
  <2> QED
    BY <1>2, <1>3, <2>1, <2>2 DEF Healthy, Types, process, sockets
<1>4. CASE Unhealthy
  <2>1. Counted("down")
    BY <1>4 DEF Unhealthy
  <2>2. oks' \in 0..OKN /\ fails' \in 0..FailN /\ active' \in BOOLEAN
    BY <1>4 DEF Unhealthy, Types, Min2, FailoverAssumption
  <2> QED
    BY <1>2, <1>4, <2>1, <2>2 DEF Unhealthy, Types, process, sockets
<1> QED
  BY <1>1, <1>3, <1>4

-----------------------------------------------------------------------------
(* /readyz. *)

\* The strengthening of ReadyMeansBound: waitLanesBound's own count is never wrong about
\* a lane, unless a listener has failed or the group is cancelled.
ReadyInv ==
  /\ ready => proc = "group" /\ counted = Lane
  /\ ~cancelled /\ ~Failed => \A l \in counted : lane[l] = "open"

\* The steps of the primary keep ReadyInv: a lane leaves "open" only by failing or by
\* a cancel, and a pass that is full is not read again.
LEMMA ReadyStep ==
  ASSUME Types, ReadyInv, World \/ Probe \/ Healthy \/ Unhealthy
  PROVE  ReadyInv'
<1>1. CASE Start
  BY <1>1 DEF Start, ReadyInv, Failed, sockets
<1>2. CASE Crash
  BY <1>2 DEF Crash, Fresh, ReadyInv
<1>3. CASE Exit
  BY <1>3 DEF Exit, Fresh, ReadyInv
<1>4. ASSUME NEW ok \in BOOLEAN, Launch(ok) PROVE ReadyInv'
  BY <1>4 DEF Launch, ReadyInv, Failed, sockets
<1>5. ASSUME NEW ok \in BOOLEAN, NEW l \in Lane, Bind(l, ok) PROVE ReadyInv'
  BY <1>5 DEF Bind, ReadyInv, Failed, Types
<1>6. ASSUME NEW l \in Lane, AcceptFails(l) PROVE ReadyInv'
  BY <1>6 DEF AcceptFails, ReadyInv, Failed, Types
<1>7. ASSUME NEW l \in Lane, LaneReturns(l) PROVE ReadyInv'
  BY <1>7 DEF LaneReturns, ReadyInv, Failed, Types
<1>8. ASSUME NEW l \in Lane, Look(l) PROVE ReadyInv'
  BY <1>8 DEF Look, ReadyInv, Failed, sockets, Types
<1>9. ASSUME NEW to \in {"open", "failed", "closed"}, ServeMetrics(to) PROVE ReadyInv'
  BY <1>9 DEF ServeMetrics, ReadyInv, Failed
<1>10. CASE SetReady
  BY <1>10 DEF SetReady, ReadyInv, Failed, sockets
<1>11. CASE Cancel
  BY <1>11 DEF Cancel, ReadyInv, Failed, sockets
<1>12. CASE UNCHANGED process
  BY <1>12 DEF ReadyInv, Failed, process, sockets
<1>13. Path \/ Probe \/ Healthy \/ Unhealthy => UNCHANGED process
  BY Zenon DEF Path, Probe, Healthy, Unhealthy
<1> QED
  BY <1>1, <1>2, <1>3, <1>4, <1>5, <1>6, <1>7, <1>8, <1>9, <1>10, <1>11, <1>12, <1>13, Zenon DEF World

-----------------------------------------------------------------------------
(* Gap and overlap. *)

\* What the world does to the standby's account of the primary: nothing, or the
\* period ends.  A process outside its group is not ready, so that its start and its
\* launch change nothing for a probe.
LEMMA WorldOutside ==
  ASSUME Types, ReadyInv, World
  PROVE  Outside
<1> USE DEF Outside, Readyz
<1>1. CASE Start
  BY <1>1 DEF Start, ReadyInv, sockets
<1>2. CASE Crash
  BY <1>2, Zenon DEF Crash
<1>3. CASE Exit
  BY <1>3, Zenon DEF Exit
<1>4. ASSUME NEW ok \in BOOLEAN, Launch(ok) PROVE Outside
  BY <1>4 DEF Launch, ReadyInv, sockets
<1>5. ASSUME NEW ok \in BOOLEAN, NEW l \in Lane, Bind(l, ok) PROVE Outside
  BY <1>5, Zenon DEF Bind
<1>6. ASSUME NEW l \in Lane, AcceptFails(l) PROVE Outside
  BY <1>6, Zenon DEF AcceptFails
<1>7. ASSUME NEW l \in Lane, LaneReturns(l) PROVE Outside
  BY <1>7, Zenon DEF LaneReturns
<1>8. ASSUME NEW l \in Lane, Look(l) PROVE Outside
  BY <1>8 DEF Look, sockets
<1>9. ASSUME NEW to \in {"open", "failed", "closed"}, ServeMetrics(to) PROVE Outside
  BY <1>9, Zenon DEF ServeMetrics
<1>10. CASE SetReady
  BY <1>10, Zenon DEF SetReady
<1>11. CASE Cancel
  BY <1>11 DEF Cancel, sockets
<1>12. CASE Path
  BY <1>12, Zenon DEF Path
<1> QED
  BY <1>1, <1>2, <1>3, <1>4, <1>5, <1>6, <1>7, <1>8, <1>9, <1>10, <1>11, <1>12, Zenon DEF World

\* The strengthening of GapBounded: RunPromoter has counted at least the probes that saw
\* the outage, for a healthy verdict that arrives late was taken before it began.
GapInv ==
  /\ dark <= fails
  /\ fails >= FailN => active
  /\ probe = "up" => dark = 0
  /\ Readyz => dark = 0

\* The strengthening of OverlapBounded, likewise.
OverlapInv ==
  /\ bright <= oks
  /\ oks >= OKN => ~active
  /\ probe = "down" => bright = 0
  /\ ~Readyz => bright = 0

\* The steps keep GapInv.
LEMMA GapStep ==
  ASSUME Types, ReadyInv, GapInv, World \/ Probe \/ Healthy \/ Unhealthy
  PROVE  GapInv'
<1> USE FailoverAssumption
<1>1. CASE Outside
  <2>1. UNCHANGED <<probe, fails, oks, active>>
    BY <1>1 DEF Outside, promoter
  <2>2. CASE dark' = dark /\ Readyz' = Readyz
    BY <2>1, <2>2, Zenon DEF GapInv
  <2>3. CASE Watched
    <3>1. CASE Readyz'
      BY <2>1, <2>3, <3>1 DEF Watched, GapInv, Types
    <3>2. CASE ~Readyz'
      BY <2>1, <2>3, <3>2 DEF Watched, GapInv, Types
    <3> QED
      BY <3>1, <3>2
  <2> QED
    BY <1>1, <2>2, <2>3, Zenon DEF Outside
<1>2. ASSUME UNCHANGED <<process, net>> PROVE Readyz' = Readyz
  BY <1>2 DEF Readyz, process, sockets
<1>3. CASE Probe
  BY <1>2, <1>3 DEF Probe, GapInv, Types
<1>4. CASE Healthy
  BY <1>2, <1>4 DEF Healthy, Counted, GapInv, Types, FailoverAssumption
<1>5. CASE Unhealthy
  <2>1. /\ dark \in 0..FailN /\ fails \in 0..FailN /\ FailN \in Nat \ {0} /\ dark <= fails
        /\ (Readyz => dark = 0)
    BY DEF Types, GapInv, FailoverAssumption
  <2>2. /\ fails' = Min2(fails + 1, FailN)
        /\ dark' = IF ~Readyz THEN Min2(dark + 1, FailN) ELSE dark
        /\ probe' = "none"
    BY <1>5 DEF Unhealthy, Counted
  <2>3. dark' <= fails'
    BY <2>1, <2>2 DEF Min2
  <2>4. Readyz' => dark' = 0
    <3>1. Readyz' = Readyz
      BY <1>2, <1>5, Zenon DEF Unhealthy
    <3> QED
      BY <2>1, <2>2, <3>1, Zenon
  <2>5. fails' >= FailN => active'
    BY <1>5, <2>1, <2>2, Zenon DEF Unhealthy
  <2> QED
    BY <2>2, <2>3, <2>4, <2>5 DEF GapInv
<1> QED
  BY <1>1, <1>3, <1>4, <1>5, WorldOutside

\* The steps keep OverlapInv.
LEMMA OverlapStep ==
  ASSUME Types, ReadyInv, OverlapInv, World \/ Probe \/ Healthy \/ Unhealthy
  PROVE  OverlapInv'
<1> USE FailoverAssumption
<1>1. CASE Outside
  <2>1. UNCHANGED <<probe, fails, oks, active>>
    BY <1>1 DEF Outside, promoter
  <2>2. CASE bright' = bright /\ Readyz' = Readyz
    BY <2>1, <2>2, Zenon DEF OverlapInv
  <2>3. CASE Watched
    <3>1. CASE Readyz'
      BY <2>1, <2>3, <3>1 DEF Watched, OverlapInv, Types
    <3>2. CASE ~Readyz'
      BY <2>1, <2>3, <3>2 DEF Watched, OverlapInv, Types
    <3> QED
      BY <3>1, <3>2
  <2> QED
    BY <1>1, <2>2, <2>3, Zenon DEF Outside
<1>2. ASSUME UNCHANGED <<process, net>> PROVE Readyz' = Readyz
  BY <1>2 DEF Readyz, process, sockets
<1>3. CASE Probe
  BY <1>2, <1>3 DEF Probe, OverlapInv, Types
<1>4. CASE Healthy
  <2>1. /\ bright \in 0..OKN /\ oks \in 0..OKN /\ OKN \in Nat \ {0} /\ bright <= oks
        /\ (~Readyz => bright = 0)
    BY DEF Types, OverlapInv, FailoverAssumption
  <2>2. /\ oks' = Min2(oks + 1, OKN)
        /\ bright' = IF Readyz THEN Min2(bright + 1, OKN) ELSE bright
        /\ probe' = "none"
    BY <1>4 DEF Healthy, Counted
  <2>3. bright' <= oks'
    BY <2>1, <2>2 DEF Min2
  <2>4. ~Readyz' => bright' = 0
    <3>1. Readyz' = Readyz
      BY <1>2, <1>4, Zenon DEF Healthy
    <3> QED
      BY <2>1, <2>2, <3>1, Zenon
  <2>5. oks' >= OKN => ~active'
    <3>1. oks' \in 0..OKN
      BY <2>1, <2>2 DEF Min2
    <3>2. oks' >= OKN => ~(oks' < OKN)
      BY <2>1, <3>1
    <3> QED
      BY <1>4, <3>2, Zenon DEF Healthy
  <2> QED
    BY <2>2, <2>3, <2>4, <2>5 DEF OverlapInv
<1>5. CASE Unhealthy
  BY <1>2, <1>5 DEF Unhealthy, Counted, OverlapInv, Types, FailoverAssumption
<1> QED
  BY <1>1, <1>3, <1>4, <1>5, WorldOutside

-----------------------------------------------------------------------------
(* Streaks. *)

\* The strengthening of RoleByStreak: RunPromoter's counters are streaks at the front of
\* the history.
StreakInv ==
  /\ \A i \in 1..fails : i <= Len(log) /\ log[i] = "down"
  /\ \A i \in 1..oks : i <= Len(log) /\ log[i] = "up"

\* A streak of n verdicts v grows by one more v, as far as the counter and the history
\* are bounded.
LEMMA StreakGrows ==
  ASSUME log \in Seq({"up", "down"}), FailoverAssumption, NEW v \in {"up", "down"},
         NEW N \in {FailN, OKN}, NEW n \in 0..N,
         \A i \in 1..n : i <= Len(log) /\ log[i] = v
  PROVE  \A i \in 1..Min2(n + 1, N) : i <= Len(Logged(v)) /\ Logged(v)[i] = v
<1>1. N \in Nat \ {0} /\ Deciding \in Nat /\ N <= Deciding /\ Len(log) \in Nat
  BY DEF Deciding, FailoverAssumption
<1>2. n <= Len(log)
  <2>1. CASE n = 0
    BY <1>1, <2>1
  <2>2. CASE n # 0
    BY <1>1, <2>2
  <2> QED
    BY <2>1, <2>2
<1>3. Min2(n + 1, N) <= Min2(Len(log) + 1, Deciding)
  BY <1>1, <1>2 DEF Min2
<1> SUFFICES ASSUME NEW i \in 1..Min2(n + 1, N)
             PROVE  i <= Len(Logged(v)) /\ Logged(v)[i] = v
  OBVIOUS
<1>4. i \in 1..Len(Logged(v)) /\ i \in 1..(n + 1)
  <2>1. Len(Logged(v)) = Min2(Len(log) + 1, Deciding)
    BY LoggedIsShift
  <2>2. Min2(n + 1, N) \in Nat /\ Min2(n + 1, N) <= n + 1 /\ Min2(Len(log) + 1, Deciding) \in Nat
    BY <1>1 DEF Min2
  <2> QED
    BY <1>1, <1>3, <2>1, <2>2
<1>5. Logged(v)[i] = IF i = 1 THEN v ELSE log[i - 1]
  BY <1>4, LoggedIsShift
<1>6. i # 1 => log[i - 1] = v
  BY <1>1, <1>4
<1> QED
  BY <1>1, <1>4, <1>5, <1>6

\* The steps keep StreakInv.
LEMMA StreakStep ==
  ASSUME Types, StreakInv, Outside \/ Probe \/ Healthy \/ Unhealthy
  PROVE  StreakInv'
<1> USE FailoverAssumption
<1>1. CASE Outside \/ Probe
  <2>1. UNCHANGED <<fails, oks, log>>
    BY <1>1 DEF Outside, Probe, promoter
  <2> QED
    BY <2>1, Zenon DEF StreakInv
<1>2. CASE Healthy
  <2>1. oks' = Min2(oks + 1, OKN) /\ fails' = 0 /\ log' = Logged("up")
    BY <1>2 DEF Healthy, Counted
  <2>2. \A i \in 1..Min2(oks + 1, OKN) : i <= Len(Logged("up")) /\ Logged("up")[i] = "up"
    BY StreakGrows DEF StreakInv, Types
  <2>3. \A i \in 1..0 : FALSE
    OBVIOUS
  <2> QED
    BY <2>1, <2>2, <2>3 DEF StreakInv
<1>3. CASE Unhealthy
  <2>1. fails' = Min2(fails + 1, FailN) /\ oks' = 0 /\ log' = Logged("down")
    BY <1>3 DEF Unhealthy, Counted
  <2>2. \A i \in 1..Min2(fails + 1, FailN) : i <= Len(Logged("down")) /\ Logged("down")[i] = "down"
    BY StreakGrows DEF StreakInv, Types
  <2>3. \A i \in 1..0 : FALSE
    OBVIOUS
  <2> QED
    BY <2>1, <2>2, <2>3 DEF StreakInv
<1> QED
  BY <1>1, <1>2, <1>3

-----------------------------------------------------------------------------
(* The theorems. *)

\* The inductive invariant.
IInv == Types /\ ReadyInv /\ GapInv /\ OverlapInv /\ StreakInv

\* It holds when the primary is down and the standby has not probed.
LEMMA InitIInv == Init => IInv
<1> SUFFICES ASSUME Init PROVE IInv
  OBVIOUS
<1> USE FailoverAssumption
<1>1. Types
  <2>1. log \in Seq({"up", "down"}) /\ Len(log) = 0 /\ Deciding \in Nat
    BY DEF Init, Deciding, FailoverAssumption
  <2>2. 0 \in 0..FailN /\ 0 \in 0..OKN /\ Len(log) <= Deciding
    BY <2>1 DEF FailoverAssumption
  <2>3. lane \in [Lane -> Socket] /\ metrics \in Socket /\ counted \subseteq Lane
    BY DEF Init, Socket
  <2> QED
    BY <2>1, <2>2, <2>3, Zenon DEF Init, Types
<1>2. ReadyInv
  BY DEF Init, ReadyInv
<1>3. GapInv
  BY DEF Init, GapInv, FailoverAssumption
<1>4. OverlapInv
  BY DEF Init, OverlapInv, FailoverAssumption
<1>5. StreakInv
  BY DEF Init, StreakInv
<1> QED
  BY <1>1, <1>2, <1>3, <1>4, <1>5 DEF IInv

\* Every step of the two bridges and of the path keeps it.
LEMMA NextIInv == IInv /\ [Next]_vars => IInv'
<1> SUFFICES ASSUME IInv, [Next]_vars PROVE IInv'
  OBVIOUS
<1>1. CASE Next
  <2>1. Types /\ ReadyInv /\ GapInv /\ OverlapInv /\ StreakInv
    BY Zenon DEF IInv
  <2>2. World \/ Probe \/ Healthy \/ Unhealthy
    BY <1>1, NextCases
  <2>3. Types'
    BY <2>1, <2>2, WorldTypes, PromoterTypes
  <2>4. ReadyInv' /\ GapInv' /\ OverlapInv'
    BY <2>1, <2>2, ReadyStep, GapStep, OverlapStep
  <2>5. StreakInv'
    BY <2>1, <2>2, WorldOutside, StreakStep
  <2> QED
    BY <2>3, <2>4, <2>5 DEF IInv
<1>2. CASE UNCHANGED vars
  <2>1. /\ UNCHANGED <<proc, lane, metrics, cancelled, counted, waiting, ready>>
        /\ UNCHANGED <<net, probe, fails, oks, active, log, dark, bright>>
    BY <1>2 DEF vars, process, sockets, promoter
  <2>2. Types'
    BY <2>1 DEF IInv, Types
  <2>3. ReadyInv'
    BY <2>1, Zenon DEF IInv, ReadyInv, Failed
  <2>4. GapInv' /\ OverlapInv'
    BY <2>1, Zenon DEF IInv, GapInv, OverlapInv, Readyz
  <2>5. StreakInv'
    BY <2>1, Zenon DEF IInv, StreakInv
  <2> QED
    BY <2>2, <2>3, <2>4, <2>5 DEF IInv
<1> QED
  BY <1>1, <1>2

\* The inductive invariant holds of every behaviour of the two bridges.
THEOREM Invariance == Spec => []IInv
  BY InitIInv, NextIInv, PTL DEF Spec

\* Every variable keeps its type.
THEOREM TypeCorrect == Spec => []TypeOK
<1>1. IInv => TypeOK
  BY TypesAreTypeOK DEF IInv
<1> QED
  BY <1>1, Invariance, PTL

\* For any set of lanes, held or not, and whatever fails when: a bridge that answers
\* /readyz with 200, is not cancelled and has lost no listener has every lane bound.
THEOREM ReadyIsTrue == Spec => []ReadyMeansBound
<1>1. IInv => ReadyMeansBound
  BY Zenon DEF IInv, ReadyInv, ReadyMeansBound
<1> QED
  BY <1>1, Invariance, PTL

\* For any FailN and OKN: FailN probes that saw one outage make RunPromoter take the
\* role, OKN probes that saw one uptime make it give the role back.
THEOREM LagIsBounded == Spec => []LagBounded
<1>1. IInv => GapBounded
  BY FailoverAssumption DEF IInv, GapInv, GapBounded, Types, FailoverAssumption
<1>2. IInv => OverlapBounded
  BY FailoverAssumption DEF IInv, OverlapInv, OverlapBounded, Types, FailoverAssumption
<1>3. IInv => LagBounded
  BY <1>1, <1>2 DEF LagBounded
<1> QED
  BY <1>3, Invariance, PTL

\* For any FailN and OKN: RunPromoter changes the role on a full streak of equal
\* verdicts only.
THEOREM RoleFollowsStreaks == Spec => RoleByStreak
<1> DEFINE A == /\ active' /\ ~active => \A i \in 1..FailN : i \in DOMAIN log' /\ log'[i] = "down"
                /\ active /\ ~active' => \A i \in 1..OKN : i \in DOMAIN log' /\ log'[i] = "up"
<1>1. ASSUME IInv, IInv', [Next]_vars PROVE [A]_vars
  <2>1. CASE UNCHANGED vars
    BY <2>1
  <2>2. CASE active' = active
    BY <2>2, Zenon
  <2>3. CASE Next /\ active' # active
    <3>1. ~World /\ ~Probe
      <4>1. World => Outside
        BY <1>1, WorldOutside, Zenon DEF IInv
      <4> QED
        BY <2>3, <4>1 DEF Outside, promoter, Probe
    <3>2. Healthy \/ Unhealthy
      BY <2>3, <3>1, NextCases
    <3>3. /\ log' \in Seq({"up", "down"}) /\ fails' \in 0..FailN /\ oks' \in 0..OKN
          /\ FailN \in Nat /\ OKN \in Nat
      BY <1>1, FailoverAssumption DEF IInv, Types, FailoverAssumption
    <3>4. /\ \A i \in 1..fails' : i <= Len(log') /\ log'[i] = "down"
          /\ \A i \in 1..oks' : i <= Len(log') /\ log'[i] = "up"
      BY <1>1, Zenon DEF IInv, StreakInv
    <3>5. DOMAIN log' = 1..Len(log') /\ Len(log') \in Nat
      BY <3>3
    <3>6. CASE Healthy
      <4>1. ~active' /\ ~(oks' < OKN)
        BY <1>1, <2>3, <3>6, Zenon DEF Healthy, IInv, Types
      <4>2. oks' = OKN
        BY <3>3, <4>1
      <4>3. \A i \in 1..OKN : i \in DOMAIN log' /\ log'[i] = "up"
        BY <3>3, <3>4, <3>5, <4>2
      <4> QED
        BY <4>1, <4>3, Zenon
    <3>7. CASE Unhealthy
      <4>1. active' /\ fails' >= FailN
        BY <1>1, <2>3, <3>7, Zenon DEF Unhealthy, IInv, Types
      <4>2. fails' = FailN
        BY <3>3, <4>1
      <4>3. \A i \in 1..FailN : i \in DOMAIN log' /\ log'[i] = "down"
        BY <3>3, <3>4, <3>5, <4>2
      <4> QED
        BY <4>1, <4>3, Zenon
    <3> QED
      BY <3>2, <3>6, <3>7
  <2> QED
    BY <1>1, <2>1, <2>2, <2>3, Zenon
<1>2. Spec => [][Next]_vars
  BY PTL DEF Spec
<1> QED
  BY <1>1, <1>2, Invariance, PTL DEF RoleByStreak
================================================================================
