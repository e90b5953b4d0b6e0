------------------------------- MODULE Failover -------------------------------
(***************************************************************************)
(* The submitter role between two bridges.  The primary is a process: main  *)
(* starts its lanes, its metrics endpoint and the goroutine that reports it *)
(* ready in one error group, and leaves when all of them have returned      *)
(* (cmd/teranode-bridge/main.go, lanes/lanes.go,                            *)
(* internal/metrics/metrics.go).  The group's other members appear as what  *)
(* they do to it: an error, which cancels.  The standby runs RunPromoter    *)
(* (reverse/promoter.go): it probes the primary's /readyz and takes or      *)
(* returns the role after a streak of equal verdicts.                       *)
(*                                                                          *)
(* The primary may be stopped, killed and restarted, a listener may fail,   *)
(* and the path between the two may be cut, all at any time.                *)
(***************************************************************************)
EXTENDS Integers, Sequences

CONSTANTS
  Lane,        \* the delivery lanes
  Held,        \* SUBSET Lane: the lanes whose socket systemd passes in
  FailN, OKN   \* PromoterConfig: probes to promote, probes to demote

ASSUME FailoverAssumption ==
  /\ Lane # {} /\ Held \subseteq Lane
  /\ FailN \in Nat \ {0} /\ OKN \in Nat \ {0}

VARIABLES
  proc,       \* the primary: "down", "main" or, once its group runs, "group"
  lane,       \* [Lane -> socket]
  metrics,    \* the metrics endpoint's socket
  cancelled,  \* the group's context
  counted,    \* the lanes waitLanesBound has found bound in this pass
  waiting,    \* waitLanesBound has not returned
  ready,      \* rec.ready
  net,        \* the path between the bridges
  probe,      \* the verdict of a probe that RunPromoter has yet to act on
  fails, oks, \* RunPromoter's counters, up to FailN and OKN
  active,     \* the standby holds the role
  log,        \* history: the last verdicts RunPromoter has acted on, newest first
  dark,       \* history: the probes acted on that saw the current outage
  bright      \* history: the probes acted on that saw the current uptime

sockets == <<lane, metrics>>
process == <<proc, sockets, cancelled, counted, waiting, ready>>
promoter == <<probe, fails, oks, active, log>>
vars == <<process, net, promoter, dark, bright>>

Min2(a, b) == IF a < b THEN a ELSE b

\* The longest streak that decides anything: the bound of the history.
Deciding == IF FailN > OKN THEN FailN ELSE OKN

\* GET /readyz through the path: 200 or anything else.
Readyz == net /\ proc = "group" /\ metrics = "open" /\ ready

\* An outage or an uptime ends when /readyz changes; what was seen of it is over.
Watched ==
  /\ dark' = IF Readyz' THEN 0 ELSE dark
  /\ bright' = IF Readyz' THEN bright ELSE 0

Fresh ==
  /\ lane' = [l \in Lane |-> "off"]
  /\ metrics' = "off"
  /\ cancelled' = FALSE
  /\ counted' = {}
  /\ waiting' = TRUE
  /\ ready' = FALSE

Init ==
  /\ proc = "down"
  /\ lane = [l \in Lane |-> "off"]
  /\ metrics = "off"
  /\ cancelled = FALSE
  /\ counted = {}
  /\ waiting = TRUE
  /\ ready = FALSE
  /\ net = TRUE
  /\ probe = "none"
  /\ fails = 0
  /\ oks = 0
  /\ active = FALSE
  /\ log = <<>>
  /\ dark = 0
  /\ bright = 0

-----------------------------------------------------------------------------
(* The primary. *)

Start ==
  /\ proc = "down"
  /\ proc' = "main"
  /\ UNCHANGED <<sockets, cancelled, counted, waiting, ready, net, promoter, dark, bright>>

\* main refuses its flags, or the sockets it was passed, or cannot build a client;
\* or it starts the group.
Launch(ok) ==
  /\ proc = "main"
  /\ proc' = IF ok THEN "group" ELSE "down"
  /\ UNCHANGED <<sockets, cancelled, counted, waiting, ready, net, promoter, dark, bright>>

Passed(l) == l \in Held

\* Lane.Serve: a lane listens, unless the address is taken.  A socket of systemd is
\* open already.
Bind(l, ok) ==
  /\ proc = "group"
  /\ lane[l] = "off"
  /\ Passed(l) => ok
  /\ lane' = [lane EXCEPT ![l] = IF ok THEN "open" ELSE "failed"]
  /\ UNCHANGED <<proc, metrics, cancelled, counted, waiting, ready, net, promoter, dark, bright>>

\* Accept fails: Serve returns the error, and its defer says the lane is not bound.
AcceptFails(l) ==
  /\ proc = "group"
  /\ lane[l] = "open"
  /\ lane' = [lane EXCEPT ![l] = "failed"]
  /\ UNCHANGED <<proc, metrics, cancelled, counted, waiting, ready, net, promoter, dark, bright>>

\* After a cancel the connections drain and Serve returns.
LaneReturns(l) ==
  /\ proc = "group"
  /\ cancelled
  /\ lane[l] = "open"
  /\ lane' = [lane EXCEPT ![l] = "closed"]
  /\ UNCHANGED <<proc, metrics, cancelled, counted, waiting, ready, net, promoter, dark, bright>>

\* The metrics endpoint listens, and shuts down on a cancel.
ServeMetrics(to) ==
  /\ proc = "group"
  /\ \/ metrics = "off" /\ to \in {"open", "failed"}
     \/ metrics = "open" /\ cancelled /\ to = "closed"
  /\ metrics' = to
  /\ UNCHANGED <<proc, lane, cancelled, counted, waiting, ready, net, promoter>>
  /\ Watched

\* Mutant: one bound lane is enough.
LookAny(l) ==
  /\ proc = "group"
  /\ waiting
  /\ l \notin counted
  /\ counted' = IF lane[l] = "open" THEN Lane ELSE {}
  /\ waiting' = ~(cancelled /\ lane[l] # "open")
  /\ UNCHANGED <<proc, sockets, cancelled, ready, net, promoter, dark, bright>>

\* Mutant: one pass and no more.
LookOnce(l) ==
  /\ proc = "group"
  /\ waiting
  /\ l \notin counted
  /\ counted' = IF lane[l] = "open" THEN counted \cup {l} ELSE {}
  /\ waiting' = (lane[l] = "open")
  /\ UNCHANGED <<proc, sockets, cancelled, ready, net, promoter, dark, bright>>

\* waitLanesBound reads one lane after the other; a pass that finds one unbound is
\* started over, unless the context is done.
Look(l) ==
  /\ proc = "group"
  /\ waiting
  /\ l \notin counted
  /\ counted' = IF lane[l] = "open" THEN counted \cup {l} ELSE {}
  /\ waiting' = ~(cancelled /\ lane[l] # "open")
  /\ UNCHANGED <<proc, sockets, cancelled, ready, net, promoter, dark, bright>>

SetReady ==
  /\ proc = "group"
  /\ waiting
  /\ counted = Lane
  /\ waiting' = FALSE
  /\ ready' = TRUE
  /\ UNCHANGED <<proc, sockets, cancelled, counted, net, promoter>>
  /\ Watched

\* Mutant: a lane's error does not reach the group.
FailedUnheard == metrics = "failed"

Failed == (\E l \in Lane : lane[l] = "failed") \/ metrics = "failed"

\* A signal, or the first error of a goroutine of the group.
Cancel ==
  /\ proc = "group"
  /\ ~cancelled
  /\ cancelled' = TRUE
  /\ UNCHANGED <<proc, sockets, counted, waiting, ready, net, promoter, dark, bright>>

\* g.Wait: every goroutine has returned.
Exit ==
  /\ proc = "group"
  /\ cancelled
  /\ \A l \in Lane : lane[l] \in {"closed", "failed"}
  /\ metrics \in {"closed", "failed"}
  /\ ~waiting
  /\ proc' = "down"
  /\ Fresh
  /\ UNCHANGED <<net, promoter>>
  /\ Watched

\* The process is killed.
Crash ==
  /\ proc # "down"
  /\ proc' = "down"
  /\ Fresh
  /\ UNCHANGED <<net, promoter>>
  /\ Watched

\* The path is cut or restored.
Path ==
  /\ net' = ~net
  /\ UNCHANGED <<process, promoter>>
  /\ Watched

-----------------------------------------------------------------------------
(* The standby. *)

\* A tick: the probe's GET is answered, or fails, or times out.
Probe ==
  /\ probe = "none"
  /\ probe' = IF Readyz THEN "up" ELSE "down"
  /\ UNCHANGED <<process, net, fails, oks, active, log, dark, bright>>

\* The last verdicts, as many as decide anything.
Logged(v) == LET all == <<v>> \o log
             IN  SubSeq(all, 1, Min2(Len(all), Deciding))

\* What the history counts of a verdict: one that is true when it is acted on.
Counted(v) ==
  /\ log' = Logged(v)
  /\ dark' = IF v = "down" /\ ~Readyz THEN Min2(dark + 1, FailN) ELSE dark
  /\ bright' = IF v = "up" /\ Readyz THEN Min2(bright + 1, OKN) ELSE bright

\* Mutant: a healthy probe does not end the streak of failures.
HealthyKeepsFails ==
  /\ probe = "up"
  /\ probe' = "none"
  /\ oks' = Min2(oks + 1, OKN)
  /\ active' = (active /\ oks' < OKN)
  /\ Counted("up")
  /\ UNCHANGED <<process, net, fails>>

\* OKN consecutive healthy probes demote.
Healthy ==
  /\ probe = "up"
  /\ probe' = "none"
  /\ fails' = 0
  /\ oks' = Min2(oks + 1, OKN)
  /\ active' = (active /\ oks' < OKN)
  /\ Counted("up")
  /\ UNCHANGED <<process, net>>

\* Mutants: one probe more; the role is not looked at before it is changed.
UnhealthyLate ==
  /\ probe = "down"
  /\ probe' = "none"
  /\ oks' = 0
  /\ fails' = Min2(fails + 1, FailN)
  /\ active' = (active \/ fails >= FailN)
  /\ Counted("down")
  /\ UNCHANGED <<process, net>>

UnhealthyToggles ==
  /\ probe = "down"
  /\ probe' = "none"
  /\ oks' = 0
  /\ fails' = Min2(fails + 1, FailN)
  /\ active' = IF fails' >= FailN THEN ~active ELSE active
  /\ Counted("down")
  /\ UNCHANGED <<process, net>>

\* FailN consecutive failed probes promote.
Unhealthy ==
  /\ probe = "down"
  /\ probe' = "none"
  /\ oks' = 0
  /\ fails' = Min2(fails + 1, FailN)
  /\ active' = (active \/ fails' >= FailN)
  /\ Counted("down")
  /\ UNCHANGED <<process, net>>

Next ==
  \/ Start \/ Crash \/ Exit
  \/ \E ok \in BOOLEAN : Launch(ok) \/ \E l \in Lane : Bind(l, ok)
  \/ \E l \in Lane : AcceptFails(l) \/ LaneReturns(l) \/ Look(l)
  \/ \E to \in {"open", "failed", "closed"} : ServeMetrics(to)
  \/ SetReady
  \/ Cancel
  \/ Path
  \/ Probe
  \/ Healthy
  \/ Unhealthy

Spec == Init /\ [][Next]_vars

\* The goroutines of a running group get on with it, an error cancels the group, and
\* the standby's ticker ticks.  Nobody has to start, stop or cut anything.
Fairness ==
  /\ \A l \in Lane : /\ WF_vars(\E ok \in BOOLEAN : Bind(l, ok))
                     /\ WF_vars(LaneReturns(l))
                     /\ WF_vars(Look(l))
  /\ WF_vars(\E to \in {"open", "failed", "closed"} : ServeMetrics(to))
  /\ WF_vars(SetReady)
  /\ WF_vars(Failed /\ Cancel)
  /\ WF_vars(Exit)
  /\ WF_vars(Probe)
  /\ WF_vars(Healthy \/ Unhealthy)

FairSpec == Spec /\ Fairness

-----------------------------------------------------------------------------
(* Properties. *)

Socket == {"off", "open", "closed", "failed"}

\* Every variable keeps its type.
TypeOK ==
  /\ proc \in {"down", "main", "group"}
  /\ lane \in [Lane -> Socket] /\ metrics \in Socket
  /\ {cancelled, waiting, ready, net, active} \subseteq BOOLEAN
  /\ counted \subseteq Lane
  /\ probe \in {"none", "up", "down"}
  /\ fails \in 0..FailN /\ oks \in 0..OKN
  /\ dark \in 0..FailN /\ bright \in 0..OKN
  /\ log \in Seq({"up", "down"}) /\ Len(log) <= Deciding

\* /readyz tells the truth although waitLanesBound reads the lanes one by one: a bridge
\* that says it is ready, and has neither been cancelled nor lost a listener, has every
\* lane bound.
ReadyMeansBound ==
  ready /\ ~cancelled /\ ~Failed => \A l \in Lane : lane[l] = "open"

\* RunPromoter: "a dead primary costs FailN x Interval of publish gap": once FailN probes
\* have seen an outage the standby holds the role, whatever the probes before said.
GapBounded == dark >= FailN => active

\* The overlap is bounded as well: once OKN probes have seen the primary up the standby
\* has given the role back.
OverlapBounded == bright >= OKN => ~active

\* RunPromoter's verdict lags behind the primary by a bounded number of probes, one way
\* and the other.
LagBounded == GapBounded /\ OverlapBounded

\* "a flapping primary must not flap the role": the role changes hands only on a full
\* streak of equal verdicts.
RoleByStreak ==
  [][/\ active' /\ ~active => \A i \in 1..FailN : i \in DOMAIN log' /\ log'[i] = "down"
     /\ active /\ ~active' => \A i \in 1..OKN : i \in DOMAIN log' /\ log'[i] = "up"]_vars

\* A primary that stays away, or stays cut off, is replaced for good; one that stays up
\* and in reach gets the role back for good.
RoleSettles ==
  /\ <>[]~Readyz => <>[]active
  /\ <>[]Readyz => <>[]~active

\* A lost lane shows: nothing takes rec.ready back, but a primary that says it is ready
\* without all its lanes stops saying so, because its group leaves as a whole.
LostLaneShows == (Readyz /\ \E l \in Lane : lane[l] # "open") ~> ~Readyz

\* main never stays half up or half down: a process whose group runs becomes ready or
\* leaves, although a lane or the metrics endpoint may fail to bind, and a cancelled one
\* leaves whatever its goroutines were doing.
NoLimbo ==
  /\ proc = "group" ~> (ready \/ proc = "down")
  /\ cancelled ~> proc = "down"
================================================================================
