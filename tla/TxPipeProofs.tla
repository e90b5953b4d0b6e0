----------------------------- MODULE TxPipeProofs -----------------------------
(***************************************************************************)
(* The batch contract and the accounting of TxPipe for every set of         *)
(* transactions and builders, every limit, every order in which             *)
(* transactions are handed over and every answer of the service.            *)
(***************************************************************************)
EXTENDS TxPipe, TLAPS

PCs == {"select", "greedy", "add", "seal", "drain", "wait", "done"}
Nexts == {"select", "greedy", "add", "wait"}

Run == Seq(Tx) \ {<<>>}

\* The builders' part of the type invariant; a builder that is adding has a
\* transaction to add.
BuilderTypes ==
  /\ queue \in [Builder -> Seq(Run)]
  /\ hand \in [Builder -> Seq(Tx)]
  /\ cur \in [Builder -> Seq(Tx)]
  /\ ids \in [Builder -> SUBSET Tx]
  /\ sealed \in [Builder -> Seq(Tx)]
  /\ pc \in [Builder -> PCs]
  /\ next \in [Builder -> Nexts]
  /\ cancelled \in BOOLEAN
  /\ \A b \in Builder : /\ pc[b] = "add" \/ next[b] = "add" => hand[b] # <<>>
                        /\ pc[b] # "seal" => next[b] = "select"

\* In whatever order they were handed over, no transaction stands behind its own parent:
\* the promise of add's dependency seal.
Forward(s) == \A i, j \in DOMAIN s : i < j => s[i] \notin Parents[s[j]]

\* A batch and the set of its ids agree, and the drain has not begun.
Sound(b) ==
  /\ pc[b] \notin {"drain", "wait", "done"}
  /\ next[b] # "wait"
  /\ ids[b] = Range(cur[b])
  /\ Forward(cur[b])
  /\ Forward(sealed[b])

ContractInv ==
  /\ BuilderTypes
  /\ ~cancelled => \A b \in Builder : Sound(b)

\* Appending a transaction that depends on no member keeps a batch forward.
LEMMA AppendForward ==
  ASSUME NEW s \in Seq(Tx), NEW j \in Tx, Forward(s), ~DependsOnBatch(j, Range(s))
  PROVE  /\ Append(s, j) \in Seq(Tx)
         /\ Forward(Append(s, j))
         /\ Range(Append(s, j)) = Range(s) \cup {j}
<1>1. /\ Append(s, j) \in Seq(Tx)
      /\ DOMAIN Append(s, j) = 1..(Len(s) + 1)
      /\ \A i \in 1..Len(s) : Append(s, j)[i] = s[i]
      /\ Append(s, j)[Len(s) + 1] = j
      /\ DOMAIN s = 1..Len(s) /\ Len(s) \in Nat
  OBVIOUS
<1>2. \A i \in DOMAIN s : s[i] \notin Parents[j]
  BY DEF DependsOnBatch, Range
<1>3. Forward(Append(s, j))
  <2> SUFFICES ASSUME NEW i \in 1..(Len(s) + 1), NEW k \in 1..(Len(s) + 1), i < k
               PROVE  Append(s, j)[i] \notin Parents[Append(s, j)[k]]
    BY ZenonT(60), <1>1 DEF Forward
  <2>1. i \in 1..Len(s)
    BY <1>1
  <2>2. CASE k = Len(s) + 1
    BY ZenonT(60), <1>1, <1>2, <2>1, <2>2
  <2>3. CASE k # Len(s) + 1
    BY <1>1, <2>1, <2>3 DEF Forward
  <2> QED
    BY ZenonT(60), <2>2, <2>3
<1>4. Range(Append(s, j)) = Range(s) \cup {j}
  <2>1. \A i \in 1..(Len(s) + 1) : i \in 1..Len(s) \/ i = Len(s) + 1
    BY <1>1
  <2>2. Len(s) + 1 \in 1..(Len(s) + 1) /\ 1..Len(s) \subseteq 1..(Len(s) + 1)
    BY <1>1
  <2> QED
    BY <1>1, <2>1, <2>2 DEF Range
<1> QED
  BY <1>1, <1>3, <1>4

\* An empty batch is forward and has no ids.
LEMMA EmptyForward == Forward(<<>>) /\ Range(<<>>) = {} /\ <<>> \in Seq(Tx)
BY DEF Forward, Range

\* seal keeps the builder sound: it moves the batch, which is forward, aside.
LEMMA SealSound ==
  ASSUME BuilderTypes, NEW b \in Builder, NEW jobs \in Seq(Tx), NEW resume \in Nexts,
         SealThen(b, jobs, resume), UNCHANGED <<queue, cancelled>>,
         hand' \in [Builder -> Seq(Tx)], \A d \in Builder \ {b} : hand'[d] = hand[d],
         resume = "add" => hand'[b] # <<>>,
         pc[b] # "seal"
  PROVE  /\ BuilderTypes'
         /\ \A d \in Builder \ {b} : Sound(d) => Sound(d)'
         /\ Sound(b) /\ Forward(jobs) /\ resume # "wait" /\ jobs = cur[b] => Sound(b)'
         /\ Sound(b) /\ Forward(jobs) /\ resume # "wait" /\ jobs # <<>> => Sound(b)'
<1>1. CASE jobs = <<>>
  <2>1. pc' = [pc EXCEPT ![b] = resume] /\ UNCHANGED <<cur, ids, sealed, next>>
    BY ZenonT(60), <1>1 DEF SealThen
  <2>2. BuilderTypes'
    BY ZenonT(60), <1>1, <2>1 DEF BuilderTypes, PCs, Nexts
  <2>3. \A d \in Builder \ {b} : Sound(d) => Sound(d)'
    BY <2>1 DEF Sound, BuilderTypes
  <2>4. resume # "wait" => (Sound(b) => Sound(b)')
    BY <2>1 DEF Sound, BuilderTypes, Nexts
  <2> QED
    BY ZenonT(60), <1>1, <2>2, <2>3, <2>4
<1>2. CASE jobs # <<>>
  <2>1. /\ sealed' = [sealed EXCEPT ![b] = jobs]
        /\ cur' = [cur EXCEPT ![b] = <<>>]
        /\ ids' = [ids EXCEPT ![b] = {}]
        /\ next' = [next EXCEPT ![b] = resume]
        /\ pc' = [pc EXCEPT ![b] = "seal"]
    BY ZenonT(60), <1>2 DEF SealThen
  <2>2. BuilderTypes'
    BY ZenonT(60), <2>1, EmptyForward DEF BuilderTypes, PCs
  <2>3. \A d \in Builder \ {b} : Sound(d) => Sound(d)'
    BY ZenonT(60), <2>1 DEF Sound, BuilderTypes
  <2>4. resume # "wait" /\ Forward(jobs) => Sound(b)'
    BY ZenonT(60), <2>1, EmptyForward DEF Sound, BuilderTypes
  <2> QED
    BY ZenonT(60), <1>2, <2>2, <2>3, <2>4
<1> QED
  BY ZenonT(60), <1>1, <1>2

\* The steps of a builder.
LEMMA BuilderContract ==
  ASSUME ContractInv, NEW b \in Builder, Build(b)
  PROVE  ContractInv'
<1>0. BuilderTypes /\ (~cancelled => \A d \in Builder : Sound(d))
  BY DEF ContractInv
<1>1. CASE Submit(b)
  <2>1. /\ sealed' = [sealed EXCEPT ![b] = <<>>]
        /\ pc' = [pc EXCEPT ![b] = next[b]]
        /\ next' = [next EXCEPT ![b] = "select"]
        /\ UNCHANGED <<queue, hand, cur, ids, cancelled>>
    BY ZenonT(60), <1>1 DEF Submit
  <2>2. BuilderTypes'
    BY ZenonT(60), <1>0, <2>1, EmptyForward DEF BuilderTypes, PCs, Nexts
  <2>3. \A d \in Builder : Sound(d) => Sound(d)'
    BY ZenonT(40), <1>0, <2>1, EmptyForward DEF Sound, BuilderTypes, Nexts
  <2> QED
    BY ZenonT(60), <1>0, <2>1, <2>2, <2>3 DEF ContractInv
<1>2. CASE Receive(b)
  <2>1. Head(queue[b]) \in Run /\ Tail(queue[b]) \in Seq(Run)
    BY <1>0, <1>2 DEF Receive, BuilderTypes
  <2>2. /\ hand' = [hand EXCEPT ![b] = Head(queue[b])]
        /\ queue' = [queue EXCEPT ![b] = Tail(@)]
        /\ pc' = [pc EXCEPT ![b] = "add"]
        /\ pc[b] # "seal"
        /\ UNCHANGED <<cur, ids, sealed, next, cancelled>>
    BY <1>2 DEF Receive
  <2>3. BuilderTypes'
    BY ZenonT(60), <1>0, <2>1, <2>2 DEF BuilderTypes, PCs, Run
  <2>4. \A d \in Builder : Sound(d) => Sound(d)'
    BY <1>0, <2>2 DEF Sound, BuilderTypes
  <2> QED
    BY <1>0, <2>2, <2>3, <2>4 DEF ContractInv
<1>3. CASE GreedyDone(b)
  <2>1. BuilderTypes' /\ cancelled' = cancelled
    BY ZenonT(60), <1>0, <1>3 DEF GreedyDone, BuilderTypes, PCs
  <2>2. \A d \in Builder : Sound(d) => Sound(d)'
    BY ZenonT(60), <1>0, <1>3 DEF GreedyDone, Sound, BuilderTypes
  <2> QED
    BY ZenonT(60), <1>0, <2>1, <2>2 DEF ContractInv
<1>4. CASE AddSealsParent(b)
  <2>1. /\ SealThen(b, cur[b], "add") /\ UNCHANGED <<queue, hand, cancelled>>
        /\ pc[b] = "add" /\ hand[b] # <<>> /\ cur[b] \in Seq(Tx) /\ hand \in [Builder -> Seq(Tx)]
    BY ZenonT(60), <1>0, <1>4 DEF AddSealsParent, BuilderTypes
  <2>2. BuilderTypes' /\ \A d \in Builder \ {b} : Sound(d) => Sound(d)'
    BY ZenonT(60), <1>0, <2>1, SealSound DEF Nexts
  <2>3. Sound(b) => Sound(b)'
    BY ZenonT(60), <1>0, <2>1, SealSound DEF Nexts, Sound
  <2> QED
    BY ZenonT(60), <1>0, <2>1, <2>2, <2>3 DEF ContractInv
<1>5. CASE Add(b)
  <2> DEFINE j == hand[b][1]
             jobs == Append(cur[b], j)
             after == IF Len(hand[b]) = 1 THEN "greedy" ELSE "add"
  <2>1. /\ pc[b] = "add" /\ hand[b] \in Seq(Tx) /\ hand[b] # <<>> /\ cur[b] \in Seq(Tx)
        /\ hand \in [Builder -> Seq(Tx)]
    BY <1>0, <1>5 DEF Add, BuilderTypes
  <2>2. j \in Tx /\ Tail(hand[b]) \in Seq(Tx) /\ (after = "add" => Tail(hand[b]) # <<>>)
    <3>1. \A s \in Seq(Tx) : s # <<>> =>
            /\ Len(s) \in Nat \ {0} /\ s[1] \in Tx /\ Tail(s) \in Seq(Tx)
            /\ Len(Tail(s)) = Len(s) - 1
      OBVIOUS
    <3>2. Len(hand[b]) # 1 => Len(Tail(hand[b])) # 0
      BY <2>1, <3>1
    <3>3. after = "add" => Len(hand[b]) # 1
      OBVIOUS
    <3>4. Len(<<>>) = 0
      BY ZenonT(60)
    <3> QED
      BY Zenon, <2>1, <3>1, <3>2, <3>3, <3>4
  <2>3. /\ ~DependsOnBatch(j, ids[b])
        /\ hand' = [hand EXCEPT ![b] = Tail(@)]
        /\ UNCHANGED <<queue, cancelled>>
    BY <1>5 DEF Add
  <2>4. jobs \in Seq(Tx) /\ jobs # <<>>
    <3>1. \A s \in Seq(Tx), e \in Tx :
            /\ Append(s, e) \in Seq(Tx) /\ Len(s) \in Nat
            /\ Len(Append(s, e)) = Len(s) + 1
      OBVIOUS
    <3>2. Len(<<>>) = 0
      OBVIOUS
    <3>3. jobs \in Seq(Tx) /\ Len(cur[b]) \in Nat /\ Len(jobs) = Len(cur[b]) + 1
      BY ZenonT(60), <2>1, <2>2, <3>1
    <3> HIDE DEF j, jobs
    <3>4. Len(jobs) # 0
      BY <3>3
    <3> QED
      BY ZenonT(60), <3>2, <3>3, <3>4
  <2>5. Sound(b) => Forward(jobs) /\ Range(jobs) = ids[b] \cup {j}
    BY ZenonT(60), <2>1, <2>2, <2>3, AppendForward DEF Sound
  <2>6. after \in Nexts /\ after # "wait" /\ after \in {"greedy", "add"}
    BY ZenonT(60) DEF Nexts
  <2>7. CASE Full(jobs)
    <3>1. SealThen(b, jobs, after)
      BY ZenonT(60), <1>5, <2>7 DEF Add
    <3>2. hand' \in [Builder -> Seq(Tx)] /\ hand'[b] = Tail(hand[b])
          /\ \A d \in Builder \ {b} : hand'[d] = hand[d]
      BY ZenonT(60), <2>1, <2>2, <2>3
    <3> HIDE DEF j, jobs, after
    <3>3. BuilderTypes' /\ \A d \in Builder \ {b} : Sound(d) => Sound(d)'
      BY ZenonT(60), <1>0, <2>1, <2>2, <2>3, <2>4, <2>6, <3>1, <3>2, SealSound
    <3>4. Sound(b) => Sound(b)'
      BY ZenonT(60), <1>0, <2>1, <2>2, <2>3, <2>4, <2>5, <2>6, <3>1, <3>2, SealSound
    <3> QED
      BY ZenonT(60), <1>0, <2>3, <3>3, <3>4 DEF ContractInv
  <2>8. CASE ~Full(jobs)
    <3>1. /\ cur' = [cur EXCEPT ![b] = jobs]
          /\ ids' = [ids EXCEPT ![b] = @ \cup {j}]
          /\ pc' = [pc EXCEPT ![b] = after]
          /\ UNCHANGED <<sealed, next>>
      BY ZenonT(60), <1>5, <2>8 DEF Add
    <3> HIDE DEF j, jobs, after
    <3>2. BuilderTypes'
      BY ZenonT(60), <1>0, <2>1, <2>2, <2>3, <2>4, <2>6, <3>1 DEF BuilderTypes, PCs
    <3>3. \A d \in Builder : Sound(d) => Sound(d)'
      BY ZenonT(40), <1>0, <2>5, <2>6, <3>1 DEF Sound, BuilderTypes
    <3> QED
      BY ZenonT(60), <1>0, <2>3, <3>2, <3>3 DEF ContractInv
  <2> QED
    BY ZenonT(60), <2>7, <2>8
<1>6. CASE Linger(b)
  <2>1. /\ SealThen(b, cur[b], "select") /\ UNCHANGED <<queue, hand, cancelled>>
        /\ pc[b] = "select" /\ cur[b] \in Seq(Tx) /\ hand \in [Builder -> Seq(Tx)]
    BY ZenonT(60), <1>0, <1>6 DEF Linger, BuilderTypes
  <2>2. BuilderTypes' /\ \A d \in Builder \ {b} : Sound(d) => Sound(d)'
    BY ZenonT(60), <1>0, <2>1, SealSound DEF Nexts
  <2>3. Sound(b) => Sound(b)'
    BY ZenonT(60), <1>0, <2>1, SealSound DEF Nexts, Sound
  <2> QED
    BY ZenonT(60), <1>0, <2>1, <2>2, <2>3 DEF ContractInv
<1>7. CASE CancelSeen(b)
  BY ZenonT(60), <1>0, <1>7 DEF CancelSeen, ContractInv, BuilderTypes, PCs
<1>8. CASE DrainRun(b)
  <2>1. cancelled
    BY ZenonT(60), <1>0, <1>8 DEF DrainRun, Sound
  <2>2. cur[b] \o Head(queue[b]) \in Seq(Tx) /\ Tail(queue[b]) \in Seq(Run)
    BY <1>0, <1>8 DEF DrainRun, BuilderTypes, Run
  <2> QED
    BY ZenonT(60), <1>0, <1>8, <2>1, <2>2 DEF DrainRun, ContractInv, BuilderTypes
<1>9. CASE DrainDone(b)
  <2>1. cancelled
    BY ZenonT(60), <1>0, <1>9 DEF DrainDone, Sound
  <2>2. /\ SealThen(b, cur[b], "wait") /\ UNCHANGED <<queue, hand, cancelled>>
        /\ pc[b] = "drain" /\ cur[b] \in Seq(Tx) /\ hand \in [Builder -> Seq(Tx)]
    BY ZenonT(60), <1>0, <1>9 DEF DrainDone, BuilderTypes
  <2>3. BuilderTypes'
    BY ZenonT(60), <1>0, <2>2, SealSound DEF Nexts
  <2> QED
    BY <2>1, <2>2, <2>3 DEF ContractInv
<1>10. CASE Wait(b)
  <2>1. cancelled
    BY ZenonT(60), <1>0, <1>10 DEF Wait, Sound
  <2> QED
    BY ZenonT(60), <1>0, <1>10, <2>1 DEF Wait, ContractInv, BuilderTypes, PCs
<1> QED
  BY ZenonT(60), <1>1, <1>2, <1>3, <1>4, <1>5, <1>6, <1>7, <1>8, <1>9, <1>10 DEF Build

\* A run put into a queue is not empty.
LEMMA SendContract ==
  ASSUME ContractInv, NEW b \in Builder, Send(b)
  PROVE  ContractInv'
<1>1. PICK r \in Runs : queue' = [queue EXCEPT ![b] = Append(@, r)]
  BY Zenon DEF Send
<1>2. r \in Run
  <2>1. PICK n \in 1..RunCap : r \in [1..n -> Tx \ handed]
    BY ZenonT(60) DEF Runs
  <2>2. n \in Nat \ {0}
    BY PipeAssumption
  <2>3. r \in Seq(Tx) /\ Len(r) = n
    BY <2>1, <2>2
  <2> QED
    BY ZenonT(60), <2>2, <2>3 DEF Run
<1>3. Append(queue[b], r) \in Seq(Run)
  BY <1>2 DEF ContractInv, BuilderTypes
<1>4. BuilderTypes'
  BY ZenonT(60), <1>1, <1>3 DEF Send, ContractInv, BuilderTypes
<1>5. \A d \in Builder : Sound(d) => Sound(d)'
  BY DEF Send, Sound
<1> QED
  BY <1>4, <1>5 DEF Send, ContractInv

\* The builders start sound.
LEMMA ContractInit ==
  ASSUME Init
  PROVE  ContractInv
<1>1. <<>> \in Seq(Run)
  OBVIOUS
<1>2. BuilderTypes
  BY Zenon, <1>1, EmptyForward DEF Init, BuilderTypes, PCs, Nexts
<1>3. \A b \in Builder : Sound(b)
  BY ZenonT(60), EmptyForward DEF Init, Sound
<1> QED
  BY <1>2, <1>3 DEF ContractInv

\* Every step of the pipe keeps the builders sound.
LEMMA ContractStep ==
  ASSUME ContractInv, [Next]_vars
  PROVE  ContractInv'
<1>1. CASE Cancel
  BY ZenonT(60), <1>1 DEF Cancel, builders, ContractInv, BuilderTypes
<1>2. ASSUME NEW t \in tasks, Work(t) PROVE UNCHANGED <<builders, cancelled>>
  BY ZenonT(60), <1>2 DEF Work, RetryAcquire, SubmitPost, RetryPost
<1>3. CASE UNCHANGED <<builders, cancelled>>
  BY <1>3 DEF builders, ContractInv, BuilderTypes, Sound
<1> QED
  BY ZenonT(60), <1>1, <1>2, <1>3, BuilderContract, SendContract DEF Next, Stopped, vars

-----------------------------------------------------------------------------
(* Sequences: what appending, taking the head and joining do to their members. *)

\* Appending a new member to a sequence without repetitions.
LEMMA AppendMembers ==
  ASSUME NEW S, NEW s \in Seq(S), NEW e \in S
  PROVE  /\ Range(Append(s, e)) = Range(s) \cup {e}
         /\ IsInjective(s) /\ e \notin Range(s) => IsInjective(Append(s, e))
<1>1. /\ DOMAIN Append(s, e) = 1..(Len(s) + 1) /\ DOMAIN s = 1..Len(s) /\ Len(s) \in Nat
      /\ \A i \in 1..Len(s) : Append(s, e)[i] = s[i]
      /\ Append(s, e)[Len(s) + 1] = e
  OBVIOUS
<1>2. \A i \in 1..(Len(s) + 1) : i \in 1..Len(s) \/ i = Len(s) + 1
  BY <1>1
<1>3. Len(s) + 1 \in 1..(Len(s) + 1) /\ 1..Len(s) \subseteq 1..(Len(s) + 1)
  BY SMTT(30), <1>1
<1> DEFINE a == Append(s, e)
<1>4. Range(a) = Range(s) \cup {e}
  BY ZenonT(60), <1>1, <1>2, <1>3 DEF Range
<1>5. ASSUME IsInjective(s), e \notin Range(s) PROVE IsInjective(a)
  <2>1. \A i \in 1..Len(s) : s[i] # e
    BY ZenonT(60), <1>1, <1>5 DEF Range
  <2> HIDE DEF a
  <2>2. DOMAIN a = 1..(Len(s) + 1) /\ (\A i \in 1..Len(s) : a[i] = s[i]) /\ a[Len(s) + 1] = e
    BY ZenonT(60), <1>1 DEF a
  <2> QED
    BY ZenonT(60), <1>1, <1>2, <1>5, <2>1, <2>2 DEF IsInjective
<1> QED
  BY ZenonT(60), <1>4, <1>5

\* The first member and the rest.
LEMMA TailMembers ==
  ASSUME NEW S, NEW s \in Seq(S), s # <<>>
  PROVE  /\ s[1] \in S /\ Tail(s) \in Seq(S)
         /\ Range(s) = {s[1]} \cup Range(Tail(s))
         /\ IsInjective(s) => IsInjective(Tail(s)) /\ s[1] \notin Range(Tail(s))
<1>1. /\ Len(s) \in Nat \ {0} /\ DOMAIN s = 1..Len(s) /\ Tail(s) \in Seq(S) /\ s[1] \in S
      /\ DOMAIN Tail(s) = 1..(Len(s) - 1)
      /\ \A i \in 1..(Len(s) - 1) : Tail(s)[i] = s[i + 1]
  OBVIOUS
<1> DEFINE u == Tail(s)
<1>2. \A i \in 1..Len(s) : i = 1 \/ (i - 1 \in 1..(Len(s) - 1) /\ (i - 1) + 1 = i)
  BY <1>1
<1>3. \A i \in 1..(Len(s) - 1) : i + 1 \in 1..Len(s) /\ i + 1 # 1
  BY <1>1
<1>3a. 1 \in 1..Len(s)
  BY <1>1
<1> HIDE DEF u
<1>4. DOMAIN u = 1..(Len(s) - 1) /\ \A i \in 1..(Len(s) - 1) : u[i] = s[i + 1]
  BY ZenonT(60), <1>1 DEF u
<1>5. Range(s) = {s[1]} \cup Range(u)
  <2>1. ASSUME NEW i \in 1..Len(s) PROVE i = 1 \/ s[i] \in Range(u)
    <3>1. CASE i # 1
      <4>1. i - 1 \in DOMAIN u /\ u[i - 1] = s[i]
        BY Zenon, <1>2, <1>4, <3>1
      <4> QED
        BY Zenon, <4>1 DEF Range
    <3> QED
      BY <3>1
  <2>2. ASSUME NEW i \in 1..(Len(s) - 1) PROVE u[i] \in Range(s)
    BY ZenonT(60), <1>1, <1>3, <1>4, <2>2 DEF Range
  <2>3. s[1] \in Range(s)
    BY Zenon, <1>1, <1>3a DEF Range
  <2>4. Range(s) \subseteq {s[1]} \cup Range(u)
    <3>1. ASSUME NEW x \in Range(s) PROVE x = s[1] \/ x \in Range(u)
      <4>1. PICK i \in DOMAIN s : x = s[i]
        BY Zenon DEF Range
      <4> QED
        BY ZenonT(60), <1>1, <2>1, <4>1
    <3> QED
      BY ZenonT(60), <3>1
  <2>5. Range(u) \subseteq Range(s)
    BY Zenon, <1>4, <2>2 DEF Range
  <2> QED
    BY ZenonT(60), <2>3, <2>4, <2>5
<1>6. ASSUME IsInjective(s) PROVE IsInjective(u) /\ s[1] \notin Range(u)
  <2>1. s[1] \notin Range(u)
    BY <1>1, <1>3, <1>3a, <1>4, <1>6 DEF Range, IsInjective
  <2>2. ASSUME NEW i \in 1..(Len(s) - 1), NEW j \in 1..(Len(s) - 1), u[i] = u[j] PROVE i = j
    <3>1. s[i + 1] = s[j + 1] /\ i + 1 \in DOMAIN s /\ j + 1 \in DOMAIN s
      BY ZenonT(60), <1>1, <1>3, <1>4, <2>2
    <3>2. i + 1 = j + 1
      BY ZenonT(60), <1>6, <3>1 DEF IsInjective
    <3> QED
      BY <3>2
  <2> QED
    BY ZenonT(60), <1>4, <2>1, <2>2 DEF IsInjective
<1> QED
  BY ZenonT(60), <1>1, <1>5, <1>6 DEF u

\* Joining two sequences that share no member.
LEMMA ConcatMembers ==
  ASSUME NEW S, NEW s \in Seq(S), NEW u \in Seq(S)
  PROVE  /\ Range(s \o u) = Range(s) \cup Range(u)
         /\ IsInjective(s) /\ IsInjective(u) /\ Range(s) \cap Range(u) = {} => IsInjective(s \o u)
<1> DEFINE a == s \o u
<1>1. /\ Len(s) \in Nat /\ Len(u) \in Nat /\ DOMAIN s = 1..Len(s) /\ DOMAIN u = 1..Len(u)
      /\ DOMAIN a = 1..(Len(s) + Len(u))
      /\ \A i \in 1..Len(s) : a[i] = s[i]
      /\ \A i \in 1..Len(u) : a[Len(s) + i] = u[i]
  OBVIOUS
<1> HIDE DEF a
<1>2. \A i \in 1..(Len(s) + Len(u)) :
        i \in 1..Len(s) \/ (i - Len(s) \in 1..Len(u) /\ Len(s) + (i - Len(s)) = i)
  BY <1>1
<1>3. /\ \A i \in 1..Len(s) : i \in 1..(Len(s) + Len(u))
      /\ \A i \in 1..Len(u) : Len(s) + i \in 1..(Len(s) + Len(u))
  BY <1>1
<1>4. Range(a) = Range(s) \cup Range(u)
  <2>1. ASSUME NEW i \in 1..(Len(s) + Len(u)) PROVE a[i] \in Range(s) \cup Range(u)
    <3>1. CASE i \in 1..Len(s)
      BY ZenonT(60), <1>1, <3>1 DEF Range
    <3>2. CASE i - Len(s) \in 1..Len(u) /\ Len(s) + (i - Len(s)) = i
      <4>1. a[i] = u[i - Len(s)]
        BY ZenonT(60), <1>1, <3>2
      <4> QED
        BY Zenon, <1>1, <3>2, <4>1 DEF Range
    <3> QED
      BY ZenonT(60), <1>2, <3>1, <3>2
  <2>2. ASSUME NEW i \in 1..Len(s) PROVE s[i] \in Range(a)
    BY ZenonT(60), <1>1, <1>3, <2>2 DEF Range
  <2>3. ASSUME NEW i \in 1..Len(u) PROVE u[i] \in Range(a)
    BY ZenonT(60), <1>1, <1>3, <2>3 DEF Range
  <2>4. Range(a) \subseteq Range(s) \cup Range(u)
    BY Zenon, <1>1, <2>1 DEF Range
  <2>5. Range(s) \subseteq Range(a) /\ Range(u) \subseteq Range(a)
    BY Zenon, <1>1, <2>2, <2>3 DEF Range
  <2> QED
    BY ZenonT(60), <2>4, <2>5
<1>5. ASSUME IsInjective(s), IsInjective(u), Range(s) \cap Range(u) = {} PROVE IsInjective(a)
  <2>1. \A i \in 1..Len(s), j \in 1..Len(u) : s[i] # u[j]
    BY Zenon, <1>1, <1>5 DEF Range
  <2> SUFFICES ASSUME NEW i \in 1..(Len(s) + Len(u)), NEW j \in 1..(Len(s) + Len(u)), a[i] = a[j]
               PROVE  i = j
    BY ZenonT(60), <1>1 DEF IsInjective
  <2>2. CASE i \in 1..Len(s) /\ j \in 1..Len(s)
    BY ZenonT(60), <1>1, <1>5, <2>2 DEF IsInjective
  <2>3. CASE i \in 1..Len(s) /\ j \notin 1..Len(s)
    <3>1. a[i] = s[i] /\ j - Len(s) \in 1..Len(u) /\ a[j] = u[j - Len(s)]
      BY Zenon, <1>1, <1>2, <2>3
    <3> QED
      BY Zenon, <2>1, <2>3, <3>1
  <2>4. CASE i \notin 1..Len(s) /\ j \in 1..Len(s)
    <3>1. a[j] = s[j] /\ i - Len(s) \in 1..Len(u) /\ a[i] = u[i - Len(s)]
      BY Zenon, <1>1, <1>2, <2>4
    <3> QED
      BY Zenon, <2>1, <2>4, <3>1
  <2>5. CASE i \notin 1..Len(s) /\ j \notin 1..Len(s)
    <3>1. /\ i - Len(s) \in DOMAIN u /\ j - Len(s) \in DOMAIN u
          /\ u[i - Len(s)] = u[j - Len(s)]
      BY Zenon, <1>1, <1>2, <2>5
    <3>2. i - Len(s) = j - Len(s)
      BY ZenonT(60), <1>5, <3>1 DEF IsInjective
    <3> QED
      BY <1>1, <3>2
  <2> QED
    BY ZenonT(60), <2>2, <2>3, <2>4, <2>5
<1> QED
  BY ZenonT(60), <1>4, <1>5 DEF a

-----------------------------------------------------------------------------
(* Queues: sequences of runs. *)

Flat(q) == UNION {Range(q[i]) : i \in DOMAIN q}

\* No transaction is twice in a queue.
QueueApart(q) ==
  /\ \A i \in DOMAIN q : IsInjective(q[i])
  /\ \A i, j \in DOMAIN q : i # j => Range(q[i]) \cap Range(q[j]) = {}

\* Of two transactions of which the first was handed over before the second, the
\* second is not a parent of the first, unless the first is known to be early.
Kept(s, E) == \A i, j \in DOMAIN s : i < j /\ s[j] \in Parents[s[i]] => s[i] \in E
Before(S, T, E) == \A x \in S, y \in T : y \in Parents[x] => x \in E
QueueKept(q, E) ==
  /\ \A i \in DOMAIN q : Kept(q[i], E)
  /\ \A i, j \in DOMAIN q : i < j => Before(Range(q[i]), Range(q[j]), E)

\* Appending a transaction at the end of an ordered sequence.
LEMMA AppendKept ==
  ASSUME NEW E, NEW s \in Seq(Tx), NEW e \in Tx, Kept(s, E), Before(Range(s), {e}, E)
  PROVE  Kept(Append(s, e), E)
<1> DEFINE a == Append(s, e)
<1>1. /\ DOMAIN a = 1..(Len(s) + 1) /\ DOMAIN s = 1..Len(s) /\ Len(s) \in Nat
      /\ \A i \in 1..Len(s) : a[i] = s[i]
      /\ a[Len(s) + 1] = e
  OBVIOUS
<1> HIDE DEF a
<1> SUFFICES ASSUME NEW i \in 1..(Len(s) + 1), NEW j \in 1..(Len(s) + 1), i < j,
                    a[j] \in Parents[a[i]]
             PROVE  a[i] \in E
  BY ZenonT(60), <1>1 DEF Kept, a
<1>2. i \in 1..Len(s)
  BY <1>1
<1>3. CASE j = Len(s) + 1
  <2>1. a[i] = s[i] /\ s[i] \in Range(s) /\ a[j] = e
    BY Zenon, <1>1, <1>2, <1>3 DEF Range
  <2> QED
    BY Zenon, <2>1 DEF Before
<1>4. CASE j # Len(s) + 1
  <2>1. j \in 1..Len(s)
    BY <1>1, <1>4
  <2>2. a[i] = s[i] /\ a[j] = s[j] /\ i \in DOMAIN s /\ j \in DOMAIN s
    BY Zenon, <1>1, <1>2, <2>1
  <2> QED
    BY Zenon, <2>2 DEF Kept
<1> QED
  BY ZenonT(60), <1>3, <1>4

\* The rest of an ordered sequence is ordered, and its first member comes before it.
LEMMA TailKept ==
  ASSUME NEW E, NEW s \in Seq(Tx), s # <<>>, Kept(s, E)
  PROVE  Kept(Tail(s), E) /\ Before({s[1]}, Range(Tail(s)), E)
<1> DEFINE u == Tail(s)
<1>1. /\ Len(s) \in Nat \ {0} /\ DOMAIN s = 1..Len(s)
      /\ DOMAIN u = 1..(Len(s) - 1)
      /\ \A i \in 1..(Len(s) - 1) : u[i] = s[i + 1]
  OBVIOUS
<1>2. /\ 1 \in 1..Len(s)
      /\ \A i \in 1..(Len(s) - 1) : i + 1 \in 1..Len(s) /\ 1 < i + 1
      /\ \A i, j \in 1..(Len(s) - 1) : i < j => i + 1 < j + 1
  BY <1>1
<1> HIDE DEF u
<1>3. Kept(u, E)
  BY Zenon, <1>1, <1>2 DEF Kept
<1>4. Before({s[1]}, Range(u), E)
  <2> SUFFICES ASSUME NEW y \in Range(u), y \in Parents[s[1]] PROVE s[1] \in E
    BY Zenon DEF Before
  <2>1. PICK i \in 1..(Len(s) - 1) : y = s[i + 1]
    BY Zenon, <1>1 DEF Range
  <2> QED
    BY Zenon, <1>1, <1>2, <2>1 DEF Kept
<1> QED
  BY ZenonT(60), <1>3, <1>4 DEF u

\* Taking the first run off a queue.
LEMMA QueueTail ==
  ASSUME NEW q \in Seq(Run), q # <<>>
  PROVE  /\ Head(q) \in Run /\ Tail(q) \in Seq(Run)
         /\ Flat(q) = Range(Head(q)) \cup Flat(Tail(q))
         /\ QueueApart(q) => /\ IsInjective(Head(q)) /\ QueueApart(Tail(q))
                             /\ Range(Head(q)) \cap Flat(Tail(q)) = {}
         /\ \A E : QueueKept(q, E) => /\ Kept(Head(q), E) /\ QueueKept(Tail(q), E)
                                      /\ Before(Range(Head(q)), Flat(Tail(q)), E)
<1> DEFINE h == Head(q)
           u == Tail(q)
           n == Len(q)
<1>1. /\ n \in Nat \ {0} /\ DOMAIN q = 1..n /\ h = q[1]
      /\ h \in Run /\ u \in Seq(Run)
      /\ DOMAIN u = 1..(n - 1)
      /\ \A i \in 1..(n - 1) : u[i] = q[i + 1]
  OBVIOUS
<1>2. /\ 1 \in 1..n
      /\ \A i \in 1..(n - 1) : i + 1 \in 1..n /\ 1 < i + 1 /\ i + 1 # 1
      /\ \A i, j \in 1..(n - 1) : (i < j => i + 1 < j + 1) /\ (i # j => i + 1 # j + 1)
      /\ \A i \in 1..n : i = 1 \/ (i - 1 \in 1..(n - 1) /\ (i - 1) + 1 = i)
  BY <1>1
<1> HIDE DEF h, u, n
<1>3. \A x : x \in Flat(u) <=> \E i \in 1..(n - 1) : x \in Range(q[i + 1])
  BY Zenon, <1>1 DEF Flat
<1>4. \A x : x \in Flat(q) <=> \E i \in 1..n : x \in Range(q[i])
  BY Zenon, <1>1 DEF Flat
<1>5. Flat(q) = Range(h) \cup Flat(u)
  <2>1. ASSUME NEW x \in Flat(q) PROVE x \in Range(h) \/ x \in Flat(u)
    <3>1. PICK i \in 1..n : x \in Range(q[i])
      BY ZenonT(60), <1>4
    <3>2. CASE i = 1
      BY ZenonT(60), <1>1, <3>1, <3>2
    <3>3. CASE i # 1
      <4>1. i - 1 \in 1..(n - 1) /\ x \in Range(q[(i - 1) + 1])
        BY Zenon, <1>2, <3>1, <3>3
      <4> QED
        BY Zenon, <1>3, <4>1
    <3> QED
      BY ZenonT(60), <3>2, <3>3
  <2>2. ASSUME NEW x \in Range(h) PROVE x \in Flat(q)
    BY Zenon, <1>1, <1>2, <1>4
  <2>3. ASSUME NEW x \in Flat(u) PROVE x \in Flat(q)
    <3>1. PICK i \in 1..(n - 1) : x \in Range(q[i + 1])
      BY Zenon, <1>3
    <3>2. i + 1 \in 1..n
      BY <1>1
    <3> QED
      BY Zenon, <1>4, <3>1, <3>2
  <2> QED
    BY ZenonT(60), <2>1, <2>2, <2>3
<1>6. ASSUME QueueApart(q) PROVE IsInjective(h) /\ QueueApart(u) /\ Range(h) \cap Flat(u) = {}
  <2>1. IsInjective(h)
    BY Zenon, <1>1, <1>2, <1>6 DEF QueueApart
  <2>2. ASSUME NEW i \in 1..(n - 1)
        PROVE  IsInjective(u[i]) /\ Range(q[1]) \cap Range(u[i]) = {}
    <3>1. u[i] = q[i + 1] /\ 1 # i + 1 /\ i + 1 \in DOMAIN q /\ 1 \in DOMAIN q
      BY Zenon, <1>1, <1>2
    <3> QED
      BY Zenon, <1>6, <3>1 DEF QueueApart
  <2>3. ASSUME NEW i \in 1..(n - 1), NEW j \in 1..(n - 1), i # j
        PROVE  Range(u[i]) \cap Range(u[j]) = {}
    <3>1. /\ u[i] = q[i + 1] /\ i + 1 \in DOMAIN q /\ i + 1 # j + 1
          /\ u[j] = q[j + 1] /\ j + 1 \in DOMAIN q
      BY Zenon, <1>1, <1>2, <2>3
    <3> QED
      BY Zenon, <1>6, <3>1 DEF QueueApart
  <2>4. QueueApart(u)
    BY Zenon, <1>1, <2>2, <2>3 DEF QueueApart
  <2>5. ASSUME NEW x \in Range(h), x \in Flat(u) PROVE FALSE
    <3>1. PICK i \in 1..(n - 1) : x \in Range(u[i])
      BY Zenon, <1>1, <1>3, <2>5
    <3> QED
      BY Zenon, <1>1, <2>2, <3>1
  <2> QED
    BY ZenonT(60), <2>1, <2>4, <2>5
<1>7. ASSUME NEW E, QueueKept(q, E)
      PROVE  Kept(h, E) /\ QueueKept(u, E) /\ Before(Range(h), Flat(u), E)
  <2>1. Kept(h, E)
    BY Zenon, <1>1, <1>2, <1>7 DEF QueueKept
  <2>2. QueueKept(u, E)
    BY Zenon, <1>1, <1>2, <1>7 DEF QueueKept
  <2>3. Before(Range(h), Flat(u), E)
    <3> SUFFICES ASSUME NEW x \in Range(h), NEW y \in Flat(u), y \in Parents[x] PROVE x \in E
      BY Zenon DEF Before
    <3>1. PICK i \in 1..(n - 1) : y \in Range(q[i + 1])
      BY Zenon, <1>3
    <3>2. Before(Range(q[1]), Range(q[i + 1]), E)
      BY ZenonT(60), <1>1, <1>2, <1>7 DEF QueueKept
    <3> QED
      BY Zenon, <1>1, <3>1, <3>2 DEF Before
  <2> QED
    BY ZenonT(60), <2>1, <2>2, <2>3
<1> QED
  BY ZenonT(60), <1>1, <1>5, <1>6, <1>7 DEF h, u

\* Putting a run at the end of a queue.
LEMMA QueueAppend ==
  ASSUME NEW q \in Seq(Run), NEW r \in Run
  PROVE  /\ Append(q, r) \in Seq(Run)
         /\ Flat(Append(q, r)) = Flat(q) \cup Range(r)
         /\ QueueApart(q) /\ IsInjective(r) /\ Range(r) \cap Flat(q) = {}
              => QueueApart(Append(q, r))
         /\ \A E : QueueKept(q, E) /\ Kept(r, E) /\ Before(Flat(q), Range(r), E)
              => QueueKept(Append(q, r), E)
<1> DEFINE a == Append(q, r)
           n == Len(q)
<1>1. /\ n \in Nat /\ DOMAIN q = 1..n /\ a \in Seq(Run)
      /\ DOMAIN a = 1..(n + 1)
      /\ \A i \in 1..n : a[i] = q[i]
      /\ a[n + 1] = r
  OBVIOUS
<1>2. /\ n + 1 \in 1..(n + 1) /\ 1..n \subseteq 1..(n + 1)
      /\ \A i \in 1..(n + 1) : i \in 1..n \/ i = n + 1
      /\ \A i, j \in 1..(n + 1) : i < j => i \in 1..n
  BY <1>1
<1> HIDE DEF a, n
<1>3. \A i \in 1..n : Range(q[i]) \subseteq Flat(q)
  BY Zenon, <1>1 DEF Flat
<1>4. Flat(a) = Flat(q) \cup Range(r)
  <2>1. ASSUME NEW x \in Flat(a) PROVE x \in Flat(q) \/ x \in Range(r)
    <3>1. PICK i \in 1..(n + 1) : x \in Range(a[i])
      BY Zenon, <1>1 DEF Flat
    <3> QED
      BY Zenon, <1>1, <1>2, <1>3, <3>1
  <2>2. Range(r) \subseteq Flat(a)
    BY Zenon, <1>1, <1>2 DEF Flat
  <2>3. Flat(q) \subseteq Flat(a)
    BY Zenon, <1>1, <1>2 DEF Flat
  <2> QED
    BY ZenonT(60), <2>1, <2>2, <2>3
<1>5. ASSUME QueueApart(q), IsInjective(r), Range(r) \cap Flat(q) = {} PROVE QueueApart(a)
  <2>1. \A i \in 1..(n + 1) : IsInjective(a[i])
    BY Zenon, <1>1, <1>2, <1>5 DEF QueueApart
  <2>2. \A i \in 1..n : Range(a[i]) \cap Range(a[n + 1]) = {}
    BY ZenonT(60), <1>1, <1>3, <1>5
  <2>3. \A i, j \in 1..n : i # j => Range(a[i]) \cap Range(a[j]) = {}
    BY Zenon, <1>1, <1>5 DEF QueueApart
  <2>4. \A i, j \in 1..(n + 1) : i # j => Range(a[i]) \cap Range(a[j]) = {}
    <3> SUFFICES ASSUME NEW i \in 1..(n + 1), NEW j \in 1..(n + 1), i # j
                 PROVE  Range(a[i]) \cap Range(a[j]) = {}
      BY Zenon
    <3>1. CASE i \in 1..n /\ j \in 1..n
      BY Zenon, <2>3, <3>1
    <3>2. CASE i = n + 1
      <4>1. Range(a[j]) \cap Range(a[i]) = {}
        BY Zenon, <1>2, <2>2, <3>2
      <4> QED
        BY ZenonT(60), <4>1
    <3>3. CASE j = n + 1
      BY Zenon, <1>2, <2>2, <3>3
    <3> QED
      BY Zenon, <1>2, <3>1, <3>2, <3>3
  <2> QED
    BY Zenon, <1>1, <2>1, <2>4 DEF QueueApart
<1>6. ASSUME NEW E, QueueKept(q, E), Kept(r, E), Before(Flat(q), Range(r), E)
      PROVE  QueueKept(a, E)
  <2>1. \A i \in 1..(n + 1) : Kept(a[i], E)
    BY Zenon, <1>1, <1>2, <1>6 DEF QueueKept
  <2>2. \A i \in 1..n : Before(Range(a[i]), Range(a[n + 1]), E)
    BY ZenonT(60), <1>1, <1>3, <1>6 DEF Before
  <2>3. \A i, j \in 1..n : i < j => Before(Range(a[i]), Range(a[j]), E)
    BY Zenon, <1>1, <1>6 DEF QueueKept
  <2>4. \A i, j \in 1..(n + 1) : i < j => Before(Range(a[i]), Range(a[j]), E)
    BY Zenon, <1>2, <2>2, <2>3
  <2> QED
    BY Zenon, <1>1, <2>1, <2>4 DEF QueueKept
<1> QED
  BY ZenonT(60), <1>1, <1>4, <1>5, <1>6 DEF a

-----------------------------------------------------------------------------
(* The four places of a builder: its queue q, the run h in its hand, the batch c it
   gathers and the batch s it is sealing.  What the builder's moves do to them. *)

All(q, h, c, s) == Flat(q) \cup Range(h) \cup Range(c) \cup Range(s)

\* No transaction is in two places.
Neat(q, h, c, s) ==
  /\ QueueApart(q) /\ IsInjective(h) /\ IsInjective(c) /\ IsInjective(s)
  /\ Flat(q) \cap Range(h) = {} /\ Flat(q) \cap Range(c) = {} /\ Flat(q) \cap Range(s) = {}
  /\ Range(h) \cap Range(c) = {} /\ Range(h) \cap Range(s) = {} /\ Range(c) \cap Range(s) = {}

\* The batch was handed over before the run in the hand, and that before the queue.
Orderly(q, h, c, s, E) ==
  /\ QueueKept(q, E) /\ Kept(h, E) /\ Kept(c, E) /\ Kept(s, E)
  /\ Before(Range(c), Range(h), E) /\ Before(Range(c), Flat(q), E) /\ Before(Range(h), Flat(q), E)

\* The empty sequence has no members.
LEMMA EmptyMembers ==
  /\ Range(<<>>) = {} /\ IsInjective(<<>>) /\ Flat(<<>>) = {} /\ QueueApart(<<>>)
  /\ \A E : Kept(<<>>, E) /\ QueueKept(<<>>, E)
<1>1. Range(<<>>) = {} /\ IsInjective(<<>>)
  BY DEF Range, IsInjective
<1>2. Flat(<<>>) = {} /\ QueueApart(<<>>)
  BY SMTT(30) DEF Flat, QueueApart
<1>3. \A E : Kept(<<>>, E) /\ QueueKept(<<>>, E)
  BY DEF Kept, QueueKept
<1> QED
  BY ZenonT(60), <1>1, <1>2, <1>3

\* What comes before, and after, a union comes before, and after, its parts.
LEMMA BeforeParts ==
  ASSUME NEW S, NEW T, NEW U, NEW E
  PROVE  /\ Before(S \cup T, U, E) <=> Before(S, U, E) /\ Before(T, U, E)
         /\ Before(U, S \cup T, E) <=> Before(U, S, E) /\ Before(U, T, E)
         /\ Before({}, U, E) /\ Before(U, {}, E)
<1>1. Before(S \cup T, U, E) <=> Before(S, U, E) /\ Before(T, U, E)
  BY ZenonT(60) DEF Before
<1>2. Before(U, S \cup T, E) <=> Before(U, S, E) /\ Before(U, T, E)
  BY ZenonT(60) DEF Before
<1>3. Before({}, U, E) /\ Before(U, {}, E)
  BY ZenonT(60) DEF Before
<1> QED
  BY ZenonT(60), <1>1, <1>2, <1>3

\* Receive: the first run of the queue is taken into the empty hand.
LEMMA MoveReceive ==
  ASSUME NEW q \in Seq(Run), q # <<>>, NEW c \in Seq(Tx), NEW s \in Seq(Tx)
  PROVE  /\ All(Tail(q), Head(q), c, s) = All(q, <<>>, c, s)
         /\ Neat(q, <<>>, c, s) => Neat(Tail(q), Head(q), c, s)
         /\ \A E : Orderly(q, <<>>, c, s, E) => Orderly(Tail(q), Head(q), c, s, E)
<1>1. Flat(q) = Range(Head(q)) \cup Flat(Tail(q))
  BY ZenonT(60), QueueTail
<1>2. All(Tail(q), Head(q), c, s) = All(q, <<>>, c, s)
  BY Zenon, <1>1, EmptyMembers DEF All
<1>3. ASSUME Neat(q, <<>>, c, s) PROVE Neat(Tail(q), Head(q), c, s)
  <2>1. /\ IsInjective(Head(q)) /\ QueueApart(Tail(q)) /\ Range(Head(q)) \cap Flat(Tail(q)) = {}
        /\ IsInjective(c) /\ IsInjective(s)
    BY ZenonT(60), <1>3, QueueTail DEF Neat
  <2>2. Flat(q) \cap Range(c) = {} /\ Flat(q) \cap Range(s) = {} /\ Range(c) \cap Range(s) = {}
    BY ZenonT(60), <1>3 DEF Neat
  <2>3. /\ Flat(Tail(q)) \cap Range(c) = {} /\ Flat(Tail(q)) \cap Range(s) = {}
        /\ Range(Head(q)) \cap Range(c) = {} /\ Range(Head(q)) \cap Range(s) = {}
        /\ Flat(Tail(q)) \cap Range(Head(q)) = {}
    BY Zenon, <1>1, <2>1, <2>2
  <2> QED
    BY Zenon, <2>1, <2>2, <2>3 DEF Neat
<1>4. ASSUME NEW E, Orderly(q, <<>>, c, s, E) PROVE Orderly(Tail(q), Head(q), c, s, E)
  <2>1. /\ Kept(Head(q), E) /\ QueueKept(Tail(q), E) /\ Before(Range(Head(q)), Flat(Tail(q)), E)
        /\ Kept(c, E) /\ Kept(s, E)
    BY ZenonT(60), <1>4, QueueTail DEF Orderly
  <2>2. Before(Range(c), Range(Head(q)), E) /\ Before(Range(c), Flat(Tail(q)), E)
    BY ZenonT(60), <1>1, <1>4 DEF Orderly, Before
  <2> QED
    BY Zenon, <2>1, <2>2 DEF Orderly
<1> QED
  BY ZenonT(60), <1>2, <1>3, <1>4

\* Add: the first transaction in the hand joins the batch.
LEMMA MoveAdd ==
  ASSUME NEW q \in Seq(Run), NEW h \in Seq(Tx), h # <<>>, NEW c \in Seq(Tx), NEW s \in Seq(Tx)
  PROVE  /\ All(q, Tail(h), Append(c, h[1]), s) = All(q, h, c, s)
         /\ Neat(q, h, c, s) => Neat(q, Tail(h), Append(c, h[1]), s)
         /\ \A E : Orderly(q, h, c, s, E) => Orderly(q, Tail(h), Append(c, h[1]), s, E)
<1>1. /\ Range(h) = {h[1]} \cup Range(Tail(h)) /\ h[1] \in Tx
      /\ Range(Append(c, h[1])) = Range(c) \cup {h[1]}
  BY TailMembers, AppendMembers
<1>2. All(q, Tail(h), Append(c, h[1]), s) = All(q, h, c, s)
  BY Zenon, <1>1 DEF All
<1>3. ASSUME Neat(q, h, c, s) PROVE Neat(q, Tail(h), Append(c, h[1]), s)
  <2>1. IsInjective(Tail(h)) /\ h[1] \notin Range(Tail(h))
    BY ZenonT(60), <1>3, TailMembers DEF Neat
  <2>2. /\ QueueApart(q) /\ IsInjective(c) /\ IsInjective(s)
        /\ Flat(q) \cap Range(h) = {} /\ Flat(q) \cap Range(c) = {} /\ Flat(q) \cap Range(s) = {}
        /\ Range(h) \cap Range(c) = {} /\ Range(h) \cap Range(s) = {} /\ Range(c) \cap Range(s) = {}
    BY Zenon, <1>3 DEF Neat
  <2>3. IsInjective(Append(c, h[1]))
    BY ZenonT(60), <1>1, <2>2, AppendMembers
  <2>4. /\ Flat(q) \cap Range(Tail(h)) = {} /\ Range(Tail(h)) \cap Range(s) = {}
        /\ Range(Tail(h)) \cap Range(Append(c, h[1])) = {}
    BY ZenonT(60), <1>1, <2>1, <2>2
  <2>5. /\ Flat(q) \cap Range(Append(c, h[1])) = {}
        /\ Range(Append(c, h[1])) \cap Range(s) = {}
    BY ZenonT(60), <1>1, <2>2
  <2> QED
    BY Zenon, <2>1, <2>2, <2>3, <2>4, <2>5 DEF Neat
<1>4. ASSUME NEW E, Orderly(q, h, c, s, E) PROVE Orderly(q, Tail(h), Append(c, h[1]), s, E)
  <2>1. /\ QueueKept(q, E) /\ Kept(h, E) /\ Kept(c, E) /\ Kept(s, E)
        /\ Before(Range(c), Range(h), E) /\ Before(Range(c), Flat(q), E) /\ Before(Range(h), Flat(q), E)
    BY Zenon, <1>4 DEF Orderly
  <2>2. Kept(Tail(h), E) /\ Before({h[1]}, Range(Tail(h)), E)
    BY ZenonT(60), <2>1, TailKept
  <2>3. /\ Before(Range(c), {h[1]}, E) /\ Before(Range(c), Range(Tail(h)), E)
        /\ Before({h[1]}, Flat(q), E) /\ Before(Range(Tail(h)), Flat(q), E)
    BY ZenonT(60), <1>1, <2>1 DEF Before
  <2>4. Kept(Append(c, h[1]), E)
    BY ZenonT(60), <1>1, <2>1, <2>3, AppendKept
  <2>5. /\ Before(Range(Append(c, h[1])), Range(Tail(h)), E)
        /\ Before(Range(Append(c, h[1])), Flat(q), E)
    BY ZenonT(60), <1>1, <2>1, <2>2, <2>3 DEF Before
  <2> QED
    BY Zenon, <2>1, <2>2, <2>3, <2>4, <2>5 DEF Orderly
<1> QED
  BY ZenonT(60), <1>2, <1>3, <1>4

\* Seal: the batch is put aside.
LEMMA MoveSeal ==
  ASSUME NEW q, NEW h, NEW c
  PROVE  /\ All(q, h, <<>>, c) = All(q, h, c, <<>>)
         /\ Neat(q, h, c, <<>>) => Neat(q, h, <<>>, c)
         /\ \A E : Orderly(q, h, c, <<>>, E) => Orderly(q, h, <<>>, c, E)
<1>1. All(q, h, <<>>, c) = All(q, h, c, <<>>)
  BY Zenon, EmptyMembers DEF All
<1>2. Neat(q, h, c, <<>>) => Neat(q, h, <<>>, c)
  BY ZenonT(60), EmptyMembers DEF Neat
<1>3. \A E : Orderly(q, h, c, <<>>, E) => Orderly(q, h, <<>>, c, E)
  BY ZenonT(60), EmptyMembers, BeforeParts DEF Orderly
<1> QED
  BY ZenonT(60), <1>1, <1>2, <1>3

\* The shutdown drain: a run of the queue is joined to the batch.
LEMMA MoveDrain ==
  ASSUME NEW q \in Seq(Run), q # <<>>, NEW h, NEW c \in Seq(Tx), NEW s
  PROVE  /\ All(Tail(q), h, c \o Head(q), s) = All(q, h, c, s)
         /\ Neat(q, h, c, s) => Neat(Tail(q), h, c \o Head(q), s)
<1>1. /\ Flat(q) = Range(Head(q)) \cup Flat(Tail(q)) /\ Head(q) \in Seq(Tx)
  BY ZenonT(60), QueueTail DEF Run
<1>2. Range(c \o Head(q)) = Range(c) \cup Range(Head(q))
  BY ZenonT(60), <1>1, ConcatMembers
<1>3. All(Tail(q), h, c \o Head(q), s) = All(q, h, c, s)
  BY Zenon, <1>1, <1>2 DEF All
<1>4. ASSUME Neat(q, h, c, s) PROVE Neat(Tail(q), h, c \o Head(q), s)
  <2>1. /\ IsInjective(Head(q)) /\ QueueApart(Tail(q)) /\ Range(Head(q)) \cap Flat(Tail(q)) = {}
    BY ZenonT(60), <1>4, QueueTail DEF Neat
  <2>2. /\ IsInjective(h) /\ IsInjective(c) /\ IsInjective(s)
        /\ Flat(q) \cap Range(h) = {} /\ Flat(q) \cap Range(c) = {} /\ Flat(q) \cap Range(s) = {}
        /\ Range(h) \cap Range(c) = {} /\ Range(h) \cap Range(s) = {} /\ Range(c) \cap Range(s) = {}
    BY Zenon, <1>4 DEF Neat
  <2>3. IsInjective(c \o Head(q))
    <3>1. Range(c) \cap Range(Head(q)) = {}
      BY Zenon, <1>1, <2>2
    <3> QED
      BY ZenonT(60), <1>1, <2>1, <2>2, <3>1, ConcatMembers
  <2>4. /\ Flat(Tail(q)) \cap Range(h) = {} /\ Flat(Tail(q)) \cap Range(s) = {}
        /\ Flat(Tail(q)) \cap Range(c \o Head(q)) = {}
    BY ZenonT(60), <1>1, <1>2, <2>1, <2>2
  <2>5. /\ Range(h) \cap Range(c \o Head(q)) = {}
        /\ Range(c \o Head(q)) \cap Range(s) = {}
    BY ZenonT(60), <1>1, <1>2, <2>2
  <2> QED
    BY ZenonT(60), <2>1, <2>2, <2>3, <2>4, <2>5 DEF Neat
<1> QED
  BY ZenonT(60), <1>3, <1>4

\* Submit: the sealed batch leaves the builder.
LEMMA MoveSubmit ==
  ASSUME NEW q, NEW h, NEW c, NEW s
  PROVE  /\ All(q, h, c, s) = All(q, h, c, <<>>) \cup Range(s)
         /\ Neat(q, h, c, s) => Neat(q, h, c, <<>>) /\ All(q, h, c, <<>>) \cap Range(s) = {}
         /\ \A E : Orderly(q, h, c, s, E) => Orderly(q, h, c, <<>>, E)
<1>1. All(q, h, c, s) = All(q, h, c, <<>>) \cup Range(s)
  BY Zenon, EmptyMembers DEF All
<1>2. Neat(q, h, c, s) => Neat(q, h, c, <<>>)
  BY ZenonT(60), EmptyMembers DEF Neat
<1>3. Neat(q, h, c, s) => All(q, h, c, <<>>) \cap Range(s) = {}
  BY ZenonT(60), EmptyMembers DEF Neat, All
<1>4. \A E : Orderly(q, h, c, s, E) => Orderly(q, h, c, <<>>, E)
  BY ZenonT(60), EmptyMembers DEF Orderly
<1> QED
  BY ZenonT(60), <1>1, <1>2, <1>3, <1>4

\* Send: a run of transactions nobody has seen joins the queue.
LEMMA MoveSend ==
  ASSUME NEW q \in Seq(Run), NEW h, NEW c, NEW s, NEW r \in Run, IsInjective(r),
         Range(r) \cap All(q, h, c, s) = {}
  PROVE  /\ All(Append(q, r), h, c, s) = All(q, h, c, s) \cup Range(r)
         /\ Neat(q, h, c, s) => Neat(Append(q, r), h, c, s)
         /\ \A E : Orderly(q, h, c, s, E) /\ Kept(r, E) /\ Before(All(q, h, c, s), Range(r), E)
              => Orderly(Append(q, r), h, c, s, E)
<1>1. Flat(Append(q, r)) = Flat(q) \cup Range(r)
  BY ZenonT(60), QueueAppend
<1>2. All(Append(q, r), h, c, s) = All(q, h, c, s) \cup Range(r)
  BY Zenon, <1>1 DEF All
<1>3. ASSUME Neat(q, h, c, s) PROVE Neat(Append(q, r), h, c, s)
  <2>1. /\ Range(r) \cap Flat(q) = {} /\ Range(r) \cap Range(h) = {}
        /\ Range(r) \cap Range(c) = {} /\ Range(r) \cap Range(s) = {}
    BY ZenonT(60) DEF All
  <2>2. QueueApart(Append(q, r))
    BY ZenonT(60), <1>3, <2>1, QueueAppend DEF Neat
  <2>3. /\ Flat(Append(q, r)) \cap Range(h) = {} /\ Flat(Append(q, r)) \cap Range(c) = {}
        /\ Flat(Append(q, r)) \cap Range(s) = {}
    BY ZenonT(60), <1>1, <1>3, <2>1 DEF Neat
  <2> QED
    BY Zenon, <1>3, <2>2, <2>3 DEF Neat
<1>4. ASSUME NEW E, Orderly(q, h, c, s, E), Kept(r, E), Before(All(q, h, c, s), Range(r), E)
      PROVE  Orderly(Append(q, r), h, c, s, E)
  <2>1. /\ Before(Flat(q), Range(r), E) /\ Before(Range(h), Range(r), E)
        /\ Before(Range(c), Range(r), E)
    BY ZenonT(60), <1>4 DEF All, Before
  <2>2. QueueKept(Append(q, r), E)
    BY ZenonT(60), <1>4, <2>1, QueueAppend DEF Orderly
  <2>3. /\ Before(Range(c), Flat(Append(q, r)), E)
        /\ Before(Range(h), Flat(Append(q, r)), E)
    BY ZenonT(60), <1>1, <1>4, <2>1 DEF Orderly, Before
  <2> QED
    BY ZenonT(60), <1>4, <2>2, <2>3 DEF Orderly
<1> QED
  BY ZenonT(60), <1>2, <1>3, <1>4

-----------------------------------------------------------------------------
(* The steps of a builder as moves. *)

Mine(b) == All(queue[b], hand[b], cur[b], sealed[b])
NeatAt(b) == Neat(queue[b], hand[b], cur[b], sealed[b])
OrderlyAt(b) == Orderly(queue[b], hand[b], cur[b], sealed[b], early)

\* Where a builder is says which of its places are empty.
Control(b) ==
  /\ pc[b] = "seal" <=> sealed[b] # <<>>
  /\ hand[b] # <<>> => pc[b] = "add" \/ next[b] = "add"
  /\ pc[b] \in {"wait", "done"} \/ next[b] = "wait" => queue[b] = <<>> /\ cur[b] = <<>>

\* The limit Config.BatchTxs: a batch that is not sealed yet is not full.
SizeAt(b) == Len(cur[b]) < BatchTxs /\ Len(sealed[b]) <= BatchTxs

Same(d) == /\ queue'[d] = queue[d] /\ hand'[d] = hand[d] /\ cur'[d] = cur[d]
           /\ sealed'[d] = sealed[d] /\ pc'[d] = pc[d] /\ next'[d] = next[d]

\* What a step of builder b leaves of its transactions.
Moves(b) ==
  /\ Mine(b)' = Mine(b)
  /\ NeatAt(b)'
  /\ ~cancelled /\ OrderlyAt(b) => OrderlyAt(b)'

\* Sealing the batch as it is.
LEMMA SealMoves ==
  ASSUME ContractInv, NEW b \in Builder, Control(b), NeatAt(b),
         NEW resume \in Nexts, SealThen(b, cur[b], resume), pc[b] # "seal",
         UNCHANGED <<queue, hand, early>>,
         hand[b] # <<>> => resume = "add", resume = "wait" => queue[b] = <<>>
  PROVE  /\ Moves(b) /\ Control(b)'
         /\ pc'[b] # "done"
         /\ \A d \in Builder \ {b} : Same(d)
         /\ SizeAt(b) => SizeAt(b)'
<1>1. /\ sealed[b] = <<>> /\ next[b] = "select"
      /\ queue \in [Builder -> Seq(Run)] /\ hand \in [Builder -> Seq(Tx)]
      /\ cur \in [Builder -> Seq(Tx)] /\ sealed \in [Builder -> Seq(Tx)]
      /\ pc \in [Builder -> PCs] /\ next \in [Builder -> Nexts]
  BY ZenonT(60) DEF Control, ContractInv, BuilderTypes
<1>2. CASE cur[b] = <<>>
  <2>1. pc' = [pc EXCEPT ![b] = resume] /\ UNCHANGED <<cur, ids, sealed, next>>
    BY ZenonT(60), <1>2 DEF SealThen
  <2>2. Moves(b)
    BY ZenonT(60), <2>1 DEF Moves, Mine, NeatAt, OrderlyAt
  <2>3. Control(b)'
    BY ZenonT(60), <1>1, <1>2, <2>1 DEF Control, Nexts
  <2>4. \A d \in Builder \ {b} : Same(d)
    BY ZenonT(60), <1>1, <2>1 DEF Same
  <2>5. pc'[b] # "done" /\ (SizeAt(b) => SizeAt(b)')
    BY ZenonT(60), <1>1, <2>1 DEF SizeAt, Nexts
  <2> QED
    BY ZenonT(60), <2>2, <2>3, <2>4, <2>5
<1>3. CASE cur[b] # <<>>
  <2>1. /\ sealed' = [sealed EXCEPT ![b] = cur[b]]
        /\ cur' = [cur EXCEPT ![b] = <<>>]
        /\ next' = [next EXCEPT ![b] = resume]
        /\ pc' = [pc EXCEPT ![b] = "seal"]
    BY ZenonT(60), <1>3 DEF SealThen
  <2>2. /\ sealed'[b] = cur[b] /\ cur'[b] = <<>> /\ next'[b] = resume /\ pc'[b] = "seal"
        /\ queue'[b] = queue[b] /\ hand'[b] = hand[b]
    BY ZenonT(60), <1>1, <2>1
  <2>3. Moves(b)
    BY ZenonT(60), <1>1, <2>2, MoveSeal DEF Moves, Mine, NeatAt, OrderlyAt
  <2>4. Control(b)'
    BY SMTT(30), <1>3, <2>2 DEF Control
  <2>5. \A d \in Builder \ {b} : Same(d)
    BY ZenonT(60), <1>1, <2>1 DEF Same
  <2>6. pc'[b] # "done"
    BY ZenonT(60), <2>2
  <2>7. SizeAt(b) => SizeAt(b)'
    <3>1. BatchTxs \in Nat \ {0} /\ Len(cur[b]) \in Nat /\ Len(<<>>) = 0
      BY <1>1, PipeAssumption
    <3>2. ASSUME Len(cur[b]) < BatchTxs PROVE 0 < BatchTxs /\ Len(cur[b]) <= BatchTxs
      BY <3>1, <3>2
    <3> QED
      BY ZenonT(60), <2>2, <3>1, <3>2 DEF SizeAt
  <2> QED
    BY ZenonT(60), <2>3, <2>4, <2>5, <2>6, <2>7
<1> QED
  BY ZenonT(60), <1>2, <1>3

\* Adding the first transaction of the run, and sealing a batch that is full with it.
LEMMA AddMoves ==
  ASSUME ContractInv, NEW b \in Builder, Control(b), NeatAt(b), Add(b)
  PROVE  /\ Moves(b) /\ Control(b)'
         /\ pc'[b] # "done"
         /\ \A d \in Builder \ {b} : Same(d)
         /\ SizeAt(b) => SizeAt(b)'
<1> DEFINE j == hand[b][1]
           jobs == Append(cur[b], j)
           after == IF Len(hand[b]) = 1 THEN "greedy" ELSE "add"
<1>1. /\ queue \in [Builder -> Seq(Run)] /\ hand \in [Builder -> Seq(Tx)]
      /\ cur \in [Builder -> Seq(Tx)] /\ sealed \in [Builder -> Seq(Tx)]
      /\ pc \in [Builder -> PCs] /\ next \in [Builder -> Nexts]
      /\ pc[b] = "add" /\ hand[b] # <<>> /\ sealed[b] = <<>> /\ next[b] = "select"
  BY ZenonT(60) DEF Control, ContractInv, BuilderTypes, Add
<1>2. /\ j \in Tx /\ Tail(hand[b]) \in Seq(Tx)
      /\ Len(Tail(hand[b])) = Len(hand[b]) - 1 /\ Len(hand[b]) \in Nat
  BY <1>1
<1>3. /\ jobs \in Seq(Tx) /\ Len(jobs) = Len(cur[b]) + 1 /\ Len(cur[b]) \in Nat
  BY <1>1, <1>2
<1>3a. jobs # <<>>
  <2>1. Len(jobs) # 0
    BY <1>3
  <2>2. Len(<<>>) = 0
    OBVIOUS
  <2> HIDE DEF j, jobs
  <2> QED
    BY ZenonT(60), <2>1, <2>2
<1>4. after = "add" \/ Tail(hand[b]) = <<>>
  <2>1. \A u \in Seq(Tx) : Len(u) = 0 => u = <<>>
    OBVIOUS
  <2>2. CASE Len(hand[b]) = 1
    <3>1. Len(Tail(hand[b])) = 0
      BY <1>2, <2>2
    <3> QED
      BY Zenon, <1>2, <2>1, <3>1
  <2> QED
    BY Zenon, <2>2
<1>5. after \in {"greedy", "add"}
  BY ZenonT(60)
<1>6. /\ hand' = [hand EXCEPT ![b] = Tail(@)] /\ UNCHANGED <<queue, early>>
      /\ Full(jobs) => SealThen(b, jobs, after)
      /\ ~Full(jobs) => /\ cur' = [cur EXCEPT ![b] = jobs]
                        /\ pc' = [pc EXCEPT ![b] = after]
                        /\ UNCHANGED <<sealed, next>>
  BY ZenonT(60) DEF Add, history
<1>7. Full(jobs) \/ Len(jobs) < BatchTxs
  BY SMTT(30), <1>3, PipeAssumption DEF Full
<1>8. /\ All(queue[b], Tail(hand[b]), jobs, sealed[b]) = All(queue[b], hand[b], cur[b], sealed[b])
      /\ Neat(queue[b], Tail(hand[b]), jobs, sealed[b])
      /\ Orderly(queue[b], hand[b], cur[b], sealed[b], early)
           => Orderly(queue[b], Tail(hand[b]), jobs, sealed[b], early)
  BY <1>1, MoveAdd DEF NeatAt
<1> HIDE DEF j, jobs, after
<1>9. hand'[b] = Tail(hand[b]) /\ queue'[b] = queue[b] /\ early' = early
  BY ZenonT(60), <1>1, <1>6
<1>10. CASE Full(jobs)
  <2>1. /\ sealed' = [sealed EXCEPT ![b] = jobs]
        /\ cur' = [cur EXCEPT ![b] = <<>>]
        /\ next' = [next EXCEPT ![b] = after]
        /\ pc' = [pc EXCEPT ![b] = "seal"]
    BY ZenonT(60), <1>3a, <1>6, <1>10 DEF SealThen
  <2>2. sealed'[b] = jobs /\ cur'[b] = <<>> /\ next'[b] = after /\ pc'[b] = "seal"
    BY ZenonT(60), <1>1, <2>1
  <2>3. Moves(b)
    BY ZenonT(60), <1>1, <1>8, <1>9, <2>2, MoveSeal DEF Moves, Mine, NeatAt, OrderlyAt
  <2>4. Control(b)'
    BY ZenonT(60), <1>3a, <1>4, <1>5, <1>9, <2>2 DEF Control
  <2>5. \A d \in Builder \ {b} : Same(d)
    BY ZenonT(60), <1>1, <1>6, <2>1 DEF Same
  <2>6. pc'[b] # "done"
    BY ZenonT(60), <2>2
  <2>7. SizeAt(b) => SizeAt(b)'
    <3>1. BatchTxs \in Nat \ {0} /\ Len(<<>>) = 0
      BY ZenonT(60), PipeAssumption
    <3> QED
      BY <1>3, <2>2, <3>1 DEF SizeAt
  <2> QED
    BY ZenonT(60), <2>3, <2>4, <2>5, <2>6, <2>7
<1>11. CASE ~Full(jobs)
  <2>1. /\ cur' = [cur EXCEPT ![b] = jobs]
        /\ pc' = [pc EXCEPT ![b] = after]
        /\ UNCHANGED <<sealed, next>>
    BY ZenonT(60), <1>6, <1>11
  <2>2. cur'[b] = jobs /\ pc'[b] = after /\ sealed'[b] = sealed[b] /\ next'[b] = next[b]
    BY ZenonT(60), <1>1, <2>1
  <2>3. Moves(b)
    BY ZenonT(60), <1>8, <1>9, <2>2 DEF Moves, Mine, NeatAt, OrderlyAt
  <2>4. Control(b)'
    BY ZenonT(60), <1>1, <1>4, <1>5, <1>9, <2>2 DEF Control
  <2>5. \A d \in Builder \ {b} : Same(d)
    BY ZenonT(60), <1>1, <1>6, <2>1 DEF Same
  <2>6. pc'[b] # "done"
    BY ZenonT(60), <1>5, <2>2
  <2>7. SizeAt(b) => SizeAt(b)'
    BY ZenonT(60), <1>7, <1>11, <2>2 DEF SizeAt
  <2> QED
    BY ZenonT(60), <2>3, <2>4, <2>5, <2>6, <2>7
<1> QED
  BY ZenonT(60), <1>10, <1>11

\* Every step of a builder but Submit moves transactions among its own places.
LEMMA BuilderMoves ==
  ASSUME ContractInv, NEW b \in Builder, Control(b), NeatAt(b), Build(b), ~Submit(b)
  PROVE  /\ Moves(b) /\ Control(b)'
         /\ pc'[b] = "done" => pc[b] = "done" \/ tasks = {}
         /\ \A d \in Builder \ {b} : Same(d)
         /\ ~cancelled /\ SizeAt(b) => SizeAt(b)'
         /\ UNCHANGED <<handed, tasks, cancelled, counters, landed, history>>
<1>1. /\ queue \in [Builder -> Seq(Run)] /\ hand \in [Builder -> Seq(Tx)]
      /\ cur \in [Builder -> Seq(Tx)] /\ sealed \in [Builder -> Seq(Tx)]
      /\ pc \in [Builder -> PCs] /\ next \in [Builder -> Nexts]
      /\ pc[b] # "seal" => next[b] = "select" /\ sealed[b] = <<>>
      /\ pc[b] \in {"select", "greedy", "drain", "wait"} => hand[b] = <<>>
  BY ZenonT(60) DEF Control, ContractInv, BuilderTypes
<1>2. pc[b] = "drain" => cancelled
  BY ZenonT(60) DEF ContractInv, Sound
<1>3. CASE Receive(b)
  <2>1. /\ pc[b] \in {"select", "greedy"} /\ queue[b] # <<>>
        /\ hand' = [hand EXCEPT ![b] = Head(queue[b])]
        /\ queue' = [queue EXCEPT ![b] = Tail(@)]
        /\ pc' = [pc EXCEPT ![b] = "add"]
        /\ UNCHANGED <<cur, sealed, next, handed, tasks, cancelled, counters, landed, history>>
    BY ZenonT(60), <1>3 DEF Receive
  <2>2. /\ hand'[b] = Head(queue[b]) /\ queue'[b] = Tail(queue[b]) /\ pc'[b] = "add"
        /\ cur'[b] = cur[b] /\ sealed'[b] = sealed[b] /\ next'[b] = next[b]
        /\ early' = early /\ hand[b] = <<>>
    BY ZenonT(60), <1>1, <2>1 DEF history
  <2>3. queue[b] \in Seq(Run) /\ cur[b] \in Seq(Tx) /\ sealed[b] \in Seq(Tx)
    BY ZenonT(60), <1>1
  <2>4. Moves(b)
    <3>1. /\ All(Tail(queue[b]), Head(queue[b]), cur[b], sealed[b]) = Mine(b)
          /\ Neat(Tail(queue[b]), Head(queue[b]), cur[b], sealed[b])
          /\ OrderlyAt(b) => Orderly(Tail(queue[b]), Head(queue[b]), cur[b], sealed[b], early)
      BY ZenonT(60), <2>1, <2>2, <2>3, MoveReceive DEF Mine, NeatAt, OrderlyAt
    <3> QED
      BY ZenonT(60), <2>2, <3>1 DEF Moves, Mine, NeatAt, OrderlyAt
  <2>5. Control(b)'
    BY ZenonT(60), <1>1, <2>1, <2>2 DEF Control
  <2>6. \A d \in Builder \ {b} : Same(d)
    BY ZenonT(60), <1>1, <2>1 DEF Same
  <2>7. SizeAt(b) => SizeAt(b)'
    BY ZenonT(60), <2>2 DEF SizeAt
  <2> QED
    BY ZenonT(60), <2>1, <2>2, <2>4, <2>5, <2>6, <2>7
<1>4. CASE GreedyDone(b) \/ CancelSeen(b) \/ Wait(b)
  <2>1. /\ UNCHANGED <<queue, hand, cur, sealed, next, handed, tasks, cancelled, counters, landed, history>>
        /\ \E p \in {"select", "drain", "done"} :
             /\ pc' = [pc EXCEPT ![b] = p]
             /\ p = "done" => tasks = {} /\ pc[b] = "wait"
        /\ pc[b] \in {"select", "greedy", "wait"}
    BY ZenonT(40), <1>4 DEF GreedyDone, CancelSeen, Wait
  <2>2. PICK p \in {"select", "drain", "done"} :
             /\ pc' = [pc EXCEPT ![b] = p]
             /\ p = "done" => tasks = {} /\ pc[b] = "wait"
    BY Zenon, <2>1
  <2>3. pc'[b] = p
    BY ZenonT(60), <1>1, <2>2
  <2>4. Moves(b)
    BY ZenonT(60), <2>1 DEF Moves, Mine, NeatAt, OrderlyAt, history
  <2>5. Control(b)'
    BY ZenonT(60), <1>1, <2>1, <2>2, <2>3 DEF Control
  <2>6. \A d \in Builder \ {b} : Same(d)
    BY ZenonT(60), <1>1, <2>1, <2>2 DEF Same
  <2>7. SizeAt(b) => SizeAt(b)'
    BY ZenonT(60), <2>1 DEF SizeAt
  <2> QED
    BY Zenon, <2>1, <2>2, <2>3, <2>4, <2>5, <2>6, <2>7
<1>5. CASE AddSealsParent(b)
  <2>1. /\ SealThen(b, cur[b], "add") /\ pc[b] # "seal" /\ "add" \in Nexts
        /\ UNCHANGED <<queue, hand, handed, tasks, cancelled, counters, landed, history>>
    BY ZenonT(60), <1>5 DEF AddSealsParent, Nexts
  <2>2. UNCHANGED <<queue, hand, early>>
    BY ZenonT(60), <2>1 DEF history
  <2> QED
    BY ZenonT(60), <2>1, <2>2, SealMoves
<1>6. CASE Add(b)
  <2>1. UNCHANGED <<handed, tasks, cancelled, counters, landed, history>>
    BY Zenon, <1>6 DEF Add
  <2> QED
    BY Zenon, <1>6, <2>1, AddMoves
<1>7. CASE Linger(b)
  <2>1. /\ SealThen(b, cur[b], "select") /\ pc[b] # "seal" /\ "select" \in Nexts /\ hand[b] = <<>>
        /\ UNCHANGED <<queue, hand, handed, tasks, cancelled, counters, landed, history>>
    BY ZenonT(60), <1>1, <1>7 DEF Linger, Nexts
  <2>2. UNCHANGED <<queue, hand, early>>
    BY ZenonT(60), <2>1 DEF history
  <2> QED
    BY ZenonT(60), <2>1, <2>2, SealMoves
<1>8. CASE DrainRun(b)
  <2>1. /\ pc[b] = "drain" /\ queue[b] # <<>>
        /\ cur' = [cur EXCEPT ![b] = @ \o Head(queue[b])]
        /\ queue' = [queue EXCEPT ![b] = Tail(@)]
        /\ UNCHANGED <<hand, sealed, pc, next, handed, tasks, cancelled, counters, landed, history>>
    BY ZenonT(60), <1>8 DEF DrainRun
  <2>2. /\ cur'[b] = cur[b] \o Head(queue[b]) /\ queue'[b] = Tail(queue[b])
        /\ hand'[b] = hand[b] /\ sealed'[b] = sealed[b] /\ pc'[b] = pc[b] /\ next'[b] = next[b]
    BY ZenonT(60), <1>1, <2>1
  <2>3. queue[b] \in Seq(Run) /\ cur[b] \in Seq(Tx)
    BY ZenonT(60), <1>1
  <2>4. Moves(b)
    <3>1. /\ All(Tail(queue[b]), hand[b], cur[b] \o Head(queue[b]), sealed[b]) = Mine(b)
          /\ Neat(Tail(queue[b]), hand[b], cur[b] \o Head(queue[b]), sealed[b])
      BY ZenonT(60), <2>1, <2>3, MoveDrain DEF Mine, NeatAt
    <3>2. Mine(b)' = Mine(b) /\ NeatAt(b)'
      BY Zenon, <2>2, <3>1 DEF Mine, NeatAt
    <3> QED
      BY Zenon, <1>2, <2>1, <3>2 DEF Moves
  <2>5. Control(b)'
    BY ZenonT(60), <1>1, <2>1, <2>2 DEF Control
  <2>6. \A d \in Builder \ {b} : Same(d)
    BY ZenonT(60), <1>1, <2>1 DEF Same
  <2> QED
    BY ZenonT(60), <1>2, <2>1, <2>2, <2>4, <2>5, <2>6
<1>9. CASE DrainDone(b)
  <2>1. /\ SealThen(b, cur[b], "wait") /\ pc[b] # "seal" /\ "wait" \in Nexts /\ hand[b] = <<>>
        /\ queue[b] = <<>>
        /\ UNCHANGED <<queue, hand, handed, tasks, cancelled, counters, landed, history>>
    BY ZenonT(60), <1>1, <1>9 DEF DrainDone, Nexts
  <2>2. UNCHANGED <<queue, hand, early>>
    BY ZenonT(60), <2>1 DEF history
  <2> QED
    BY ZenonT(60), <2>1, <2>2, SealMoves
<1> QED
  BY ZenonT(60), <1>3, <1>4, <1>5, <1>6, <1>7, <1>8, <1>9 DEF Build

-----------------------------------------------------------------------------
(* The submission and retry goroutines. *)

Kinds == {"ok", "retry", "final", "foreign", "anonymous"}

\* A goroutine has something to submit, and its ladders end.
TaskOK(t) ==
  /\ t \in Task
  /\ t.jobs # {}
  /\ t.throttled <= Backoffs
  /\ t.kind = "submit" => t.attempt < MaxPosts + t.throttled
  /\ t.kind = "retry" => t.attempt < RetryAttempts

CountersOK == {accepted, rejected, failed, unattributed, blurred} \subseteq Nat

\* What a step of goroutine t does: the jobs J stay with the goroutine it leaves
\* behind, the others are settled; of these K have landed, and n were counted accepted
\* although their error line was not seen.
Outcome(t, J, K, n) ==
  /\ J \subseteq t.jobs /\ K \subseteq t.jobs \ J /\ n \in Nat
  /\ \/ J = {} /\ tasks' = tasks \ {t}
     \/ \E u : TaskOK(u) /\ u.jobs = J /\ tasks' = (tasks \ {t}) \cup {u}
  /\ K \cup landed \subseteq landed' /\ landed' \subseteq landed \cup t.jobs
  /\ Settled' = Settled + Cardinality(t.jobs \ J)
  /\ accepted' <= accepted + Cardinality(K) + n
  /\ blurred' = blurred + n
  /\ CountersOK'

\* The numbers of members of each kind, and of their unions.
Five(R, O, F, G, A) == R \in Nat /\ O \in Nat /\ F \in Nat /\ G \in Nat /\ A \in Nat
Joined(R, O, F, G, A, u, v, w, n) == u = G + A /\ v = F + u /\ w = O + v /\ n = R + w
Summed(R, O, F, G, A, w, n) == w = O + F + G + A /\ n = R + O + F + G + A

\* All of them.
LEMMA Sums ==
  ASSUME NEW R, NEW O, NEW F, NEW G, NEW A, Five(R, O, F, G, A),
         NEW u, NEW v, NEW w, NEW n, Joined(R, O, F, G, A, u, v, w, n)
  PROVE  Summed(R, O, F, G, A, w, n)
<1>1. /\ R \in Nat /\ O \in Nat /\ F \in Nat /\ G \in Nat /\ A \in Nat
      /\ u = G + A /\ v = F + u /\ w = O + v /\ n = R + w
  BY Zenon DEF Five, Joined
<1>2. w = O + F + G + A
  BY <1>1
<1>3. n = R + O + F + G + A
  BY <1>1
<1> QED
  BY Zenon, <1>2, <1>3 DEF Summed

\* The accepted of a step, and the landed: n more of the one, k more of the other.
Landing(a, m, b, aa, mm, bb, k, n) ==
  /\ a \in Nat /\ m \in Nat /\ b \in Nat /\ k \in Nat /\ n \in Nat
  /\ aa \in Nat /\ mm \in Nat /\ bb \in Nat
  /\ a <= m + b /\ aa <= a + k + n /\ bb = b + n /\ m + k <= mm

\* The accepted stay within the landed and the blurred.
LEMMA Landed ==
  ASSUME NEW a, NEW m, NEW b, NEW aa, NEW mm, NEW bb, NEW k, NEW n, Landing(a, m, b, aa, mm, bb, k, n)
  PROVE  aa <= mm + bb
BY DEF Landing

\* An order between three numbers.
Ladder(x, y, z) == x \in Nat /\ y \in Nat /\ z \in Nat /\ x <= y /\ y <= z
LEMMA Climb ==
  ASSUME NEW x, NEW y, NEW z, Ladder(x, y, z)
  PROVE  x <= z
BY DEF Ladder

\* A queue of runs is a queue of sequences.
LEMMA RunsAreSeqs ==
  ASSUME NEW q \in Seq(Run)
  PROVE  q \in Seq(Seq(Tx))
BY DEF Run

\* The rungs of the ladders.
LEMMA Rungs ==
  ASSUME NEW a \in Nat, NEW h \in Nat
  PROVE  /\ a + 1 \in Nat /\ h + 1 \in Nat
         /\ a + 1 - h < MaxPosts => a + 1 < MaxPosts + h
         /\ a < MaxPosts + h => a + 1 < MaxPosts + (h + 1)
         /\ ~(h >= Backoffs) => h + 1 <= Backoffs
         /\ h <= Backoffs /\ a < MaxPosts + h => a < MaxPosts + Backoffs
         /\ 0 < MaxPosts + 0 /\ 0 <= Backoffs
BY PipeAssumption DEF MaxPosts

\* What the proofs use of the cardinality of finite sets.  Counted, at the end, has it
\* from the library.
Counting ==
  /\ Cardinality({}) = 0
  /\ \A S : IsFiniteSet(S) => Cardinality(S) \in Nat
  /\ \A T : IsFiniteSet(T) =>
       \A S \in SUBSET T : IsFiniteSet(S) /\ Cardinality(S) <= Cardinality(T)
  /\ \A S, T : IsFiniteSet(S) /\ IsFiniteSet(T) /\ S \cap T = {} =>
       IsFiniteSet(S \cup T) /\ Cardinality(S \cup T) = Cardinality(S) + Cardinality(T)
  /\ \A s \in Seq(Tx) : Cardinality(Range(s)) \in Nat /\ Cardinality(Range(s)) <= Len(s)

\* Its conjuncts, to be cited one at a time.
LEMMA CardEmpty == Counting => Cardinality({}) = 0
  BY DEF Counting

\* A cardinality is a number.
LEMMA CardNat == ASSUME Counting, NEW S, IsFiniteSet(S) PROVE Cardinality(S) \in Nat
  BY Zenon DEF Counting

\* A subset is no larger.
LEMMA CardSubset ==
  ASSUME Counting, NEW T, IsFiniteSet(T), NEW S \in SUBSET T
  PROVE  IsFiniteSet(S) /\ Cardinality(S) <= Cardinality(T)
  BY Zenon DEF Counting

\* A batch has no more members than places.
LEMMA CardBatch ==
  ASSUME Counting, NEW s \in Seq(Tx)
  PROVE  Cardinality(Range(s)) \in Nat /\ Cardinality(Range(s)) <= Len(s)
  BY Zenon DEF Counting

\* Disjoint sets add up.
LEMMA CardUnion ==
  ASSUME Counting, NEW A, NEW B, IsFiniteSet(A), IsFiniteSet(B), A \cap B = {}
  PROVE  IsFiniteSet(A \cup B) /\ Cardinality(A \cup B) = Cardinality(A) + Cardinality(B)
  BY Zenon DEF Counting

\* An answer's lines put every member of the batch into one of five kinds.
LEMMA LineKindsPartition ==
  ASSUME Counting, NEW r, NEW jobs, IsFiniteSet(jobs), r.line \in [jobs -> Kinds]
  PROVE  /\ \A k \in SUBSET Kinds : IsFiniteSet(With(r, k)) /\ With(r, k) \subseteq jobs
         /\ With(r, {"foreign", "anonymous"}) = With(r, {"foreign"}) \cup With(r, {"anonymous"})
         /\ Cardinality(With(r, {"foreign", "anonymous"}))
              = Cardinality(With(r, {"foreign"})) + Cardinality(With(r, {"anonymous"}))
         /\ Cardinality(jobs \ With(r, {"retry"}))
              = Cardinality(With(r, {"ok"})) + Cardinality(With(r, {"final"}))
                  + Cardinality(With(r, {"foreign"})) + Cardinality(With(r, {"anonymous"}))
         /\ Cardinality(jobs) = Cardinality(With(r, {"retry"}))
              + Cardinality(With(r, {"ok"})) + Cardinality(With(r, {"final"}))
                  + Cardinality(With(r, {"foreign"})) + Cardinality(With(r, {"anonymous"}))
<1> DEFINE R == With(r, {"retry"})
           O == With(r, {"ok"})
           F == With(r, {"final"})
           G == With(r, {"foreign"})
           A == With(r, {"anonymous"})
<1>1. ASSUME NEW k \in SUBSET Kinds PROVE IsFiniteSet(With(r, k)) /\ With(r, k) \subseteq jobs
  <2>1. With(r, k) \subseteq jobs
    BY ZenonT(60) DEF With
  <2> QED
    BY ZenonT(60), <2>1, CardSubset
<1>2. IsFiniteSet(R) /\ IsFiniteSet(O) /\ IsFiniteSet(F) /\ IsFiniteSet(G) /\ IsFiniteSet(A)
  BY ZenonT(60), <1>1 DEF Kinds
<1>3. /\ Cardinality(R) \in Nat /\ Cardinality(O) \in Nat /\ Cardinality(F) \in Nat
      /\ Cardinality(G) \in Nat /\ Cardinality(A) \in Nat
  BY ZenonT(60), <1>2, CardNat
<1> DEFINE GA == With(r, {"foreign", "anonymous"})
<1>3a. \A j : /\ j \in R <=> j \in jobs /\ r.line[j] = "retry"
              /\ j \in O <=> j \in jobs /\ r.line[j] = "ok"
              /\ j \in F <=> j \in jobs /\ r.line[j] = "final"
              /\ j \in G <=> j \in jobs /\ r.line[j] = "foreign"
              /\ j \in A <=> j \in jobs /\ r.line[j] = "anonymous"
              /\ j \in GA <=> j \in jobs /\ r.line[j] \in {"foreign", "anonymous"}
  BY Zenon DEF With
<1>3b. \A j \in jobs : r.line[j] \in Kinds
  BY ZenonT(60)
<1> HIDE DEF R, O, F, G, A, GA
<1>4. /\ G \cap A = {} /\ F \cap (G \cup A) = {} /\ O \cap (F \cup (G \cup A)) = {}
      /\ R \cap (O \cup (F \cup (G \cup A))) = {}
  BY ZenonT(60), <1>3a
<1>5. /\ jobs \ R = O \cup (F \cup (G \cup A))
      /\ jobs = R \cup (O \cup (F \cup (G \cup A)))
      /\ GA = G \cup A
  BY ZenonT(60), <1>3a, <1>3b DEF Kinds
<1> DEFINE U == G \cup A
           V == F \cup U
           W == O \cup V
<1>6. IsFiniteSet(U) /\ Cardinality(U) = Cardinality(G) + Cardinality(A)
  BY ZenonT(60), <1>2, <1>4, CardUnion
<1>6a. F \cap U = {} /\ O \cap V = {} /\ R \cap W = {} /\ jobs \ R = W /\ jobs = R \cup W
  BY Zenon, <1>4, <1>5
<1> HIDE DEF U
<1>7. IsFiniteSet(V) /\ Cardinality(V) = Cardinality(F) + Cardinality(U)
  BY Zenon, <1>2, <1>6, <1>6a, CardUnion
<1> HIDE DEF V
<1>8. IsFiniteSet(W) /\ Cardinality(W) = Cardinality(O) + Cardinality(V)
  BY Zenon, <1>2, <1>6a, <1>7, CardUnion
<1> HIDE DEF W
<1>9. Cardinality(jobs) = Cardinality(R) + Cardinality(W) /\ Cardinality(jobs \ R) = Cardinality(W)
  <2>1. Cardinality(R \cup W) = Cardinality(R) + Cardinality(W)
    BY ZenonT(60), <1>2, <1>6a, <1>8, CardUnion
  <2> QED
    BY Zenon, <1>6a, <2>1
<1>9a. /\ Five(Cardinality(R), Cardinality(O), Cardinality(F), Cardinality(G), Cardinality(A))
       /\ Joined(Cardinality(R), Cardinality(O), Cardinality(F), Cardinality(G), Cardinality(A),
                 Cardinality(U), Cardinality(V), Cardinality(W), Cardinality(jobs))
  BY Zenon, <1>3, <1>6, <1>7, <1>8, <1>9 DEF Five, Joined
<1>9b. Summed(Cardinality(R), Cardinality(O), Cardinality(F), Cardinality(G), Cardinality(A),
              Cardinality(W), Cardinality(jobs))
  BY Zenon, <1>9a, Sums
<1>10. Cardinality(jobs \ R) = Cardinality(O) + Cardinality(F) + Cardinality(G) + Cardinality(A)
  BY Zenon, <1>9, <1>9b DEF Summed
<1>11. Cardinality(jobs) = Cardinality(R) + Cardinality(O) + Cardinality(F) + Cardinality(G) + Cardinality(A)
  BY ZenonT(60), <1>9b DEF Summed
<1> QED
  BY ZenonT(60), <1>1, <1>5, <1>6, <1>10, <1>11 DEF R, O, F, G, A, GA, U

\* What an answer may say, and what the cluster took.
LEMMA AnswerShape ==
  ASSUME NEW jobs \in SUBSET Tx, NEW r \in Answers(jobs),
         landed' \in {landed \cup new : new \in Lands(r)}
  PROVE  /\ r.line \in [jobs -> Kinds] /\ r.partial \in BOOLEAN
         /\ r.status = "200" => ~PerMember(r) /\ With(r, {"ok"}) = jobs
         /\ r.status = "429" => ~PerMember(r)
         /\ landed \subseteq landed' /\ landed' \subseteq landed \cup jobs
         /\ r.status = "200" \/ PerMember(r) => With(r, {"ok"}) \subseteq landed'
<1>1. Verdict \subseteq Kinds
  BY Zenon, PipeAssumption DEF Verdict, Kinds, LineKinds
<1>2. Clean(jobs) \in [jobs -> Kinds]
  BY ZenonT(60) DEF Clean, Kinds
<1>3. \/ r.partial = FALSE /\ r.line = Clean(jobs)
      \/ r.partial = TRUE /\ r.status \in {"422", "500", "4xx"} /\ r.line \in [jobs -> Verdict]
  BY Zenon DEF Answers
<1>4. r.line \in [jobs -> Kinds] /\ r.partial \in BOOLEAN
  <2>1. [jobs -> Verdict] \subseteq [jobs -> Kinds]
    BY ZenonT(60), <1>1
  <2> QED
    BY ZenonT(60), <1>2, <1>3, <2>1
<1>5. r.status = "200" => With(r, {"ok"}) = jobs
  BY ZenonT(60), <1>3 DEF With, Clean
<1>6. r.status \in {"200", "429"} => ~PerMember(r)
  BY ZenonT(60), <1>3 DEF PerMember
<1>7. PICK new \in Lands(r) : landed' = landed \cup new
  BY ZenonT(60)
<1>8. With(r, {"ok"}) \subseteq jobs /\ DOMAIN r.line = jobs
  BY ZenonT(60), <1>4 DEF With
<1>9. r.status = "429" => Lands(r) = {{}}
  BY Zenon, <1>3 DEF Lands
<1>10. r.status = "200" \/ r.partial => Lands(r) = {With(r, {"ok"})}
  BY Zenon, <1>3 DEF Lands
<1>11. r.status # "429" /\ ~(r.status = "200" \/ r.partial) => Lands(r) = {{}, jobs}
  BY Zenon, <1>8 DEF Lands
<1>12. /\ landed \subseteq landed' /\ landed' \subseteq landed \cup jobs
       /\ r.status = "200" \/ r.partial => With(r, {"ok"}) \subseteq landed'
  <2>1. new = {} \/ new = jobs \/ new = With(r, {"ok"})
    BY ZenonT(60), <1>7, <1>9, <1>10, <1>11
  <2>2. r.status = "200" \/ r.partial => new = With(r, {"ok"})
    BY ZenonT(60), <1>7, <1>10
  <2> QED
    BY ZenonT(60), <1>7, <1>8, <2>1, <2>2
<1>13. PerMember(r) => r.partial
  BY ZenonT(60) DEF PerMember
<1> QED
  BY Zenon, <1>4, <1>5, <1>6, <1>12, <1>13

\* max(rest, 0), for a rest that is not negative.
LEMMA MaxRest == ASSUME NEW n \in Nat PROVE Max({n, 0}) = n
<1>1. \E x \in {n, 0} : \A y \in {n, 0} : x >= y
  OBVIOUS
<1>2. /\ Max({n, 0}) \in {n, 0}
      /\ \A y \in {n, 0} : Max({n, 0}) >= y
  BY Zenon, <1>1 DEF Max
<1> QED
  BY <1>2

\* The goroutine left behind, if there is one.
LEMMA Replaced ==
  ASSUME NEW t, NEW J
  PROVE  /\ Replace(t, {}) /\ J = {} => J = {} /\ tasks' = tasks \ {t}
         /\ \A u : Replace(t, {u}) /\ TaskOK(u) /\ u.jobs = J
              => \E v : TaskOK(v) /\ v.jobs = J /\ tasks' = (tasks \ {t}) \cup {v}
         /\ RetryAttempts > 0 /\ J \in SUBSET Tx /\ Replace(t, Salvage(J))
              => \/ J = {} /\ tasks' = tasks \ {t}
                 \/ \E v : TaskOK(v) /\ v.jobs = J /\ tasks' = (tasks \ {t}) \cup {v}
<1>1. Replace(t, {}) => tasks' = tasks \ {t}
  BY ZenonT(60) DEF Replace
<1>2. ASSUME NEW u, Replace(t, {u}), TaskOK(u), u.jobs = J
      PROVE  \E v : TaskOK(v) /\ v.jobs = J /\ tasks' = (tasks \ {t}) \cup {v}
  BY Zenon, <1>2 DEF Replace
<1>3. ASSUME RetryAttempts > 0, J \in SUBSET Tx, J # {}, Replace(t, Salvage(J))
      PROVE  \E v : TaskOK(v) /\ v.jobs = J /\ tasks' = (tasks \ {t}) \cup {v}
  <2>1. TaskOK(NewRetry(J)) /\ NewRetry(J).jobs = J
    BY <1>3, PipeAssumption DEF TaskOK, NewRetry, Task
  <2>2. Replace(t, {NewRetry(J)})
    BY Zenon, <1>3 DEF Salvage
  <2> QED
    BY ZenonT(60), <1>2, <2>1, <2>2
<1>4. J = {} => Salvage(J) = {}
  BY ZenonT(60) DEF Salvage
<1> QED
  BY Zenon, <1>1, <1>2, <1>3, <1>4

\* The counters when c members are counted in one of them.
Others(x, y, z) == x' = x /\ y' = y /\ z' = z
LEMMA CountAll ==
  ASSUME CountersOK, NEW c \in Nat, blurred' = blurred,
         \/ accepted' = accepted + c /\ Others(rejected, failed, unattributed)
         \/ rejected' = rejected + c /\ Others(accepted, failed, unattributed)
         \/ failed' = failed + c /\ Others(accepted, rejected, unattributed)
  PROVE  CountersOK' /\ Settled' = Settled + c
<1>1. /\ accepted \in Nat /\ rejected \in Nat /\ failed \in Nat /\ unattributed \in Nat
      /\ blurred \in Nat
  BY Zenon DEF CountersOK
<1>2. /\ accepted' \in Nat /\ rejected' \in Nat /\ failed' \in Nat /\ unattributed' \in Nat
      /\ blurred' \in Nat
  BY <1>1 DEF Others
<1>3. CountersOK'
  BY Zenon, <1>2 DEF CountersOK
<1>4. Settled' = Settled + c
  BY <1>1 DEF Others, Settled
<1> QED
  BY Zenon, <1>3, <1>4

\* The counters when no member is counted.
LEMMA CountNone ==
  ASSUME CountersOK, accepted' = accepted, rejected' = rejected, failed' = failed,
         unattributed' = unattributed, blurred' = blurred, NEW z, z = 0
  PROVE  CountersOK' /\ Settled' = Settled + z
<1>1. CountersOK'
  BY Zenon DEF CountersOK
<1>2. Settled' = Settled
  BY Zenon DEF Settled
<1>3. Settled \in Nat
  BY DEF Settled, CountersOK
<1>4. Settled + z = Settled
  BY <1>3
<1> QED
  BY Zenon, <1>1, <1>2, <1>4

\* What settlePartial adds when it settles n members.
SubmitAdds(R, O, F, G, A, n) ==
  /\ Five(R, O, F, G, A) /\ n = R + O + F + G + A
  /\ accepted' = accepted + Max({n - R - F - G, 0})
  /\ unattributed' = unattributed + G
  /\ failed' = failed
  /\ blurred' = blurred + A

SubmitSums(R, O, F, G, A, n) ==
  /\ A \in Nat /\ accepted' = accepted + O + A
  /\ rejected' = rejected + F + 0 => CountersOK' /\ Settled' = Settled + (O + F + G + A)
  /\ rejected' = rejected + F + R => CountersOK' /\ Settled' = Settled + n

\* The members it does not count as accepted are those it counts elsewhere.
LEMMA SubmitCounts ==
  ASSUME CountersOK, NEW R, NEW O, NEW F, NEW G, NEW A, NEW n, SubmitAdds(R, O, F, G, A, n)
  PROVE  SubmitSums(R, O, F, G, A, n)
<1>1. /\ accepted \in Nat /\ rejected \in Nat /\ failed \in Nat /\ unattributed \in Nat
      /\ blurred \in Nat
  BY Zenon DEF CountersOK
<1>2. /\ Five(R, O, F, G, A) /\ n = R + O + F + G + A /\ unattributed' = unattributed + G
      /\ failed' = failed /\ blurred' = blurred + A
      /\ accepted' = accepted + Max({n - R - F - G, 0})
  BY Zenon DEF SubmitAdds
<1>3. n - R - F - G = O + A /\ O + A \in Nat
  BY <1>2 DEF Five
<1>4. accepted' = accepted + (O + A)
  BY Zenon, <1>2, <1>3, MaxRest
<1>5. /\ A \in Nat /\ accepted' = accepted + O + A
      /\ accepted' \in Nat /\ failed' \in Nat /\ unattributed' \in Nat /\ blurred' \in Nat
  BY <1>1, <1>2, <1>4 DEF Five
<1>6. ASSUME rejected' = rejected + F + 0
      PROVE  rejected' \in Nat /\ Settled' = Settled + (O + F + G + A)
  BY <1>1, <1>2, <1>4, <1>6 DEF Five, Settled
<1>7. ASSUME rejected' = rejected + F + R
      PROVE  rejected' \in Nat /\ Settled' = Settled + n
  BY <1>1, <1>2, <1>4, <1>7 DEF Five, Settled
<1> QED
  BY ZenonT(60), <1>5, <1>6, <1>7 DEF CountersOK, SubmitSums

\* What retryBatch adds to the counters but rejected, when a body names members.
RetryAdds(R, O, F, G, A, n) ==
  /\ Five(R, O, F, G, A) /\ n = R + O + F + G + A
  /\ accepted' = accepted + n - R - F
  /\ unattributed' = unattributed
  /\ failed' = failed
  /\ blurred' = blurred + (G + A)

RetrySums(R, O, F, G, A, n) ==
  /\ G + A \in Nat /\ accepted' = accepted + O + (G + A)
  /\ rejected' = rejected + F => CountersOK' /\ Settled' = Settled + (O + F + G + A)
  /\ rejected' = rejected + F + R => CountersOK' /\ Settled' = Settled + n

\* The members it does not count as accepted are rejected, or go up the ladder.
LEMMA RetryCounts ==
  ASSUME CountersOK, NEW R, NEW O, NEW F, NEW G, NEW A, NEW n, RetryAdds(R, O, F, G, A, n)
  PROVE  RetrySums(R, O, F, G, A, n)
<1>1. /\ accepted \in Nat /\ rejected \in Nat /\ failed \in Nat /\ unattributed \in Nat
      /\ blurred \in Nat
  BY Zenon DEF CountersOK
<1>2. /\ Five(R, O, F, G, A) /\ n = R + O + F + G + A /\ unattributed' = unattributed
      /\ failed' = failed /\ blurred' = blurred + (G + A)
      /\ accepted' = accepted + n - R - F
  BY Zenon DEF RetryAdds
<1>3. /\ G + A \in Nat /\ accepted' = accepted + O + (G + A)
      /\ accepted' \in Nat /\ failed' \in Nat /\ unattributed' \in Nat /\ blurred' \in Nat
  BY <1>1, <1>2 DEF Five
<1>4. ASSUME rejected' = rejected + F
      PROVE  rejected' \in Nat /\ Settled' = Settled + (O + F + G + A)
  BY <1>1, <1>2, <1>3, <1>4 DEF Five, Settled
<1>5. ASSUME rejected' = rejected + F + R
      PROVE  rejected' \in Nat /\ Settled' = Settled + n
  BY <1>1, <1>2, <1>3, <1>5 DEF Five, Settled
<1> QED
  BY ZenonT(60), <1>3, <1>4, <1>5 DEF CountersOK, RetrySums

\* An answer settled member by member.
LEMMA MembersOutcome ==
  ASSUME Counting, CountersOK, NEW t \in tasks, TaskOK(t), NEW r \in Answers(t.jobs), PerMember(r),
         landed' \in {landed \cup new : new \in Lands(r)},
         NEW J \in {With(r, {"retry"}), {}},
         \/ J = {} /\ tasks' = tasks \ {t}
         \/ \E u : TaskOK(u) /\ u.jobs = J /\ tasks' = (tasks \ {t}) \cup {u},
         CountersOK',
         Settled' = Settled + Cardinality(t.jobs \ J),
         NEW n \in Nat, blurred' = blurred + n,
         accepted' = accepted + Cardinality(With(r, {"ok"})) + n
  PROVE  \E K, m : Outcome(t, J, K, m)
<1>1. t.jobs \in SUBSET Tx
  BY ZenonT(60) DEF TaskOK, Task
<1>2. r.line \in [t.jobs -> Kinds]
  BY ZenonT(60), <1>1, AnswerShape
<1>3. /\ With(r, {"ok"}) \cup landed \subseteq landed' /\ landed' \subseteq landed \cup t.jobs
  BY ZenonT(60), <1>1, AnswerShape
<1>4. J \subseteq t.jobs /\ With(r, {"ok"}) \subseteq t.jobs \ J
  BY ZenonT(60), <1>2 DEF With
<1>5. IsFiniteSet(With(r, {"ok"}))
  <2>1. IsFiniteSet(t.jobs)
    BY ZenonT(60), <1>1, PipeAssumption, CardSubset
  <2> QED
    BY ZenonT(60), <1>4, <2>1, CardSubset
<1>6. accepted' <= accepted + Cardinality(With(r, {"ok"})) + n
  <2>1. accepted \in Nat /\ Cardinality(With(r, {"ok"})) \in Nat
    BY ZenonT(60), <1>5, CardNat DEF CountersOK
  <2> QED
    BY SMTT(30), <2>1
<1>7. Outcome(t, J, With(r, {"ok"}), n)
  BY Zenon, <1>3, <1>4, <1>6 DEF Outcome
<1> QED
  BY ZenonT(60), <1>7

\* A step that settles all of its jobs, or none, whether or not they landed.
LEMMA PlainOutcome ==
  ASSUME Counting, CountersOK, NEW t \in tasks, TaskOK(t), landed \subseteq landed', landed' \subseteq landed \cup t.jobs,
         NEW J \in {t.jobs, {}},
         \/ J = {} /\ tasks' = tasks \ {t}
         \/ \E u : TaskOK(u) /\ u.jobs = J /\ tasks' = (tasks \ {t}) \cup {u},
         CountersOK',
         Settled' = Settled + Cardinality(t.jobs \ J), blurred' = blurred, accepted' = accepted
  PROVE  \E K, m : Outcome(t, J, K, m)
<1>1. Cardinality({}) = 0 /\ accepted \in Nat /\ blurred \in Nat
  BY ZenonT(60), CardEmpty DEF CountersOK
<1>2. accepted' <= accepted + Cardinality({}) + 0 /\ blurred' = blurred + 0 /\ 0 \in Nat
  BY <1>1
<1>3. J \subseteq t.jobs /\ {} \subseteq t.jobs \ J /\ {} \cup landed \subseteq landed'
  BY Zenon
<1>4. Outcome(t, J, {}, 0)
  BY Zenon, <1>2, <1>3 DEF Outcome
<1> QED
  BY ZenonT(60), <1>4

\* All members accepted.
LEMMA AllOutcome ==
  ASSUME Counting, CountersOK, NEW t \in tasks, TaskOK(t), NEW r \in Answers(t.jobs), r.status = "200",
         landed' \in {landed \cup new : new \in Lands(r)},
         tasks' = tasks \ {t}, accepted' = accepted + Cardinality(t.jobs), blurred' = blurred,
         UNCHANGED <<rejected, failed, unattributed>>
  PROVE  \E K, m : Outcome(t, {}, K, m)
<1>1. t.jobs \in SUBSET Tx
  BY ZenonT(60) DEF TaskOK, Task
<1>2. t.jobs \cup landed \subseteq landed' /\ landed' \subseteq landed \cup t.jobs
  <2>1. /\ landed \subseteq landed' /\ landed' \subseteq landed \cup t.jobs
        /\ With(r, {"ok"}) = t.jobs /\ With(r, {"ok"}) \subseteq landed'
    BY ZenonT(60), <1>1, AnswerShape
  <2> QED
    BY Zenon, <2>1
<1>3. Cardinality(t.jobs) \in Nat
  BY ZenonT(60), <1>1, PipeAssumption, CardSubset, CardNat
<1>4. /\ accepted \in Nat /\ rejected \in Nat /\ failed \in Nat /\ unattributed \in Nat
      /\ blurred \in Nat
  BY ZenonT(60) DEF CountersOK
<1>5. Others(rejected, failed, unattributed)
  BY Zenon DEF Others
<1>6. t.jobs \ {} = t.jobs
  BY ZenonT(60)
<1>7. CountersOK' /\ Settled' = Settled + Cardinality(t.jobs \ {})
  BY Zenon, <1>3, <1>5, <1>6, CountAll
<1>8. accepted' <= accepted + Cardinality(t.jobs) + 0 /\ blurred' = blurred + 0 /\ 0 \in Nat
  BY <1>3, <1>4
<1>9. Outcome(t, {}, t.jobs, 0)
  BY ZenonT(60), <1>2, <1>6, <1>7, <1>8 DEF Outcome
<1> QED
  BY ZenonT(60), <1>9

\* The cardinalities an answer is settled with.
LEMMA AnswerCounts ==
  ASSUME Counting, NEW t, TaskOK(t), NEW r, r.line \in [t.jobs -> Kinds]
  PROVE  /\ t.jobs \in SUBSET Tx /\ IsFiniteSet(t.jobs) /\ Cardinality(t.jobs) \in Nat
         /\ \A k \in {"retry", "ok", "final", "foreign", "anonymous"} :
              With(r, {k}) \subseteq t.jobs /\ Cardinality(With(r, {k})) \in Nat
<1>1. t.jobs \in SUBSET Tx
  BY ZenonT(60) DEF TaskOK, Task
<1>2. IsFiniteSet(t.jobs)
  BY ZenonT(60), <1>1, PipeAssumption, CardSubset
<1>3. \A k \in {"retry", "ok", "final", "foreign", "anonymous"} :
        With(r, {k}) \subseteq t.jobs /\ IsFiniteSet(With(r, {k}))
  <2>1. \A k \in {"retry", "ok", "final", "foreign", "anonymous"} : {k} \in SUBSET Kinds
    BY ZenonT(60) DEF Kinds
  <2> QED
    BY ZenonT(60), <1>2, <2>1, LineKindsPartition
<1> QED
  BY ZenonT(60), <1>1, <1>2, <1>3, CardNat

\* submit: every answer leads to one of the outcomes above.
LEMMA SubmitOutcome ==
  ASSUME Counting, CountersOK, NEW t \in tasks, TaskOK(t), NEW r \in Answers(t.jobs), SubmitPost(t, r)
  PROVE  \E J, K, n : Outcome(t, J, K, n)
<1>0. /\ accepted \in Nat /\ rejected \in Nat /\ failed \in Nat /\ unattributed \in Nat
      /\ blurred \in Nat
  BY ZenonT(60) DEF CountersOK
<1>1. /\ t.kind = "submit" /\ landed' \in {landed \cup new : new \in Lands(r)}
      /\ blurred' = blurred + Unseen(r, {"anonymous"})
  BY ZenonT(60) DEF SubmitPost
<1>2. t.jobs \in SUBSET Tx
  BY ZenonT(60) DEF TaskOK, Task
<1>3. /\ r.line \in [t.jobs -> Kinds]
      /\ r.status \in {"200", "429"} => ~PerMember(r)
      /\ landed \subseteq landed' /\ landed' \subseteq landed \cup t.jobs
  BY ZenonT(60), <1>1, <1>2, AnswerShape
<1>4. IsFiniteSet(t.jobs) /\ Cardinality(t.jobs) \in Nat
  BY ZenonT(60), <1>3, AnswerCounts
<1>5. t.jobs \ {} = t.jobs /\ Cardinality(t.jobs \ t.jobs) = 0
  <2>1. t.jobs \ t.jobs = {}
    BY ZenonT(60)
  <2> QED
    BY ZenonT(60), <2>1, CardEmpty
<1>6. /\ r.status = "200" => /\ accepted' = accepted + Cardinality(t.jobs)
                             /\ Replace(t, {})
                             /\ UNCHANGED <<rejected, failed, unattributed>>
      /\ PerMember(r) => SettlePartial(t, r)
      /\ r.status = "429" => SubmitThrottled(t)
      /\ r.status \notin {"200", "429"} /\ ~PerMember(r) => SubmitAgain(t)
  BY Zenon, <1>3 DEF SubmitPost
<1>7. ~PerMember(r) => blurred' = blurred
  BY <1>0, <1>1 DEF Unseen
<1>8. CASE r.status = "200"
  <2>1. tasks' = tasks \ {t}
    BY ZenonT(60), <1>6, <1>8, Replaced
  <2> QED
    BY ZenonT(60), <1>1, <1>3, <1>6, <1>7, <1>8, <2>1, AllOutcome
<1>9. CASE PerMember(r)
  <2> DEFINE R == Cardinality(With(r, {"retry"}))
             O == Cardinality(With(r, {"ok"}))
             F == Cardinality(With(r, {"final"}))
             G == Cardinality(With(r, {"foreign"}))
             A == Cardinality(With(r, {"anonymous"}))
  <2>1. R \in Nat /\ O \in Nat /\ F \in Nat /\ G \in Nat /\ A \in Nat
    BY ZenonT(60), <1>3, AnswerCounts
  <2>2. Cardinality(t.jobs \ With(r, {"retry"})) = O + F + G + A
    BY ZenonT(60), <1>3, <1>4, LineKindsPartition
  <2>3. Cardinality(t.jobs) = R + O + F + G + A
    BY ZenonT(60), <1>3, <1>4, LineKindsPartition
  <2>4. /\ accepted' = accepted + Max({Cardinality(t.jobs) - R - F - G, 0})
        /\ unattributed' = unattributed + G
        /\ rejected' = rejected + F + IF RetryAttempts > 0 THEN 0 ELSE R
        /\ Replace(t, IF RetryAttempts > 0 THEN Salvage(With(r, {"retry"})) ELSE {})
        /\ failed' = failed
    BY ZenonT(60), <1>6, <1>9 DEF SettlePartial
  <2>5. blurred' = blurred + A
    BY ZenonT(60), <1>1, <1>9 DEF Unseen
  <2> HIDE DEF R, O, F, G, A
  <2>6. SubmitAdds(R, O, F, G, A, Cardinality(t.jobs))
    BY Zenon, <2>1, <2>3, <2>4, <2>5 DEF SubmitAdds, Five
  <2>6a. SubmitSums(R, O, F, G, A, Cardinality(t.jobs))
    BY Zenon, <2>6, SubmitCounts
  <2>7. A \in Nat /\ accepted' = accepted + O + A
    BY Zenon, <2>6a DEF SubmitSums
  <2>9. CASE RetryAttempts > 0
    <3>0. rejected' = rejected + F + 0
      BY Zenon, <2>4, <2>9
    <3>1. CountersOK' /\ Settled' = Settled + (O + F + G + A)
      BY ZenonT(60), <2>6a, <3>0 DEF SubmitSums
    <3>2. With(r, {"retry"}) \in SUBSET Tx
      BY ZenonT(60), <1>2, <1>3 DEF With
    <3>3. Replace(t, Salvage(With(r, {"retry"})))
      BY ZenonT(60), <2>4, <2>9
    <3>4. \/ With(r, {"retry"}) = {} /\ tasks' = tasks \ {t}
          \/ \E u : TaskOK(u) /\ u.jobs = With(r, {"retry"}) /\ tasks' = (tasks \ {t}) \cup {u}
      BY ZenonT(60), <2>9, <3>2, <3>3, Replaced
    <3>5. Settled' = Settled + Cardinality(t.jobs \ With(r, {"retry"}))
      BY Zenon, <2>2, <3>1
    <3>6. \E K, m : Outcome(t, With(r, {"retry"}), K, m)
      BY ZenonT(60), <1>1, <1>9, <2>5, <2>7, <3>1, <3>4, <3>5, MembersOutcome DEF O
    <3> QED
      BY ZenonT(60), <3>6
  <2>10. CASE ~(RetryAttempts > 0)
    <3>0. rejected' = rejected + F + R
      BY Zenon, <2>4, <2>10
    <3>1. CountersOK' /\ Settled' = Settled + Cardinality(t.jobs)
      BY ZenonT(60), <2>6a, <3>0 DEF SubmitSums
    <3>2. Replace(t, {})
      BY ZenonT(60), <2>4, <2>10
    <3>3. tasks' = tasks \ {t}
      BY ZenonT(60), <3>2, Replaced
    <3>4. Settled' = Settled + Cardinality(t.jobs \ {})
      BY Zenon, <1>5, <3>1
    <3>5. \E K, m : Outcome(t, {}, K, m)
      BY ZenonT(60), <1>1, <1>9, <2>5, <2>7, <3>1, <3>3, <3>4, MembersOutcome DEF O
    <3> QED
      BY ZenonT(60), <3>5
  <2> QED
    BY ZenonT(60), <2>9, <2>10
<1>10. CASE ~PerMember(r) /\ r.status # "200"
  <2>1. /\ Replace(t, {}) /\ failed' = failed + Cardinality(t.jobs)
        /\ UNCHANGED <<accepted, rejected, unattributed>>
        => \E J, K, n : Outcome(t, J, K, n)
    <3> SUFFICES ASSUME Replace(t, {}), failed' = failed + Cardinality(t.jobs),
                        UNCHANGED <<accepted, rejected, unattributed>>
                 PROVE  \E J, K, n : Outcome(t, J, K, n)
      BY ZenonT(60)
    <3>1. tasks' = tasks \ {t}
      BY ZenonT(60), Replaced
    <3>2. Others(accepted, rejected, unattributed) /\ blurred' = blurred
      BY Zenon, <1>7, <1>10 DEF Others
    <3>3. CountersOK' /\ Settled' = Settled + Cardinality(t.jobs)
      BY Zenon, <1>4, <3>2, CountAll
    <3>4. \E K, n : Outcome(t, {}, K, n)
      BY ZenonT(60), <1>3, <1>5, <1>7, <1>10, <3>1, <3>3, PlainOutcome
    <3> QED
      BY ZenonT(60), <3>4
  <2>2. ASSUME UNCHANGED counters,
               \E u : TaskOK(u) /\ u.jobs = t.jobs /\ tasks' = (tasks \ {t}) \cup {u}
        PROVE  \E J, K, n : Outcome(t, J, K, n)
    <3>0. /\ accepted' = accepted /\ rejected' = rejected /\ failed' = failed
          /\ unattributed' = unattributed /\ blurred' = blurred
      BY ZenonT(60), <1>7, <1>10, <2>2 DEF counters
    <3>1. CountersOK' /\ Settled' = Settled + Cardinality(t.jobs \ t.jobs) /\ accepted' = accepted
      BY Zenon, <1>5, <3>0, CountNone
    <3>2. \E K, n : Outcome(t, t.jobs, K, n)
      BY ZenonT(60), <1>3, <1>7, <1>10, <2>2, <3>1, PlainOutcome
    <3> QED
      BY ZenonT(60), <3>2
  <2>3. /\ t \in Task /\ t.jobs # {} /\ t.throttled <= Backoffs /\ t.attempt < MaxPosts + t.throttled
        /\ t.attempt \in Nat /\ t.throttled \in Nat
    BY ZenonT(60), <1>1 DEF TaskOK, Task
  <2>4. ASSUME NEW u, TaskOK(u), u.jobs = t.jobs, Replace(t, {u})
        PROVE  \E v : TaskOK(v) /\ v.jobs = t.jobs /\ tasks' = (tasks \ {t}) \cup {v}
    BY ZenonT(60), <2>4, Replaced
  <2>5. CASE SubmitAgain(t)
    <3>1. CASE t.attempt + 1 - t.throttled < MaxPosts
      <4> DEFINE u == [t EXCEPT !.attempt = @ + 1]
      <4>1. Replace(t, {u}) /\ UNCHANGED counters
        BY ZenonT(60), <2>5, <3>1 DEF SubmitAgain
      <4>2. u \in Task /\ u.jobs = t.jobs /\ u.kind = "submit" /\ u.throttled = t.throttled
            /\ u.attempt = t.attempt + 1
        <5>1. /\ t.kind = "submit" /\ t.slot \in BOOLEAN /\ t.attempt + 1 \in Nat
          BY ZenonT(60), <1>1, <2>3, Rungs DEF Task
        <5>2. u \in Task
          BY ZenonT(60), <2>3, <5>1 DEF Task
        <5>3. u.jobs = t.jobs /\ u.kind = t.kind /\ u.throttled = t.throttled
          BY ZenonT(60), <2>3 DEF Task
        <5>4. u.attempt = t.attempt + 1
          BY ZenonT(60), <2>3 DEF Task
        <5> QED
          BY ZenonT(60), <5>1, <5>2, <5>3, <5>4
      <4> HIDE DEF u
      <4>3. TaskOK(u)
        BY ZenonT(60), <2>3, <3>1, <4>2, Rungs DEF TaskOK
      <4> QED
        BY ZenonT(60), <2>2, <2>4, <4>1, <4>2, <4>3
    <3>2. CASE ~(t.attempt + 1 - t.throttled < MaxPosts) /\ RetryAttempts > 0
      <4>1. Replace(t, Salvage(t.jobs)) /\ UNCHANGED counters
        BY ZenonT(60), <2>5, <3>2 DEF SubmitAgain
      <4>2. \E v : TaskOK(v) /\ v.jobs = t.jobs /\ tasks' = (tasks \ {t}) \cup {v}
        BY ZenonT(60), <1>2, <2>3, <3>2, <4>1, Replaced
      <4> QED
        BY ZenonT(60), <2>2, <4>1, <4>2
    <3>3. CASE ~(t.attempt + 1 - t.throttled < MaxPosts) /\ ~(RetryAttempts > 0)
      BY ZenonT(60), <2>1, <2>5, <3>3 DEF SubmitAgain
    <3> QED
      BY ZenonT(60), <3>1, <3>2, <3>3
  <2>6. CASE SubmitThrottled(t)
    <3>1. CASE t.throttled >= Backoffs
      BY ZenonT(60), <2>1, <2>6, <3>1 DEF SubmitThrottled
    <3>2. CASE ~(t.throttled >= Backoffs)
      <4> DEFINE u == [t EXCEPT !.attempt = @ + 1, !.throttled = @ + 1]
      <4>1. Replace(t, {u}) /\ UNCHANGED counters
        BY ZenonT(60), <2>6, <3>2 DEF SubmitThrottled
      <4>1a. /\ t.kind = "submit" /\ t.slot \in BOOLEAN
             /\ t.attempt + 1 \in Nat /\ t.throttled + 1 \in Nat
        BY <1>1, <2>3 DEF Task
      <4>1b. u.jobs = t.jobs /\ u.kind = t.kind /\ u.slot = t.slot
        BY ZenonT(60), <2>3 DEF Task
      <4>1c. u.throttled = t.throttled + 1
        BY ZenonT(60), <2>3 DEF Task
      <4>1d. u.attempt = t.attempt + 1
        BY ZenonT(60), <2>3 DEF Task
      <4>2. u \in Task /\ u.jobs = t.jobs /\ u.kind = "submit" /\ u.throttled = t.throttled + 1
            /\ u.attempt = t.attempt + 1
        <5>1. u \in Task
          BY ZenonT(60), <2>3, <4>1a DEF Task
        <5> QED
          BY ZenonT(60), <4>1a, <4>1b, <4>1c, <4>1d, <5>1
      <4> HIDE DEF u
      <4>3. TaskOK(u)
        BY ZenonT(60), <2>3, <3>2, <4>2, Rungs DEF TaskOK
      <4> QED
        BY ZenonT(60), <2>2, <2>4, <4>1, <4>2, <4>3
    <3> QED
      BY ZenonT(60), <3>1, <3>2
  <2> QED
    BY ZenonT(60), <1>6, <1>10, <2>5, <2>6
<1> QED
  BY ZenonT(60), <1>8, <1>9, <1>10

\* retryBatch: the rest goes up the ladder or is rejected.
LEMMA RetryGoOnOutcome ==
  ASSUME Counting, NEW t \in tasks, TaskOK(t), t.kind = "retry", NEW J, J \subseteq t.jobs, NEW f \in Nat,
         RetryGoOn(t, J, f), rejected \in Nat
  PROVE  \/ /\ \E u : TaskOK(u) /\ u.jobs = J /\ tasks' = (tasks \ {t}) \cup {u}
            /\ rejected' = rejected + f
         \/ tasks' = tasks \ {t} /\ rejected' = rejected + f + Cardinality(J)
<1>1. CASE J # {} /\ t.attempt + 1 < RetryAttempts
  <2> DEFINE u == [t EXCEPT !.jobs = J, !.attempt = @ + 1, !.slot = FALSE]
  <2>1. Replace(t, {u}) /\ rejected' = rejected + f
    BY Zenon, <1>1 DEF RetryGoOn
  <2>2. /\ t \in Task /\ t.jobs \in SUBSET Tx /\ t.attempt \in Nat /\ t.attempt + 1 \in Nat
        /\ t.throttled <= Backoffs /\ J \in SUBSET Tx
    BY DEF TaskOK, Task
  <2>3. u \in Task
    BY Zenon, <2>2 DEF Task
  <2>4. u.jobs = J
    BY ZenonT(60), <2>2 DEF Task
  <2>5. u.attempt = t.attempt + 1
    BY ZenonT(60), <2>2 DEF Task
  <2>6. u.throttled = t.throttled /\ u.kind = t.kind
    BY ZenonT(60), <2>2 DEF Task
  <2> HIDE DEF u
  <2>7. TaskOK(u)
    BY ZenonT(60), <1>1, <2>2, <2>3, <2>4, <2>5, <2>6 DEF TaskOK
  <2>8. \E v : TaskOK(v) /\ v.jobs = J /\ tasks' = (tasks \ {t}) \cup {v}
    BY ZenonT(60), <2>1, <2>4, <2>7 DEF Replace
  <2> QED
    BY ZenonT(60), <2>1, <2>8
<1>2. CASE ~(J # {} /\ t.attempt + 1 < RetryAttempts)
  BY Zenon, <1>2, Replaced DEF RetryGoOn
<1> QED
  BY Zenon, <1>1, <1>2

\* retryBatch: every answer leads to one of the outcomes above.
LEMMA RetryOutcome ==
  ASSUME Counting, CountersOK, NEW t \in tasks, TaskOK(t), NEW r \in Answers(t.jobs), RetryPost(t, r)
  PROVE  \E J, K, n : Outcome(t, J, K, n)
<1>0. /\ accepted \in Nat /\ rejected \in Nat /\ failed \in Nat /\ unattributed \in Nat
      /\ blurred \in Nat
  BY ZenonT(60) DEF CountersOK
<1>1. /\ t.kind = "retry" /\ landed' \in {landed \cup new : new \in Lands(r)}
      /\ blurred' = blurred + Unseen(r, {"foreign", "anonymous"})
      /\ failed' = failed /\ unattributed' = unattributed
  BY ZenonT(60) DEF RetryPost
<1>2. t.jobs \in SUBSET Tx
  BY DEF TaskOK, Task
<1>3. /\ r.line \in [t.jobs -> Kinds]
      /\ r.status \in {"200", "429"} => ~PerMember(r)
      /\ landed \subseteq landed' /\ landed' \subseteq landed \cup t.jobs
  BY ZenonT(60), <1>1, <1>2, AnswerShape
<1>4. IsFiniteSet(t.jobs) /\ Cardinality(t.jobs) \in Nat
  BY ZenonT(60), <1>3, AnswerCounts
<1>5. t.jobs \ {} = t.jobs /\ Cardinality(t.jobs \ t.jobs) = 0
  <2>1. t.jobs \ t.jobs = {}
    BY ZenonT(60)
  <2> QED
    BY ZenonT(60), <2>1, CardEmpty
<1>6. /\ r.status = "200" => /\ accepted' = accepted + Cardinality(t.jobs)
                             /\ Replace(t, {})
                             /\ rejected' = rejected
      /\ PerMember(r) => /\ accepted' = accepted + Cardinality(t.jobs)
                              - Cardinality(With(r, {"retry"})) - Cardinality(With(r, {"final"}))
                         /\ RetryGoOn(t, With(r, {"retry"}), Cardinality(With(r, {"final"})))
      /\ ~PerMember(r) /\ r.status # "200" =>
           /\ accepted' = accepted
           /\ \/ RetryGoOn(t, t.jobs, 0)
              \/ rejected' = rejected + Cardinality(t.jobs) /\ Replace(t, {})
  <2>1. CASE r.status = "200"
    <3>1. ~PerMember(r)
      BY ZenonT(60), <1>3, <2>1
    <3>2. accepted' = accepted + Cardinality(t.jobs) /\ Replace(t, {}) /\ rejected' = rejected
      BY ZenonT(60), <2>1, <3>1 DEF RetryPost
    <3> QED
      BY ZenonT(60), <2>1, <3>1, <3>2
  <2>2. CASE PerMember(r)
    <3>1. r.status # "200"
      BY ZenonT(60), <1>3, <2>2
    <3>2. /\ accepted' = accepted + Cardinality(t.jobs)
               - Cardinality(With(r, {"retry"})) - Cardinality(With(r, {"final"}))
          /\ RetryGoOn(t, With(r, {"retry"}), Cardinality(With(r, {"final"})))
      BY ZenonT(60), <2>2, <3>1 DEF RetryPost
    <3> QED
      BY ZenonT(60), <2>2, <3>1, <3>2
  <2>3. CASE ~PerMember(r) /\ r.status # "200" /\ r.status \in {"error", "429", "422"}
    <3>1. RetryGoOn(t, t.jobs, 0) /\ UNCHANGED accepted
      BY ZenonT(60), <2>3 DEF RetryPost
    <3> QED
      BY Zenon, <2>3, <3>1
  <2>4. CASE ~PerMember(r) /\ r.status # "200" /\ r.status \notin {"error", "429", "422"}
    <3>1. rejected' = rejected + Cardinality(t.jobs) /\ Replace(t, {}) /\ UNCHANGED accepted
      BY ZenonT(60), <2>4 DEF RetryPost
    <3> QED
      BY Zenon, <2>4, <3>1
  <2> QED
    BY ZenonT(60), <2>1, <2>2, <2>3, <2>4
<1>7. ~PerMember(r) => blurred' = blurred
  BY <1>0, <1>1 DEF Unseen
<1>8. CASE r.status = "200"
  <2>1. tasks' = tasks \ {t}
    BY Zenon, <1>6, <1>8, Replaced
  <2> QED
    BY ZenonT(60), <1>1, <1>3, <1>6, <1>7, <1>8, <2>1, AllOutcome
<1>9. CASE PerMember(r)
  <2> DEFINE R == Cardinality(With(r, {"retry"}))
             O == Cardinality(With(r, {"ok"}))
             F == Cardinality(With(r, {"final"}))
             G == Cardinality(With(r, {"foreign"}))
             A == Cardinality(With(r, {"anonymous"}))
  <2>1. R \in Nat /\ O \in Nat /\ F \in Nat /\ G \in Nat /\ A \in Nat
    BY ZenonT(60), <1>3, AnswerCounts
  <2>2. Cardinality(t.jobs \ With(r, {"retry"})) = O + F + G + A
    BY ZenonT(60), <1>3, <1>4, LineKindsPartition
  <2>3. Cardinality(t.jobs) = R + O + F + G + A
    BY ZenonT(60), <1>3, <1>4, LineKindsPartition
  <2>4. /\ accepted' = accepted + Cardinality(t.jobs) - R - F
        /\ RetryGoOn(t, With(r, {"retry"}), F)
    BY Zenon, <1>6, <1>9
  <2>5. blurred' = blurred + (G + A)
    <3>1. Cardinality(With(r, {"foreign", "anonymous"})) = G + A
      BY ZenonT(60), <1>3, <1>4, LineKindsPartition
    <3>2. Unseen(r, {"foreign", "anonymous"}) = Cardinality(With(r, {"foreign", "anonymous"}))
      BY Zenon, <1>9 DEF Unseen
    <3> QED
      BY Zenon, <1>1, <3>1, <3>2
  <2>6. With(r, {"retry"}) \subseteq t.jobs
    BY ZenonT(60), <1>3, AnswerCounts
  <2> HIDE DEF R, O, F, G, A
  <2>6a. RetryAdds(R, O, F, G, A, Cardinality(t.jobs))
    BY Zenon, <1>1, <2>1, <2>3, <2>4, <2>5 DEF RetryAdds, Five
  <2>6b. RetrySums(R, O, F, G, A, Cardinality(t.jobs))
    BY Zenon, <2>6a, RetryCounts
  <2>7. accepted' = accepted + O + (G + A) /\ G + A \in Nat
    BY Zenon, <2>6b DEF RetrySums
  <2>8. \/ /\ \E u : TaskOK(u) /\ u.jobs = With(r, {"retry"}) /\ tasks' = (tasks \ {t}) \cup {u}
           /\ rejected' = rejected + F
        \/ tasks' = tasks \ {t} /\ rejected' = rejected + F + R
    BY ZenonT(60), <1>0, <1>1, <2>1, <2>4, <2>6, RetryGoOnOutcome DEF R
  <2>9. CASE /\ \E u : TaskOK(u) /\ u.jobs = With(r, {"retry"}) /\ tasks' = (tasks \ {t}) \cup {u}
             /\ rejected' = rejected + F
    <3>1. Settled' = Settled + (O + F + G + A)
      BY Zenon, <2>6b, <2>9 DEF RetrySums
    <3>2. CountersOK'
      BY ZenonT(60), <2>6b, <2>9 DEF RetrySums
    <3>3. Settled' = Settled + Cardinality(t.jobs \ With(r, {"retry"}))
      BY Zenon, <2>2, <3>1
    <3>4. \E K, m : Outcome(t, With(r, {"retry"}), K, m)
      BY ZenonT(60), <1>1, <1>9, <2>5, <2>7, <2>9, <3>2, <3>3, MembersOutcome DEF O
    <3> QED
      BY Zenon, <3>4
  <2>10. CASE tasks' = tasks \ {t} /\ rejected' = rejected + F + R
    <3>1. Settled' = Settled + Cardinality(t.jobs)
      BY Zenon, <2>6b, <2>10 DEF RetrySums
    <3>2. CountersOK'
      BY ZenonT(60), <2>6b, <2>10 DEF RetrySums
    <3>3. Settled' = Settled + Cardinality(t.jobs \ {})
      BY Zenon, <1>5, <3>1
    <3>4. \E K, m : Outcome(t, {}, K, m)
      BY ZenonT(60), <1>1, <1>9, <2>5, <2>7, <2>10, <3>2, <3>3, MembersOutcome DEF O
    <3> QED
      BY Zenon, <3>4
  <2> QED
    BY ZenonT(60), <2>8, <2>9, <2>10
<1>10. CASE ~PerMember(r) /\ r.status # "200"
  <2>1. accepted' = accepted /\ blurred' = blurred
    BY ZenonT(60), <1>6, <1>7, <1>10
  <2>2. ASSUME tasks' = tasks \ {t}, rejected' = rejected + Cardinality(t.jobs)
        PROVE  \E J, K, n : Outcome(t, J, K, n)
    <3>1. Settled' = Settled + Cardinality(t.jobs)
      BY Zenon, <1>1, <1>4, <2>1, <2>2, CountAll DEF Others
    <3>2. CountersOK'
      BY Zenon, <1>1, <1>4, <2>1, <2>2, CountAll DEF Others
    <3>3. Settled' = Settled + Cardinality(t.jobs \ {})
      BY Zenon, <1>5, <3>1
    <3>4. \E K, n : Outcome(t, {}, K, n)
      BY ZenonT(60), <1>3, <2>1, <2>2, <3>2, <3>3, PlainOutcome
    <3> QED
      BY Zenon, <3>4
  <2>3. ASSUME rejected' = rejected,
               \E u : TaskOK(u) /\ u.jobs = t.jobs /\ tasks' = (tasks \ {t}) \cup {u}
        PROVE  \E J, K, n : Outcome(t, J, K, n)
    <3>1. Settled' = Settled + Cardinality(t.jobs \ t.jobs)
      BY Zenon, <1>1, <1>5, <2>1, <2>3, CountNone
    <3>2. CountersOK'
      BY ZenonT(60), <1>0, <1>1, <2>1, <2>3 DEF CountersOK
    <3>3. \E K, n : Outcome(t, t.jobs, K, n)
      BY ZenonT(60), <1>3, <2>1, <2>3, <3>1, <3>2, PlainOutcome
    <3> QED
      BY Zenon, <3>3
  <2>4. CASE RetryGoOn(t, t.jobs, 0)
    <3>1. \/ /\ \E u : TaskOK(u) /\ u.jobs = t.jobs /\ tasks' = (tasks \ {t}) \cup {u}
             /\ rejected' = rejected + 0
          \/ tasks' = tasks \ {t} /\ rejected' = rejected + 0 + Cardinality(t.jobs)
      BY ZenonT(60), <1>0, <1>1, <2>4, RetryGoOnOutcome
    <3>2. rejected + 0 = rejected
      BY <1>0
    <3> QED
      BY ZenonT(60), <2>2, <2>3, <3>1, <3>2
  <2>5. CASE rejected' = rejected + Cardinality(t.jobs) /\ Replace(t, {})
    BY Zenon, <2>2, <2>5, Replaced
  <2> QED
    BY ZenonT(60), <1>6, <1>10, <2>4, <2>5
<1> QED
  BY Zenon, <1>8, <1>9, <1>10

\* Every step of a goroutine.
LEMMA WorkOutcome ==
  ASSUME Counting, CountersOK, NEW t \in tasks, TaskOK(t), Work(t)
  PROVE  /\ \E J, K, n : Outcome(t, J, K, n)
         /\ UNCHANGED <<handed, builders, cancelled, early>>
<1>1. UNCHANGED <<handed, builders, cancelled, early>>
  BY ZenonT(60) DEF Work, RetryAcquire, SubmitPost, RetryPost, history
<1>2. CASE RetryAcquire(t)
  <2> DEFINE u == [t EXCEPT !.slot = TRUE]
  <2>1. Replace(t, {u}) /\ UNCHANGED <<counters, landed, history>>
    BY Zenon, <1>2 DEF RetryAcquire
  <2>2. u \in Task /\ u.jobs = t.jobs /\ u.kind = t.kind /\ u.throttled = t.throttled
        /\ u.attempt = t.attempt
    BY ZenonT(60) DEF TaskOK, Task
  <2> HIDE DEF u
  <2>3. TaskOK(u)
    BY ZenonT(60), <2>2 DEF TaskOK
  <2>4. \E v : TaskOK(v) /\ v.jobs = t.jobs /\ tasks' = (tasks \ {t}) \cup {v}
    BY Zenon, <2>1, <2>2, <2>3, Replaced
  <2>5. /\ accepted' = accepted /\ rejected' = rejected /\ failed' = failed
        /\ unattributed' = unattributed /\ blurred' = blurred /\ landed' = landed
    BY ZenonT(60), <2>1 DEF counters, history
  <2>6. Settled' = Settled + Cardinality(t.jobs \ t.jobs)
    <3>1. t.jobs \ t.jobs = {}
      BY ZenonT(60)
    <3>2. Cardinality(t.jobs \ t.jobs) = 0
      BY ZenonT(60), <3>1, CardEmpty
    <3> QED
      BY ZenonT(60), <2>5, <3>2, CountNone
  <2>7. CountersOK'
    BY ZenonT(60), <2>5 DEF CountersOK
  <2>8. \E K, n : Outcome(t, t.jobs, K, n)
    BY ZenonT(60), <2>4, <2>5, <2>6, <2>7, PlainOutcome
  <2> QED
    BY Zenon, <1>1, <2>8
<1>3. CASE \E r \in Answers(t.jobs) : SubmitPost(t, r) \/ RetryPost(t, r)
  BY ZenonT(60), <1>1, <1>3, SubmitOutcome, RetryOutcome
<1> QED
  BY Zenon, <1>2, <1>3 DEF Work

-----------------------------------------------------------------------------
(* The inductive invariant. *)

\* The transactions on their way, by builder.
Way == Jobs \cup UNION {Mine(b) : b \in Builder}

\* No two of the builders and goroutines hold the same transaction.
PlaceInv ==
  /\ \A b \in Builder : Control(b) /\ NeatAt(b) /\ Mine(b) \cap Jobs = {}
  /\ \A b, d \in Builder : b # d => Mine(b) \cap Mine(d) = {}
  /\ \A t \in tasks : TaskOK(t)
  /\ \A t, u \in tasks : t # u => t.jobs \cap u.jobs = {}
  /\ handed \subseteq Tx /\ Way \subseteq handed /\ landed \subseteq handed
  /\ Returned => tasks = {}

\* The counters hold the transactions that are no longer on their way.
CountInv ==
  /\ CountersOK
  /\ Settled = Cardinality(handed \ Way)
  /\ accepted <= Cardinality(landed \ Way) + blurred

\* Until it is cancelled the pipe keeps the order and the limit.
RequestOK(t) ==
  /\ Cardinality(t.jobs) <= BatchTxs
  /\ \A c \in t.jobs \ early : Parents[c] \cap t.jobs = {}
OrderInv ==
  /\ early \subseteq handed
  /\ \A c \in handed \ early : Parents[c] \subseteq handed
  /\ ~cancelled => /\ \A b \in Builder : OrderlyAt(b) /\ SizeAt(b)
                   /\ \A t \in tasks : RequestOK(t)

PipeInv == ContractInv /\ PlaceInv /\ CountInv /\ OrderInv

\* A step within the builders: nothing is handed over, submitted or settled.
LEMMA InnerStep ==
  ASSUME PipeInv, ContractInv', UNCHANGED <<handed, tasks, counters, landed, history>>,
         cancelled => cancelled',
         \A d \in Builder : /\ Mine(d)' = Mine(d) /\ NeatAt(d)' /\ Control(d)'
                            /\ ~cancelled' /\ OrderlyAt(d) => OrderlyAt(d)'
                            /\ ~cancelled' /\ SizeAt(d) => SizeAt(d)',
         Returned' => Returned \/ tasks = {}
  PROVE  PipeInv'
<1>1. /\ handed' = handed /\ tasks' = tasks /\ landed' = landed /\ early' = early
      /\ blurred' = blurred /\ accepted' = accepted /\ rejected' = rejected
      /\ failed' = failed /\ unattributed' = unattributed
  BY ZenonT(60) DEF counters, history
<1>2. Jobs' = Jobs /\ Settled' = Settled
  BY ZenonT(60), <1>1 DEF Jobs, Settled
<1>3. UNION {Mine(b)' : b \in Builder} = UNION {Mine(b) : b \in Builder}
  BY Zenon
<1>4. Way' = Way
  BY Zenon, <1>2, <1>3 DEF Way
<1>5. PlaceInv'
  <2>1. \A b \in Builder : (Mine(b) \cap Jobs = {})'
    BY Zenon, <1>2 DEF PipeInv, PlaceInv
  <2>2. \A b, d \in Builder : b # d => (Mine(b) \cap Mine(d) = {})'
    BY Zenon DEF PipeInv, PlaceInv
  <2>3. \A t \in tasks' : TaskOK(t)
    BY Zenon, <1>1 DEF PipeInv, PlaceInv
  <2>4. \A t, u \in tasks' : t # u => t.jobs \cap u.jobs = {}
    BY Zenon, <1>1 DEF PipeInv, PlaceInv
  <2>5. (handed \subseteq Tx /\ Way \subseteq handed /\ landed \subseteq handed)'
    BY Zenon, <1>1, <1>4 DEF PipeInv, PlaceInv
  <2>6. Returned' => tasks' = {}
    BY Zenon, <1>1 DEF PipeInv, PlaceInv
  <2> QED
    BY ZenonT(60), <2>1, <2>2, <2>3, <2>4, <2>5, <2>6 DEF PlaceInv
<1>6. CountInv'
  BY Zenon, <1>1, <1>2, <1>4 DEF PipeInv, CountInv, CountersOK
<1>7. OrderInv'
  <2>1. (early \subseteq handed /\ \A c \in handed \ early : Parents[c] \subseteq handed)'
    BY Zenon, <1>1 DEF PipeInv, OrderInv
  <2>2. ~cancelled' => \A b \in Builder : OrderlyAt(b)' /\ SizeAt(b)'
    BY Zenon DEF PipeInv, OrderInv
  <2>3. ~cancelled' => \A t \in tasks' : RequestOK(t)'
    BY Zenon, <1>1 DEF PipeInv, OrderInv, RequestOK
  <2> QED
    BY Zenon, <2>1, <2>2, <2>3 DEF OrderInv
<1> QED
  BY ZenonT(60), <1>5, <1>6, <1>7 DEF PipeInv

\* A step of a goroutine.
LEMMA WorkStep ==
  ASSUME Counting, PipeInv, ContractInv', NEW t \in tasks, Work(t)
  PROVE  PipeInv'
<1>0. PlaceInv /\ CountInv /\ OrderInv /\ TaskOK(t) /\ CountersOK
  BY ZenonT(60) DEF PipeInv, PlaceInv, CountInv
<1>1. UNCHANGED <<handed, builders, cancelled, early>>
  BY Zenon, <1>0, WorkOutcome
<1>2. PICK J, K, n : Outcome(t, J, K, n)
  BY ZenonT(60), <1>0, WorkOutcome
<1>3. /\ handed' = handed /\ cancelled' = cancelled /\ early' = early
      /\ queue' = queue /\ hand' = hand /\ cur' = cur /\ sealed' = sealed /\ pc' = pc /\ next' = next
  BY ZenonT(60), <1>1 DEF builders
<1>4. \A b \in Builder : /\ Mine(b)' = Mine(b) /\ NeatAt(b)' = NeatAt(b)
                         /\ Control(b)' = Control(b) /\ OrderlyAt(b)' = OrderlyAt(b)
                         /\ SizeAt(b)' = SizeAt(b)
  BY Zenon, <1>3 DEF Mine, NeatAt, Control, OrderlyAt, SizeAt
<1>5. Returned' = Returned
  BY Zenon, <1>3 DEF Returned
<1>6. J \subseteq t.jobs /\ K \subseteq t.jobs \ J /\ t.jobs \subseteq Jobs
  BY ZenonT(60), <1>2 DEF Outcome, Jobs
<1>7. \A u \in tasks \ {t} : u.jobs \cap t.jobs = {}
  BY ZenonT(60), <1>0 DEF PlaceInv
<1>8. /\ \A u \in tasks' : u \in tasks \ {t} \/ (TaskOK(u) /\ u.jobs = J)
      /\ \A u, v \in tasks' : u \notin tasks \ {t} /\ v \notin tasks \ {t} => u = v
      /\ tasks \ {t} \subseteq tasks'
      /\ J = {} \/ \E u \in tasks' : u.jobs = J
  BY ZenonT(60), <1>2 DEF Outcome
<1>9. Jobs' = (Jobs \ t.jobs) \cup J
  <2>1. ASSUME NEW x \in Jobs' PROVE x \in (Jobs \ t.jobs) \cup J
    <3>1. PICK u \in tasks' : x \in u.jobs
      BY ZenonT(60) DEF Jobs
    <3>2. CASE u \in tasks \ {t}
      BY ZenonT(60), <1>7, <3>1, <3>2 DEF Jobs
    <3> QED
      BY Zenon, <1>8, <3>1, <3>2
  <2>2. ASSUME NEW x \in Jobs, x \notin t.jobs PROVE x \in Jobs'
    <3>1. PICK u \in tasks : x \in u.jobs
      BY Zenon DEF Jobs
    <3>2. u \in tasks'
      BY Zenon, <1>8, <2>2, <3>1
    <3> QED
      BY Zenon, <3>1, <3>2 DEF Jobs
  <2>3. J \subseteq Jobs'
    BY Zenon, <1>8 DEF Jobs
  <2> QED
    BY ZenonT(60), <2>1, <2>2, <2>3
<1>10. UNION {Mine(b)' : b \in Builder} = UNION {Mine(b) : b \in Builder}
  BY Zenon, <1>4
<1>11. \A b \in Builder : Mine(b) \cap Jobs = {}
  BY Zenon, <1>0 DEF PlaceInv
<1>12. ASSUME NEW x \in UNION {Mine(b) : b \in Builder} PROVE x \notin Jobs
  <2>1. PICK b \in Builder : x \in Mine(b)
    BY Zenon
  <2> QED
    BY Zenon, <1>11, <2>1
<1>13. Way' = Way \ (t.jobs \ J) /\ t.jobs \subseteq Way
  <2> DEFINE M == UNION {Mine(b) : b \in Builder}
  <2>a. \A x \in M : x \notin Jobs
    BY Zenon, <1>12
  <2>b. M' = M
    BY Zenon, <1>10
  <2>c. Way = Jobs \cup M /\ Way' = Jobs' \cup M'
    BY Zenon DEF Way
  <2> HIDE DEF M
  <2>0. Way = Jobs \cup M /\ Way' = Jobs' \cup M' /\ M' = M /\ M \cap Jobs = {}
    BY ZenonT(60), <2>a, <2>b, <2>c
  <2>1. Way' = ((Jobs \ t.jobs) \cup J) \cup M
    BY Zenon, <2>0, <1>9
  <2> QED
    BY ZenonT(60), <1>6, <2>0, <2>1
<1>14. /\ K \cup landed \subseteq landed' /\ landed' \subseteq landed \cup t.jobs
       /\ Settled' = Settled + Cardinality(t.jobs \ J)
       /\ accepted' <= accepted + Cardinality(K) + n
       /\ blurred' = blurred + n /\ n \in Nat /\ CountersOK'
  BY Zenon, <1>2 DEF Outcome
<1>15. PlaceInv'
  <2>1. \A b \in Builder : Control(b)' /\ NeatAt(b)'
    BY ZenonT(60), <1>0, <1>4 DEF PlaceInv
  <2>2. \A b \in Builder : (Mine(b) \cap Jobs = {})'
    BY ZenonT(60), <1>4, <1>6, <1>9, <1>11
  <2>3. \A b, d \in Builder : b # d => (Mine(b) \cap Mine(d) = {})'
    BY Zenon, <1>0, <1>4 DEF PlaceInv
  <2>4. \A u \in tasks' : TaskOK(u)
    BY Zenon, <1>0, <1>8 DEF PlaceInv
  <2>5. ASSUME NEW u \in tasks', NEW v \in tasks', u # v PROVE u.jobs \cap v.jobs = {}
    <3>1. CASE u \in tasks \ {t} /\ v \in tasks \ {t}
      BY ZenonT(60), <1>0, <2>5, <3>1 DEF PlaceInv
    <3>2. CASE u \in tasks \ {t} /\ v \notin tasks \ {t}
      BY ZenonT(60), <1>6, <1>7, <1>8, <3>2
    <3>3. CASE u \notin tasks \ {t} /\ v \in tasks \ {t}
      BY ZenonT(60), <1>6, <1>7, <1>8, <3>3
    <3> QED
      BY Zenon, <1>8, <2>5, <3>1, <3>2, <3>3
  <2>6. handed' \subseteq Tx /\ Way' \subseteq handed' /\ landed' \subseteq handed'
    BY ZenonT(60), <1>0, <1>3, <1>13, <1>14 DEF PlaceInv
  <2>7. Returned' => tasks' = {}
    BY Zenon, <1>0, <1>5 DEF PlaceInv
  <2> QED
    BY Zenon, <2>1, <2>2, <2>3, <2>4, <2>5, <2>6, <2>7 DEF PlaceInv
<1>16. CountInv'
  <2>1. /\ handed \subseteq Tx /\ landed \subseteq Tx /\ landed' \subseteq Tx /\ Way \subseteq handed
        /\ t.jobs \subseteq Tx /\ IsFiniteSet(Tx)
    <3>1. /\ handed \subseteq Tx /\ landed \subseteq handed /\ landed' \subseteq handed' /\ Way \subseteq handed
      BY ZenonT(60), <1>0, <1>15 DEF PlaceInv
    <3>2. IsFiniteSet(Tx)
      BY ZenonT(60), PipeAssumption
    <3> QED
      BY ZenonT(60), <1>3, <1>13, <3>1, <3>2
  <2>2. /\ IsFiniteSet(handed \ Way) /\ IsFiniteSet(t.jobs \ J) /\ IsFiniteSet(landed \ Way)
        /\ IsFiniteSet(landed' \ Way') /\ IsFiniteSet(K)
    <3>1. /\ handed \ Way \subseteq Tx /\ t.jobs \ J \subseteq Tx /\ landed \ Way \subseteq Tx
          /\ landed' \ Way' \subseteq Tx /\ K \subseteq Tx
      BY ZenonT(60), <1>6, <2>1
    <3> QED
      BY ZenonT(60), <2>1, <3>1, CardSubset
  <2>3. /\ handed' \ Way' = (handed \ Way) \cup (t.jobs \ J)
        /\ (handed \ Way) \cap (t.jobs \ J) = {}
    BY ZenonT(60), <1>3, <1>13, <2>1
  <2>4. Cardinality(handed' \ Way') = Cardinality(handed \ Way) + Cardinality(t.jobs \ J)
    BY Zenon, <2>2, <2>3, CardUnion
  <2>5. Settled' = Cardinality(handed' \ Way')
    BY ZenonT(60), <1>0, <1>14, <2>4 DEF CountInv
  <2>6. (landed \ Way) \cup K \subseteq landed' \ Way' /\ (landed \ Way) \cap K = {}
    BY ZenonT(60), <1>6, <1>13, <1>14
  <2>7. Cardinality((landed \ Way) \cup K) = Cardinality(landed \ Way) + Cardinality(K)
    BY ZenonT(60), <2>2, <2>6, CardUnion
  <2>8. Cardinality((landed \ Way) \cup K) <= Cardinality(landed' \ Way')
    BY ZenonT(60), <2>2, <2>6, CardSubset
  <2>9. /\ Cardinality(landed \ Way) \in Nat /\ Cardinality(K) \in Nat
        /\ Cardinality(landed' \ Way') \in Nat
    BY Zenon, <2>2, CardNat
  <2>10. accepted \in Nat /\ accepted' \in Nat /\ blurred \in Nat
         /\ accepted <= Cardinality(landed \ Way) + blurred
    BY ZenonT(60), <1>0, <1>14 DEF CountInv, CountersOK
  <2>10a. blurred' \in Nat
    BY Zenon, <1>14 DEF CountersOK
  <2>10b. Landing(accepted, Cardinality(landed \ Way), blurred, accepted',
                  Cardinality(landed' \ Way'), blurred', Cardinality(K), n)
    BY ZenonT(60), <1>14, <2>7, <2>8, <2>9, <2>10, <2>10a DEF Landing
  <2>11. accepted' <= Cardinality(landed' \ Way') + blurred'
    BY ZenonT(60), <2>10b, Landed
  <2> QED
    BY ZenonT(60), <1>14, <2>5, <2>11 DEF CountInv
<1>17. OrderInv'
  <2>1. (early \subseteq handed /\ \A c \in handed \ early : Parents[c] \subseteq handed)'
    BY Zenon, <1>0, <1>3 DEF OrderInv
  <2>2. ~cancelled' => \A b \in Builder : OrderlyAt(b)' /\ SizeAt(b)'
    BY Zenon, <1>0, <1>3, <1>4 DEF OrderInv
  <2>3. ASSUME ~cancelled', NEW u \in tasks' PROVE RequestOK(u)'
    <3>1. RequestOK(t) /\ \A v \in tasks : RequestOK(v)
      BY Zenon, <1>0, <1>3, <2>3 DEF OrderInv
    <3>2. CASE u \in tasks \ {t}
      BY ZenonT(60), <1>3, <3>1, <3>2 DEF RequestOK
    <3>3. CASE u.jobs = J
      <4>1. IsFiniteSet(t.jobs)
        BY ZenonT(60), <1>0, PipeAssumption, CardSubset DEF TaskOK, Task
      <4>2. Cardinality(J) <= Cardinality(t.jobs) /\ Cardinality(J) \in Nat /\ Cardinality(t.jobs) \in Nat
        BY ZenonT(60), <1>6, <4>1, CardSubset, CardNat
      <4>3. Cardinality(u.jobs) <= BatchTxs
        <5>1. BatchTxs \in Nat /\ Cardinality(t.jobs) <= BatchTxs
          BY ZenonT(60), <3>1, PipeAssumption DEF RequestOK
        <5> QED
          BY ZenonT(60), <3>3, <4>2, <5>1, Climb DEF Ladder
      <4>4. \A c \in u.jobs \ early' : Parents[c] \cap u.jobs = {}
        BY ZenonT(60), <1>3, <1>6, <3>1, <3>3 DEF RequestOK
      <4> QED
        BY ZenonT(60), <4>3, <4>4 DEF RequestOK
    <3> QED
      BY Zenon, <1>8, <3>2, <3>3
  <2> QED
    BY Zenon, <2>1, <2>2, <2>3 DEF OrderInv
<1> QED
  BY ZenonT(60), <1>15, <1>16, <1>17 DEF PipeInv

\* A batch that is in order has no member together with its parent.
LEMMA BatchApart ==
  ASSUME NEW s \in Seq(Tx), NEW E, Forward(s), Kept(s, E)
  PROVE  \A c \in Range(s) \ E : Parents[c] \cap Range(s) = {}
<1> SUFFICES ASSUME NEW c \in Range(s), c \notin E, NEW p \in Range(s), p \in Parents[c]
             PROVE  FALSE
  BY Zenon
<1>1. PICK i \in DOMAIN s : c = s[i]
  BY Zenon DEF Range
<1>2. PICK j \in DOMAIN s : p = s[j]
  BY ZenonT(60) DEF Range
<1>3. i \in Nat /\ j \in Nat
  OBVIOUS
<1>4. CASE i < j
  BY Zenon, <1>1, <1>2, <1>4 DEF Kept
<1>5. CASE j < i
  BY Zenon, <1>1, <1>2, <1>5 DEF Forward
<1>6. CASE i = j
  <2>1. c \in Tx /\ c = p
    BY <1>1, <1>2, <1>6
  <2> QED
    BY ZenonT(60), <2>1, PipeAssumption
<1> QED
  BY <1>3, <1>4, <1>5, <1>6

\* submit: the batch leaves the builder for a goroutine of its own.
LEMMA SubmitStep ==
  ASSUME Counting, PipeInv, ContractInv', NEW b \in Builder, Submit(b)
  PROVE  PipeInv'
<1> DEFINE S == Range(sealed[b])
           u == NewSubmit(S)
<1>0. PlaceInv /\ CountInv /\ OrderInv /\ ContractInv
  BY ZenonT(60) DEF PipeInv
<1>1. /\ handed' = handed /\ cancelled' = cancelled /\ early' = early /\ landed' = landed
      /\ queue' = queue /\ hand' = hand /\ cur' = cur /\ blurred' = blurred
      /\ accepted' = accepted /\ rejected' = rejected /\ failed' = failed
      /\ unattributed' = unattributed /\ tasks' = tasks \cup {u}
  BY ZenonT(60) DEF Submit, counters, history
<1>2. /\ pc[b] = "seal" /\ sealed' = [sealed EXCEPT ![b] = <<>>]
      /\ pc' = [pc EXCEPT ![b] = next[b]] /\ next' = [next EXCEPT ![b] = "select"]
      /\ sealed \in [Builder -> Seq(Tx)] /\ pc \in [Builder -> PCs] /\ next \in [Builder -> Nexts]
  BY ZenonT(60), <1>0 DEF Submit, ContractInv, BuilderTypes
<1>3. \A d \in Builder \ {b} : Same(d)
  BY ZenonT(60), <1>1, <1>2 DEF Same
<1>4. sealed'[b] = <<>> /\ pc'[b] = next[b] /\ next'[b] = "select" /\ next[b] \in Nexts
  BY ZenonT(60), <1>2
<1>5. /\ sealed[b] # <<>> /\ sealed[b] \in Seq(Tx) /\ Control(b) /\ NeatAt(b)
  BY ZenonT(60), <1>0, <1>2 DEF PlaceInv, Control
<1>6. S \subseteq Tx /\ S # {}
  <2>1. 1 \in DOMAIN sealed[b] /\ \A i \in DOMAIN sealed[b] : sealed[b][i] \in Tx
    BY <1>5
  <2> QED
    BY ZenonT(60), <2>1 DEF Range
<1>7. /\ Mine(b) = Mine(b)' \cup S /\ Mine(b)' \cap S = {} /\ NeatAt(b)'
      /\ OrderlyAt(b) => OrderlyAt(b)'
  <2> DEFINE A == All(queue[b], hand[b], cur[b], <<>>)
  <2>1. Mine(b)' = A /\ NeatAt(b)' = Neat(queue[b], hand[b], cur[b], <<>>)
        /\ OrderlyAt(b)' = Orderly(queue[b], hand[b], cur[b], <<>>, early)
    BY Zenon, <1>1, <1>4 DEF Mine, NeatAt, OrderlyAt
  <2>2. Mine(b) = A \cup S
    BY Zenon, MoveSubmit DEF Mine
  <2>3. A \cap S = {} /\ Neat(queue[b], hand[b], cur[b], <<>>)
    BY Zenon, <1>5, MoveSubmit DEF NeatAt
  <2>4. OrderlyAt(b) => Orderly(queue[b], hand[b], cur[b], <<>>, early)
    BY ZenonT(60), MoveSubmit DEF OrderlyAt
  <2> HIDE DEF A, S, u
  <2> QED
    BY Zenon, <2>1, <2>2, <2>3, <2>4
<1>8. Control(b)'
  <2>1. pc'[b] # "seal"
    BY ZenonT(60), <1>4 DEF Nexts
  <2>2. hand[b] # <<>> => next[b] = "add"
    BY ZenonT(60), <1>2, <1>5 DEF Control
  <2>3. pc'[b] \in {"wait", "done"} => next[b] = "wait"
    BY ZenonT(60), <1>4 DEF Nexts
  <2>4. pc'[b] \in {"wait", "done"} \/ next'[b] = "wait" => queue[b] = <<>> /\ cur[b] = <<>>
    BY ZenonT(60), <1>4, <1>5, <2>3 DEF Control
  <2> QED
    BY ZenonT(60), <1>1, <1>4, <2>1, <2>2, <2>4 DEF Control
<1>9. \A d \in Builder \ {b} : /\ Mine(d)' = Mine(d) /\ NeatAt(d)' = NeatAt(d)
                               /\ Control(d)' = Control(d) /\ OrderlyAt(d)' = OrderlyAt(d)
                               /\ SizeAt(d)' = SizeAt(d)
  BY ZenonT(60), <1>1, <1>3 DEF Same, Mine, NeatAt, Control, OrderlyAt, SizeAt
<1>10. u.jobs = S /\ TaskOK(u)
  <2> HIDE DEF S
  <2>1. u \in Task /\ u.jobs = S
    BY ZenonT(60), <1>6 DEF NewSubmit, Task
  <2>2. u.throttled = 0 /\ u.attempt = 0 /\ u.kind = "submit"
    BY ZenonT(60) DEF NewSubmit
  <2> HIDE DEF u
  <2> QED
    BY SMTT(30), PipeAssumption, <1>6, <2>1, <2>2 DEF TaskOK, MaxPosts
<1> HIDE DEF S, u
<1>11. Jobs' = Jobs \cup S
  BY ZenonT(60), <1>1, <1>10 DEF Jobs
<1>12. S \cap Jobs = {} /\ \A t \in tasks : t.jobs \subseteq Jobs
  <2>1. Mine(b) \cap Jobs = {}
    BY Zenon, <1>0 DEF PlaceInv
  <2>2. \A t \in tasks : t.jobs \subseteq Jobs
    BY Zenon DEF Jobs
  <2> QED
    BY ZenonT(60), <1>7, <2>1, <2>2
<1>13. Way' = Way
  <2>1. ASSUME NEW x \in Way' PROVE x \in Way
    <3>1. CASE x \in Jobs'
      BY Zenon, <1>7, <1>11, <3>1 DEF Way
    <3>2. CASE x \notin Jobs'
      <4>1. PICK d \in Builder : x \in Mine(d)'
        BY Zenon, <3>2 DEF Way
      <4>2. x \in Mine(d)
        BY ZenonT(60), <1>7, <1>9, <4>1
      <4> QED
        BY Zenon, <4>2 DEF Way
    <3> QED
      BY ZenonT(60), <3>1, <3>2
  <2>2. ASSUME NEW x \in Way PROVE x \in Way'
    <3>1. CASE x \in Jobs \cup S
      BY Zenon, <1>11, <3>1 DEF Way
    <3>2. CASE x \notin Jobs \cup S
      <4>1. PICK d \in Builder : x \in Mine(d)
        BY Zenon, <3>2 DEF Way
      <4>2. x \in Mine(d)'
        BY Zenon, <1>7, <1>9, <3>2, <4>1
      <4> QED
        BY Zenon, <4>2 DEF Way
    <3> QED
      BY ZenonT(60), <3>1, <3>2
  <2> QED
    BY ZenonT(60), <2>1, <2>2
<1>14. PlaceInv'
  <2>1. \A d \in Builder : Control(d)' /\ NeatAt(d)'
    BY ZenonT(60), <1>0, <1>7, <1>8, <1>9 DEF PlaceInv
  <2>2. ASSUME NEW d \in Builder PROVE (Mine(d) \cap Jobs = {})'
    <3>1. Mine(d) \cap Jobs = {} /\ (d # b => Mine(d) \cap Mine(b) = {})
      BY ZenonT(60), <1>0 DEF PlaceInv
    <3>2. CASE d = b
      BY ZenonT(60), <1>7, <1>11, <3>1, <3>2
    <3>3. CASE d # b
      BY ZenonT(60), <1>7, <1>9, <1>11, <3>1, <3>3
    <3> QED
      BY ZenonT(60), <3>2, <3>3
  <2>3. ASSUME NEW c \in Builder, NEW d \in Builder, c # d PROVE (Mine(c) \cap Mine(d) = {})'
    <3>1. Mine(c) \cap Mine(d) = {}
      BY Zenon, <1>0, <2>3 DEF PlaceInv
    <3>2. Mine(c)' \subseteq Mine(c) /\ Mine(d)' \subseteq Mine(d)
      BY Zenon, <1>7, <1>9
    <3> QED
      BY ZenonT(60), <3>1, <3>2
  <2>4. \A t \in tasks' : TaskOK(t)
    BY Zenon, <1>0, <1>1, <1>10 DEF PlaceInv
  <2>5. ASSUME NEW t \in tasks', NEW v \in tasks', t # v PROVE t.jobs \cap v.jobs = {}
    <3>1. CASE t \in tasks /\ v \in tasks
      BY ZenonT(60), <1>0, <2>5, <3>1 DEF PlaceInv
    <3>2. CASE t \in tasks /\ v = u
      BY ZenonT(60), <1>10, <1>12, <3>2
    <3>3. CASE t = u /\ v \in tasks
      BY ZenonT(60), <1>10, <1>12, <3>3
    <3> QED
      BY ZenonT(60), <1>1, <2>5, <3>1, <3>2, <3>3
  <2>6. handed' \subseteq Tx /\ Way' \subseteq handed' /\ landed' \subseteq handed'
    BY ZenonT(60), <1>0, <1>1, <1>13 DEF PlaceInv
  <2>7. ~Returned'
    BY ZenonT(60), <1>4 DEF Returned, Nexts
  <2> QED
    BY ZenonT(60), <2>1, <2>2, <2>3, <2>4, <2>5, <2>6, <2>7 DEF PlaceInv
<1>15. CountInv'
  BY Zenon, <1>0, <1>1, <1>13 DEF CountInv, CountersOK, Settled
<1>16. OrderInv'
  <2>1. (early \subseteq handed /\ \A c \in handed \ early : Parents[c] \subseteq handed)'
    BY Zenon, <1>0, <1>1 DEF OrderInv
  <2>2. ASSUME ~cancelled' PROVE \A d \in Builder : OrderlyAt(d)' /\ SizeAt(d)'
    <3>1. \A d \in Builder : OrderlyAt(d) /\ SizeAt(d)
      BY ZenonT(60), <1>0, <1>1, <2>2 DEF OrderInv
    <3>2. SizeAt(b)'
      <4>1. Len(<<>>) = 0 /\ BatchTxs \in Nat
        BY ZenonT(60), PipeAssumption
      <4>2. Len(cur[b]) < BatchTxs
        BY Zenon, <3>1 DEF SizeAt
      <4>3. cur'[b] = cur[b] /\ sealed'[b] = <<>> /\ 0 <= BatchTxs
        <5>1. 0 <= BatchTxs
          BY <4>1
        <5> QED
          BY ZenonT(60), <1>1, <1>4, <5>1
      <4> QED
        BY ZenonT(60), <4>1, <4>2, <4>3 DEF SizeAt
    <3> QED
      BY Zenon, <1>7, <1>9, <3>1, <3>2
  <2>3. ASSUME ~cancelled' PROVE \A t \in tasks' : RequestOK(t)'
    <3>0. OrderlyAt(b) /\ SizeAt(b) /\ \A t \in tasks : RequestOK(t)
      BY Zenon, <1>0, <1>1, <2>3 DEF OrderInv
    <3>1. \A t \in tasks : RequestOK(t)'
      BY Zenon, <1>1, <3>0 DEF RequestOK
    <3>2. Forward(sealed[b]) /\ Kept(sealed[b], early)
      <4>1. Forward(sealed[b])
        BY ZenonT(60), <1>0, <1>1, <2>3 DEF ContractInv, Sound
      <4> QED
        BY Zenon, <3>0, <4>1 DEF OrderlyAt, Orderly
    <3>3. \A c \in S \ early : Parents[c] \cap S = {}
      BY ZenonT(60), <1>5, <3>2, BatchApart DEF S
    <3>4. Cardinality(S) <= BatchTxs
      <4>1. Cardinality(S) \in Nat /\ Cardinality(S) <= Len(sealed[b])
        BY ZenonT(60), <1>5, CardBatch DEF S
      <4>2. Len(sealed[b]) \in Nat /\ Len(sealed[b]) <= BatchTxs /\ BatchTxs \in Nat
        BY <1>5, <3>0, PipeAssumption DEF SizeAt
      <4> QED
        BY ZenonT(60), <4>1, <4>2, Climb DEF Ladder
    <3>5. /\ Cardinality(u.jobs) <= BatchTxs
          /\ \A c \in u.jobs \ early' : Parents[c] \cap u.jobs = {}
      BY ZenonT(60), <1>1, <1>10, <3>3, <3>4
    <3>6. \A t \in tasks' : t \in tasks \/ t = u
      BY ZenonT(60), <1>1
    <3> QED
      BY Zenon, <3>1, <3>5, <3>6 DEF RequestOK
  <2> QED
    BY Zenon, <2>1, <2>2, <2>3 DEF OrderInv
<1> QED
  BY ZenonT(60), <1>14, <1>15, <1>16 DEF PipeInv

\* What a lane hands over: new transactions, none of them twice.
LEMMA RunShape ==
  ASSUME NEW r \in Runs
  PROVE  r \in Run /\ IsInjective(r) /\ Range(r) \subseteq Tx /\ Range(r) \cap handed = {}
<1>1. PICK n \in 1..RunCap : r \in [1..n -> Tx \ handed]
  BY ZenonT(60) DEF Runs
<1>2. n \in Nat \ {0}
  BY PipeAssumption
<1>3. r \in Seq(Tx) /\ Len(r) = n
  BY <1>1, <1>2
<1>4. r \in Run
  BY ZenonT(60), <1>2, <1>3 DEF Run
<1>5. IsInjective(r)
  BY Zenon DEF Runs, IsInjective
<1>6. \A i \in DOMAIN r : r[i] \in Tx \ handed
  BY ZenonT(60), <1>1
<1>7. Range(r) \subseteq Tx /\ Range(r) \cap handed = {}
  BY Zenon, <1>6 DEF Range
<1> QED
  BY ZenonT(60), <1>4, <1>5, <1>7

\* A place that is in order stays so when more transactions are known to be early.
LEMMA OrderlyMore ==
  ASSUME NEW q, NEW h, NEW c, NEW s, NEW D, NEW E, D \subseteq E, Orderly(q, h, c, s, D)
  PROVE  Orderly(q, h, c, s, E)
<1>1. \A x : Kept(x, D) => Kept(x, E)
  BY Zenon DEF Kept
<1>2. \A X, Y : Before(X, Y, D) => Before(X, Y, E)
  BY Zenon DEF Before
<1>3. QueueKept(q, D) => QueueKept(q, E)
  BY ZenonT(60), <1>1, <1>2 DEF QueueKept
<1> QED
  BY Zenon, <1>1, <1>2, <1>3 DEF Orderly

\* A run's transactions that are not early come after their parents.
LEMMA RunOrder ==
  ASSUME PipeInv, NEW r \in Runs
  PROVE  /\ Kept(r, early \cup Early(r))
         /\ Before(handed, Range(r), early \cup Early(r))
         /\ Early(r) \subseteq Range(r)
         /\ \A c \in (handed \cup Range(r)) \ (early \cup Early(r)) :
              Parents[c] \subseteq handed \cup Range(r)
<1>1. /\ r \in Run /\ IsInjective(r) /\ Range(r) \subseteq Tx /\ Range(r) \cap handed = {}
  BY ZenonT(60), RunShape
<1>2. DOMAIN r = 1..Len(r) /\ Len(r) \in Nat
  BY <1>1 DEF Run
<1>3. ASSUME NEW i \in DOMAIN r, r[i] \notin Early(r)
      PROVE  Parents[r[i]] \subseteq handed \cup {r[k] : k \in 1..(i - 1)}
  BY Zenon, <1>3 DEF Early
<1>4. Early(r) \subseteq Range(r)
  BY ZenonT(60) DEF Early, Range
<1>5. Kept(r, early \cup Early(r))
  <2> SUFFICES ASSUME NEW i \in DOMAIN r, NEW j \in DOMAIN r, i < j, r[j] \in Parents[r[i]],
                      r[i] \notin Early(r)
               PROVE  FALSE
    BY Zenon DEF Kept
  <2>1. r[j] \in handed \cup {r[k] : k \in 1..(i - 1)}
    BY Zenon, <1>3
  <2>2. r[j] \notin handed
    BY Zenon, <1>1 DEF Range
  <2>3. PICK k \in 1..(i - 1) : r[j] = r[k]
    BY ZenonT(60), <2>1, <2>2
  <2>4. k \in DOMAIN r /\ k < j
    BY <1>2, <2>3
  <2>5. k = j
    BY ZenonT(60), <1>1, <2>3, <2>4 DEF IsInjective
  <2> QED
    BY <1>2, <2>4, <2>5
<1>6. Before(handed, Range(r), early \cup Early(r))
  <2> SUFFICES ASSUME NEW x \in handed, NEW y \in Range(r), y \in Parents[x], x \notin early
               PROVE  FALSE
    BY Zenon DEF Before
  <2>1. Parents[x] \subseteq handed
    BY ZenonT(60) DEF PipeInv, OrderInv
  <2> QED
    BY ZenonT(60), <1>1, <2>1
<1>7. ASSUME NEW c \in (handed \cup Range(r)) \ (early \cup Early(r))
      PROVE  Parents[c] \subseteq handed \cup Range(r)
  <2>1. CASE c \in handed
    BY Zenon, <2>1 DEF PipeInv, OrderInv
  <2>2. CASE c \in Range(r)
    <3>1. PICK i \in DOMAIN r : c = r[i]
      BY Zenon, <2>2 DEF Range
    <3>2. Parents[c] \subseteq handed \cup {r[k] : k \in 1..(i - 1)}
      BY ZenonT(60), <1>3, <3>1
    <3>3. \A k \in 1..(i - 1) : k \in DOMAIN r
      BY <1>2
    <3>4. {r[k] : k \in 1..(i - 1)} \subseteq Range(r)
      BY Zenon, <3>3 DEF Range
    <3> QED
      BY Zenon, <3>2, <3>4
  <2> QED
    BY ZenonT(60), <2>1, <2>2
<1> QED
  BY ZenonT(60), <1>4, <1>5, <1>6, <1>7

\* send: a run joins a builder's queue.
LEMMA SendStep ==
  ASSUME PipeInv, ContractInv', NEW b \in Builder, Send(b)
  PROVE  PipeInv'
<1>0. PlaceInv /\ CountInv /\ OrderInv /\ ContractInv
  BY ZenonT(60) DEF PipeInv
<1>1. PICK r \in Runs : /\ queue' = [queue EXCEPT ![b] = Append(@, r)]
                        /\ handed' = handed \cup Range(r)
                        /\ early' = early \cup Early(r)
  BY ZenonT(60) DEF Send
<1>2. /\ cancelled' = cancelled /\ landed' = landed /\ hand' = hand /\ cur' = cur
      /\ sealed' = sealed /\ pc' = pc /\ next' = next /\ tasks' = tasks /\ blurred' = blurred
      /\ accepted' = accepted /\ rejected' = rejected /\ failed' = failed
      /\ unattributed' = unattributed /\ ~cancelled
  BY ZenonT(60) DEF Send, counters
<1> DEFINE R == Range(r)
<1>3. r \in Run /\ IsInjective(r) /\ R \subseteq Tx /\ R \cap handed = {}
  BY ZenonT(60), RunShape
<1>4. /\ Kept(r, early') /\ Before(handed, R, early') /\ Early(r) \subseteq R
      /\ \A c \in handed' \ early' : Parents[c] \subseteq handed'
  BY ZenonT(60), <1>1, RunOrder
<1>5. queue \in [Builder -> Seq(Run)]
  BY ZenonT(60), <1>0 DEF ContractInv, BuilderTypes
<1>6. queue'[b] = Append(queue[b], r) /\ \A d \in Builder \ {b} : queue'[d] = queue[d]
  BY ZenonT(60), <1>1, <1>5
<1> HIDE DEF R
<1>7. /\ \A d \in Builder : Mine(d) \subseteq Way
      /\ Jobs \subseteq Way /\ \A t \in tasks : t.jobs \subseteq Jobs
      /\ Way \subseteq handed /\ landed \subseteq handed /\ handed \subseteq Tx
  BY ZenonT(60), <1>0 DEF PlaceInv, Way, Jobs
<1>8. R \cap Mine(b) = {}
  BY ZenonT(60), <1>3, <1>7
<1>9. /\ Mine(b)' = Mine(b) \cup R /\ NeatAt(b)'
      /\ OrderlyAt(b) => OrderlyAt(b)'
  <2>0. queue[b] \in Seq(Run)
    BY ZenonT(60), <1>5
  <2>1. Range(r) \cap All(queue[b], hand[b], cur[b], sealed[b]) = {}
    BY Zenon, <1>8 DEF Mine, R
  <2>2. /\ All(Append(queue[b], r), hand[b], cur[b], sealed[b])
             = All(queue[b], hand[b], cur[b], sealed[b]) \cup Range(r)
        /\ Neat(queue[b], hand[b], cur[b], sealed[b])
             => Neat(Append(queue[b], r), hand[b], cur[b], sealed[b])
        /\ \A E : /\ Orderly(queue[b], hand[b], cur[b], sealed[b], E) /\ Kept(r, E)
                  /\ Before(All(queue[b], hand[b], cur[b], sealed[b]), Range(r), E)
             => Orderly(Append(queue[b], r), hand[b], cur[b], sealed[b], E)
    BY ZenonT(60), <1>3, <2>0, <2>1, MoveSend
  <2>3. Mine(b)' = Mine(b) \cup R
    BY Zenon, <1>2, <1>6, <2>2 DEF Mine, R
  <2>4. NeatAt(b)'
    BY Zenon, <1>0, <1>2, <1>6, <2>2 DEF PlaceInv, NeatAt
  <2>5. ASSUME OrderlyAt(b) PROVE OrderlyAt(b)'
    <3>1. early \subseteq early'
      BY Zenon, <1>1
    <3>2. Orderly(queue[b], hand[b], cur[b], sealed[b], early')
      BY Zenon, <2>5, <3>1, OrderlyMore DEF OrderlyAt
    <3>3. Before(Mine(b), Range(r), early')
      BY Zenon, <1>4, <1>7 DEF Before, R
    <3>4. Orderly(Append(queue[b], r), hand[b], cur[b], sealed[b], early')
      BY ZenonT(60), <1>4, <2>2, <3>2, <3>3 DEF Mine
    <3> QED
      BY Zenon, <1>2, <1>6, <3>4 DEF OrderlyAt
  <2> QED
    BY ZenonT(60), <2>3, <2>4, <2>5
<1>10. \A d \in Builder \ {b} : /\ Mine(d)' = Mine(d) /\ NeatAt(d)' = NeatAt(d)
                                /\ OrderlyAt(d) => OrderlyAt(d)'
  <2> SUFFICES ASSUME NEW d \in Builder \ {b}
               PROVE  /\ Mine(d)' = Mine(d) /\ NeatAt(d)' = NeatAt(d)
                      /\ OrderlyAt(d) => OrderlyAt(d)'
    BY Zenon
  <2>1. Mine(d)' = Mine(d) /\ NeatAt(d)' = NeatAt(d)
    BY Zenon, <1>2, <1>6 DEF Mine, NeatAt
  <2>2. ASSUME OrderlyAt(d) PROVE OrderlyAt(d)'
    <3>1. early \subseteq early'
      BY Zenon, <1>1
    <3>2. Orderly(queue[d], hand[d], cur[d], sealed[d], early')
      BY Zenon, <2>2, <3>1, OrderlyMore DEF OrderlyAt
    <3> QED
      BY Zenon, <1>2, <1>6, <3>2 DEF OrderlyAt
  <2> QED
    BY ZenonT(60), <2>1, <2>2
<1>11. \A d \in Builder : Control(d)' /\ SizeAt(d)' = SizeAt(d)
  <2>1. \A d \in Builder : SizeAt(d)' = SizeAt(d)
    BY Zenon, <1>2 DEF SizeAt
  <2>2. \A d \in Builder \ {b} : Control(d)'
    BY Zenon, <1>0, <1>2, <1>6 DEF PlaceInv, Control
  <2>3. Control(b)'
    <3>1. pc[b] \notin {"wait", "done"} /\ next[b] # "wait"
      BY ZenonT(60), <1>0, <1>2 DEF ContractInv, Sound
    <3> QED
      BY ZenonT(60), <1>0, <1>2, <3>1 DEF PlaceInv, Control
  <2> QED
    BY Zenon, <2>1, <2>2, <2>3
<1>12. Jobs' = Jobs
  BY ZenonT(60), <1>2 DEF Jobs
<1>13. Way' = Way \cup R
  <2>1. ASSUME NEW x \in Way' PROVE x \in Way \cup R
    <3>1. CASE x \in Jobs
      BY ZenonT(60), <1>7, <3>1
    <3>2. CASE x \notin Jobs
      <4>1. PICK d \in Builder : x \in Mine(d)'
        BY Zenon, <1>12, <3>2 DEF Way
      <4>2. x \in Mine(d) \cup R
        BY Zenon, <1>9, <1>10, <4>1
      <4> QED
        BY Zenon, <1>7, <4>2
    <3> QED
      BY ZenonT(60), <3>1, <3>2
  <2>2. ASSUME NEW x \in Way PROVE x \in Way'
    <3>1. CASE x \in Jobs
      BY Zenon, <1>12, <3>1 DEF Way
    <3>2. CASE x \notin Jobs
      <4>1. PICK d \in Builder : x \in Mine(d)
        BY Zenon, <3>2 DEF Way
      <4>2. x \in Mine(d)'
        BY Zenon, <1>9, <1>10, <4>1
      <4> QED
        BY Zenon, <4>2 DEF Way
    <3> QED
      BY ZenonT(60), <3>1, <3>2
  <2>3. R \subseteq Way'
    <3>1. R \subseteq Mine(b)'
      BY Zenon, <1>9
    <3> QED
      BY Zenon, <3>1 DEF Way
  <2> QED
    BY ZenonT(60), <2>1, <2>2, <2>3
<1>14. PlaceInv'
  <2>1. \A d \in Builder : Control(d)' /\ NeatAt(d)'
    BY ZenonT(60), <1>0, <1>9, <1>10, <1>11 DEF PlaceInv
  <2>2. ASSUME NEW d \in Builder PROVE (Mine(d) \cap Jobs = {})'
    <3>1. Mine(d) \cap Jobs = {} /\ R \cap Jobs = {}
      <4>1. Mine(d) \cap Jobs = {}
        BY Zenon, <1>0 DEF PlaceInv
      <4> QED
        BY ZenonT(60), <1>3, <1>7, <4>1
    <3>2. Mine(d)' \subseteq Mine(d) \cup R
      BY ZenonT(60), <1>9, <1>10
    <3> QED
      BY ZenonT(60), <1>12, <3>1, <3>2
  <2>3. ASSUME NEW c \in Builder, NEW d \in Builder, c # d PROVE (Mine(c) \cap Mine(d) = {})'
    <3>1. Mine(c) \cap Mine(d) = {}
      BY ZenonT(60), <1>0, <2>3 DEF PlaceInv
    <3>2. Mine(c) \cap R = {} /\ Mine(d) \cap R = {}
      BY ZenonT(60), <1>3, <1>7
    <3>3. CASE c = b
      <4>1. Mine(c)' = Mine(c) \cup R /\ Mine(d)' = Mine(d)
        BY ZenonT(60), <1>9, <1>10, <2>3, <3>3
      <4> QED
        BY ZenonT(60), <3>1, <3>2, <4>1
    <3>4. CASE c # b
      <4>1. Mine(c)' = Mine(c) /\ Mine(d)' \subseteq Mine(d) \cup R
        BY ZenonT(60), <1>9, <1>10, <3>4
      <4> QED
        BY ZenonT(60), <3>1, <3>2, <4>1
    <3> QED
      BY ZenonT(60), <3>3, <3>4
  <2>4. \A t \in tasks' : TaskOK(t)
    BY Zenon, <1>0, <1>2 DEF PlaceInv
  <2>5. \A t, v \in tasks' : t # v => t.jobs \cap v.jobs = {}
    BY ZenonT(60), <1>0, <1>2 DEF PlaceInv
  <2>6. handed' \subseteq Tx /\ Way' \subseteq handed' /\ landed' \subseteq handed'
    <3>1. handed' = handed \cup R
      BY Zenon, <1>1 DEF R
    <3> QED
      BY ZenonT(60), <1>2, <1>3, <1>7, <1>13, <3>1
  <2>7. Returned' => tasks' = {}
    BY Zenon, <1>0, <1>2 DEF PlaceInv, Returned
  <2> QED
    BY ZenonT(60), <2>1, <2>2, <2>3, <2>4, <2>5, <2>6, <2>7 DEF PlaceInv
<1>15. CountInv'
  <2>1. handed' = handed \cup R
    BY Zenon, <1>1 DEF R
  <2>2. handed' \ Way' = handed \ Way /\ landed' \ Way' = landed \ Way
    BY ZenonT(60), <1>2, <1>3, <1>7, <1>13, <2>1
  <2> QED
    BY ZenonT(60), <1>0, <1>2, <2>2 DEF CountInv, CountersOK, Settled
<1>16. OrderInv'
  <2>1. early' \subseteq handed'
    <3>1. early \subseteq handed
      BY Zenon, <1>0 DEF OrderInv
    <3> QED
      BY Zenon, <1>1, <1>4, <3>1 DEF R
  <2>2. \A d \in Builder : OrderlyAt(d)' /\ SizeAt(d)'
    BY Zenon, <1>0, <1>2, <1>9, <1>10, <1>11 DEF OrderInv
  <2>3. ASSUME NEW t \in tasks' PROVE RequestOK(t)'
    <3>1. RequestOK(t)
      BY Zenon, <1>0, <1>2 DEF OrderInv
    <3>2. early \subseteq early'
      BY Zenon, <1>1
    <3> QED
      BY Zenon, <3>1, <3>2 DEF RequestOK
  <2> QED
    BY Zenon, <1>4, <2>1, <2>2, <2>3 DEF OrderInv
<1> QED
  BY Zenon, <1>14, <1>15, <1>16 DEF PipeInv

\* Every step of the pipe keeps the invariant.
LEMMA PipeStep ==
  ASSUME Counting, PipeInv, [Next]_vars
  PROVE  PipeInv'
<1>0. ContractInv /\ PlaceInv /\ CountInv /\ OrderInv
  BY ZenonT(60) DEF PipeInv
<1>1. ContractInv'
  BY ZenonT(60), <1>0, ContractStep
<1>2. ASSUME UNCHANGED <<handed, builders, tasks, counters, landed, history>>,
             cancelled => cancelled'
      PROVE  PipeInv'
  <2>1. queue' = queue /\ hand' = hand /\ cur' = cur /\ sealed' = sealed /\ pc' = pc /\ next' = next
        /\ early' = early
    BY ZenonT(60), <1>2 DEF builders, history
  <2>2. \A d \in Builder : /\ Mine(d)' = Mine(d) /\ NeatAt(d)' = NeatAt(d)
                           /\ Control(d)' = Control(d) /\ OrderlyAt(d)' = OrderlyAt(d)
                           /\ SizeAt(d)' = SizeAt(d)
    BY Zenon, <2>1 DEF Mine, NeatAt, Control, OrderlyAt, SizeAt
  <2>3. \A d \in Builder : /\ Mine(d)' = Mine(d) /\ NeatAt(d)' /\ Control(d)'
                           /\ ~cancelled' /\ OrderlyAt(d) => OrderlyAt(d)'
                           /\ ~cancelled' /\ SizeAt(d) => SizeAt(d)'
    BY Zenon, <1>0, <2>2 DEF PlaceInv
  <2>4. Returned' => Returned \/ tasks = {}
    BY Zenon, <2>1 DEF Returned
  <2>5. UNCHANGED <<handed, tasks, counters, landed, history>>
    BY ZenonT(60), <1>2
  <2> QED
    BY ZenonT(60), <1>1, <1>2, <2>3, <2>4, <2>5, InnerStep
<1>3. CASE Cancel
  <2>1. UNCHANGED <<handed, builders, tasks, counters, landed, history>> /\ cancelled'
    BY ZenonT(60), <1>3 DEF Cancel
  <2> QED
    BY ZenonT(60), <1>2, <2>1
<1>4. CASE UNCHANGED vars
  <2>1. UNCHANGED <<handed, builders, tasks, counters, landed, history>> /\ cancelled' = cancelled
    BY ZenonT(60), <1>4 DEF vars
  <2> QED
    BY ZenonT(60), <1>2, <2>1
<1>5. ASSUME NEW b \in Builder, Send(b) PROVE PipeInv'
  BY Zenon, <1>1, <1>5, SendStep
<1>6. ASSUME NEW t \in tasks, Work(t) PROVE PipeInv'
  BY ZenonT(60), <1>1, <1>6, WorkStep
<1>7. ASSUME NEW b \in Builder, Build(b) PROVE PipeInv'
  <2>1. CASE Submit(b)
    BY Zenon, <1>1, <2>1, SubmitStep
  <2>2. CASE ~Submit(b)
    <3>1. Control(b) /\ NeatAt(b)
      BY Zenon, <1>0 DEF PlaceInv
    <3>2. /\ Moves(b) /\ Control(b)'
          /\ pc'[b] = "done" => pc[b] = "done" \/ tasks = {}
          /\ \A d \in Builder \ {b} : Same(d)
          /\ ~cancelled /\ SizeAt(b) => SizeAt(b)'
          /\ UNCHANGED <<handed, tasks, cancelled, counters, landed, history>>
      BY ZenonT(60), <1>0, <1>7, <2>2, <3>1, BuilderMoves
    <3>3. cancelled' = cancelled /\ early' = early /\ UNCHANGED <<handed, tasks, counters, landed, history>>
      BY ZenonT(60), <3>2 DEF history
    <3>4. \A d \in Builder \ {b} : /\ Mine(d)' = Mine(d) /\ NeatAt(d)' = NeatAt(d)
                                   /\ Control(d)' = Control(d) /\ OrderlyAt(d)' = OrderlyAt(d)
                                   /\ SizeAt(d)' = SizeAt(d)
      BY ZenonT(60), <3>2, <3>3 DEF Same, Mine, NeatAt, Control, OrderlyAt, SizeAt
    <3>5. \A d \in Builder : /\ Mine(d)' = Mine(d) /\ NeatAt(d)' /\ Control(d)'
                             /\ ~cancelled' /\ OrderlyAt(d) => OrderlyAt(d)'
                             /\ ~cancelled' /\ SizeAt(d) => SizeAt(d)'
      <4>1. /\ Mine(b)' = Mine(b) /\ NeatAt(b)' /\ Control(b)'
            /\ ~cancelled' /\ OrderlyAt(b) => OrderlyAt(b)'
            /\ ~cancelled' /\ SizeAt(b) => SizeAt(b)'
        BY SMTT(30), <3>2, <3>3 DEF Moves
      <4>2. ASSUME NEW d \in Builder \ {b}
            PROVE  /\ Mine(d)' = Mine(d) /\ NeatAt(d)' /\ Control(d)'
                   /\ ~cancelled' /\ OrderlyAt(d) => OrderlyAt(d)'
                   /\ ~cancelled' /\ SizeAt(d) => SizeAt(d)'
        <5>1. NeatAt(d) /\ Control(d)
          BY Zenon, <1>0 DEF PlaceInv
        <5> QED
          BY Zenon, <3>4, <5>1
      <4> QED
        BY Zenon, <4>1, <4>2
    <3>6. Returned' => Returned \/ tasks = {}
      BY Zenon, <3>2 DEF Returned, Same
    <3>7. cancelled => cancelled'
      BY Zenon, <3>3
    <3> QED
      BY ZenonT(60), <1>1, <3>3, <3>5, <3>6, <3>7, InnerStep
  <2> QED
    BY ZenonT(60), <2>1, <2>2
<1> QED
  BY Zenon, <1>3, <1>4, <1>5, <1>6, <1>7 DEF Next, Stopped

\* The invariant holds of an empty pipe.
LEMMA PipeInit ==
  ASSUME Counting, Init
  PROVE  PipeInv
<1>1. ContractInv
  BY ZenonT(60), ContractInit
<1>2. /\ handed = {} /\ tasks = {} /\ landed = {} /\ early = {} /\ cancelled = FALSE
      /\ accepted = 0 /\ rejected = 0 /\ failed = 0 /\ unattributed = 0 /\ blurred = 0
  BY ZenonT(60) DEF Init
<1>3. \A b \in Builder : /\ queue[b] = <<>> /\ hand[b] = <<>> /\ cur[b] = <<>> /\ sealed[b] = <<>>
                         /\ pc[b] = "select" /\ next[b] = "select"
  BY ZenonT(60) DEF Init
<1>4. \A b \in Builder : Mine(b) = {} /\ NeatAt(b) /\ OrderlyAt(b)
  <2>1. All(<<>>, <<>>, <<>>, <<>>) = {}
    BY ZenonT(60), EmptyMembers DEF All
  <2>2. Neat(<<>>, <<>>, <<>>, <<>>)
    BY ZenonT(60), EmptyMembers DEF Neat
  <2>3. Orderly(<<>>, <<>>, <<>>, <<>>, early)
    BY ZenonT(60), EmptyMembers DEF Orderly, Before
  <2> QED
    BY ZenonT(60), <1>3, <2>1, <2>2, <2>3 DEF Mine, NeatAt, OrderlyAt
<1>5. \A b \in Builder : Control(b) /\ SizeAt(b)
  <2>1. \A b \in Builder : Control(b)
    BY ZenonT(60), <1>3 DEF Control
  <2>2. Len(<<>>) = 0 /\ 0 < BatchTxs /\ 0 <= BatchTxs
    BY PipeAssumption
  <2> QED
    BY ZenonT(60), <1>3, <2>1, <2>2 DEF SizeAt
<1>6. Jobs = {} /\ Way = {}
  <2>1. Jobs = {}
    BY ZenonT(60), <1>2 DEF Jobs
  <2> QED
    BY ZenonT(60), <1>4, <2>1 DEF Way
<1>7. PlaceInv
  BY ZenonT(60), <1>2, <1>4, <1>5, <1>6 DEF PlaceInv
<1>8. CountInv
  <2>1. Cardinality({} \ {}) = 0
    <3>1. {} \ {} = {}
      BY ZenonT(60)
    <3> QED
      BY Zenon, <3>1, CardEmpty
  <2> QED
    BY <1>2, <1>6, <2>1 DEF CountInv, CountersOK, Settled
<1>9. OrderInv
  BY Zenon, <1>2, <1>4, <1>5 DEF OrderInv
<1> QED
  BY ZenonT(60), <1>1, <1>7, <1>8, <1>9 DEF PipeInv

-----------------------------------------------------------------------------
(* Lots and places. *)

\* The lots of a builder are its places.
LEMMA LotsPlaces ==
  ASSUME BuilderTypes, NEW b \in Builder
  PROVE  /\ \A i \in DOMAIN Lots(b) : Lots(b)[i] \in {sealed[b], cur[b], hand[b]}
                                      \/ \E k \in DOMAIN queue[b] : i = k + 3 /\ Lots(b)[i] = queue[b][k]
         /\ \A i \in DOMAIN Lots(b) : i \in 1..3 \/ \E k \in DOMAIN queue[b] : i = k + 3
         /\ {1, 2, 3} \subseteq DOMAIN Lots(b)
         /\ Lots(b)[1] = sealed[b] /\ Lots(b)[2] = cur[b] /\ Lots(b)[3] = hand[b]
         /\ \A k \in DOMAIN queue[b] : k + 3 \in DOMAIN Lots(b) /\ Lots(b)[k + 3] = queue[b][k]
<1> DEFINE s == sealed[b]
           c == cur[b]
           h == hand[b]
           q == queue[b]
<1>1. s \in Seq(Tx) /\ c \in Seq(Tx) /\ h \in Seq(Tx) /\ q \in Seq(Seq(Tx))
  <2>1. q \in Seq(Run)
    BY ZenonT(60) DEF BuilderTypes
  <2>2. q \in Seq(Seq(Tx))
    BY Zenon, <2>1, RunsAreSeqs
  <2> QED
    BY ZenonT(60), <2>2 DEF BuilderTypes
<1> HIDE DEF s, c, h, q
<1>2. /\ DOMAIN (<<s, c, h>> \o q) = 1..(3 + Len(q)) /\ DOMAIN q = 1..Len(q) /\ Len(q) \in Nat
      /\ (<<s, c, h>> \o q)[1] = s /\ (<<s, c, h>> \o q)[2] = c /\ (<<s, c, h>> \o q)[3] = h
      /\ \A k \in 1..Len(q) : (<<s, c, h>> \o q)[k + 3] = q[k]
  BY SMTT(30), <1>1
<1> DEFINE L == <<s, c, h>> \o q
<1>3. /\ DOMAIN L = 1..(3 + Len(q)) /\ DOMAIN q = 1..Len(q) /\ Len(q) \in Nat
      /\ L[1] = s /\ L[2] = c /\ L[3] = h
      /\ \A k \in 1..Len(q) : L[k + 3] = q[k]
  BY Zenon, <1>2
<1>4. Lots(b) = L
  BY ZenonT(60) DEF Lots, s, c, h, q
<1> HIDE DEF L
<1>5. \A i \in DOMAIN L : i \in 1..3 \/ (i - 3 \in DOMAIN q /\ i = (i - 3) + 3)
  BY <1>3
<1>6. \A i \in DOMAIN L : L[i] \in {s, c, h} \/ \E k \in DOMAIN q : i = k + 3 /\ L[i] = q[k]
  <2> SUFFICES ASSUME NEW i \in DOMAIN L, i \notin 1..3
               PROVE  \E k \in DOMAIN q : i = k + 3 /\ L[i] = q[k]
    <3>1. \A i \in 1..3 : i = 1 \/ i = 2 \/ i = 3
      OBVIOUS
    <3> QED
      BY ZenonT(60), <1>3, <3>1
  <2>1. i - 3 \in DOMAIN q /\ i = (i - 3) + 3
    BY ZenonT(60), <1>5
  <2>2. L[(i - 3) + 3] = q[i - 3]
    BY ZenonT(60), <1>3, <2>1
  <2>3. L[i] = q[i - 3]
    BY ZenonT(60), <2>1, <2>2
  <2> QED
    BY Zenon, <2>1, <2>3
<1>7. \A i \in DOMAIN L : i \in 1..3 \/ \E k \in DOMAIN q : i = k + 3
  BY Zenon, <1>5
<1>8. {1, 2, 3} \subseteq DOMAIN L /\ \A k \in DOMAIN q : k + 3 \in DOMAIN L /\ L[k + 3] = q[k]
  <2>1. {1, 2, 3} \subseteq DOMAIN L /\ \A k \in DOMAIN q : k + 3 \in DOMAIN L
    BY <1>3
  <2> QED
    BY ZenonT(60), <1>3, <2>1
<1> QED
  BY ZenonT(60), <1>3, <1>4, <1>6, <1>7, <1>8 DEF s, c, h, q

\* What a builder holds, counted by lots or by places.
LEMMA HeldMine ==
  ASSUME BuilderTypes, NEW b \in Builder
  PROVE  Held(b) = Mine(b)
<1>1. ASSUME NEW x \in Held(b) PROVE x \in Mine(b)
  <2>1. PICK i \in DOMAIN Lots(b) : x \in Range(Lots(b)[i])
    BY Zenon DEF Held
  <2>2. CASE Lots(b)[i] \in {sealed[b], cur[b], hand[b]}
    BY Zenon, <2>1, <2>2 DEF Mine, All
  <2>3. CASE \E k \in DOMAIN queue[b] : i = k + 3 /\ Lots(b)[i] = queue[b][k]
    <3>1. x \in Flat(queue[b])
      BY Zenon, <2>1, <2>3 DEF Flat
    <3> QED
      BY Zenon, <3>1 DEF Mine, All
  <2> QED
    BY ZenonT(60), <2>1, <2>2, <2>3, LotsPlaces
<1>2. ASSUME NEW x \in Mine(b) PROVE x \in Held(b)
  <2>1. SUFFICES \E i \in DOMAIN Lots(b) : x \in Range(Lots(b)[i])
    BY Zenon DEF Held
  <2>2. 1 \in DOMAIN Lots(b) /\ 2 \in DOMAIN Lots(b) /\ 3 \in DOMAIN Lots(b)
        /\ Lots(b)[1] = sealed[b] /\ Lots(b)[2] = cur[b] /\ Lots(b)[3] = hand[b]
    BY Zenon, LotsPlaces
  <2>3. CASE x \in Range(sealed[b])
    BY Zenon, <2>2, <2>3
  <2>4. CASE x \in Range(cur[b])
    BY Zenon, <2>2, <2>4
  <2>5. CASE x \in Range(hand[b])
    BY Zenon, <2>2, <2>5
  <2>6. CASE x \in Flat(queue[b])
    <3>1. PICK k \in DOMAIN queue[b] : x \in Range(queue[b][k])
      BY Zenon, <2>6 DEF Flat
    <3>2. k + 3 \in DOMAIN Lots(b) /\ Lots(b)[k + 3] = queue[b][k]
      BY Zenon, LotsPlaces
    <3> QED
      BY Zenon, <3>1, <3>2
  <2> QED
    BY ZenonT(60), <2>3, <2>4, <2>5, <2>6 DEF Mine, All
<1> QED
  BY ZenonT(60), <1>1, <1>2

\* Neat places are lots without a common transaction.
LEMMA LotsApart ==
  ASSUME BuilderTypes, NEW b \in Builder, NeatAt(b)
  PROVE  /\ \A i \in DOMAIN Lots(b) : IsInjective(Lots(b)[i])
         /\ \A i, j \in DOMAIN Lots(b) : i # j => Range(Lots(b)[i]) \cap Range(Lots(b)[j]) = {}
<1> DEFINE L == Lots(b)
<1>1. \A i \in DOMAIN L : L[i] \in {sealed[b], cur[b], hand[b]}
                          \/ \E k \in DOMAIN queue[b] : i = k + 3 /\ L[i] = queue[b][k]
  BY Zenon, LotsPlaces
<1>2. \A i \in DOMAIN L : i \in 1..3 \/ \E k \in DOMAIN queue[b] : i = k + 3
  BY Zenon, LotsPlaces
<1>3. L[1] = sealed[b] /\ L[2] = cur[b] /\ L[3] = hand[b]
  BY Zenon, LotsPlaces
<1>4. \A k \in DOMAIN queue[b] : L[k + 3] = queue[b][k]
  BY Zenon, LotsPlaces
<1>5. /\ QueueApart(queue[b]) /\ IsInjective(hand[b]) /\ IsInjective(cur[b]) /\ IsInjective(sealed[b])
      /\ Flat(queue[b]) \cap Range(hand[b]) = {} /\ Flat(queue[b]) \cap Range(cur[b]) = {}
      /\ Flat(queue[b]) \cap Range(sealed[b]) = {}
      /\ Range(hand[b]) \cap Range(cur[b]) = {} /\ Range(hand[b]) \cap Range(sealed[b]) = {}
      /\ Range(cur[b]) \cap Range(sealed[b]) = {}
  BY Zenon DEF NeatAt, Neat
<1> HIDE DEF L
<1>6. \A i \in DOMAIN L : IsInjective(L[i])
  BY Zenon, <1>1, <1>5 DEF QueueApart
<1>7. \A k \in DOMAIN queue[b] : Range(queue[b][k]) \subseteq Flat(queue[b])
  BY Zenon DEF Flat
<1>8. ASSUME NEW i \in DOMAIN L, NEW j \in DOMAIN L, i # j, NEW x \in Range(L[i]), x \in Range(L[j])
      PROVE  FALSE
  <2>1. \A n \in 1..3 : n = 1 \/ n = 2 \/ n = 3
    OBVIOUS
  <2>2. CASE i \in 1..3 /\ j \in 1..3
    BY ZenonT(30), <1>3, <1>5, <1>8, <2>1, <2>2
  <2>3. CASE i \in 1..3 /\ j \notin 1..3
    <3>1. x \in Flat(queue[b])
      BY Zenon, <1>2, <1>4, <1>7, <1>8, <2>3
    <3>2. x \in Range(sealed[b]) \/ x \in Range(cur[b]) \/ x \in Range(hand[b])
      BY ZenonT(60), <1>3, <1>8, <2>1, <2>3
    <3> QED
      BY Zenon, <1>5, <3>1, <3>2
  <2>4. CASE i \notin 1..3 /\ j \in 1..3
    <3>1. x \in Flat(queue[b])
      BY ZenonT(60), <1>2, <1>4, <1>7, <1>8, <2>4
    <3>2. x \in Range(sealed[b]) \/ x \in Range(cur[b]) \/ x \in Range(hand[b])
      BY ZenonT(60), <1>3, <1>8, <2>1, <2>4
    <3> QED
      BY Zenon, <1>5, <3>1, <3>2
  <2>5. CASE i \notin 1..3 /\ j \notin 1..3
    <3>1. PICK k \in DOMAIN queue[b] : i = k + 3
      BY Zenon, <1>2, <2>5
    <3>2. PICK l \in DOMAIN queue[b] : j = l + 3
      BY Zenon, <1>2, <2>5
    <3>3. x \in Range(queue[b][k]) /\ x \in Range(queue[b][l]) /\ k # l
      BY ZenonT(60), <1>4, <1>8, <3>1, <3>2
    <3> QED
      BY Zenon, <1>5, <3>3 DEF QueueApart
  <2> QED
    BY ZenonT(60), <2>2, <2>3, <2>4, <2>5
<1>9. \A i, j \in DOMAIN L : i # j => Range(L[i]) \cap Range(L[j]) = {}
  BY Zenon, <1>8
<1> QED
  BY Zenon, <1>6, <1>9 DEF L

\* What is open is on its way.
LEMMA OpenWay ==
  ASSUME BuilderTypes
  PROVE  Open = Way
<1>1. \A b \in Builder : Held(b) = Mine(b)
  BY ZenonT(60), HeldMine
<1>2. UNION {Held(b) : b \in Builder} = UNION {Mine(b) : b \in Builder}
  BY ZenonT(60), <1>1
<1> QED
  BY Zenon, <1>2 DEF Open, Way

-----------------------------------------------------------------------------
(* The invariant in every state, and what follows from it. *)

INSTANCE FiniteSetTheorems

\* A batch has no more members than places.
LEMMA BatchSize ==
  ASSUME NEW s \in Seq(Tx)
  PROVE  Cardinality(Range(s)) \in Nat /\ Cardinality(Range(s)) <= Len(s)
<1>1. Len(s) \in Nat /\ DOMAIN s = 1..Len(s)
  OBVIOUS
<1>2. IsFiniteSet(1..Len(s)) /\ Cardinality(1..Len(s)) = Len(s)
  <2> DEFINE n == Len(s)
  <2>1. n \in Int /\ 1 \in Int /\ (1 > n => n = 0) /\ n - 1 + 1 = n
    BY <1>1
  <2> HIDE DEF n
  <2>2. IsFiniteSet(1..n) /\ Cardinality(1..n) = IF 1 > n THEN 0 ELSE n - 1 + 1
    BY ZenonT(60), <2>1, FS_Interval
  <2>3. IsFiniteSet(1..n) /\ Cardinality(1..n) = n
    BY ZenonT(60), <2>1, <2>2
  <2> QED
    BY ZenonT(60), <2>3 DEF n
<1>3. s \in Surjection(1..Len(s), Range(s))
  BY <1>1 DEF Surjection, Range
<1>4. IsFiniteSet(Range(s)) /\ Cardinality(Range(s)) <= Cardinality(1..Len(s))
  BY Zenon, <1>2, <1>3, FS_Surjection
<1> QED
  BY ZenonT(60), <1>2, <1>4, FS_CardinalityType

\* The library's facts on finite sets.
LEMMA Counted == Counting
<1>1. Cardinality({}) = 0 /\ \A S : IsFiniteSet(S) => Cardinality(S) \in Nat
  BY ZenonT(60), FS_EmptySet, FS_CardinalityType
<1>2. \A T : IsFiniteSet(T) => \A S \in SUBSET T : IsFiniteSet(S) /\ Cardinality(S) <= Cardinality(T)
  BY ZenonT(60), FS_Subset
<1>3. ASSUME NEW S, NEW T, IsFiniteSet(S), IsFiniteSet(T), S \cap T = {}
      PROVE  IsFiniteSet(S \cup T) /\ Cardinality(S \cup T) = Cardinality(S) + Cardinality(T)
  <2>1. /\ IsFiniteSet(S \cup T)
        /\ Cardinality(S \cup T) = Cardinality(S) + Cardinality(T) - Cardinality(S \cap T)
    BY ZenonT(60), <1>3, FS_Union
  <2>2. Cardinality(S \cap T) = 0 /\ Cardinality(S) \in Nat /\ Cardinality(T) \in Nat
    BY ZenonT(60), <1>1, <1>3
  <2>3. \A c, d \in Nat : c + d - 0 = c + d
    OBVIOUS
  <2> QED
    BY ZenonT(60), <2>1, <2>2, <2>3
<1> QED
  BY ZenonT(60), <1>1, <1>2, <1>3, BatchSize DEF Counting

\* The invariant holds in every state of the pipe.
LEMMA PipeAlways == Spec => []PipeInv
<1>1. Init => PipeInv
  BY ZenonT(60), PipeInit, Counted
<1>2. PipeInv /\ [Next]_vars => PipeInv'
  BY ZenonT(60), PipeStep, Counted
<1> QED
  BY <1>1, <1>2, PTL DEF Spec

\* Nothing is lost, submitted twice or counted twice: every transaction handed over is
\* in one place at most, and the counters hold exactly those that are in none.
THEOREM Conserved == Spec => []Conservation
<1>1. ASSUME PipeInv PROVE Conservation
  <2>0. BuilderTypes /\ PlaceInv /\ CountInv
    BY ZenonT(60), <1>1 DEF PipeInv, ContractInv
  <2>1. Open = Way /\ \A b \in Builder : Held(b) = Mine(b)
    BY ZenonT(60), <2>0, OpenWay, HeldMine
  <2>2. \A b \in Builder :
          /\ \A i \in DOMAIN Lots(b) : IsInjective(Lots(b)[i])
          /\ \A i, j \in DOMAIN Lots(b) : i # j => Range(Lots(b)[i]) \cap Range(Lots(b)[j]) = {}
    BY ZenonT(60), <2>0, LotsApart DEF PlaceInv
  <2>3. \A b \in Builder : /\ \A d \in Builder \ {b} : Held(b) \cap Held(d) = {}
                           /\ Held(b) \cap Jobs = {}
    <3> SUFFICES ASSUME NEW b \in Builder
                 PROVE  /\ \A d \in Builder \ {b} : Held(b) \cap Held(d) = {}
                        /\ Held(b) \cap Jobs = {}
      BY Zenon
    <3>1. Mine(b) \cap Jobs = {} /\ \A d \in Builder \ {b} : Mine(b) \cap Mine(d) = {}
      <4>1. \A d \in Builder \ {b} : d \in Builder /\ b # d
        BY Zenon
      <4> QED
        BY ZenonT(60), <2>0, <4>1 DEF PlaceInv
    <3> QED
      BY ZenonT(60), <2>1, <3>1
  <2>4. OnePlace
    BY ZenonT(60), <2>0, <2>2, <2>3 DEF OnePlace, PlaceInv
  <2> QED
    BY ZenonT(60), <2>0, <2>1, <2>4 DEF Conservation, PlaceInv, CountInv
<1> QED
  BY <1>1, PipeAlways, PTL

\* When Run has returned the counters add up to everything the lanes handed over: the
\* drain leaves nothing in a queue, a batch or a goroutine.
THEOREM ShutdownHonest == Spec => []HonestAtShutdown
<1>1. ASSUME PipeInv PROVE HonestAtShutdown
  <2> SUFFICES ASSUME Returned PROVE Settled = Cardinality(handed)
    BY ZenonT(60) DEF HonestAtShutdown
  <2>0. ContractInv /\ BuilderTypes /\ PlaceInv /\ CountInv
    BY ZenonT(60), <1>1 DEF PipeInv, ContractInv
  <2>1. Jobs = {}
    <3>1. tasks = {}
      BY Zenon, <2>0 DEF PlaceInv
    <3> QED
      BY ZenonT(60), <3>1 DEF Jobs
  <2>2. ASSUME NEW b \in Builder PROVE Mine(b) = {}
    <3>1. pc[b] = "done" /\ Control(b)
      BY ZenonT(60), <2>0 DEF Returned, PlaceInv
    <3>2. next[b] = "select"
      BY ZenonT(60), <2>0, <3>1 DEF BuilderTypes
    <3>3. queue[b] = <<>> /\ cur[b] = <<>> /\ hand[b] = <<>> /\ sealed[b] = <<>>
      BY ZenonT(60), <3>1, <3>2 DEF Control
    <3> QED
      BY ZenonT(60), <3>3, EmptyMembers DEF Mine, All
  <2>3. Way = {}
    BY ZenonT(60), <2>1, <2>2 DEF Way
  <2>4. handed \ Way = handed
    BY ZenonT(60), <2>3
  <2> QED
    BY ZenonT(60), <2>0, <2>4 DEF CountInv
<1> QED
  BY <1>1, PipeAlways, PTL

\* THEOREM: while every line that fails a member brackets a txid (in a retry: one of the
\* batch), accepted never exceeds what landed.  The invariant behind it says more: delivery
\* is overstated at most by the members whose error line settling passes over.
THEOREM AcceptanceLanded == Spec => []AcceptedLanded
<1>1. ASSUME PipeInv PROVE AcceptedLanded
  <2>1. /\ landed \subseteq handed /\ handed \subseteq Tx
        /\ accepted <= Cardinality(landed \ Way) + blurred /\ CountersOK
    BY ZenonT(60), <1>1 DEF PipeInv, PlaceInv, CountInv
  <2>2. IsFiniteSet(landed)
    BY ZenonT(60), <2>1, PipeAssumption, FS_Subset
  <2>3. Cardinality(landed \ Way) <= Cardinality(landed) /\ Cardinality(landed \ Way) \in Nat
        /\ Cardinality(landed) \in Nat
    <3>1. landed \ Way \subseteq landed
      BY ZenonT(60)
    <3> QED
      BY ZenonT(60), <2>2, <3>1, FS_Subset, FS_CardinalityType
  <2>4. \A a, b, m, n \in Nat : a <= m + b /\ m <= n /\ b = 0 => a <= n
    OBVIOUS
  <2>5. accepted \in Nat /\ blurred \in Nat
    BY ZenonT(60), <2>1 DEF CountersOK
  <2> QED
    BY ZenonT(60), <2>1, <2>3, <2>4, <2>5 DEF AcceptedLanded
<1> QED
  BY <1>1, PipeAlways, PTL

\* While the pipe runs every request keeps the /txs contract and the batch limit: no
\* transaction travels with a parent that was handed over before it.
THEOREM ContractKept == Spec => []BatchContract
<1>1. PipeInv => BatchContract
  BY ZenonT(60) DEF PipeInv, OrderInv, RequestOK, BatchContract, ParentsApart
<1> QED
  BY <1>1, PipeAlways, PTL

\* Every variable keeps its type and the ladders of posts and back-offs end.
THEOREM Typed == Spec => []TypeOK
<1>1. ASSUME PipeInv PROVE TypeOK
  <2>0. BuilderTypes /\ PlaceInv /\ CountInv /\ OrderInv
    BY ZenonT(60), <1>1 DEF PipeInv, ContractInv
  <2>1. /\ hand \in [Builder -> Seq(Tx)] /\ cur \in [Builder -> Seq(Tx)]
        /\ ids \in [Builder -> SUBSET Tx] /\ sealed \in [Builder -> Seq(Tx)]
        /\ pc \in [Builder -> {"select", "greedy", "add", "seal", "drain", "wait", "done"}]
        /\ next \in [Builder -> {"select", "greedy", "add", "wait"}] /\ cancelled \in BOOLEAN
    BY ZenonT(60), <2>0 DEF BuilderTypes, PCs, Nexts
  <2>2. queue \in [Builder -> Seq(Seq(Tx))]
    <3>1. queue \in [Builder -> Seq(Run)]
      BY ZenonT(60), <2>0 DEF BuilderTypes
    <3>2. \A b \in Builder : queue[b] \in Seq(Seq(Tx))
      BY ZenonT(60), <3>1, RunsAreSeqs
    <3> QED
      BY ZenonT(60), <3>1, <3>2
  <2>3. ASSUME NEW t \in tasks
        PROVE  /\ t \in Task /\ t.throttled <= Backoffs
               /\ t.attempt < IF t.kind = "submit" THEN MaxPosts + Backoffs ELSE RetryAttempts
    <3>1. TaskOK(t)
      BY ZenonT(60), <2>0 DEF PlaceInv
    <3>2. t \in Task /\ t.kind \in {"submit", "retry"} /\ t.attempt \in Nat /\ t.throttled \in Nat
      BY ZenonT(60), <3>1 DEF TaskOK, Task
    <3> QED
      BY ZenonT(60), <3>1, <3>2, Rungs DEF TaskOK
  <2>4. /\ {accepted, rejected, failed, unattributed, blurred} \subseteq Nat
        /\ handed \subseteq Tx /\ landed \subseteq Tx /\ early \subseteq handed
    BY ZenonT(60), <2>0 DEF CountInv, CountersOK, PlaceInv, OrderInv
  <2> QED
    BY ZenonT(60), <2>1, <2>2, <2>3, <2>4 DEF TypeOK
<1> QED
  BY <1>1, PipeAlways, PTL
================================================================================
